------------------------------ MODULE Scheduler ------------------------------
(***************************************************************************)
(* Scheduled prompts (/loop): the actor that keeps and fires them          *)
(* (xai-grok-tools scheduler/actor.rs), the file they are saved in         *)
(* (persistence.rs), and what the client's panel shows of them.            *)
(*                                                                         *)
(* A session has several lives: it ends, by a crash or by a shutdown, and  *)
(* is resumed from two records that are written apart.  resources_state    *)
(* .json holds the tasks as the last tool call saved them; updates.jsonl   *)
(* holds what the panel was told.  Everything else dies with the session.  *)
(*                                                                         *)
(* The actor runs on the session's thread: a step is what it does between  *)
(* two awaits.                                                             *)
(***************************************************************************)
EXTENDS Lists

CONSTANTS
    Request,      \* what scheduler_create may be asked for
    Expiry,       \* how long a recurring task lives (7 days)
    MaxTasks,     \* MAX_SCHEDULED_TASKS
    Crashes,      \* may the session end before it has settled?
    MaxTime,      \* bound: the clock
    MaxRequests,  \* bound: commands sent to the actor
    MaxLives,     \* bound: lives of the session
    MaxFaults     \* bound: writes of the file that fail

ASSUME RequestAssumption ==
    Request \subseteq [interval : Nat \ {0}, recurring : BOOLEAN,
                       durable : BOOLEAN, immediate : BOOLEAN]
ASSUME BoundAssumption ==
    /\ {Expiry, MaxTasks, MaxTime, MaxRequests, MaxLives, MaxFaults} \subseteq Nat
    /\ MaxLives # 0
    /\ Crashes \in BOOLEAN

VARIABLES
    now,        \* the clock
    up,         \* the session's thread runs
    cancelled,  \* the toolset was dropped
    pc,         \* where the actor is
    tasks,      \* SchedulerState.tasks
    missed,     \* the one-shots fired late, not yet removed
    cmds,       \* the actor's commands
    owed,       \* a scheduler tool call was answered and has not saved yet
    pending,    \* the snapshot the writer holds, if any
    disk,       \* the tasks in resources_state.json
    wire,       \* notifications on their way to the bridge
    logged,     \* the tasks updates.jsonl leaves standing
    panel,      \* the tasks the client shows
    created,    \* the tasks created so far; an id is never reused
    asked,      \* bound: requests so far
    lives,      \* bound: lives so far
    faults,     \* bound: failed writes so far
    behind,     \* history: a change was lost on its way to the file, and nothing
                \* has been saved since
    lastFire,   \* history: when a task fired last in this life
    everFired,  \* history: the tasks that fired, in any life
    deleted,    \* history: the tasks whose deletion was confirmed
    gone,       \* history: the tasks announced as removed in this life
    ghosts,     \* history: the tasks the log left standing and the file lacked
    answered    \* history: the tasks whose creation was answered in this life

actor == <<pc, tasks, missed>>
files == <<pending, disk, faults, behind>>
client == <<logged, panel>>
life == <<up, cancelled, lives>>
history == <<lastFire, everFired, deleted, gone, ghosts, answered>>
vars == <<now, life, actor, cmds, owed, files, wire, client, created, asked, history>>

Id == 1..MaxRequests
Never == -1
None == <<>>

\* The time a task fires next, and whether it is due, expired or missed.
NextFireAt(t) == t.anchor + t.interval
IsDue(t) == NextFireAt(t) <= now
IsExpired(t) == t.recurring /\ now >= t.expires
IsMissed(t) == ~t.recurring /\ ~t.fired /\ NextFireAt(t) < now

Ids(s) == {t.id : t \in ToSet(s)}
IdSeq(s) == [i \in DOMAIN s |-> s[i].id]
KeepIds(s, ids) == Keep(s, {t \in ToSet(s) : t.id \in ids})
Notes(kind, ids) == [i \in DOMAIN ids |-> [kind |-> kind, id |-> ids[i]]]

NewTask(id, r) ==
    [id |-> id, interval |-> r.interval, recurring |-> r.recurring, durable |-> r.durable,
     anchor |-> IF r.immediate THEN now - r.interval ELSE now,
     fired |-> FALSE, expires |-> now + Expiry]

Init ==
    /\ now = 0 /\ up = TRUE /\ cancelled = FALSE /\ lives = 1
    /\ pc = "missed" /\ tasks = <<>> /\ missed = <<>>
    /\ cmds = <<>> /\ owed = FALSE
    /\ pending = None /\ disk = <<>> /\ faults = 0 /\ behind = FALSE
    /\ wire = <<>> /\ logged = {} /\ panel = {}
    /\ created = 0 /\ asked = 0
    /\ lastFire = [id \in Id |-> Never]
    /\ everFired = {} /\ deleted = {} /\ gone = {} /\ ghosts = {}
    /\ answered = {}

-----------------------------------------------------------------------------
(* The actor.                                                              *)

At(place) == up /\ pc = place
Told(ids) == gone' = gone \cup Range(ids)
FiredNow(ids) ==
    /\ lastFire' = [id \in Id |-> IF id \in Range(ids) THEN now ELSE lastFire[id]]
    /\ everFired' = everFired \cup Range(ids)

\* A one-shot whose time passed while nobody ran fires on the first occasion.
FireMissed ==
    LET late == IdSeq(Keep(tasks, {t \in ToSet(tasks) : IsMissed(t)})) IN
    /\ At("missed")
    /\ pc' = IF late = <<>> THEN "announce" ELSE "prune"
    /\ missed' = late
    /\ wire' = wire \o Notes("FiredLate", late)
    /\ FiredNow(late)
    /\ UNCHANGED <<now, life, tasks, cmds, owed, files, client, created, asked,
                   deleted, gone, ghosts, answered>>

\* (faulty form: the tasks that fired stay)
NothingPruned == tasks
Pruned == KeepIds(tasks, Id \ Range(missed))
PruneMissed ==
    /\ At("prune")
    /\ pc' = "announce"
    /\ tasks' = Pruned
    /\ missed' = <<>>
    /\ wire' = wire \o Notes("Removed", missed)
    /\ Told(missed)
    /\ UNCHANGED <<now, life, cmds, owed, files, client, created, asked,
                   lastFire, everFired, deleted, ghosts, answered>>

\* (faulty form: nothing is announced again)
NobodyAnnounced == <<>>
Announced == IdSeq(tasks)
AnnounceExisting ==
    /\ At("announce")
    /\ pc' = "loop"
    /\ wire' = wire \o Notes("Created", Announced)
    /\ UNCHANGED <<now, life, tasks, missed, cmds, owed, files, client, created, asked,
                   history>>

\* The loop looks at the cancellation first, then at the commands, and at the
\* clock only when there are none.
Listening == At("loop") /\ ~cancelled
HasCommand(op) == Listening /\ cmds # <<>> /\ Head(cmds).op = op

Room == Len(tasks) < MaxTasks
HandleCreate ==
    LET cmd == Head(cmds) IN
    /\ HasCommand("create")
    /\ cmds' = Tail(cmds)
    /\ tasks' = IF Room THEN Append(tasks, cmd.task) ELSE tasks
    /\ wire' = IF Room THEN wire \o Notes("Created", <<cmd.task.id>>) ELSE wire
    /\ owed' = (owed \/ (Room /\ cmd.saves))
    /\ answered' = IF Room /\ cmd.saves THEN answered \cup {cmd.task.id} ELSE answered
    /\ UNCHANGED <<now, life, pc, missed, files, client, created, asked,
                   lastFire, everFired, deleted, gone, ghosts>>

HandleDelete ==
    LET cmd == Head(cmds)
        removed == cmd.id \in Ids(tasks)
        out == IF removed THEN <<cmd.id>> ELSE <<>>
    IN
    /\ HasCommand("delete")
    /\ cmds' = Tail(cmds)
    /\ tasks' = KeepIds(tasks, Id \ {cmd.id})
    /\ wire' = wire \o Notes("Removed", out)
    /\ deleted' = deleted \cup Range(out)
    /\ Told(out)
    /\ owed' = (owed \/ cmd.saves)
    /\ UNCHANGED <<now, life, pc, missed, files, client, created, asked,
                   lastFire, everFired, ghosts, answered>>

\* The task that fires is the first of the vector that is due.
FirstDue(i) == IsDue(tasks[i]) /\ \A j \in 1..(i - 1) : ~IsDue(tasks[j])

\* (faulty form: its next time counts from the time it was due)
CaughtUp(t) == [t EXCEPT !.anchor = NextFireAt(t), !.fired = TRUE]

\* Its next time counts from now, not from the time it was due.
Refired(t) == [t EXCEPT !.anchor = now, !.fired = TRUE]

FireNotes(t, ends) == Notes("Fired", <<t.id>>) \o Notes("Removed", ends)

FireNextTask ==
    \E i \in DOMAIN tasks :
        LET t == tasks[i]
            ends == IF ~t.recurring \/ IsExpired(t) THEN <<t.id>> ELSE <<>>
        IN
        /\ Listening /\ cmds = <<>> /\ FirstDue(i)
        /\ tasks' = IF ends = <<>> THEN [tasks EXCEPT ![i] = Refired(t)]
                    ELSE RemoveAt(tasks, i)
        /\ wire' = wire \o FireNotes(t, ends)
        /\ FiredNow(<<t.id>>)
        /\ Told(ends)
        /\ UNCHANGED <<now, life, pc, missed, cmds, owed, files, client, created, asked,
                       deleted, ghosts, answered>>

\* The tasks leave memory and the panel; nothing saves that.
DrainTasks ==
    /\ At("loop") /\ cancelled
    /\ pc' = "done"
    /\ tasks' = <<>>
    /\ wire' = wire \o Notes("Removed", IdSeq(tasks))
    /\ Told(IdSeq(tasks))
    /\ UNCHANGED <<now, life, missed, cmds, owed, files, client, created, asked,
                   lastFire, everFired, deleted, ghosts, answered>>

Actor ==
    \/ FireMissed \/ PruneMissed \/ AnnounceExisting
    \/ HandleCreate \/ HandleDelete \/ FireNextTask
    \/ DrainTasks

-----------------------------------------------------------------------------
(* The tools, the client and the file.                                     *)

Serving == up /\ ~cancelled
Asks(cmd) ==
    /\ Serving /\ asked < MaxRequests
    /\ asked' = asked + 1
    /\ cmds' = Append(cmds, cmd)

\* scheduler_create, called by the session's own turn or by a subagent of
\* it, whose toolset sends to the same actor and saves resources of its own.
Create(r, own) ==
    /\ Asks([op |-> "create", task |-> NewTask(created + 1, r), saves |-> own])
    /\ created' = created + 1
    /\ UNCHANGED <<now, life, actor, owed, files, wire, client, history>>

\* scheduler_delete.
Delete(id, own) ==
    /\ id <= created
    /\ Asks([op |-> "delete", id |-> id, saves |-> own])
    /\ UNCHANGED <<now, life, actor, owed, files, wire, client, created, history>>

\* The client drops the row at once and asks for the deletion.
CancelFromPanel(id) ==
    /\ id \in panel
    /\ panel' = panel \ {id}
    /\ Asks([op |-> "delete", id |-> id, saves |-> FALSE])
    /\ UNCHANGED <<now, life, actor, owed, files, wire, logged, created, history>>

\* (faulty forms: a shutdown saves too; the writer keeps the oldest snapshot)
SavesToTheEnd == up
FirstSnapshot == IF pending = None THEN <<tasks>> ELSE pending

\* The tail of every tool call that succeeds saves the resources, whatever the
\* call was about.
MaySave == Serving
Snapshot == <<tasks>>
FinalizeOutput ==
    /\ MaySave
    /\ pending' = Snapshot
    /\ owed' = FALSE /\ behind' = FALSE
    /\ UNCHANGED <<now, life, actor, cmds, disk, faults, wire, client, created, asked,
                   history>>

\* The session's turn is cancelled and its tool calls are dropped where they
\* wait: for the actor's answer, or at an await of finalize_output.  What the
\* actor did stays done; its command is carried out, its answer read by nobody.
DropCalls ==
    /\ Serving
    /\ owed \/ \E c \in Range(cmds) : c.saves
    /\ owed' = FALSE
    /\ behind' = (behind \/ owed)
    /\ cmds' = [i \in DOMAIN cmds |-> [cmds[i] EXCEPT !.saves = FALSE]]
    /\ UNCHANGED <<now, life, actor, pending, disk, faults, wire, client, created, asked,
                   history>>

WritePending ==
    /\ up /\ pending # None
    /\ disk' = pending[1]
    /\ pending' = None
    /\ UNCHANGED <<now, life, actor, cmds, owed, faults, behind, wire, client, created,
                   asked, history>>

\* A write that fails is logged and not tried again.
WriteFails ==
    /\ up /\ pending # None /\ faults < MaxFaults
    /\ faults' = faults + 1
    /\ pending' = None /\ behind' = TRUE
    /\ UNCHANGED <<now, life, actor, cmds, owed, disk, wire, client, created, asked,
                   history>>

\* The bridge appends to updates.jsonl and forwards to the client, which adds
\* a row for a task it does not know unless the task fired late.
Bridge ==
    LET note == Head(wire) IN
    /\ up /\ wire # <<>>
    /\ wire' = Tail(wire)
    /\ logged' = CASE note.kind = "Created" -> logged \cup {note.id}
                   [] note.kind = "Removed" -> logged \ {note.id}
                   [] OTHER -> logged
    /\ panel' = CASE note.kind \in {"Created", "Fired"} -> panel \cup {note.id}
                  [] note.kind = "Removed" -> panel \ {note.id}
                  [] OTHER -> panel
    /\ UNCHANGED <<now, life, actor, cmds, owed, files, created, asked, history>>

-----------------------------------------------------------------------------
(* Lives.                                                                  *)

Tick ==
    /\ now < MaxTime
    /\ now' = now + 1
    /\ UNCHANGED <<life, actor, cmds, owed, files, wire, client, created, asked, history>>

Cancel ==
    /\ Serving
    /\ cancelled' = TRUE
    /\ owed' = FALSE
    /\ UNCHANGED <<now, up, lives, actor, cmds, files, wire, client, created, asked, history>>

Settled == pc = "done" /\ wire = <<>> /\ pending = None

\* The session's runtime is dropped with every task on it, or the process dies.
Die ==
    /\ up /\ (Crashes \/ Settled)
    /\ up' = FALSE /\ cancelled' = FALSE
    /\ pc' = "missed" /\ tasks' = <<>> /\ missed' = <<>>
    /\ cmds' = <<>> /\ owed' = FALSE /\ wire' = <<>> /\ panel' = {}
    /\ pending' = None /\ behind' = FALSE
    /\ lastFire' = [id \in Id |-> Never] /\ gone' = {} /\ ghosts' = {} /\ answered' = {}
    /\ UNCHANGED <<now, lives, disk, faults, logged, created, asked, everFired, deleted>>

\* The file is loaded, updates.jsonl is replayed to a new client, and only
\* then the actor starts.
Resume ==
    /\ ~up /\ lives < MaxLives
    /\ up' = TRUE
    /\ lives' = lives + 1
    /\ tasks' = disk
    /\ panel' = logged
    /\ ghosts' = logged \ Ids(disk)
    /\ UNCHANGED <<now, cancelled, pc, missed, cmds, owed, files, wire, logged, created,
                   asked, lastFire, everFired, deleted, gone, answered>>

Next ==
    \/ Actor
    \/ \E own \in BOOLEAN :
        \/ \E r \in Request : Create(r, own)
        \/ \E id \in Id : Delete(id, own)
    \/ \E id \in Id : CancelFromPanel(id)
    \/ FinalizeOutput \/ DropCalls \/ WritePending \/ WriteFails \/ Bridge
    \/ Tick \/ Cancel \/ Die \/ Resume

Spec == Init /\ [][Next]_vars
=============================================================================
