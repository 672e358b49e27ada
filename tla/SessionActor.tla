---------------------------- MODULE SessionActor ----------------------------
(***************************************************************************)
(* A session of the agent shell.  One actor task (run_session) receives    *)
(* commands from the clients and completions from the turns it spawned;    *)
(* the turns, the MCP-initialisation task and the plan-approval task run   *)
(* beside it on the same executor and share with it the locked State and   *)
(* a handful of flags outside the lock.                                    *)
(*                                                                         *)
(* A handler awaits several times.  It is a list of steps, `agenda`: each  *)
(* step is one locked section or the unlocked code up to the next await    *)
(* that matters, and the other tasks run between two steps.  The actor     *)
(* takes the next command or completion when its agenda is empty.          *)
(*                                                                         *)
(* A prompt, an interjection or a notification is an id used once.  What   *)
(* it says, its mode and its usage are left out.                           *)
(***************************************************************************)
EXTENDS PromptQueue, FiniteSets

CONSTANTS
  Users,           \* prompts the clients send: the rows of the shared queue
  Interjections,   \* texts sent to be merged in the turn that is running
  Wakes,           \* auto-wake prompts, one for each background bash task
  Crons,           \* scheduler-fired prompts, which a client awaits
  Goals,           \* goal-summary prompts, the continuations of a goal
  Plans,           \* plan-resume prompts, after a restored plan approval
  Notes,           \* background notifications (monitor events, tasks done)
  GoalTurnNotes,   \* those of tasks started by a goal turn
  Clients, Owner,  \* who sent a row, or None
  None,
  CancelModes,     \* the kinds of Cancel command the clients send
  MaxVersion,      \* bound on the edits of a row
  MaxPending,      \* MAX_PENDING_NOTIFICATIONS
  MaxBuffer        \* MAX_BUFFER_EVENTS

Synthetic == Wakes \cup Crons \cup Goals \cup Plans \cup Notes
UserOrigin == Users \cup Interjections
Ids == UserOrigin \cup Synthetic

ASSUME KindsAreDisjoint ==
  /\ LET kinds == <<Users, Interjections, Wakes, Crons, Goals, Plans, Notes>>
     IN  \A k, l \in DOMAIN kinds : k # l => kinds[k] \cap kinds[l] = {}
  /\ GoalTurnNotes \subseteq Notes
ASSUME UsersAreFinite == IsFiniteSet(Users)
ASSUME NoneIsNoId == None \notin Ids /\ None \notin Clients
ASSUME OwnerIsClient == Owner \in [Users -> Clients \cup {None}]
ASSUME KnownModes == CancelModes \subseteq {"interactive", "rewind", "teardown"}
ASSUME Bounds == MaxVersion \in Nat /\ MaxPending \in Nat /\ MaxBuffer \in Nat

VARIABLES
  \* The locked State.
  queue,         \* pending_inputs; the running prompt stays at its front
  sendNow,       \* the ids whose item carries send_now
  version,       \* the edit count of each row
  running,       \* the prompt of running_task, or None
  rewindable,
  suppressed,    \* notifications_suppressed
  notes,         \* pending_notifications
  \* Shared without the lock.
  pin,           \* current_prompt_id
  interjections, \* pending_interjections
  buffer,        \* monitor_event_buffer
  active,        \* is_turn_active
  depth,         \* blocking_wait_depth
  gate,          \* goal_loop_active_gate
  goal,          \* the goal tracker's status
  delivered,     \* auto_wake_delivered
  reported,      \* ReportedTaskCompletions
  \* The other tasks.
  turns,         \* how far the task of each prompt has come
  parked,        \* the turns in an interruptible blocking wait
  zombies,       \* wait guards of aborted turns, not dropped yet
  completions,   \* the completion channel
  starter,       \* the task that starts a prompt when MCP is initialised
  resume,        \* the task of a restored plan approval
  \* The actor.
  agenda, job,
  stranded,      \* the interjections a completion has drained, not queued yet
  \* What the clients and the model have seen.
  fate,          \* where each id is, or what became of it
  started,       \* the prompts whose turn was spawned
  terminals,     \* the TurnCompleted records of each prompt
  hushed,        \* the last cancel was no send now and no rewind, and the user
                 \* has sent no prompt since
  shown,         \* the last queue/changed broadcast
  surfaced,      \* the background tasks whose end the model was told
  sends          \* the sends now, in the order asked, since the last reorder

lockVars  == <<queue, sendNow, version, running, rewindable, suppressed, notes>>
waitVars  == <<parked, zombies, depth>>
goalVars  == <<gate, goal>>
wakeVars  == <<delivered, reported, surfaced>>
startVars == <<starter, resume>>
actorVars == <<agenda, job, stranded>>
seenVars  == <<fate, started, terminals, hushed, shown, sends>>
vars == <<lockVars, pin, interjections, buffer, active, waitVars, goalVars,
          wakeVars, turns, completions, startVars, actorVars, seenVars>>

Modes == {"interactive", "rewind", "teardown", "send_now"}

NoJob == [mode |-> None, pinned |-> None, named |-> None, task |-> None,
          closing |-> <<>>, rewound |-> FALSE]

Waiting == {"unsent", "sent", "queued", "buffered", "pending"}
Ended == {"done", "cancelled", "rewound", "removed", "swept", "consumed",
          "merged", "discarded", "capped", "muted", "dropped", "injected"}

\* A turn task: not begun, merging interjections, past its last merge, past
\* the drop of its scope guard, aborted with its guards still to drop.
Stages == {"none", "spawned", "run", "late", "tail", "unscoped", "aborted"}
InTurn(t) == turns[t] \in {"run", "late"}

Becomes(S, what) == fate' = [x \in Ids |-> IF x \in S THEN what ELSE fate[x]]

Ready == agenda = <<>> /\ completions = <<>>
Doing(step) == agenda # <<>> /\ Head(agenda) = step

-----------------------------------------------------------------------------
(* Faulty forms of the decisions below: mistakes that the comments of the  *)
(* code warn of, or that it once made.  The specification uses none.       *)

\* The rows are told apart by the pin, which is cleared too early.
BroadcastByPin(q, r) == shown' = [rows |-> Keep(q, Users \ {pin}), running |-> r]
\* The completion arm forgets to flush the interjections, or to drain.
CompletingWithoutFlush == <<"sweep", "turn_end", "start", "drain">>
CompletingWithoutDrain == <<"sweep", "turn_end", "flush", "start">>
\* The pin is not cleared, or whoever's it is.
PinKept(t) == pin
\* A guard's drop is not saturating.
ReleasedUnchecked == depth - 1
\* A cancel leaves the count to the guards of the aborted turn.
DepthLeftToGuards == depth
\* A completion nulls the running task, or records an end, without owning it.
RunningNulled(p) == None
EndRecordedAlways(p) == TRUE
\* A cancel of any kind lets the notifications speak again.
SilenceBroken == FALSE
\* A cancel only forgets the task.
TaskForgotten(t) == UNCHANGED <<turns, parked, zombies>>

-----------------------------------------------------------------------------
(* The decisions the handlers share.                                       *)

\* The queue as every client sees it: the rows that are not running.
Broadcast(q, r) == shown' = [rows |-> Keep(q, Users \ {r}), running |-> r]

\* What the handlers of Cancel, and of a completion, still have to do.
Cancelling == <<"snapshot", "teardown", "ungate", "abort", "answer", "start">>
Completing == <<"sweep", "turn_end", "flush", "start", "drain">>

\* The pin, once the turn t has given it up.
PinWithout(t) == IF pin = t THEN None ELSE pin

\* The wait count, once a guard has dropped, and once a cancel is done.
Released == IF depth = 0 THEN 0 ELSE depth - 1
DepthAfterCancel == 0

\* A completion is owned if its prompt is the front; another is stale.
Owned(p) == queue # <<>> /\ Head(queue) = p
RunningAfter(p) == IF running = p \/ Owned(p) THEN None ELSE running
EndRecorded(p) == Owned(p)

\* The turn a cancel ends: the task taken, else what the snapshot named.
Victim == IF job.task # None THEN job.task
          ELSE IF job.pinned # None THEN job.pinned ELSE job.named

\* is_session_idle: a notification may start a turn of its own.
Idle == running = None /\ queue = <<>> /\ ~suppressed

\* Is it still silent once a cancel is done?  After a send now, the user is there.
StillSilent == suppressed /\ job.mode # "send_now"

\* The prompts a cancel takes from the queue.
CancelTakes(mode) ==
  IF mode = "teardown" THEN queue
  ELSE SubSeq(queue, 1, IF queue = <<>> THEN 0 ELSE 1)

\* Aborting a task: one that was never polled is gone, another still has its
\* guards to drop, and the guards of its waits live in other tasks.
AbortTask(t) ==
  IF t = None THEN UNCHANGED <<turns, parked, zombies>>
  ELSE /\ turns' = [turns EXCEPT ![t] =
                      IF @ \in {"none", "spawned"} THEN "none" ELSE "aborted"]
       /\ parked' = parked \ {t}
       /\ zombies' = IF t \in parked THEN zombies + 1 ELSE zombies

-----------------------------------------------------------------------------
Init ==
  /\ queue = <<>> /\ sendNow = {} /\ version = [p \in Users |-> 0]
  /\ running = None /\ rewindable = FALSE /\ suppressed = FALSE /\ notes = <<>>
  /\ pin = None /\ interjections = <<>> /\ buffer = <<>> /\ active = FALSE
  /\ depth = 0 /\ gate = FALSE /\ goal = "off"
  /\ delivered = {} /\ reported = {} /\ surfaced = {}
  /\ turns = [p \in Ids |-> "none"] /\ parked = {} /\ zombies = 0
  /\ completions = <<>> /\ starter = "waiting" /\ resume = "waiting"
  /\ agenda = <<>> /\ job = NoJob /\ stranded = <<>>
  /\ fate = [x \in Ids |-> "unsent"] /\ started = {}
  /\ terminals = [p \in Ids |-> 0] /\ hushed = FALSE
  /\ shown = [rows |-> <<>>, running |-> None] /\ sends = <<>>

-----------------------------------------------------------------------------
(* Starting a turn.  The actor's handlers end in this call, and two other  *)
(* tasks make it; it promotes the front without popping it.                *)

MaybeStartRunningTask ==
  IF running = None /\ queue # <<>>
  THEN LET p == Head(queue) IN
       /\ running' = p /\ pin' = p /\ rewindable' = TRUE
       /\ turns' = [turns EXCEPT ![p] = "spawned"]
       /\ started' = started \cup {p}
       /\ Broadcast(queue, p)
  ELSE UNCHANGED <<running, pin, rewindable, turns, started, shown>>

untouchedByStart ==
  <<queue, sendNow, version, suppressed, notes, interjections, buffer, active,
    waitVars, goalVars, wakeVars, completions, fate, terminals, hushed, sends>>

Start ==
  /\ Doing("start")
  /\ MaybeStartRunningTask
  /\ agenda' = Tail(agenda)
  /\ UNCHANGED <<untouchedByStart, startVars, job, stranded>>

\* The task spawned by run_session: once MCP is initialised, start the front.
StarterStarts ==
  /\ starter = "waiting"
  /\ MaybeStartRunningTask
  /\ starter' = "done"
  /\ UNCHANGED <<untouchedByStart, resume, actorVars>>

ResumeStarts ==
  /\ resume = "queued"
  /\ MaybeStartRunningTask
  /\ resume' = "done"
  /\ UNCHANGED <<untouchedByStart, starter, actorVars>>

\* The plan-approval task queues its prompt.  The prompt is synthetic, so
\* queue_input neither sweeps nor sends now.
ResumeQueues(p) ==
  /\ resume = "waiting" /\ fate[p] = "unsent"
  /\ queue' = Append(queue, p)
  /\ Becomes({p}, "queued")
  /\ Broadcast(queue', running)
  /\ resume' = "queued"
  /\ UNCHANGED <<sendNow, version, running, rewindable, suppressed, notes, pin,
                 interjections, buffer, active, waitVars, goalVars, wakeVars,
                 turns, completions, starter, actorVars, started, terminals,
                 hushed, sends>>

-----------------------------------------------------------------------------
(* Commands.  The select of run_session is biased: a completion that is    *)
(* there is taken before a command.                                        *)

\* A background task ends: the bridge marks its auto-wake delivered and sends
\* the prompt, which waits in the mailbox.
TaskCompletes(w) ==
  /\ fate[w] = "unsent"
  /\ delivered' = delivered \cup {w}
  /\ Becomes({w}, "sent")
  /\ UNCHANGED <<lockVars, pin, interjections, buffer, active, waitVars, goalVars,
                 reported, surfaced, turns, completions, startVars, actorVars,
                 started, terminals, hushed, shown, sends>>

\* Prompt: queue_input, then the cancel it may ask for, then a start.  A user
\* prompt sweeps the synthetic ones when an auto-wake is waiting.
Prompt(p, asksNow) ==
  LET user == p \in Users
      armed == user /\ \E w \in Wakes : w \in ToSet(queue) /\ w # running
      swept == IF armed THEN (ToSet(queue) \cap Synthetic) \ {running} ELSE {}
      q == Sweep(queue, running, swept)
      held == \E u \in UserOrigin : u \in ToSet(q) /\ u # running
      auto == running # None /\ depth > 0 /\ ~held
      now == user /\ (asksNow \/ auto)
      cut == now /\ running # None /\ ~gate
  IN
  /\ Ready
  /\ p \in Wakes => fate[p] = "sent"
  /\ p \in Users \cup Crons => fate[p] = "unsent"
  /\ queue' = IF now THEN InsertSendNow(q, running, sendNow, p) ELSE Append(q, p)
  /\ sendNow' = IF now THEN sendNow \cup {p} ELSE sendNow
  /\ sends' = IF now THEN Append(sends, p) ELSE sends
  /\ suppressed' = (suppressed /\ ~user)
  /\ hushed' = (hushed /\ ~user)
  /\ delivered' = delivered \ swept
  /\ reported' = IF p \in Wakes THEN reported \cup {p} ELSE reported
  /\ fate' = [x \in Ids |-> IF x \in swept THEN "swept"
                            ELSE IF x = p THEN "queued" ELSE fate[x]]
  /\ Broadcast(queue', running)
  /\ agenda' = IF cut THEN Cancelling ELSE <<"start">>
  /\ job' = IF cut THEN [NoJob EXCEPT !.mode = "send_now"] ELSE NoJob
  /\ UNCHANGED <<version, running, rewindable, notes, pin, interjections, buffer,
                 active, waitVars, goalVars, surfaced, turns, completions,
                 startVars, stranded, started, terminals>>

\* Interject: buffered for the turn the pin names, else queued to run next.
Interject(i) ==
  /\ Ready /\ fate[i] = "unsent"
  /\ IF pin # None
     THEN /\ interjections' = Append(interjections, i)
          /\ Becomes({i}, "buffered")
          /\ UNCHANGED <<queue, sendNow, sends, agenda>>
     ELSE /\ queue' = InsertRunNext(queue, running, <<i>>)
          /\ sendNow' = sendNow \cup {i}
          /\ sends' = Append(sends, i)
          /\ Becomes({i}, "queued")
          /\ agenda' = <<"start">>
          /\ UNCHANGED interjections
  /\ UNCHANGED <<version, running, rewindable, suppressed, notes, pin, buffer,
                 active, waitVars, goalVars, wakeVars, turns, completions,
                 startVars, job, stranded, started, terminals, hushed, shown>>

\* InjectNotification: to the buffer of the turn the flag announces, or to the
\* pending list, which is drained if the session is idle.
InjectNotification(n, next) ==
  LET toTurn == active /\ next
      list == Append(IF toTurn THEN buffer ELSE notes, n)
      cap == IF toTurn THEN MaxBuffer ELSE MaxPending
      over == IF Len(list) > cap THEN Len(list) - cap ELSE 0
      kept == SubSeq(list, over + 1, Len(list))
  IN
  /\ Ready /\ fate[n] = "unsent"
  /\ fate' = [x \in Ids |->
                IF x \in ToSet(list) \ ToSet(kept) THEN "capped"
                ELSE IF x = n THEN "pending" ELSE fate[x]]
  /\ IF toTurn
     THEN buffer' = kept /\ UNCHANGED <<notes, agenda>>
     ELSE notes' = kept /\ agenda' = <<"drain">> /\ UNCHANGED buffer
  /\ UNCHANGED <<queue, sendNow, version, running, rewindable, suppressed, pin,
                 interjections, active, waitVars, goalVars, wakeVars, turns,
                 completions, startVars, job, stranded, started, terminals,
                 hushed, shown, sends>>

\* The auto-wake of a task says it all: drop its notification.
DropMonitorNotifications(n) ==
  /\ Ready /\ fate[n] = "pending"
  /\ notes' = Without(notes, {n}) /\ buffer' = Without(buffer, {n})
  /\ Becomes({n}, "dropped")
  /\ UNCHANGED <<queue, sendNow, version, running, rewindable, suppressed, pin,
                 interjections, active, waitVars, goalVars, wakeVars, turns,
                 completions, startVars, actorVars, started, terminals, hushed,
                 shown, sends>>

-----------------------------------------------------------------------------
(* The row operations of the shared queue.  Each compares the id with the  *)
(* running one under the lock, and broadcasts.                             *)

untouchedByRows ==
  <<running, rewindable, suppressed, notes, pin, interjections, buffer, active,
    waitVars, goalVars, wakeVars, turns, completions, startVars, started,
    terminals, hushed>>

\* The row's version and owner are those the client names.
RowMatches(p, v, who) ==
  /\ p \in ToSet(queue) /\ p # running
  /\ version[p] = v
  /\ who \in {None, Owner[p]}

RemoveQueuedPrompt(p, v, who) ==
  /\ Ready
  /\ IF RowMatches(p, v, who)
     THEN queue' = Without(queue, {p}) /\ Becomes({p}, "removed")
     ELSE UNCHANGED <<queue, fate>>
  /\ Broadcast(queue', running)
  /\ UNCHANGED <<untouchedByRows, sendNow, version, sends, actorVars>>

ClearQueue(who) ==
  LET cleared == {p \in Users \ {running} :
                    p \in ToSet(queue) /\ who \in {None, Owner[p]}}
  IN
  /\ Ready
  /\ queue' = Without(queue, cleared)
  /\ Becomes(cleared, "removed")
  /\ Broadcast(queue', running)
  /\ UNCHANGED <<untouchedByRows, sendNow, version, sends, actorVars>>

ReorderQueue(order) ==
  /\ Ready
  /\ queue' = Reorder(queue, ToSet(queue) \ (Users \ {running}), order)
  /\ sends' = <<>>
  /\ Broadcast(queue', running)
  /\ UNCHANGED <<untouchedByRows, sendNow, version, fate, actorVars>>

EditQueuedPrompt(p) ==
  /\ Ready
  /\ p \in ToSet(queue) /\ p # running
  /\ version[p] < MaxVersion
  /\ version' = [version EXCEPT ![p] = @ + 1]
  /\ Broadcast(queue, running)
  /\ UNCHANGED <<untouchedByRows, queue, sendNow, fate, sends, actorVars>>

\* Send a queued row now, perhaps with an edited text.
InterjectQueuedPrompt(p, v, who, edited) ==
  LET cut == running # None /\ ~gate IN
  /\ Ready
  /\ IF RowMatches(p, v, who)
     THEN /\ edited => version[p] < MaxVersion
          /\ version' = IF edited THEN [version EXCEPT ![p] = @ + 1] ELSE version
          /\ queue' = InsertSendNow(Without(queue, {p}), running, sendNow, p)
          /\ sendNow' = sendNow \cup {p}
          /\ sends' = Append(Without(sends, {p}), p)
          /\ agenda' = IF cut THEN Cancelling ELSE <<"start">>
          /\ job' = IF cut THEN [NoJob EXCEPT !.mode = "send_now"] ELSE NoJob
     ELSE /\ agenda' = <<"start">>
          /\ UNCHANGED <<version, queue, sendNow, sends, job>>
  /\ Broadcast(queue', running)
  /\ UNCHANGED <<untouchedByRows, stranded, fate>>

-----------------------------------------------------------------------------
(* Cancelling: Ctrl-C, a rewind of a turn that has shown nothing yet, the  *)
(* teardown of a subagent, or the send of a prompt now.                    *)

Cancel(mode) ==
  /\ Ready
  /\ agenda' = Cancelling
  /\ job' = [NoJob EXCEPT !.mode = mode]
  /\ UNCHANGED <<lockVars, pin, interjections, buffer, active, waitVars, goalVars,
                 wakeVars, turns, completions, startVars, stranded, seenVars>>

\* Discard the buffered interjections; note whom the cancel is about.
CancelSnapshot ==
  /\ Doing("snapshot")
  /\ interjections' = <<>>
  /\ Becomes(ToSet(interjections), "discarded")
  /\ job' = [job EXCEPT !.pinned = pin,
                        !.named = IF running # None THEN running ELSE pin]
  /\ agenda' = Tail(agenda)
  /\ UNCHANGED <<lockVars, pin, buffer, active, waitVars, goalVars, wakeVars,
                 turns, completions, startVars, stranded, started, terminals,
                 hushed, shown, sends>>

\* The locked section: take the task, and the front or the whole queue.
CancelTeardown ==
  LET rewind == job.mode = "rewind" /\ rewindable
      rewound == rewind /\ queue # <<>>
      closing == CancelTakes(job.mode)
      dropped == IF job.mode = "teardown" THEN ToSet(notes \o buffer) ELSE {}
  IN
  /\ Doing("teardown")
  /\ queue' = SubSeq(queue, Len(closing) + 1, Len(queue))
  /\ running' = None
  /\ rewindable' = (rewindable /\ ~rewind)
  /\ suppressed' = ~rewound
  /\ notes' = Without(notes \o buffer, dropped)
  /\ buffer' = <<>>
  /\ Becomes(dropped, "dropped")
  /\ AbortTask(IF rewind THEN running ELSE None)
  /\ job' = [job EXCEPT !.task = IF rewind THEN None ELSE running,
                        !.closing = closing, !.rewound = rewound]
  /\ agenda' = Tail(agenda)
  /\ UNCHANGED <<sendNow, version, pin, interjections, active, depth, goalVars,
                 wakeVars, completions, startVars, stranded, started, terminals,
                 hushed, shown, sends>>

\* After the lock: the goal loop's flag is cleared (set_goal_loop_active_resource).
CancelUngates ==
  /\ Doing("ungate")
  /\ gate' = FALSE
  /\ agenda' = Tail(agenda)
  /\ UNCHANGED <<lockVars, pin, interjections, buffer, active, waitVars, goal,
                 wakeVars, turns, completions, startVars, job, stranded, seenVars>>

\* The task is aborted, and its waits are no longer counted.
CancelAbort ==
  /\ Doing("abort")
  /\ AbortTask(job.task)
  /\ depth' = DepthAfterCancel
  /\ agenda' = Tail(agenda)
  /\ UNCHANGED <<lockVars, pin, interjections, buffer, active, goalVars, wakeVars,
                 completions, startVars, job, stranded, seenVars>>

\* Clear the pin, record the turn's end, answer the prompts taken.  A Cancel
\* command pauses the goal; a send does not, and ends the silence.
CancelAnswers ==
  LET ends == IF job.rewound THEN {} ELSE {Victim} \ {None} IN
  /\ Doing("answer")
  /\ pin' = None
  /\ terminals' = [p \in Ids |-> IF p \in ends THEN terminals[p] + 1
                                               ELSE terminals[p]]
  /\ Becomes(ToSet(job.closing), IF job.rewound THEN "rewound" ELSE "cancelled")
  /\ delivered' = IF job.rewound THEN delivered
                                 ELSE delivered \ ToSet(job.closing)
  /\ goal' = IF job.mode # "send_now" /\ goal = "active" THEN "off" ELSE goal
  /\ suppressed' = StillSilent
  /\ hushed' = (job.mode # "send_now" /\ ~job.rewound)
  /\ job' = NoJob
  /\ agenda' = Tail(agenda)
  /\ UNCHANGED <<queue, sendNow, version, running, rewindable, notes,
                 interjections, buffer, active, waitVars, gate, reported, surfaced,
                 turns, completions, startVars, stranded, started, shown, sends>>

-----------------------------------------------------------------------------
(* Completions.                                                            *)

\* handle_completion pops the front if it is the prompt that completed; a turn
\* that was cancelled meanwhile leaves a stale completion, which is dropped.
HandleCompletion ==
  LET p == Head(completions) IN
  /\ agenda = <<>> /\ completions # <<>>
  /\ completions' = Tail(completions)
  /\ pin' = PinWithout(p)
  /\ gate' = (gate /\ pin' # None)
  /\ queue' = IF Owned(p) THEN Tail(queue) ELSE queue
  /\ running' = RunningAfter(p)
  /\ IF Owned(p) THEN Becomes({p}, "done") ELSE UNCHANGED fate
  /\ terminals' = IF EndRecorded(p) THEN [terminals EXCEPT ![p] = @ + 1]
                                    ELSE terminals
  /\ IF Owned(p) /\ p \in Users THEN Broadcast(queue', running') ELSE UNCHANGED shown
  /\ agenda' = Completing
  /\ UNCHANGED <<sendNow, version, rewindable, suppressed, notes, interjections,
                 buffer, active, waitVars, goal, wakeVars, turns, startVars, job,
                 stranded, started, hushed, sends>>

\* drain_monitor_buffer_to_pending: the monitor events that missed the turn.
SweepMonitorBuffer ==
  /\ Doing("sweep")
  /\ notes' = notes \o buffer /\ buffer' = <<>>
  /\ agenda' = Tail(agenda)
  /\ UNCHANGED <<queue, sendNow, version, running, rewindable, suppressed, pin,
                 interjections, active, waitVars, goalVars, wakeVars, turns,
                 completions, startVars, job, stranded, seenVars>>

\* handle_turn_end: a goal that is still active queues its continuation, once;
\* too many failed turns pause it.
TurnEnd ==
  /\ Doing("turn_end")
  /\ agenda' = Tail(agenda)
  /\ \/ /\ goal = "active" /\ ToSet(queue) \cap Goals = {}
        /\ \E g \in {x \in Goals : fate[x] = "unsent"} :
             queue' = Append(queue, g) /\ Becomes({g}, "queued")
        /\ UNCHANGED goal
     \/ /\ goal' \in IF goal = "active" THEN {"active", "off"} ELSE {goal}
        /\ UNCHANGED <<queue, fate>>
  /\ UNCHANGED <<sendNow, version, running, rewindable, suppressed, notes, pin,
                 interjections, buffer, active, waitVars, gate, wakeVars, turns,
                 completions, startVars, job, stranded, started, terminals,
                 hushed, shown, sends>>

\* flush_stranded_interjections: those the turn did not merge run next.  The
\* buffer is drained at once; each is then queued under the lock, the last first.
FlushStrandedInterjections ==
  /\ Doing("flush")
  /\ stranded' = interjections
  /\ interjections' = <<>>
  /\ agenda' = IF interjections = <<>> THEN Tail(agenda)
                                       ELSE <<"requeue">> \o Tail(agenda)
  /\ UNCHANGED <<lockVars, pin, buffer, active, waitVars, goalVars, wakeVars, turns,
                 completions, startVars, job, seenVars>>

RequeueStranded ==
  LET i == Last(stranded) IN
  /\ Doing("requeue") /\ stranded # <<>>
  /\ stranded' = Front(stranded)
  /\ queue' = InsertRunNext(queue, running, <<i>>)
  /\ sendNow' = sendNow \cup {i}
  /\ sends' = Append(sends, i)
  /\ Becomes({i}, "queued")
  /\ agenda' = IF stranded' = <<>> THEN Tail(agenda) ELSE agenda
  /\ UNCHANGED <<version, running, rewindable, suppressed, notes, pin,
                 interjections, buffer, active, waitVars, goalVars, wakeVars,
                 turns, completions, startVars, job, started, terminals, hushed,
                 shown>>

\* maybe_drain_notifications: an idle session takes all notifications in one
\* prompt, except those a goal mutes.  The prompt is given the first one's id.
MaybeDrainNotifications ==
  LET all == notes \o buffer
      muted == IF goal = "off" THEN ToSet(all) \cap GoalTurnNotes ELSE ToSet(all)
      told == Without(all, muted)
  IN
  /\ Doing("drain")
  /\ IF Idle
     THEN /\ notes' = <<>> /\ buffer' = <<>>
          /\ reported' = reported \cup ToSet(all)
          /\ queue' = SubSeq(told, 1, IF told = <<>> THEN 0 ELSE 1)
          /\ fate' = [x \in Ids |-> IF x \in muted THEN "muted"
                                    ELSE IF x \in ToSet(queue') THEN "queued"
                                    ELSE IF x \in ToSet(told) THEN "merged"
                                    ELSE fate[x]]
          /\ agenda' = IF told = <<>> THEN Tail(agenda)
                                      ELSE <<"start">> \o Tail(agenda)
     ELSE /\ agenda' = Tail(agenda)
          /\ UNCHANGED <<notes, buffer, reported, queue, fate>>
  /\ UNCHANGED <<sendNow, version, running, rewindable, suppressed, pin,
                 interjections, active, waitVars, goalVars, delivered, surfaced,
                 turns, completions, startVars, job, stranded, started, terminals,
                 hushed, shown, sends>>

-----------------------------------------------------------------------------
(* The turns.  The executor polls its tasks in any order: a turn may begin *)
(* before the guards of one that was aborted have dropped.                 *)

turnOnly == <<sendNow, version, running, suppressed, startVars, actorVars,
              started, terminals, hushed, shown, sends>>

TurnBegins(t) ==
  /\ turns[t] = "spawned"
  /\ turns' = [turns EXCEPT ![t] = "run"]
  /\ active' = TRUE
  /\ UNCHANGED <<turnOnly, queue, rewindable, notes, pin, interjections, buffer,
                 waitVars, goalVars, wakeVars, completions, fate>>

\* The first event of the turn goes out: it cannot be rewound any more.
TurnEmits(t) ==
  /\ InTurn(t) /\ rewindable
  /\ rewindable' = FALSE
  /\ UNCHANGED <<turnOnly, queue, notes, pin, interjections, buffer, active,
                 waitVars, goalVars, wakeVars, turns, completions, fate>>

\* A safe point: merge the interjections, or tell the monitor events.
TurnMerges(t) ==
  /\ InTurn(t) /\ interjections # <<>>
  /\ interjections' = <<>>
  /\ Becomes(ToSet(interjections), "merged")
  /\ UNCHANGED <<turnOnly, queue, rewindable, notes, pin, buffer, active, waitVars,
                 goalVars, wakeVars, turns, completions>>

TurnInjects(t) ==
  /\ InTurn(t) /\ buffer # <<>>
  /\ buffer' = <<>>
  /\ Becomes(ToSet(buffer), "injected")
  /\ UNCHANGED <<turnOnly, queue, rewindable, notes, pin, interjections, active,
                 waitVars, goalVars, wakeVars, turns, completions>>

\* A round of the turn begins: the gate mirrors the goal tracker.
TurnRound(t) ==
  /\ InTurn(t)
  /\ gate' = (goal = "active")
  /\ UNCHANGED <<turnOnly, queue, rewindable, notes, pin, interjections, buffer,
                 active, waitVars, goal, wakeVars, turns, completions, fate>>

\* /goal, or the update_goal tool.
TurnSetsGoal(t, status) ==
  /\ InTurn(t)
  /\ goal' = status
  /\ UNCHANGED <<turnOnly, queue, rewindable, notes, pin, interjections, buffer,
                 active, waitVars, gate, wakeVars, turns, completions, fate>>

\* Tell the model of the tasks that ended and were not reported, unless a goal
\* runs; all of them are reported now.  TaskCompletionReminder does it at a tool
\* call and leaves out those whose auto-wake is delivered, the drain at the
\* start of a turn does not.
TurnReports(t, atToolCall) ==
  LET ended == {w \in Wakes : fate[w] # "unsent"}
      quiet == IF atToolCall THEN reported \cup delivered ELSE reported
  IN
  /\ InTurn(t)
  /\ ended # {}
  /\ surfaced' = IF gate THEN surfaced ELSE surfaced \cup (ended \ quiet)
  /\ reported' = reported \cup ended
  /\ delivered' = IF atToolCall THEN {} ELSE delivered
  /\ UNCHANGED <<turnOnly, queue, rewindable, notes, pin, interjections, buffer,
                 active, waitVars, goalVars, turns, completions, fate>>

\* A tool result shows the model that the task of x ended: what still waits to
\* say so is dropped, unless it is the running turn's own slot.
TurnConsumes(t, x) ==
  /\ InTurn(t)
  /\ x \in (ToSet(queue) \cap Wakes) \cup ToSet(notes)
  /\ queue' = IF x \in Wakes THEN Sweep(queue, running, {x}) ELSE queue
  /\ notes' = Without(notes, {x})
  /\ Becomes(ToSet(queue \o notes) \ ToSet(queue' \o notes'), "consumed")
  /\ surfaced' = surfaced \cup ({x} \cap Wakes)
  /\ UNCHANGED <<turnOnly, rewindable, pin, interjections, buffer, active,
                 waitVars, goalVars, delivered, reported, turns, completions>>

\* BlockingWaitGuard: entered at most once in a turn here.
TurnParks(t) ==
  /\ turns[t] = "run" /\ t \notin parked
  /\ parked' = parked \cup {t}
  /\ depth' = depth + 1
  /\ UNCHANGED <<turnOnly, queue, rewindable, notes, pin, interjections, buffer,
                 active, zombies, goalVars, wakeVars, turns, completions, fate>>

TurnUnparks(t) ==
  /\ t \in parked
  /\ parked' = parked \ {t}
  /\ depth' = Released
  /\ turns' = [turns EXCEPT ![t] = "late"]
  /\ UNCHANGED <<turnOnly, queue, rewindable, notes, pin, interjections, buffer,
                 active, zombies, goalVars, wakeVars, completions, fate>>

ZombieDrops ==
  /\ zombies > 0
  /\ zombies' = zombies - 1
  /\ depth' = Released
  /\ UNCHANGED <<turnOnly, queue, rewindable, notes, pin, interjections, buffer,
                 active, parked, goalVars, wakeVars, turns, completions, fate>>

\* Past the last merge.
TurnTails(t) ==
  /\ InTurn(t) /\ t \notin parked
  /\ turns' = [turns EXCEPT ![t] = "tail"]
  /\ UNCHANGED <<turnOnly, queue, rewindable, notes, pin, interjections, buffer,
                 active, waitVars, goalVars, wakeVars, completions, fate>>

\* The scope guard drops.  A turn that is one shell command has none.
TurnUnscopes(t) ==
  /\ turns[t] = "tail"
  /\ turns' = [turns EXCEPT ![t] = "unscoped"]
  /\ pin' = PinWithout(t)
  /\ UNCHANGED <<turnOnly, queue, rewindable, notes, interjections, buffer, active,
                 waitVars, goalVars, wakeVars, completions, fate>>

TurnFinishes(t) ==
  /\ turns[t] \in {"tail", "unscoped"}
  /\ turns' = [turns EXCEPT ![t] = "none"]
  /\ active' = FALSE
  /\ completions' = Append(completions, t)
  /\ UNCHANGED <<turnOnly, queue, rewindable, notes, pin, interjections, buffer,
                 waitVars, goalVars, wakeVars, fate>>

\* The guards of an aborted turn drop.
TurnReaped(t) ==
  /\ turns[t] = "aborted"
  /\ turns' = [turns EXCEPT ![t] = "none"]
  /\ active' = FALSE
  /\ pin' \in {pin, PinWithout(t)}
  /\ UNCHANGED <<turnOnly, queue, rewindable, notes, interjections, buffer,
                 waitVars, goalVars, wakeVars, completions, fate>>

-----------------------------------------------------------------------------
Commands ==
  \/ \E p \in Users, now \in BOOLEAN : Prompt(p, now)
  \/ \E p \in Wakes \cup Crons : Prompt(p, FALSE)
  \/ \E w \in Wakes : TaskCompletes(w)
  \/ \E i \in Interjections : Interject(i)
  \/ \E n \in Notes, next \in BOOLEAN : InjectNotification(n, next)
  \/ \E n \in Notes : DropMonitorNotifications(n)
  \/ \E p \in Users, v \in 0..MaxVersion, who \in Clients \cup {None} :
       \/ RemoveQueuedPrompt(p, v, who)
       \/ \E edited \in BOOLEAN : InterjectQueuedPrompt(p, v, who, edited)
  \/ \E who \in Clients \cup {None} : ClearQueue(who)
  \/ \E S \in SUBSET Users : \E order \in SetToSeqs(S) : ReorderQueue(order)
  \/ \E p \in Users : EditQueuedPrompt(p)
  \/ \E mode \in CancelModes : Cancel(mode)

ActorSteps ==
  \/ Start
  \/ CancelSnapshot \/ CancelTeardown \/ CancelUngates \/ CancelAbort \/ CancelAnswers
  \/ HandleCompletion \/ SweepMonitorBuffer \/ TurnEnd
  \/ FlushStrandedInterjections \/ RequeueStranded
  \/ MaybeDrainNotifications

Turn(t) ==
  \/ TurnBegins(t) \/ TurnEmits(t) \/ TurnMerges(t) \/ TurnInjects(t)
  \/ TurnRound(t)
  \/ \E status \in {"active", "complete", "off"} :
       Goals # {} /\ TurnSetsGoal(t, status)
  \/ \E atToolCall \in BOOLEAN : TurnReports(t, atToolCall)
  \/ \E x \in Wakes \cup Notes : TurnConsumes(t, x)
  \/ TurnParks(t) \/ TurnUnparks(t)
  \/ TurnTails(t) \/ TurnUnscopes(t) \/ TurnFinishes(t) \/ TurnReaped(t)

OtherTasks ==
  \/ StarterStarts \/ ResumeStarts \/ ZombieDrops
  \/ \E p \in Plans : ResumeQueues(p)

Next == Commands \/ ActorSteps \/ OtherTasks \/ \E t \in Ids : Turn(t)

Spec == Init /\ [][Next]_vars

\* The executor runs every task that can run, and a turn ends: its waits, its
\* rounds and its calls of the model are bounded.
Fairness ==
  /\ WF_vars(ActorSteps)
  /\ WF_vars(ResumeStarts)
  /\ \A t \in Ids :
       /\ WF_vars(TurnBegins(t)) /\ WF_vars(TurnUnparks(t))
       /\ WF_vars(TurnTails(t)) /\ WF_vars(TurnFinishes(t))
       /\ WF_vars(TurnReaped(t))

FairSpec == Spec /\ Fairness
=============================================================================
