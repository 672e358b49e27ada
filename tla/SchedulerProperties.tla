------------------------- MODULE SchedulerProperties -------------------------
(* What is checked of Scheduler.                                           *)
EXTENDS Scheduler

Task == [id : Id, interval : Nat \ {0}, recurring : BOOLEAN, durable : BOOLEAN,
         anchor : Int, fired : BOOLEAN, expires : Nat]
IsTasks(s) == /\ Range(s) \subseteq Task
              /\ Len(s) <= MaxTasks
              /\ IsInjective(IdSeq(s))

\* The types of the variables.  Behind them: wherever a list of tasks is kept
\* (in memory, in a snapshot, in the file) it is within the limit and holds a
\* task once (SchedulerCommand::Create, the load of the file).
TypeOK ==
    /\ now \in 0..MaxTime /\ {up, cancelled, owed, behind} \subseteq BOOLEAN
    /\ pc \in {"missed", "prune", "announce", "loop", "done"}
    /\ IsTasks(tasks) /\ IsTasks(disk) /\ (pending # None => IsTasks(pending[1]))
    /\ missed \in Seq(Id)
    /\ \A c \in Range(cmds) : c.op = "create" => c.task \in Task
    /\ Range(wire) \subseteq [kind : {"Created", "Removed", "Fired", "FiredLate"}, id : Id]
    /\ {logged, panel, everFired, deleted, gone, ghosts, answered} \subseteq SUBSET Id
    /\ lastFire \in [Id -> {Never} \cup 0..MaxTime]
    /\ created \in 0..MaxRequests /\ asked \in 0..MaxRequests
    /\ lives \in 1..MaxLives /\ faults \in 0..MaxFaults

-----------------------------------------------------------------------------
\* What a step sends.
Sent == IF Len(wire') > Len(wire) THEN Range(SubSeq(wire', Len(wire) + 1, Len(wire')))
        ELSE {}
Sends(kinds, id) == \E n \in Sent : n.kind \in kinds /\ n.id = id
Fires(id) == Sends({"Fired", "FiredLate"}, id)
TaskOf(id) == CHOOSE t \in ToSet(tasks) : t.id = id

\* In one life a task does not fire again before its interval has passed, and
\* a one-shot fires once, whether it was late or not: what fire_next_task and
\* handle_missed_tasks leave behind keeps the timer from choosing it again.
FiresAreSpaced ==
    [][\A id \in Id : Fires(id) /\ lastFire[id] # Never =>
            /\ TaskOf(id).recurring
            /\ now - lastFire[id] >= TaskOf(id).interval]_vars

\* In one life nothing is heard of a task after its removal was announced: not
\* from the re-announcement, not from the timer, not from the final drain.
RemovedIsFinal ==
    [][\A id \in gone : ~ \E n \in Sent : n.id = id]_vars

\* A task leaves the file for a cause: its deletion was confirmed, it is a
\* one-shot that fired, or it has expired.  A shutdown, a crash, a failed
\* write or a restore is none.
LeavesFileForCause ==
    [][\A t \in ToSet(disk) : t.id \notin Ids(disk') =>
            \/ t.id \in deleted
            \/ ~t.recurring /\ t.id \in everFired
            \/ IsExpired(t)]_vars

\* When the actor has nothing to do and the bridge is empty, the client shows
\* every task there is, whatever the log of the earlier lives said: the
\* re-announcement makes up for the removals a shutdown logged.  And a row
\* without a task is one that the log restored and the file did not have: a
\* create that was logged and not saved before the session ended.
Quiet == Listening /\ cmds = <<>> /\ wire = <<>>
PanelShowsTasks ==
    Quiet => /\ Ids(tasks) \subseteq panel
             /\ panel \ Ids(tasks) \subseteq ghosts

\* Once no tool call is about to save and the writer holds nothing, every task
\* whose creation was answered to the session's own tool in this life, and that
\* is still there, is in the file.  A change can be lost on its way: a cancelled
\* turn drops the call between the actor's answer and finalize_output's save, or
\* the write fails, and nothing retries either.  But it is the file that lags and
\* not the task that is forgotten: the next tool call of the session, of whatever
\* kind, makes the file whole again.  The types come with it.
CreatedIsSaved ==
    /\ TypeOK
    /\ Serving /\ ~owed /\ ~behind /\ pending = None
         => answered \cap Ids(tasks) \subseteq Ids(disk)

-----------------------------------------------------------------------------
\* notification_bridge.rs: the deletion is persisted "so replay on resume nets
\* out a removed loop instead of resurrecting it".
DeletedStaysDeleted == Quiet => panel \cap deleted = {}
=============================================================================
