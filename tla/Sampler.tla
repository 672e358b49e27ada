------------------------------- MODULE Sampler -------------------------------
(***************************************************************************)
(* The sampler actor and its request tasks (crate xai-grok-sampler).       *)
(*                                                                         *)
(* The actor owns the set of active requests and one cancellation token    *)
(* per request; it handles one command at a time and prefers reaping a     *)
(* finished task to handling a command.  Every request runs in a task of   *)
(* its own on the session's thread, between whose awaits the others run:   *)
(* attempts, streamed events, retries with a budget, one terminal event on *)
(* the shared event channel, one answer on the request's oneshot channel.  *)
(*                                                                         *)
(* A request id is a fresh UUID in every use the session makes of the      *)
(* actor, so requests are numbered in the order they are submitted and no  *)
(* id is submitted twice.  "chunk" stands for every event an attempt       *)
(* forwards before its terminal one.  The errors of an attempt are reduced *)
(* to what the retry decision tells apart:                                 *)
(*   "unauthorized"  401, handed to the session;                           *)
(*   "refused"       encrypted content, x-should-retry: false, context     *)
(*                   overflow, and everything else that is not retryable;  *)
(*   "image"         413 or a rejected image;                              *)
(*   "limited"       429;                                                  *)
(*   "reset"         the connection broke while the body was uploaded;     *)
(*   "transport"     any other retryable error, an empty response too.     *)
(***************************************************************************)
EXTENDS Naturals, Sequences

CONSTANTS MaxReq,       \* how many requests are submitted (a bound)
          MaxChunks,    \* chunks of one attempt (a bound)
          MaxQueued,    \* events the drainer has not taken yet (a bound)
          MaxRetries,   \* SamplerConfig.max_retries
          RateLimit,    \* RetryPolicy.rate_limit_retry_threshold
          DoomMax,      \* DoomLoopRecoveryPolicy.max_retries
          MaxPanics     \* how many request tasks panic (a bound)

ASSUME SamplerAssumption ==
    /\ MaxReq \in Nat /\ MaxChunks \in Nat /\ MaxRetries \in Nat
    /\ MaxQueued \in Nat /\ RateLimit \in Nat /\ DoomMax \in Nat /\ MaxPanics \in Nat

VARIABLES actor,    \* "running", "stopping" (every handle is dropped), "stopped"
          cmds,     \* the command channel
          active,   \* active_requests
          token,    \* the requests whose cancellation token has fired
          joined,   \* finished tasks join_next has not returned yet
          task,     \* the request tasks
          events,   \* the shared event channel
          reply,    \* what a request's oneshot holds
          panics    \* how many tasks have panicked

samplerVars == <<actor, cmds, active, token, joined, task, events, reply, panics>>

Req == 1..MaxReq
Classes == {"unauthorized", "refused", "image", "limited", "reset", "transport"}
Answers == {"none", "ok", "auth", "api", "dropped"}
Live == {"ready", "connect", "stream", "closing"}

Task == [pc : {"none", "done"} \cup Live, retries : Nat, doom : Nat,
         images : BOOLEAN, attempts : Nat, sent : Nat, answer : Answers]
Event == [kind : {"chunk", "retrying", "completed", "failed"}, r : Req]
Command == [op : {"submit", "cancel"}, r : Req]

NewTask == [pc |-> "none", retries |-> 0, doom |-> 0, images |-> TRUE,
            attempts |-> 0, sent |-> 0, answer |-> "none"]

SamplerInit ==
    /\ actor = "running"
    /\ cmds = <<>>
    /\ active = {}
    /\ token = {}
    /\ joined = {}
    /\ task = [r \in Req |-> NewTask]
    /\ events = <<>>
    /\ reply = [r \in Req |-> "none"]
    /\ panics = 0

SamplerTypeOK ==
    /\ actor \in {"running", "stopping", "stopped"}
    /\ cmds \in Seq(Command)
    /\ active \subseteq Req
    /\ token \subseteq Req
    /\ joined \subseteq [r : Req, ok : BOOLEAN]
    /\ task \in [Req -> Task]
    /\ events \in Seq(Event)
    /\ reply \in [Req -> Answers]
    /\ panics \in 0..MaxPanics

-----------------------------------------------------------------------------
(* The actor.                                                              *)

\* join_next is polled before the command channel, so no command is handled
\* while a finished task waits to be reaped.  A task that panicked leaves its
\* request in the active set.
Reap(j) ==
    /\ actor # "stopped" /\ j \in joined
    /\ joined' = joined \ {j}
    /\ active' = IF j.ok THEN active \ {j.r} ELSE active
    /\ UNCHANGED <<actor, cmds, token, task, events, reply, panics>>

HandleSubmit ==
    /\ actor # "stopped" /\ joined = {}
    /\ cmds # <<>> /\ Head(cmds).op = "submit"
    /\ cmds' = Tail(cmds)
    /\ active' = active \cup {Head(cmds).r}
    /\ task' = [task EXCEPT ![Head(cmds).r].pc = "ready"]
    /\ UNCHANGED <<actor, token, joined, events, reply, panics>>

HandleCancel ==
    /\ actor # "stopped" /\ joined = {}
    /\ cmds # <<>> /\ Head(cmds).op = "cancel"
    /\ cmds' = Tail(cmds)
    /\ token' = token \cup (active \cap {Head(cmds).r})
    /\ active' = active \ {Head(cmds).r}
    /\ UNCHANGED <<actor, joined, task, events, reply, panics>>

\* Every handle is dropped and the channel is empty: the loop ends, every
\* active request is cancelled, and the tasks that are left are aborted.
Stop ==
    /\ actor = "stopping" /\ joined = {} /\ cmds = <<>>
    /\ actor' = "stopped"
    /\ token' = token \cup active
    /\ active' = {}
    /\ UNCHANGED <<cmds, joined, task, events, reply, panics>>

-----------------------------------------------------------------------------
(* A request task.                                                         *)

Emit(r, kind) ==
    /\ Len(events) < MaxQueued
    /\ events' = Append(events, [kind |-> kind, r |-> r])

\* A task whose locals are not read again.
Spent(pc, answer) == [NewTask EXCEPT !.pc = pc, !.answer = answer]

\* (faulty form: the terminal event the stream transform was stripped of is
\* not sent again)
FinishSilently(r, kind, answer) ==
    /\ task' = [task EXCEPT ![r] = Spent("closing", answer)]
    /\ UNCHANGED events

\* (faulty form: the terminal event overtakes what is queued)
FinishAhead(r, kind, answer) ==
    /\ Len(events) < MaxQueued
    /\ events' = <<[kind |-> kind, r |-> r]>> \o events
    /\ task' = [task EXCEPT ![r] = Spent("closing", answer)]

\* The last event of a request, sent before its answer.
Finish(r, kind, answer) ==
    /\ Emit(r, kind)
    /\ task' = [task EXCEPT ![r] = Spent("closing", answer)]

\* send_completion, and the end of the task.
Close(r) ==
    /\ task[r].pc = "closing"
    /\ task' = [task EXCEPT ![r] = Spent("done", "none")]
    /\ reply' = [reply EXCEPT ![r] = task[r].answer]
    /\ joined' = IF actor = "stopped" THEN joined ELSE joined \cup {[r |-> r, ok |-> TRUE]}
    /\ UNCHANGED <<actor, cmds, active, token, events, panics>>

\* handle_cancellation; its answer is a SamplingError::Auth.
Cancelled(r) == Finish(r, "failed", "auth")

\* (faulty form: one retry too many)
DecisionOneMore(e, retries) ==
    CASE e \in {"unauthorized", "refused"} -> "fatal"
      [] e = "image" -> "strip"
      [] e \in {"limited", "reset", "transport"} ->
            IF retries + 1 > MaxRetries THEN "fatal" ELSE "retry"

\* classify_error, for an error that is not a doom loop.
Decision(e, retries) ==
    CASE e \in {"unauthorized", "refused"} -> "fatal"
      [] e = "image" -> "strip"
      [] e = "limited" ->
            IF retries + 1 >= MaxRetries \/ retries + 1 >= RateLimit THEN "fatal" ELSE "retry"
      [] e \in {"reset", "transport"} ->
            IF retries + 1 >= MaxRetries THEN "fatal" ELSE "retry"

\* An upload that was cut drops the images before it is sent again.
ImagesAfter(r, e) == task[r].images /\ e # "reset"

Retry(r, images) ==
    /\ Emit(r, "retrying")
    /\ task' = [task EXCEPT ![r].pc = "ready", ![r].sent = 0, ![r].images = images,
                            ![r].retries = @ + 1]

\* apply_retry_decision.  The backoff sleeps before the next attempt do not
\* watch the token; "ready" is a task that sleeps or is at the loop's top.
Apply(r, e) ==
    \/ /\ Decision(e, task[r].retries) = "retry"
       /\ Retry(r, ImagesAfter(r, e))
    \/ /\ Decision(e, task[r].retries) = "strip" /\ task[r].images
       /\ Retry(r, FALSE)
    \/ /\ \/ Decision(e, task[r].retries) = "fatal"
          \/ Decision(e, task[r].retries) = "strip" /\ ~task[r].images
       /\ Finish(r, "failed", IF e = "unauthorized" THEN "auth" ELSE "api")

\* The client cannot be built from its configuration.
BuildFails(r) ==
    /\ task[r].pc = "ready" /\ task[r].attempts = 0
    /\ Finish(r, "failed", "api")

\* (faulty form: the token is looked at before the loop, and no longer after
\* a backoff sleep)
LookedAtOnce(r) == r \in token /\ task[r].attempts = 0

\* cancel_token.is_cancelled, at the loop's top.
IsCancelled(r) == r \in token

\* The top of the loop: the token is looked at, and an attempt starts.
NextAttempt(r) ==
    /\ task[r].pc = "ready"
    /\ IF IsCancelled(r)
       THEN Cancelled(r)
       ELSE /\ task' = [task EXCEPT ![r].pc = "connect", ![r].attempts = @ + 1]
            /\ UNCHANGED events

\* The server's answer to the request; nothing else ends this wait, neither
\* the idle timeout nor the token.
Connect(r) ==
    /\ task[r].pc = "connect"
    /\ \/ task' = [task EXCEPT ![r].pc = "stream"] /\ UNCHANGED events
       \/ \E e \in Classes : Apply(r, e)

\* What a stream that is not cancelled yields next.  The doom-loop check is
\* armed while its own budget lasts.
Stream(r) ==
    \/ /\ task[r].sent < MaxChunks
       /\ Emit(r, "chunk")
       /\ task' = [task EXCEPT ![r].sent = @ + 1]
    \/ Finish(r, "completed", "ok")
    \/ \E e \in Classes : Apply(r, e)
    \/ /\ task[r].doom < DoomMax
       /\ Emit(r, "retrying")
       /\ task' = [task EXCEPT ![r].pc = "ready", ![r].sent = 0, ![r].doom = @ + 1]

\* (faulty form: the token is not looked at)
NotLookedAt(r) == FALSE

\* cancel_token.cancelled, polled before the stream.
CancelPolled(r) == r \in token

\* drive_l2
DriveL2(r) ==
    /\ task[r].pc = "stream"
    /\ IF CancelPolled(r) THEN Cancelled(r) ELSE Stream(r)

\* A step of the task that sends nothing to the actor or the caller.
Attempt(r) ==
    /\ BuildFails(r) \/ NextAttempt(r) \/ DriveL2(r)
    /\ UNCHANGED <<actor, cmds, active, token, joined, reply, panics>>

Answered(r) ==
    /\ Connect(r)
    /\ UNCHANGED <<actor, cmds, active, token, joined, reply, panics>>

\* (faulty form: the sender of the answer outlives the task)
DroppedUnanswered(r) ==
    /\ task[r].pc \in Live
    /\ task' = [task EXCEPT ![r] = Spent("done", "none")]
    /\ UNCHANGED reply

\* The task panics, or the stopped actor aborts it: no terminal event, and
\* the caller sees the oneshot closed.
Dropped(r) ==
    /\ task[r].pc \in Live
    /\ task' = [task EXCEPT ![r] = Spent("done", "none")]
    /\ reply' = [reply EXCEPT ![r] = "dropped"]

Panic(r) ==
    /\ panics < MaxPanics /\ actor # "stopped"
    /\ Dropped(r)
    /\ panics' = panics + 1
    /\ joined' = joined \cup {[r |-> r, ok |-> FALSE]}
    /\ UNCHANGED <<actor, cmds, active, token, events>>

Abort(r) ==
    /\ actor = "stopped"
    /\ Dropped(r)
    /\ UNCHANGED <<actor, cmds, active, token, joined, events, panics>>

ActorStep == (\E j \in joined : Reap(j)) \/ HandleSubmit \/ HandleCancel \/ Stop
TaskStep(r) == Attempt(r) \/ Close(r) \/ Abort(r)
SamplerNext == ActorStep \/ \E r \in Req : TaskStep(r) \/ Answered(r) \/ Panic(r)

-----------------------------------------------------------------------------
(* What the requests cost.                                                 *)

\* The images of a request are dropped once, and that retry is granted
\* whatever is left of the budget; the doom loop has a budget of its own.
\* No mixture of errors makes a request send more attempts than that.
\* (request_task.rs run_request_task and apply_retry_decision, retry.rs
\* classify_error)  The types of the sampler's variables come with it.
AttemptsWithinBudget ==
    /\ SamplerTypeOK
    /\ \A r \in Req : task[r].attempts <=
        (IF MaxRetries = 0 THEN 1 ELSE MaxRetries) + 1 + DoomMax
=============================================================================
