----------------------------- MODULE SamplerTurn -----------------------------
(***************************************************************************)
(* A session's turns and the sampler they stream from.                     *)
(*                                                                         *)
(* A turn submits a request (submit_and_collect), waits for its answer,    *)
(* then waits for the barrier that tells it the drainer has sent every     *)
(* chunk of the response to the clients, and only then sends its tool      *)
(* calls.  The turn's future may be dropped at any wait: a user's cancel,  *)
(* a send-now.  The drainer is a task of its own and takes one event at a  *)
(* time off the sampler's event channel.                                   *)
(***************************************************************************)
EXTENDS Sampler

CONSTANT AuthRetries    \* AuthRetrySchedule::MAX_RETRIES

ASSUME AuthRetriesAssumption == AuthRetries \in Nat

VARIABLES turn,     \* where the turn is, and its latest request
          auth,     \* AuthRetrySchedule.attempt
          slot,     \* turn_stream_drained: the request whose sender it holds, or 0
          opened    \* the requests whose barrier has been fired

turnVars == <<turn, auth, slot, opened>>
vars == <<samplerVars, turnVars>>

Init ==
    /\ SamplerInit
    /\ turn = [pc |-> "idle", r |-> 0]
    /\ auth = 0
    /\ slot = 0
    /\ opened = {}

TurnTypeOK ==
    /\ turn \in [pc : {"idle", "awaiting", "draining", "tools", "resend"}, r : 0..MaxReq]
    /\ auth \in 0..AuthRetries
    /\ slot \in 0..MaxReq
    /\ opened \subseteq Req

Send(c) == cmds' = Append(cmds, c)

\* (faulty form: the guard is not there)
NoGuard(r) == UNCHANGED cmds

\* CancelOnDrop: submit_and_collect's future is dropped, or returns.
CancelOnDrop(r) == Send([op |-> "cancel", r |-> r])

\* run_turn_via_sampler up to its first wait: the barrier is installed, over
\* whatever the slot held, and the request is submitted.
Submit ==
    /\ turn.pc \in {"idle", "tools", "resend"} /\ turn.r < MaxReq
    /\ actor = "running"
    /\ turn' = [pc |-> "awaiting", r |-> turn.r + 1]
    /\ auth' = IF turn.pc = "idle" THEN 0 ELSE auth
    /\ slot' = turn.r + 1
    /\ Send([op |-> "submit", r |-> turn.r + 1])
    /\ UNCHANGED <<actor, active, token, joined, task, events, reply, panics, opened>>

\* The response is here; the turn waits for the barrier.
Response ==
    /\ turn.pc = "awaiting" /\ reply[turn.r] = "ok"
    /\ CancelOnDrop(turn.r)
    /\ turn' = [turn EXCEPT !.pc = "draining"]
    /\ UNCHANGED <<actor, active, token, joined, task, events, reply, panics, auth, slot, opened>>

\* AuthRetrySchedule::next_delay has another delay.
NextDelay == auth < AuthRetries

\* handle_sampling_failure: an Auth error asks for recovery, and a recovered
\* turn resubmits while the schedule lasts; an API error may ask for a
\* compaction, and a compacted turn resubmits with a fresh schedule; every
\* other failure ends the turn.  A request whose task panicked counts as an
\* Auth error.
Failure ==
    /\ turn.pc = "awaiting" /\ reply[turn.r] \in {"auth", "api", "dropped"}
    /\ CancelOnDrop(turn.r)
    /\ slot' = 0
    /\ \/ /\ reply[turn.r] # "api" /\ NextDelay
          /\ turn' = [turn EXCEPT !.pc = "resend"] /\ auth' = auth + 1
       \/ /\ reply[turn.r] = "api"
          /\ turn' = [turn EXCEPT !.pc = "resend"] /\ auth' = 0
       \/ turn' = [turn EXCEPT !.pc = "idle"] /\ UNCHANGED auth
    /\ UNCHANGED <<actor, active, token, joined, task, events, reply, panics, opened>>

\* The barrier fires, or five seconds pass and the turn gives it up.
PassBarrier ==
    /\ turn.pc = "draining" /\ turn.r \in opened
    /\ turn' = [turn EXCEPT !.pc = "tools"]
    /\ auth' = 0
    /\ UNCHANGED <<samplerVars, slot, opened>>

GiveUpBarrier ==
    /\ turn.pc = "draining" /\ turn.r \notin opened
    /\ turn' = [turn EXCEPT !.pc = "tools"]
    /\ auth' = 0
    /\ slot' = 0
    /\ UNCHANGED <<samplerVars, opened>>

\* The turn ends after its tool calls, or its future is dropped: a request
\* that is awaited is cancelled, and the slot keeps the dead turn's sender.
EndTurn ==
    /\ turn.pc = "tools"
    /\ turn' = [turn EXCEPT !.pc = "idle"]
    /\ UNCHANGED <<samplerVars, auth, slot, opened>>

DropTurn ==
    /\ turn.pc \notin {"idle", "tools"}
    /\ IF turn.pc = "awaiting" THEN CancelOnDrop(turn.r) ELSE UNCHANGED cmds
    /\ turn' = [turn EXCEPT !.pc = "idle"]
    /\ UNCHANGED <<actor, active, token, joined, task, events, reply, panics, auth, slot, opened>>

\* The session ends and drops its handle.
CloseSession ==
    /\ turn.pc = "idle" /\ actor = "running"
    /\ actor' = "stopping"
    /\ UNCHANGED <<cmds, active, token, joined, task, events, reply, panics, turnVars>>

\* handle_sampling_event, called by the drainer: a Completed event fires
\* whatever sender the slot holds.
Drain ==
    /\ events # <<>>
    /\ events' = Tail(events)
    /\ IF Head(events).kind = "completed"
       THEN slot' = 0 /\ opened' = opened \cup ({slot} \ {0})
       ELSE UNCHANGED <<slot, opened>>
    /\ UNCHANGED <<actor, cmds, active, token, joined, task, reply, panics, turn, auth>>

TurnStep == Response \/ Failure \/ PassBarrier \/ GiveUpBarrier
Session == Submit \/ TurnStep \/ EndTurn \/ DropTurn \/ CloseSession

Next == Session \/ Drain \/ (SamplerNext /\ UNCHANGED turnVars)

(***************************************************************************)
(* Fairness: the tokio runtime polls every task that is ready; backoff     *)
(* sleeps and the idle timeout of a stream end.  Nothing is assumed of the *)
(* server before it has answered (Answered), of the user (DropTurn, Submit,*)
(* CloseSession), of the tools a turn runs (EndTurn) or of panics.         *)
(***************************************************************************)
Fairness ==
    /\ WF_vars(ActorStep /\ UNCHANGED turnVars)
    /\ WF_vars(TurnStep)
    /\ WF_vars(Drain)
    /\ \A r \in Req : WF_vars(TaskStep(r) /\ UNCHANGED turnVars)

Spec == Init /\ [][Next]_vars /\ Fairness

-----------------------------------------------------------------------------
Holds(kind, r) == \E i \in DOMAIN events : events[i] = [kind |-> kind, r |-> r]

\* A turn that waits for its barrier never waits for the timeout alone: its
\* sender is still in the slot and the event that fires it is on its way.
\* (sampler_turn.rs run_turn_via_sampler, tool_calls.rs
\* handle_sampling_event, request_task.rs: the terminal event before the
\* answer)  The types of the turn's variables come with it.
BarrierWillOpen ==
    /\ TurnTypeOK
    /\ turn.pc = "draining" /\ turn.r \notin opened
         => slot = turn.r /\ Holds("completed", turn.r)

\* The streams of two requests never mix on the event channel: once a
\* request's task is spawned, an earlier request sends no chunk and no
\* Completed, however its turn ended and whatever its task was doing when it
\* was cancelled.  (handle.rs CancelOnDrop, actor/mod.rs handle_command,
\* request_task.rs drive_l2)
StreamsDoNotMix ==
    [][\A r \in Req :
         /\ \E s \in Req : r < s /\ task[s].pc # "none"
         /\ Len(events') > Len(events) /\ events'[Len(events')].r = r
         => events'[Len(events')].kind \in {"retrying", "failed"}]_vars

\* A request goes to the server only for a turn that still waits for it, or
\* while the cancel of the turn that gave it up is unread in the actor's
\* channel.  So nobody pays for an attempt that nobody wants: not after a
\* backoff sleep that began before the cancel, nor beside the attempts of the
\* turn that came next, however the first one ended.  (handle.rs CancelOnDrop,
\* actor/mod.rs handle_command, request_task.rs run_request_task)
AbandonedSendsNothing ==
    [][\A r \in Req : task'[r].attempts > task[r].attempts =>
         \/ turn = [pc |-> "awaiting", r |-> r]
         \/ \E i \in DOMAIN cmds : cmds[i] = [op |-> "cancel", r |-> r]]_vars

\* A turn gets its answer, if the server does not leave an attempt without
\* one for ever, and even if the request's task panics.  (handle.rs
\* submit_and_collect)
TurnIsAnswered ==
    \A r \in Req : []<>(task[r].pc # "connect") =>
        (turn = [pc |-> "awaiting", r |-> r] ~> turn # [pc |-> "awaiting", r |-> r])

\* No request stays in the active set: a task that panicked is not removed
\* when it is reaped, but its caller's guard then cancels it.  (actor/mod.rs
\* run, handle.rs CancelOnDrop)
ActiveDrains ==
    \A r \in Req : []<>(task[r].pc # "connect") => (r \in active ~> r \notin active)

\* An earlier request completed, or its task panicked, and its own barrier was
\* not opened: its turn was dropped, or gave the barrier up, and its Completed
\* event may have opened a later one.
OpenedByAnother(r) ==
    \E s \in 1..(r - 1) :
        s \notin opened /\ (reply[s] \in {"ok", "dropped"} \/ task[s].answer = "ok")

\* "To keep all of a turn's eventIds in stream order": when the barrier lets
\* a turn on to its tool calls, every chunk of its response has been sent,
\* unless an earlier turn left a Completed event behind.
\* (acp_session.rs turn_stream_drained)
ToolCallsFollowText ==
    [][PassBarrier => ~Holds("chunk", turn.r) \/ OpenedByAnother(turn.r)]_vars
=============================================================================
