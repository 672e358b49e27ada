---------------------------- MODULE SamplerProofs ----------------------------
(***************************************************************************)
(* For any number of requests, any retry budget and any bound of the       *)
(* queues: a request never sends more attempts than its budgets allow, and *)
(* none once the cancel of the turn that gave it up is read; the streams   *)
(* of two requests do not mix; a turn that waits for its barrier has the   *)
(* event that opens it on its way; and a barrier lets no text be overtaken *)
(* by tool calls unless an earlier turn left a Completed event behind.     *)
(*                                                                         *)
(* The argument counts the commands the turns send: one submit and one     *)
(* cancel for each request, in that order.  What the actor has handled so  *)
(* far (Handled) then says which tasks were spawned and which tokens fired.*)
(***************************************************************************)
EXTENDS SamplerTurn, Integers, TLAPS

Typed == SamplerTypeOK /\ TurnTypeOK

-----------------------------------------------------------------------------
(* The inductive invariant, in named parts.                                *)

\* The retries a request's budget grants.
Grants == IF MaxRetries = 0 THEN 1 ELSE MaxRetries

Busy == {"ready", "connect", "stream"}

\* Every attempt but the first was paid for by a retry of one of the two
\* budgets; the last grant of a request with images is kept for their removal.
Paid(t) ==
    /\ t.attempts = t.retries + t.doom + (IF t.pc \in {"connect", "stream"} THEN 1 ELSE 0)
    /\ t.retries <= (IF t.images THEN Grants - 1 ELSE Grants)
    /\ t.doom <= DoomMax
    /\ t.pc = "none" => t = NewTask

Budget == \A r \in Req : Paid(task[r])

\* How many commands the turns have sent, and the actor has handled.
Total == IF turn.pc = "awaiting" THEN 2 * turn.r - 1 ELSE 2 * turn.r
Handled == Total - Len(cmds)

\* The commands of q are the ones that follow the first n.
InTurn(q, n) ==
    \A i \in 1..Len(q) :
       \/ q[i].op = "submit" /\ n + i = 2 * q[i].r - 1
       \/ q[i].op = "cancel" /\ n + i = 2 * q[i].r

Commands ==
    /\ turn.pc # "idle" => turn.r > 0
    /\ actor # "running" => turn.pc = "idle"
    /\ Handled >= 0
    /\ InTurn(cmds, Handled)

Over(r) == task[r].pc = "done"

\* A task is spawned by its submit, and a later cancel finds it over or fires
\* its token.
Requests ==
    \A r \in Req :
        /\ task[r].pc = "none" <=> 2 * r - 1 > Handled
        /\ 2 * r - 1 = Handled => r \in active \/ Over(r)
        /\ 2 * r <= Handled => r \in token \/ Over(r)
        /\ reply[r] # "none" => Over(r)
        /\ task[r].answer = "ok" => task[r].pc = "closing"

Reaped == \A j \in joined : Over(j.r)

\* The request may have sent its Completed event; it sends no other event.
Emitted(r) == reply[r] \in {"ok", "dropped"} \/ task[r].answer = "ok"
Past(r) == task[r].pc \in {"closing", "done"}

\* No event of a request follows its Completed event.
LastOfItsOwn(q) ==
    \A i, j \in 1..Len(q) : i < j /\ q[i].kind = "completed" => q[j].r # q[i].r

Order ==
    /\ LastOfItsOwn(events)
    /\ \A r \in Req : Holds("completed", r) => Emitted(r) /\ Past(r)

Slot == slot \in {0, turn.r} /\ opened \subseteq 1..turn.r

Waits ==
    /\ turn.pc = "draining" => reply[turn.r] = "ok"
    /\ turn.pc \in {"awaiting", "draining"} =>
        /\ slot = turn.r \/ turn.r \in opened
        /\ reply[turn.r] = "ok" \/ task[turn.r].answer = "ok"
             => Holds("completed", turn.r) \/ turn.r \in opened

\* The request's own text and its Completed event have left the channel.
Sent(r) == Past(r) /\ ~Holds("chunk", r) /\ ~Holds("completed", r)

Openings == \A r \in opened : Sent(r) \/ OpenedByAnother(r)

IInv ==
    /\ Typed /\ Budget /\ Commands /\ Requests /\ Reaped /\ Order
    /\ Slot /\ Waits /\ Openings

-----------------------------------------------------------------------------
(* What a request's task does in one step, seen from the rest.             *)

\* An attempt goes on, or another one is granted.
Works(r) ==
    /\ task[r].pc \in Busy
    /\ \E t \in Task :
         /\ task' = [task EXCEPT ![r] = t]
         /\ t.pc \in Busy /\ t.answer = task[r].answer
         /\ Paid(task[r]) => Paid(t)
         /\ r \in token => t.attempts <= task[r].attempts
    /\ \/ events' = events
       \/ \E kind \in {"chunk", "retrying"} :
            /\ kind = "chunk" => r \notin token
            /\ events' = Append(events, [kind |-> kind, r |-> r])
    /\ UNCHANGED <<actor, cmds, active, token, joined, reply, panics, turnVars>>

\* The terminal event.
Finishes(r) ==
    /\ task[r].pc \in Busy
    /\ \E kind \in {"completed", "failed"}, answer \in Answers :
         /\ answer = "ok" <=> kind = "completed"
         /\ kind = "completed" => r \notin token
         /\ task' = [task EXCEPT ![r] = Spent("closing", answer)]
         /\ events' = Append(events, [kind |-> kind, r |-> r])
    /\ UNCHANGED <<actor, cmds, active, token, joined, reply, panics, turnVars>>

\* The answer, or the loss of its sender, and the end of the task.
Ends(r) ==
    /\ task[r].pc \in Live
    /\ task' = [task EXCEPT ![r] = Spent("done", "none")]
    /\ \E answer \in Answers :
         /\ answer = "dropped" \/ (task[r].pc = "closing" /\ answer = task[r].answer)
         /\ reply' = [reply EXCEPT ![r] = answer]
    /\ panics' \in 0..MaxPanics
    /\ \E ok \in BOOLEAN : joined' \in {joined, joined \cup {[r |-> r, ok |-> ok]}}
    /\ UNCHANGED <<actor, cmds, active, token, events, turnVars>>

\* A record whose locals are not read again: it has the shape of a task, and
\* it has spent nothing.
LEMMA SpentIsPaid ==
  ASSUME SamplerAssumption, NEW pc \in {"closing", "done"}, NEW answer \in Answers
  PROVE  /\ Spent(pc, answer) \in Task /\ Paid(Spent(pc, answer))
         /\ Spent(pc, answer).pc = pc /\ Spent(pc, answer).answer = answer
         /\ Spent(pc, answer).attempts = 0
<1>1. Spent(pc, answer) = [pc |-> pc, retries |-> 0, doom |-> 0, images |-> TRUE,
                           attempts |-> 0, sent |-> 0, answer |-> answer]
  <2>1. PICK t : t = [NewTask EXCEPT !.pc = pc]
    OBVIOUS
  <2>2. t = [pc |-> pc, retries |-> 0, doom |-> 0, images |-> TRUE,
             attempts |-> 0, sent |-> 0, answer |-> "none"]
    BY <2>1 DEF NewTask
  <2>3. Spent(pc, answer) = [t EXCEPT !.answer = answer]
    BY <2>1 DEF Spent
  <2>4. QED
    BY <2>2, <2>3
<1>2. QED
  BY <1>1 DEF Task, Live, Paid, Grants, SamplerAssumption

\* A granted retry is within the budget.  (classify_error,
\* apply_retry_decision)
LEMMA RetryWorks ==
  ASSUME SamplerAssumption, Typed, NEW r \in Req, NEW images \in BOOLEAN,
         task[r].pc \in {"connect", "stream"}, Retry(r, images),
         images => task[r].images,
         \/ task[r].retries + 1 < MaxRetries
         \/ task[r].images /\ ~images,
         UNCHANGED <<actor, cmds, active, token, joined, reply, panics, turnVars>>
  PROVE  Works(r)
<1> PICK u \in Task : u = task[r]
  BY DEF Typed, SamplerTypeOK
<1> PICK v \in Task : v = [u EXCEPT !.pc = "ready", !.sent = 0]
  BY DEF Task, Live
<1> PICK w \in Task : w = [v EXCEPT !.images = images]
  BY DEF Task
<1> PICK n \in Nat : n = w.retries + 1
  BY DEF Task
<1> PICK t \in Task : t = [w EXCEPT !.retries = n]
  BY ZenonT(60) DEF Task
<1>1. /\ t.pc = "ready" /\ t.sent = 0 /\ t.images = images /\ t.retries = u.retries + 1
      /\ t.doom = u.doom /\ t.attempts = u.attempts /\ t.answer = u.answer
  BY DEF Task
<1>2. task' = [task EXCEPT ![r] = t]
  <2>1. t = [task[r] EXCEPT !.pc = "ready", !.sent = 0, !.images = images, !.retries = @ + 1]
    BY DEF Task
  <2>2. QED
    BY <2>1 DEF Retry, Typed, SamplerTypeOK
<1>3. Paid(u) => Paid(t)
  <2>1. u.retries \in Nat /\ u.doom \in Nat /\ u.attempts \in Nat /\ u.images \in BOOLEAN
    BY DEF Task
  <2>2. MaxRetries \in Nat
    BY DEF SamplerAssumption
  <2>3. u.pc \in {"connect", "stream"}
    OBVIOUS
  <2>4. ASSUME Paid(u) PROVE t.attempts = t.retries + t.doom
    BY <1>1, <2>1, <2>3, <2>4 DEF Paid
  <2>5. ASSUME Paid(u) PROVE t.retries <= (IF t.images THEN Grants - 1 ELSE Grants)
    BY <1>1, <2>1, <2>2, <2>5 DEF Paid, Grants
  <2>6. ASSUME Paid(u) PROVE t.doom <= DoomMax
    BY <1>1, <2>6 DEF Paid
  <2>7. t.retries \in Nat /\ t.doom \in Nat
    BY DEF Task
  <2>8. QED
    BY <1>1, <2>4, <2>5, <2>6, <2>7 DEF Paid
<1>4. events' = Append(events, [kind |-> "retrying", r |-> r])
  BY DEF Retry, Emit
<1>5. task[r].pc \in Busy /\ t.pc \in Busy /\ t.attempts <= task[r].attempts
  BY <1>1 DEF Busy, Task
<1>6. QED
  BY <1>1, <1>2, <1>3, <1>4, <1>5 DEF Works

\* A terminal event and its answer.
LEMMA FinishFinishes ==
  ASSUME NEW r \in Req, NEW kind \in {"completed", "failed"}, NEW answer \in Answers,
         task[r].pc \in Busy, Finish(r, kind, answer), answer = "ok" <=> kind = "completed",
         kind = "completed" => r \notin token,
         UNCHANGED <<actor, cmds, active, token, joined, reply, panics, turnVars>>
  PROVE  Finishes(r)
BY DEF Finish, Emit, Finishes

\* An error is retried, or ends the request.  (apply_retry_decision)
LEMMA ApplyWorks ==
  ASSUME SamplerAssumption, Typed, NEW r \in Req, NEW e \in Classes,
         task[r].pc \in {"connect", "stream"}, Apply(r, e),
         UNCHANGED <<actor, cmds, active, token, joined, reply, panics, turnVars>>
  PROVE  Works(r) \/ Finishes(r)
<1>1. task[r].images \in BOOLEAN /\ task[r].retries \in Nat /\ MaxRetries \in Nat
  BY DEF Typed, SamplerTypeOK, Task, SamplerAssumption
<1>2. ASSUME Decision(e, task[r].retries) = "retry"
      PROVE  task[r].retries + 1 < MaxRetries
  BY <1>1, <1>2 DEF Decision, Classes
<1>3. CASE Decision(e, task[r].retries) = "retry" /\ Retry(r, ImagesAfter(r, e))
  <2>1. ImagesAfter(r, e) \in BOOLEAN /\ (ImagesAfter(r, e) => task[r].images)
    BY <1>1 DEF ImagesAfter
  <2>2. QED
    BY <1>2, <1>3, <2>1, RetryWorks
<1>4. CASE task[r].images /\ Retry(r, FALSE)
  BY <1>4, RetryWorks
<1>5. CASE Finish(r, "failed", IF e = "unauthorized" THEN "auth" ELSE "api")
  <2>1. PICK answer \in {"auth", "api"} : Finish(r, "failed", answer)
    BY <1>5
  <2>2. task[r].pc \in Busy /\ answer \in Answers
    BY DEF Busy, Answers
  <2>3. QED
    BY <2>1, <2>2, FinishFinishes
<1>6. QED
  BY <1>3, <1>4, <1>5 DEF Apply
\* A step that changes the record in a few fields and sends nothing, or sends
\* an event that is not terminal.
LEMMA PlainWork ==
  ASSUME NEW r \in Req, NEW t \in Task, task' = [task EXCEPT ![r] = t],
         task[r].pc \in Busy, t.pc \in Busy, t.answer = task[r].answer,
         Paid(task[r]) => Paid(t), r \in token => t.attempts <= task[r].attempts,
         \/ events' = events
         \/ \E kind \in {"chunk", "retrying"} :
              /\ kind = "chunk" => r \notin token
              /\ events' = Append(events, [kind |-> kind, r |-> r]),
         UNCHANGED <<actor, cmds, active, token, joined, reply, panics, turnVars>>
  PROVE  Works(r)
BY DEF Works

\* What the top of the loop and the stream do.
LEMMA AttemptWorks ==
  ASSUME SamplerAssumption, Typed, NEW r \in Req, Attempt(r), UNCHANGED turnVars
  PROVE  Works(r) \/ Finishes(r)
<1> PICK u \in Task : u = task[r]
  BY DEF Typed, SamplerTypeOK
<1>1. /\ u.retries \in Nat /\ u.doom \in Nat /\ u.attempts \in Nat /\ u.images \in BOOLEAN
      /\ u.sent \in Nat /\ DoomMax \in Nat /\ task \in [Req -> Task]
  BY DEF Task, SamplerAssumption, Typed, SamplerTypeOK
<1>2. UNCHANGED <<actor, cmds, active, token, joined, reply, panics, turnVars>>
  BY DEF Attempt
<1>3. CASE BuildFails(r)
  <2>1. task[r].pc \in Busy /\ Finish(r, "failed", "api") /\ "api" \in Answers
    BY <1>3 DEF BuildFails, Busy, Answers
  <2>2. QED
    BY <1>2, <2>1, FinishFinishes
<1>4. ASSUME Cancelled(r), task[r].pc \in Busy PROVE Finishes(r)
  <2>1. Finish(r, "failed", "auth") /\ "auth" \in Answers
    BY <1>4 DEF Cancelled, Answers
  <2>2. QED
    BY <1>2, <1>4, <2>1, FinishFinishes
<1>5. CASE NextAttempt(r) /\ r \in token
  <2>1. Cancelled(r) /\ task[r].pc \in Busy
    BY <1>5 DEF NextAttempt, IsCancelled, Busy
  <2>2. QED
    BY <1>4, <2>1
<1>6. CASE NextAttempt(r) /\ r \notin token
  <2> PICK n \in Nat : n = u.attempts + 1
    BY <1>1
  <2> PICK v \in Task : v = [u EXCEPT !.pc = "connect"]
    BY DEF Task, Live
  <2> PICK t \in Task : t = [v EXCEPT !.attempts = n]
    BY DEF Task
  <2>1. /\ t.pc = "connect" /\ t.attempts = u.attempts + 1 /\ t.retries = u.retries
        /\ t.doom = u.doom /\ t.images = u.images /\ t.answer = u.answer
    BY DEF Task
  <2>2. u.pc = "ready"
    BY <1>6 DEF NextAttempt
  <2>3. task' = [task EXCEPT ![r] = t] /\ events' = events
    <3>1. t = [task[r] EXCEPT !.pc = "connect", !.attempts = @ + 1]
      BY DEF Task
    <3>2. QED
      BY <1>1, <1>6, <3>1 DEF NextAttempt, IsCancelled
  <2>4. Paid(u) => Paid(t)
    BY <1>1, <2>1, <2>2 DEF Paid
  <2>5. u.pc \in Busy /\ t.pc \in Busy
    BY <2>1, <2>2 DEF Busy
  <2>6. QED
    BY <1>2, <1>6, <2>1, <2>3, <2>4, <2>5, PlainWork
<1>7. CASE DriveL2(r) /\ r \in token
  <2>1. Cancelled(r) /\ task[r].pc \in Busy
    BY <1>7 DEF DriveL2, CancelPolled, Busy
  <2>2. QED
    BY <1>4, <2>1
<1>8. CASE DriveL2(r) /\ r \notin token
  <2>1. Stream(r) /\ u.pc = "stream" /\ u.pc \in Busy
    BY <1>8 DEF DriveL2, CancelPolled, Busy
  <2>2. CASE /\ Emit(r, "chunk")
             /\ task' = [task EXCEPT ![r].sent = @ + 1]
    <3> PICK n \in Nat : n = u.sent + 1
      BY <1>1
    <3> PICK t \in Task : t = [u EXCEPT !.sent = n]
      BY DEF Task
    <3>1. /\ t.pc = u.pc /\ t.attempts = u.attempts /\ t.retries = u.retries
          /\ t.doom = u.doom /\ t.images = u.images /\ t.answer = u.answer
      BY DEF Task
    <3>2. task' = [task EXCEPT ![r] = t]
      <4>1. t = [task[r] EXCEPT !.sent = @ + 1]
        BY DEF Task
      <4>2. QED
        BY <1>1, <2>2, <4>1
    <3>3. Paid(u) => Paid(t)
      BY <1>1, <2>1, <3>1 DEF Paid
    <3>4. events' = Append(events, [kind |-> "chunk", r |-> r])
      BY <2>2 DEF Emit
    <3>5. QED
      BY <1>2, <1>8, <2>1, <3>1, <3>2, <3>3, <3>4, PlainWork
  <2>3. CASE Finish(r, "completed", "ok")
    <3>1. "ok" \in Answers
      BY DEF Answers
    <3>2. QED
      BY <1>2, <1>8, <2>1, <2>3, <3>1, FinishFinishes
  <2>4. CASE \E e \in Classes : Apply(r, e)
    BY <1>2, <2>1, <2>4, ApplyWorks
  <2>5. CASE /\ task[r].doom < DoomMax
             /\ Emit(r, "retrying")
             /\ task' = [task EXCEPT ![r].pc = "ready", ![r].sent = 0, ![r].doom = @ + 1]
    <3> PICK n \in Nat : n = u.doom + 1
      BY <1>1
    <3> PICK v \in Task : v = [u EXCEPT !.pc = "ready", !.sent = 0]
      BY DEF Task, Live
    <3> PICK t \in Task : t = [v EXCEPT !.doom = n]
      BY DEF Task
    <3>1. /\ t.pc = "ready" /\ t.attempts = u.attempts /\ t.retries = u.retries
          /\ t.doom = u.doom + 1 /\ t.images = u.images /\ t.answer = u.answer
      BY DEF Task
    <3>2. task' = [task EXCEPT ![r] = t]
      <4>1. t = [task[r] EXCEPT !.pc = "ready", !.sent = 0, !.doom = @ + 1]
        BY DEF Task
      <4>2. QED
        BY <1>1, <2>5, <4>1
    <3>3. Paid(u) => Paid(t)
      BY <1>1, <2>1, <2>5, <3>1 DEF Paid
    <3>4. events' = Append(events, [kind |-> "retrying", r |-> r]) /\ t.pc \in Busy
      BY <2>5, <3>1 DEF Emit, Busy
    <3>5. QED
      BY <1>2, <1>8, <2>1, <3>1, <3>2, <3>3, <3>4, PlainWork
  <2>6. QED
    BY <2>1, <2>2, <2>3, <2>4, <2>5 DEF Stream
<1>9. QED
  BY <1>3, <1>5, <1>6, <1>7, <1>8 DEF Attempt

\* What the server's answer to an attempt leads to.
LEMMA AnsweredWorks ==
  ASSUME SamplerAssumption, Typed, NEW r \in Req, Answered(r), UNCHANGED turnVars
  PROVE  Works(r) \/ Finishes(r)
<1> PICK u \in Task : u = task[r]
  BY DEF Typed, SamplerTypeOK
<1>1. u.pc = "connect" /\ u.attempts \in Nat /\ task \in [Req -> Task]
  BY DEF Answered, Connect, Typed, SamplerTypeOK, Task
<1>2. UNCHANGED <<actor, cmds, active, token, joined, reply, panics, turnVars>>
  BY DEF Answered
<1>3. CASE task' = [task EXCEPT ![r].pc = "stream"] /\ UNCHANGED events
  <2> PICK t \in Task : t = [u EXCEPT !.pc = "stream"]
    BY DEF Task, Live
  <2>1. /\ t.pc = "stream" /\ t.attempts = u.attempts /\ t.retries = u.retries
        /\ t.doom = u.doom /\ t.images = u.images /\ t.answer = u.answer
    BY DEF Task
  <2>2. task' = [task EXCEPT ![r] = t]
    BY <1>1, <1>3
  <2>3. Paid(u) => Paid(t)
    BY <1>1, <2>1 DEF Paid
  <2>4. u.pc \in Busy /\ t.pc \in Busy /\ t.attempts <= u.attempts /\ events' = events
    BY <1>1, <1>3, <2>1 DEF Busy
  <2>5. QED
    BY <1>2, <2>1, <2>2, <2>3, <2>4, PlainWork
<1>4. CASE \E e \in Classes : Apply(r, e)
  BY <1>1, <1>2, <1>4, ApplyWorks
<1>5. QED
  BY <1>3, <1>4 DEF Answered, Connect

\* The three ways a task ends.
LEMMA TaskEnds ==
  ASSUME SamplerAssumption, Typed, NEW r \in Req, UNCHANGED turnVars,
         Close(r) \/ Abort(r) \/ Panic(r)
  PROVE  Ends(r)
<1>1. panics \in 0..MaxPanics /\ MaxPanics \in Nat
  BY DEF Typed, SamplerTypeOK, SamplerAssumption
<1>2. CASE Close(r)
  <2>1. task[r].answer \in Answers /\ task[r].pc = "closing" /\ task[r].pc \in Live
    BY <1>2 DEF Typed, SamplerTypeOK, Task, Close, Live
  <2>2. QED
    BY <1>1, <1>2, <2>1 DEF Close, Ends
<1>3. CASE Abort(r)
  <2>1. "dropped" \in Answers
    BY DEF Answers
  <2>2. QED
    BY <1>1, <1>3, <2>1 DEF Abort, Dropped, Ends
<1>4. CASE Panic(r)
  <2>1. "dropped" \in Answers /\ panics' \in 0..MaxPanics
    BY <1>1, <1>4 DEF Answers, Panic
  <2>2. QED
    BY <1>4, <2>1 DEF Panic, Dropped, Ends
<1>5. QED
  BY <1>2, <1>3, <1>4

\* Every step of a task is of one of the three kinds.
LEMMA TaskKinds ==
  ASSUME SamplerAssumption, Typed, NEW r \in Req, UNCHANGED turnVars,
         TaskStep(r) \/ Answered(r) \/ Panic(r)
  PROVE  Works(r) \/ Finishes(r) \/ Ends(r)
BY AttemptWorks, AnsweredWorks, TaskEnds DEF TaskStep
-----------------------------------------------------------------------------
(* The two channels: an element is added at the end, or taken at the head. *)

\* Whether the list holds an event; Holds says it of the event channel.
HeldIn(q, kind, r) == \E i \in DOMAIN q : q[i] = [kind |-> kind, r |-> r]

\* The places of a list with one more at its end.
LEMMA AppendPlaces ==
  ASSUME NEW T, NEW q \in Seq(T), NEW e \in T
  PROVE  /\ Append(q, e) \in Seq(T) /\ Len(Append(q, e)) = Len(q) + 1
         /\ Append(q, e)[Len(q) + 1] = e
         /\ \A i \in 1..Len(q) : Append(q, e)[i] = q[i]
         /\ Len(q) \in Nat /\ DOMAIN q = 1..Len(q)
         /\ DOMAIN Append(q, e) = 1..(Len(q) + 1)
OBVIOUS

\* The places of a list without its head.
LEMMA TailPlaces ==
  ASSUME NEW T, NEW q \in Seq(T), q # <<>>
  PROVE  /\ Tail(q) \in Seq(T) /\ Len(Tail(q)) = Len(q) - 1 /\ Len(q) >= 1
         /\ Head(q) = q[1] /\ Head(q) \in T
         /\ \A i \in 1..(Len(q) - 1) : Tail(q)[i] = q[i + 1]
         /\ Len(q) \in Nat /\ DOMAIN q = 1..Len(q) /\ DOMAIN Tail(q) = 1..(Len(q) - 1)
OBVIOUS

\* What is sent at the end is held; what was held still is; nothing else is.
LEMMA HeldAfterSend ==
  ASSUME NEW q \in Seq(Event), NEW e \in Event, NEW kind, NEW r
  PROVE  HeldIn(Append(q, e), kind, r) <=>
           HeldIn(q, kind, r) \/ e = [kind |-> kind, r |-> r]
<1> PICK z \in Seq(Event) : z = Append(q, e)
  BY AppendPlaces
<1>1. /\ Len(q) \in Nat /\ DOMAIN q = 1..Len(q) /\ DOMAIN z = 1..(Len(q) + 1)
      /\ z[Len(q) + 1] = e /\ \A i \in 1..Len(q) : z[i] = q[i]
  BY AppendPlaces
<1>2. HeldIn(z, kind, r) <=> HeldIn(q, kind, r) \/ e = [kind |-> kind, r |-> r]
  <2>1. ASSUME HeldIn(q, kind, r) PROVE HeldIn(z, kind, r)
    <3>1. PICK i \in 1..Len(q) : q[i] = [kind |-> kind, r |-> r]
      BY <1>1, <2>1 DEF HeldIn
    <3>2. i \in DOMAIN z /\ z[i] = q[i]
      BY <1>1
    <3>3. QED
      BY <3>1, <3>2 DEF HeldIn
  <2>2. ASSUME e = [kind |-> kind, r |-> r] PROVE HeldIn(z, kind, r)
    <3>1. Len(q) + 1 \in DOMAIN z
      BY <1>1
    <3>2. QED
      BY <1>1, <2>2, <3>1 DEF HeldIn
  <2>3. ASSUME HeldIn(z, kind, r)
        PROVE  HeldIn(q, kind, r) \/ e = [kind |-> kind, r |-> r]
    <3>1. PICK i \in 1..(Len(q) + 1) : z[i] = [kind |-> kind, r |-> r]
      BY <1>1, <2>3 DEF HeldIn
    <3>2. CASE i = Len(q) + 1
      BY <1>1, <3>1, <3>2
    <3>3. CASE i # Len(q) + 1
      <4>1. i \in 1..Len(q)
        BY <1>1, <3>3
      <4>2. i \in DOMAIN q /\ q[i] = z[i]
        BY <1>1, <4>1
      <4>3. QED
        BY <3>1, <4>2 DEF HeldIn
    <3>4. QED
      BY <3>2, <3>3
  <2>4. QED
    BY <2>1, <2>2, <2>3
<1>3. QED
  BY <1>2

\* Taking the head loses that element at most.
LEMMA HeldAfterTake ==
  ASSUME NEW q \in Seq(Event), q # <<>>, NEW kind, NEW r
  PROVE  /\ HeldIn(Tail(q), kind, r) => HeldIn(q, kind, r)
         /\ HeldIn(q, kind, r) => \/ HeldIn(Tail(q), kind, r)
                                  \/ Head(q) = [kind |-> kind, r |-> r]
<1> PICK z \in Seq(Event) : z = Tail(q)
  BY TailPlaces
<1>1. /\ Len(q) \in Nat /\ Len(q) >= 1 /\ DOMAIN q = 1..Len(q)
      /\ DOMAIN z = 1..(Len(q) - 1) /\ Head(q) = q[1]
      /\ \A i \in 1..(Len(q) - 1) : z[i] = q[i + 1]
  BY TailPlaces
<1>2. ASSUME HeldIn(z, kind, r) PROVE HeldIn(q, kind, r)
  <2>1. PICK i \in 1..(Len(q) - 1) : z[i] = [kind |-> kind, r |-> r]
    BY <1>1, <1>2 DEF HeldIn
  <2>2. i + 1 \in DOMAIN q /\ z[i] = q[i + 1]
    BY <1>1
  <2>3. QED
    BY <2>1, <2>2 DEF HeldIn
<1>3. ASSUME HeldIn(q, kind, r)
      PROVE  HeldIn(z, kind, r) \/ Head(q) = [kind |-> kind, r |-> r]
  <2>1. PICK i \in 1..Len(q) : q[i] = [kind |-> kind, r |-> r]
    BY <1>1, <1>3 DEF HeldIn
  <2>2. CASE i = 1
    BY <1>1, <2>1, <2>2
  <2>3. CASE i # 1
    <3>1. i - 1 \in 1..(Len(q) - 1) /\ (i - 1) + 1 = i
      BY <1>1, <2>3
    <3>2. i - 1 \in DOMAIN z /\ z[i - 1] = q[i]
      BY <1>1, <3>1
    <3>3. QED
      BY <2>1, <3>2 DEF HeldIn
  <2>4. QED
    BY <2>2, <2>3
<1>4. QED
  BY <1>2, <1>3

\* A request that has no Completed event in the list may send another event.
LEMMA LastAfterSend ==
  ASSUME NEW q \in Seq(Event), NEW e \in Event, LastOfItsOwn(q),
         ~HeldIn(q, "completed", e.r)
  PROVE  LastOfItsOwn(Append(q, e))
<1> PICK z \in Seq(Event) : z = Append(q, e)
  BY AppendPlaces
<1>1. /\ Len(q) \in Nat /\ DOMAIN q = 1..Len(q) /\ Len(z) = Len(q) + 1
      /\ z[Len(q) + 1] = e /\ \A i \in 1..Len(q) : z[i] = q[i]
  BY AppendPlaces
<1>2. ASSUME NEW i \in 1..Len(z), NEW j \in 1..Len(z), i < j, z[i].kind = "completed"
      PROVE  z[j].r # z[i].r
  <2>1. i \in 1..Len(q) /\ z[i] = q[i] /\ q[i] \in Event
    BY <1>1, <1>2
  <2>2. CASE j = Len(q) + 1
    <3>1. SUFFICES ASSUME e.r = q[i].r PROVE FALSE
      BY <1>1, <2>1, <2>2
    <3>2. q[i] = [kind |-> "completed", r |-> e.r]
      BY <1>2, <2>1, <3>1 DEF Event
    <3>3. i \in DOMAIN q
      BY <1>1, <2>1
    <3>4. QED
      BY <3>2, <3>3 DEF HeldIn
  <2>3. CASE j # Len(q) + 1
    <3>1. j \in 1..Len(q) /\ z[j] = q[j]
      BY <1>1, <2>3
    <3>2. QED
      BY <1>2, <2>1, <3>1 DEF LastOfItsOwn
  <2>4. QED
    BY <2>2, <2>3
<1>3. QED
  BY <1>2 DEF LastOfItsOwn

\* Behind a Completed event at the head there is nothing of its request.
LEMMA LastAfterTake ==
  ASSUME NEW q \in Seq(Event), q # <<>>, LastOfItsOwn(q)
  PROVE  /\ LastOfItsOwn(Tail(q))
         /\ Head(q).kind = "completed" =>
              \A kind : ~HeldIn(Tail(q), kind, Head(q).r)
<1> PICK z \in Seq(Event) : z = Tail(q)
  BY TailPlaces
<1>1. /\ Len(q) \in Nat /\ Len(q) >= 1 /\ DOMAIN z = 1..(Len(q) - 1)
      /\ Len(z) = Len(q) - 1 /\ Head(q) = q[1]
      /\ \A i \in 1..(Len(q) - 1) : z[i] = q[i + 1]
  BY TailPlaces
<1>2. ASSUME NEW i \in 1..Len(z), NEW j \in 1..Len(z), i < j, z[i].kind = "completed"
      PROVE  z[j].r # z[i].r
  <2>1. /\ i + 1 \in 1..Len(q) /\ j + 1 \in 1..Len(q) /\ i + 1 < j + 1
        /\ z[i] = q[i + 1] /\ z[j] = q[j + 1]
    BY <1>1, <1>2
  <2>2. QED
    BY <1>2, <2>1 DEF LastOfItsOwn
<1>3. ASSUME Head(q).kind = "completed", NEW kind, HeldIn(z, kind, Head(q).r) PROVE FALSE
  <2>1. PICK i \in 1..(Len(q) - 1) : z[i] = [kind |-> kind, r |-> q[1].r]
    BY <1>1, <1>3 DEF HeldIn
  <2>2. /\ i + 1 \in 1..Len(q) /\ 1 \in 1..Len(q) /\ 1 < i + 1
        /\ q[i + 1].r = q[1].r
    BY <1>1, <2>1
  <2>3. QED
    BY <1>1, <1>3, <2>2 DEF LastOfItsOwn
<1>4. QED
  BY <1>2, <1>3 DEF LastOfItsOwn

\* A command sent at the end is the next of all that were sent.
LEMMA InTurnAfterSend ==
  ASSUME NEW q \in Seq(Command), NEW c \in Command, NEW n \in Int, InTurn(q, n),
         \/ c.op = "submit" /\ n + Len(q) + 1 = 2 * c.r - 1
         \/ c.op = "cancel" /\ n + Len(q) + 1 = 2 * c.r
  PROVE  InTurn(Append(q, c), n)
<1> PICK z \in Seq(Command) : z = Append(q, c)
  BY AppendPlaces
<1>1. /\ Len(q) \in Nat /\ Len(z) = Len(q) + 1
      /\ z[Len(q) + 1] = c /\ \A i \in 1..Len(q) : z[i] = q[i]
  BY AppendPlaces
<1>2. ASSUME NEW i \in 1..Len(z)
      PROVE  \/ z[i].op = "submit" /\ n + i = 2 * z[i].r - 1
             \/ z[i].op = "cancel" /\ n + i = 2 * z[i].r
  <2>1. CASE i = Len(q) + 1
    <3>1. z[i] = c /\ n + i = n + Len(q) + 1
      BY <1>1, <2>1
    <3>2. QED
      BY <3>1
  <2>2. CASE i # Len(q) + 1
    <3>1. i \in 1..Len(q) /\ z[i] = q[i]
      BY <1>1, <2>2
    <3>2. QED
      BY <3>1 DEF InTurn
  <2>3. QED
    BY <2>1, <2>2
<1>3. QED
  BY <1>2 DEF InTurn

\* Taking the head takes the first one that follows.
LEMMA InTurnAfterTake ==
  ASSUME NEW q \in Seq(Command), q # <<>>, NEW n \in Int, InTurn(q, n)
  PROVE  /\ InTurn(Tail(q), n + 1)
         /\ Head(q).op = "submit" => n + 1 = 2 * Head(q).r - 1
         /\ Head(q).op = "cancel" => n + 1 = 2 * Head(q).r
<1> PICK z \in Seq(Command) : z = Tail(q)
  BY TailPlaces
<1>1. /\ Len(q) \in Nat /\ Len(q) >= 1 /\ Len(z) = Len(q) - 1 /\ Head(q) = q[1]
      /\ \A i \in 1..(Len(q) - 1) : z[i] = q[i + 1]
  BY TailPlaces
<1>2. ASSUME NEW i \in 1..Len(z)
      PROVE  \/ z[i].op = "submit" /\ (n + 1) + i = 2 * z[i].r - 1
             \/ z[i].op = "cancel" /\ (n + 1) + i = 2 * z[i].r
  <2>1. i + 1 \in 1..Len(q) /\ z[i] = q[i + 1] /\ n + (i + 1) = (n + 1) + i
    BY <1>1
  <2>2. QED
    BY <2>1 DEF InTurn
<1>3. /\ q[1].op = "submit" => n + 1 = 2 * q[1].r - 1
      /\ q[1].op = "cancel" => n + 1 = 2 * q[1].r
  <2>1. 1 \in 1..Len(q)
    BY <1>1
  <2>2. QED
    BY <2>1 DEF InTurn
<1>4. QED
  BY <1>1, <1>2, <1>3 DEF InTurn
-----------------------------------------------------------------------------
(* The initial states, and the steps of the turns.                         *)

\* The initial states satisfy every part.
LEMMA InitOK ==
  ASSUME SamplerAssumption, AuthRetriesAssumption, Init PROVE IInv
<1>1. NewTask \in Task /\ Paid(NewTask) /\ NewTask.pc = "none" /\ NewTask.answer = "none"
  BY DEF NewTask, Task, Answers, Paid, Grants, SamplerAssumption
<1>2. cmds = <<>> /\ events = <<>> /\ Len(cmds) = 0 /\ Len(events) = 0
      /\ DOMAIN events = {} /\ cmds \in Seq(Command) /\ events \in Seq(Event)
  BY DEF Init, SamplerInit
<1>3. Typed
  <2>1. task \in [Req -> Task] /\ reply \in [Req -> Answers]
    BY <1>1 DEF Init, SamplerInit, Answers
  <2>2. QED
    BY <1>2, <2>1 DEF Init, SamplerInit, Typed, SamplerTypeOK, TurnTypeOK,
                      SamplerAssumption, AuthRetriesAssumption
<1>4. \A r \in Req : task[r] = NewTask /\ reply[r] = "none" /\ r >= 1 /\ r \in Nat
  BY DEF Init, SamplerInit, Req
<1>5. Budget
  BY <1>1, <1>4 DEF Budget
<1>6. turn.pc = "idle" /\ turn.r = 0 /\ Handled = 0
  BY <1>2 DEF Init, Handled, Total
<1>7. Commands
  BY <1>2, <1>6 DEF Commands, Init, SamplerInit, InTurn
<1>8. Requests
  BY <1>1, <1>4, <1>6 DEF Requests
<1>9. Reaped /\ Slot /\ Openings
  BY <1>6 DEF Reaped, Slot, Openings, Init, SamplerInit
<1>10. Order /\ Waits
  BY <1>2, <1>6 DEF Order, LastOfItsOwn, Holds, Waits
<1>11. QED
  BY <1>3, <1>5, <1>7, <1>8, <1>9, <1>10 DEF IInv

\* The numbers the argument counts with.
LEMMA CountsAreIntegers ==
  ASSUME Typed
  PROVE  /\ turn.r \in 0..MaxReq /\ turn.r \in Nat /\ Len(cmds) \in Nat
         /\ Total \in Int /\ Handled \in Int /\ cmds \in Seq(Command)
BY DEF Typed, SamplerTypeOK, TurnTypeOK, Total, Handled

\* The guard's cancel is the next command after the request's submit.
\* (handle.rs CancelOnDrop)
LEMMA CancelFollows ==
  ASSUME Typed, Commands, turn.pc = "awaiting", CancelOnDrop(turn.r)
  PROVE  /\ cmds' \in Seq(Command) /\ Len(cmds') = Len(cmds) + 1
         /\ InTurn(cmds', Handled)
<1> PICK h \in Int : h = Handled
  BY CountsAreIntegers
<1>0. turn.r \in Req
  BY CountsAreIntegers DEF Commands, Req
<1> PICK c \in Command : c = [op |-> "cancel", r |-> turn.r]
  BY <1>0 DEF Command
<1>1. c.op = "cancel" /\ c.r = turn.r
  OBVIOUS
<1>2. cmds' = Append(cmds, c)
  BY DEF CancelOnDrop, Send
<1>3. h + Len(cmds) + 1 = 2 * turn.r
  BY CountsAreIntegers DEF Handled, Total
<1>4. cmds \in Seq(Command) /\ InTurn(cmds, h)
  BY CountsAreIntegers DEF Commands
<1>5. InTurn(Append(cmds, c), h)
  BY <1>1, <1>3, <1>4, InTurnAfterSend
<1>6. QED
  BY <1>2, <1>4, <1>5, AppendPlaces

\* So the count does not see a request that ends as its cancel is sent.
LEMMA CancelKeepsHandled ==
  ASSUME Typed, turn.pc = "awaiting", turn'.pc # "awaiting", turn'.r = turn.r,
         Len(cmds') = Len(cmds) + 1
  PROVE  Handled' = Handled
<1>1. PICK t \in Nat, n \in Nat : t = turn.r /\ n = Len(cmds)
  BY CountsAreIntegers
<1>2. Handled = (2 * t - 1) - n
  BY <1>1 DEF Handled, Total
<1>3. Handled' = 2 * t - (n + 1)
  BY <1>1 DEF Handled, Total
<1>4. (2 * t - 1) - n = 2 * t - (n + 1)
  OBVIOUS
<1>5. QED
  BY <1>2, <1>3, <1>4

Places == {"idle", "awaiting", "draining", "tools", "resend"}

\* A turn moves on, and its commands are in turn.
LEMMA TurnMoves ==
  ASSUME Typed, Commands, NEW pc \in Places, NEW r \in 0..MaxReq,
         turn' = [pc |-> pc, r |-> r], pc # "idle" => r > 0,
         actor' \in {"running", "stopping", "stopped"}, actor' # "running" => pc = "idle",
         auth' \in 0..AuthRetries, slot' \in 0..MaxReq, opened' \subseteq Req,
         cmds' \in Seq(Command), InTurn(cmds', Handled), Handled' = Handled,
         UNCHANGED <<active, token, joined, task, events, reply, panics>>
  PROVE  Typed' /\ Commands'
<1>1. turn'.pc = pc /\ turn'.r = r
  OBVIOUS
<1>2. TurnTypeOK'
  BY DEF TurnTypeOK, Places
<1>3. SamplerTypeOK'
  BY DEF Typed, SamplerTypeOK
<1>4. InTurn(cmds', Handled') /\ Handled' >= 0
  BY DEF Commands
<1>5. Commands'
  BY <1>1, <1>4 DEF Commands
<1>6. QED
  BY <1>2, <1>3, <1>5 DEF Typed

\* A turn's steps send their commands in turn, and the actor has handled as
\* many as before.
LEMMA SessionCounts ==
  ASSUME SamplerAssumption, AuthRetriesAssumption, Typed, Commands, Session
  PROVE  /\ Typed' /\ Commands' /\ Handled' = Handled
         /\ UNCHANGED <<active, token, joined, task, events, reply, panics>>
<1>1. UNCHANGED <<active, token, joined, task, events, reply, panics>>
  BY DEF Session, TurnStep, Submit, Response, Failure, PassBarrier, GiveUpBarrier, EndTurn,
         DropTurn, CloseSession, samplerVars
<1>2. /\ turn.pc \in Places /\ turn.r \in 0..MaxReq /\ MaxReq \in Nat /\ AuthRetries \in Nat
      /\ auth \in 0..AuthRetries /\ slot \in 0..MaxReq /\ Req = 1..MaxReq
      /\ turn = [pc |-> turn.pc, r |-> turn.r] /\ opened \subseteq Req
      /\ actor \in {"running", "stopping", "stopped"}
  BY DEF Typed, TurnTypeOK, SamplerTypeOK, SamplerAssumption, AuthRetriesAssumption, Req, Places
<1>3. \A pc : [turn EXCEPT !.pc = pc] = [pc |-> pc, r |-> turn.r]
  BY DEF Typed, TurnTypeOK
<1>4. /\ InTurn(cmds, Handled)
      /\ turn.pc # "idle" => turn.r > 0
      /\ actor # "running" => turn.pc = "idle"
      /\ cmds \in Seq(Command) /\ Len(cmds) \in Nat /\ Handled \in Int
  BY CountsAreIntegers DEF Commands
<1>5. ASSUME turn.pc = "awaiting", CancelOnDrop(turn.r)
      PROVE  cmds' \in Seq(Command) /\ Len(cmds') = Len(cmds) + 1 /\ InTurn(cmds', Handled)
  BY <1>5, CancelFollows
<1>6. CASE Submit
  <2> PICK h \in Int : h = Handled
    BY <1>4
  <2> PICK r \in 0..MaxReq : r = turn.r + 1
    BY <1>2, <1>6 DEF Submit
  <2>0. r \in Req
    BY <1>2
  <2> PICK c \in Command : c = [op |-> "submit", r |-> r]
    BY <2>0 DEF Command
  <2>1. c.op = "submit" /\ c.r = r /\ cmds' = Append(cmds, c)
    BY <1>6 DEF Submit, Send
  <2>2. turn' = [pc |-> "awaiting", r |-> r] /\ turn.pc # "awaiting"
    BY <1>6 DEF Submit
  <2>3. h + Len(cmds) + 1 = 2 * c.r - 1 /\ InTurn(cmds, h)
    <3>1. h = 2 * turn.r - Len(cmds)
      BY <2>2 DEF Handled, Total
    <3>2. PICK t \in Nat, n \in Nat : t = turn.r /\ n = Len(cmds)
      BY CountsAreIntegers
    <3>3. c.r = t + 1 /\ h = 2 * t - n
      BY <2>1, <3>1, <3>2
    <3>4. h + n + 1 = 2 * c.r - 1
      BY <3>3
    <3>5. QED
      BY <1>4, <3>2, <3>4
  <2>4. InTurn(Append(cmds, c), h)
    BY <1>4, <2>1, <2>3, InTurnAfterSend
  <2>5. cmds' \in Seq(Command) /\ Len(cmds') = Len(cmds) + 1 /\ InTurn(cmds', Handled)
    BY <1>4, <2>1, <2>4, AppendPlaces
  <2>6. Handled' = Handled
    <3>1. turn'.pc = "awaiting" /\ turn'.r = turn.r + 1
      BY <2>2
    <3>2. Total' = 2 * (turn.r + 1) - 1 /\ Total = 2 * turn.r
      BY <2>2, <3>1 DEF Total
    <3>3. PICK t \in Nat, n \in Nat : t = turn.r /\ n = Len(cmds)
      BY CountsAreIntegers
    <3>4. Handled = 2 * t - n /\ Handled' = (2 * (t + 1) - 1) - (n + 1)
      BY <2>5, <3>2, <3>3 DEF Handled
    <3>5. (2 * (t + 1) - 1) - (n + 1) = 2 * t - n
      OBVIOUS
    <3>6. QED
      BY <3>4, <3>5
  <2>7. /\ actor' = "running" /\ auth' \in 0..AuthRetries /\ slot' \in 0..MaxReq
        /\ opened' \subseteq Req /\ r > 0 /\ "awaiting" \in Places
    BY <1>2, <1>6 DEF Submit, Places
  <2>8. QED
    BY <1>1, <2>2, <2>5, <2>6, <2>7, TurnMoves
<1>7. CASE Response
  <2>1. turn.pc = "awaiting" /\ CancelOnDrop(turn.r) /\ "draining" \in Places
    BY <1>7 DEF Response, Places
  <2>2. turn' = [pc |-> "draining", r |-> turn.r] /\ actor = "running"
    BY <1>3, <1>4, <1>7 DEF Response
  <2>3. Handled' = Handled
    <3>1. turn'.pc # "awaiting" /\ turn'.r = turn.r
      BY <2>2
    <3>2. QED
      BY <1>1, <1>5, <2>1, <3>1, CancelKeepsHandled
  <2>4. /\ actor' = "running" /\ auth' \in 0..AuthRetries /\ slot' \in 0..MaxReq
        /\ opened' \subseteq Req /\ turn.r > 0
    BY <1>2, <1>4, <1>7, <2>1, <2>2 DEF Response
  <2>5. QED
    BY <1>1, <1>2, <1>5, <2>1, <2>2, <2>3, <2>4, TurnMoves
<1>8. CASE Failure
  <2>1. turn.pc = "awaiting" /\ CancelOnDrop(turn.r) /\ actor = "running"
    BY <1>4, <1>8 DEF Failure
  <2>2. PICK pc \in {"idle", "resend"} : turn' = [turn EXCEPT !.pc = pc]
    BY <1>8 DEF Failure
  <2>3. turn' = [pc |-> pc, r |-> turn.r] /\ pc \in Places
    BY <1>3, <2>2 DEF Places
  <2>4. Handled' = Handled
    <3>1. turn'.pc # "awaiting" /\ turn'.r = turn.r
      BY <2>3
    <3>2. QED
      BY <1>1, <1>5, <2>1, <3>1, CancelKeepsHandled
  <2>5. /\ actor' = "running" /\ auth' \in 0..AuthRetries /\ slot' \in 0..MaxReq
        /\ opened' \subseteq Req /\ turn.r > 0
    BY <1>2, <1>4, <1>8, <2>1 DEF Failure, NextDelay
  <2>6. QED
    BY <1>1, <1>2, <1>5, <2>1, <2>3, <2>4, <2>5, TurnMoves
<1>9. CASE PassBarrier \/ GiveUpBarrier \/ EndTurn
  <2>1. PICK pc \in {"idle", "tools"} : turn' = [turn EXCEPT !.pc = pc]
    BY <1>9 DEF PassBarrier, GiveUpBarrier, EndTurn
  <2>2. /\ turn.pc \in {"draining", "tools"} /\ auth' \in {0, auth} /\ slot' \in {0, slot}
        /\ opened' = opened /\ cmds' = cmds /\ actor' = actor
    BY <1>9 DEF PassBarrier, GiveUpBarrier, EndTurn, samplerVars
  <2>3. turn' = [pc |-> pc, r |-> turn.r] /\ pc \in Places
    BY <1>3, <2>1 DEF Places
  <2>4. Handled' = Handled
    BY <1>2, <1>4, <2>2, <2>3 DEF Handled, Total
  <2>5. /\ actor' = "running" /\ turn.r > 0 /\ auth' \in 0..AuthRetries /\ slot' \in 0..MaxReq
    BY <1>2, <1>4, <2>2
  <2>6. cmds' \in Seq(Command) /\ InTurn(cmds', Handled)
    BY <1>4, <2>2
  <2>7. QED
    BY <1>1, <1>2, <2>2, <2>3, <2>4, <2>5, <2>6, TurnMoves
<1>10. CASE DropTurn
  <2>1. turn' = [pc |-> "idle", r |-> turn.r] /\ "idle" \in Places
    BY <1>3, <1>10 DEF DropTurn, Places
  <2>2. /\ auth' \in 0..AuthRetries /\ slot' \in 0..MaxReq /\ opened' \subseteq Req
        /\ actor' \in {"running", "stopping", "stopped"}
    BY <1>2, <1>10 DEF DropTurn
  <2>3. cmds' \in Seq(Command) /\ InTurn(cmds', Handled) /\ Handled' = Handled
    <3>1. CASE turn.pc = "awaiting"
      <4>1. CancelOnDrop(turn.r)
        BY <1>10, <3>1 DEF DropTurn
      <4>2. Handled' = Handled
        <5>1. turn'.pc # "awaiting" /\ turn'.r = turn.r
          BY <2>1
        <5>2. QED
          BY <1>1, <1>5, <3>1, <4>1, <5>1, CancelKeepsHandled
      <4>3. QED
        BY <1>5, <3>1, <4>1, <4>2
    <3>2. CASE turn.pc # "awaiting"
      <4>1. cmds' = cmds
        BY <1>10, <3>2 DEF DropTurn
      <4>2. Handled' = Handled
        BY <1>2, <1>4, <2>1, <3>2, <4>1 DEF Handled, Total
      <4>3. QED
        BY <1>4, <4>1, <4>2
    <3>3. QED
      BY <3>1, <3>2
  <2>4. QED
    BY <1>1, <1>2, <2>1, <2>2, <2>3, TurnMoves
<1>11. CASE CloseSession
  <2>1. /\ turn' = turn /\ cmds' = cmds /\ auth' = auth /\ slot' = slot /\ opened' = opened
        /\ turn.pc = "idle" /\ actor' = "stopping"
    BY <1>11 DEF CloseSession, turnVars
  <2>2. Handled' = Handled
    BY <2>1 DEF Handled, Total
  <2>3. turn' = [pc |-> "idle", r |-> turn.r] /\ "idle" \in Places
    BY <1>2, <2>1 DEF Places
  <2>4. QED
    BY <1>1, <1>2, <1>4, <2>1, <2>2, <2>3, TurnMoves
<1>12. QED
  BY <1>1, <1>6, <1>7, <1>8, <1>9, <1>10, <1>11 DEF Session, TurnStep
-----------------------------------------------------------------------------
(* The steps of the tasks: types, budgets, and what the counts say.        *)

\* A step of one task leaves the records of the others alone.
LEMMA OneTask ==
  ASSUME SamplerAssumption, Typed, NEW r \in Req, Works(r) \/ Finishes(r) \/ Ends(r)
  PROVE  /\ task' \in [Req -> Task] /\ \A s \in Req \ {r} : task'[s] = task[s]
         /\ Paid(task[r]) => Paid(task'[r])
         /\ task[r].pc \in Live
         /\ Works(r) => /\ task[r].pc \in Busy /\ task'[r].pc \in Busy
                        /\ task'[r].answer = task[r].answer
         /\ Finishes(r) => task[r].pc \in Busy /\ task'[r].pc = "closing"
         /\ Ends(r) => task'[r].pc = "done" /\ task'[r].answer = "none"
<1>1. task \in [Req -> Task]
  BY DEF Typed, SamplerTypeOK
<1>2. CASE Works(r)
  <2>1. PICK t \in Task : /\ task' = [task EXCEPT ![r] = t] /\ t.pc \in Busy
                          /\ t.answer = task[r].answer /\ (Paid(task[r]) => Paid(t))
    BY <1>2 DEF Works
  <2>2. task'[r] = t /\ task[r].pc \in Busy
    BY <1>1, <1>2, <2>1 DEF Works
  <2>3. ~Finishes(r) \/ task'[r].pc # "closing"
    BY <2>1, <2>2 DEF Busy
  <2>4. ~Ends(r)
    <3>1. "done" \notin Busy
      BY DEF Busy
    <3>2. Ends(r) => task'[r] = Spent("done", "none")
      BY <1>1 DEF Ends
    <3>3. Spent("done", "none").pc = "done"
      BY SpentIsPaid DEF Answers
    <3>4. QED
      BY <2>1, <2>2, <3>1, <3>2, <3>3
  <2>5. ~Finishes(r)
    <3>1. "closing" \notin Busy
      BY DEF Busy
    <3>2. Finishes(r) => \E a \in Answers : task'[r] = Spent("closing", a)
      BY <1>1 DEF Finishes
    <3>3. \A a \in Answers : Spent("closing", a).pc = "closing"
      BY SpentIsPaid
    <3>4. QED
      BY <2>1, <2>2, <3>1, <3>2, <3>3
  <2>6. task[r].pc \in Live
    BY <2>2 DEF Busy, Live
  <2>7. QED
    BY <1>1, <2>1, <2>2, <2>4, <2>5, <2>6
<1>3. CASE Finishes(r)
  <2>1. PICK a \in Answers : task' = [task EXCEPT ![r] = Spent("closing", a)]
    BY <1>3 DEF Finishes
  <2>2. /\ Spent("closing", a) \in Task /\ Paid(Spent("closing", a))
        /\ Spent("closing", a).pc = "closing"
    BY SpentIsPaid
  <2>3. task'[r] = Spent("closing", a) /\ task[r].pc \in Busy
    BY <1>1, <1>3, <2>1 DEF Finishes
  <2>4. ~Works(r)
    <3>1. Works(r) => task'[r].pc \in Busy
      BY <1>1 DEF Works
    <3>2. QED
      BY <2>2, <2>3, <3>1 DEF Busy
  <2>5. ~Ends(r)
    <3>1. Ends(r) => task'[r] = Spent("done", "none")
      BY <1>1 DEF Ends
    <3>2. Spent("done", "none").pc = "done"
      BY SpentIsPaid DEF Answers
    <3>3. QED
      BY <2>2, <2>3, <3>1, <3>2
  <2>6. task[r].pc \in Live
    BY <2>3 DEF Busy, Live
  <2>7. QED
    BY <1>1, <2>1, <2>2, <2>3, <2>4, <2>5, <2>6
<1>4. CASE Ends(r)
  <2>1. /\ Spent("done", "none") \in Task /\ Paid(Spent("done", "none"))
        /\ Spent("done", "none").pc = "done" /\ Spent("done", "none").answer = "none"
    BY SpentIsPaid DEF Answers
  <2>2. task' = [task EXCEPT ![r] = Spent("done", "none")] /\ task[r].pc \in Live
    BY <1>4 DEF Ends
  <2>3. task'[r] = Spent("done", "none")
    BY <1>1, <2>2
  <2>4. ~Works(r)
    <3>1. Works(r) => task'[r].pc \in Busy
      BY <1>1 DEF Works
    <3>2. QED
      BY <2>1, <2>3, <3>1 DEF Busy
  <2>5. ~Finishes(r)
    <3>1. Finishes(r) => \E a \in Answers : task'[r] = Spent("closing", a)
      BY <1>1 DEF Finishes
    <3>2. \A a \in Answers : Spent("closing", a).pc = "closing"
      BY SpentIsPaid
    <3>3. QED
      BY <2>1, <2>3, <3>1, <3>2
  <2>6. QED
    BY <1>1, <2>1, <2>2, <2>3, <2>4, <2>5
<1>5. QED
  BY <1>2, <1>3, <1>4

\* A task's step keeps the types, the budgets, the commands and the count.
LEMMA TaskCounts ==
  ASSUME SamplerAssumption, Typed, Budget, Commands, NEW r \in Req,
         Works(r) \/ Finishes(r) \/ Ends(r)
  PROVE  Typed' /\ Budget' /\ Commands' /\ Handled' = Handled
<1>1. /\ task' \in [Req -> Task] /\ \A s \in Req \ {r} : task'[s] = task[s]
      /\ Paid(task[r]) => Paid(task'[r])
  BY OneTask
<1>2. UNCHANGED <<actor, cmds, active, token, turnVars>>
  BY DEF Works, Finishes, Ends
<1>3. TurnTypeOK'
  BY <1>2 DEF Typed, TurnTypeOK, turnVars
<1>4. events' \in Seq(Event)
  <2>1. \A kind \in {"chunk", "retrying", "completed", "failed"} :
          [kind |-> kind, r |-> r] \in Event
    BY DEF Event
  <2>2. events \in Seq(Event)
    BY DEF Typed, SamplerTypeOK
  <2>3. events' = events \/ \E e \in Event : events' = Append(events, e)
    BY <2>1 DEF Works, Finishes, Ends
  <2>4. QED
    BY <2>2, <2>3, AppendPlaces
<1>5. reply' \in [Req -> Answers]
  <2>1. reply' = reply \/ \E a \in Answers : reply' = [reply EXCEPT ![r] = a]
    BY DEF Works, Finishes, Ends
  <2>2. QED
    BY <2>1 DEF Typed, SamplerTypeOK
<1>6. joined' \subseteq [r : Req, ok : BOOLEAN] /\ panics' \in 0..MaxPanics
  <2>1. /\ joined' = joined \/ \E ok \in BOOLEAN : joined' = joined \cup {[r |-> r, ok |-> ok]}
        /\ panics' = panics \/ panics' \in 0..MaxPanics
    BY DEF Works, Finishes, Ends
  <2>2. QED
    BY <2>1 DEF Typed, SamplerTypeOK
<1>7. SamplerTypeOK'
  BY <1>1, <1>2, <1>4, <1>5, <1>6 DEF Typed, SamplerTypeOK
<1>8. Budget'
  BY <1>1 DEF Budget
<1>9. Handled' = Handled
  BY <1>2 DEF Handled, Total, turnVars
<1>10. Commands'
  BY <1>2, <1>9 DEF Commands, turnVars
<1>11. QED
  BY <1>3, <1>7, <1>8, <1>9, <1>10 DEF Typed

\* A task that works, finishes or ends was spawned and is not over.
LEMMA TaskRequests ==
  ASSUME SamplerAssumption, Typed, Requests, Reaped, NEW r \in Req, Handled' = Handled,
         Works(r) \/ Finishes(r) \/ Ends(r)
  PROVE  Requests' /\ Reaped' /\ reply[r] = "none" /\ ~Over(r)
<1>1. /\ \A s \in Req \ {r} : task'[s] = task[s]
      /\ task[r].pc \in Live
      /\ Works(r) => /\ task[r].pc \in Busy /\ task'[r].pc \in Busy
                     /\ task'[r].answer = task[r].answer
      /\ Finishes(r) => task[r].pc \in Busy /\ task'[r].pc = "closing"
      /\ Ends(r) => task'[r].pc = "done" /\ task'[r].answer = "none"
  BY OneTask
<1>2. UNCHANGED <<active, token>>
  BY DEF Works, Finishes, Ends
<1>3. ~Over(r) /\ task[r].pc # "none" /\ task'[r].pc # "none"
  BY <1>1 DEF Over, Live, Busy
<1>4. reply[r] = "none"
  BY <1>3 DEF Requests
<1>5. \A s \in Req : s # r => reply'[s] = reply[s]
  <2>1. reply' = reply \/ \E a : reply' = [reply EXCEPT ![r] = a]
    BY DEF Works, Finishes, Ends
  <2>2. QED
    BY <2>1 DEF Typed, SamplerTypeOK
<1>6. ASSUME NEW s \in Req
      PROVE  /\ task'[s].pc = "none" <=> 2 * s - 1 > Handled
             /\ 2 * s - 1 = Handled => s \in active \/ task'[s].pc = "done"
             /\ 2 * s <= Handled => s \in token \/ task'[s].pc = "done"
             /\ reply'[s] # "none" => task'[s].pc = "done"
             /\ task'[s].answer = "ok" => task'[s].pc = "closing"
  <2>1. CASE s = r
    <3>1. /\ ~(2 * r - 1 > Handled)
          /\ 2 * r - 1 = Handled => r \in active
          /\ 2 * r <= Handled => r \in token
      BY <1>3 DEF Requests
    <3>2. reply'[r] # "none" => task'[r].pc = "done"
      BY <1>1, <1>4 DEF Works, Finishes, Ends
    <3>3. task'[r].answer = "ok" => task'[r].pc = "closing"
      BY <1>1 DEF Requests, Busy
    <3>4. QED
      BY <1>3, <2>1, <3>1, <3>2, <3>3
  <2>2. CASE s # r
    BY <1>1, <1>5, <2>2 DEF Requests, Over
  <2>3. QED
    BY <2>1, <2>2
<1>7. Requests'
  BY <1>2, <1>6 DEF Requests, Over
<1>8. Reaped'
  <2>1. ASSUME NEW j \in joined' PROVE task'[j.r].pc = "done"
    <3>1. CASE j \in joined
      <4>1. j.r \in Req /\ task[j.r].pc = "done"
        BY <3>1 DEF Reaped, Over, Typed, SamplerTypeOK
      <4>2. j.r # r
        BY <1>3, <4>1 DEF Over
      <4>3. QED
        BY <1>1, <4>1, <4>2
    <3>2. CASE j \notin joined
      <4>1. Ends(r) /\ j.r = r
        BY <3>2 DEF Works, Finishes, Ends
      <4>2. QED
        BY <1>1, <4>1
    <3>3. QED
      BY <3>1, <3>2
  <2>2. QED
    BY <2>1 DEF Reaped, Over
<1>9. QED
  BY <1>3, <1>4, <1>7, <1>8
-----------------------------------------------------------------------------
(* The steps of the actor and of the drainer.                              *)

\* The command the actor takes is the one its count says.
LEMMA TakeCounts ==
  ASSUME Typed, Commands, cmds # <<>>, cmds' = Tail(cmds), UNCHANGED <<actor, turnVars>>
  PROVE  /\ Handled' = Handled + 1 /\ Commands' /\ cmds' \in Seq(Command)
         /\ Head(cmds).r \in Req
         /\ Head(cmds).op = "submit" => Handled + 1 = 2 * Head(cmds).r - 1
         /\ Head(cmds).op = "cancel" => Handled + 1 = 2 * Head(cmds).r
<1> PICK h \in Int : h = Handled
  BY CountsAreIntegers
<1>1. cmds \in Seq(Command) /\ InTurn(cmds, h) /\ h >= 0
  BY CountsAreIntegers DEF Commands
<1>2. /\ Tail(cmds) \in Seq(Command) /\ Len(Tail(cmds)) = Len(cmds) - 1
      /\ Head(cmds) \in Command /\ Len(cmds) \in Nat
  BY <1>1, TailPlaces
<1>3. /\ InTurn(Tail(cmds), h + 1)
      /\ Head(cmds).op = "submit" => h + 1 = 2 * Head(cmds).r - 1
      /\ Head(cmds).op = "cancel" => h + 1 = 2 * Head(cmds).r
  BY <1>1, InTurnAfterTake
<1>4. Handled' = h + 1
  <2>1. Total' = Total /\ Len(cmds') = Len(cmds) - 1 /\ Total \in Int
    BY <1>2, CountsAreIntegers DEF Total, turnVars
  <2>2. QED
    BY <1>2, <2>1 DEF Handled
<1>5. turn' = turn /\ actor' = actor
  BY DEF turnVars
<1>6. InTurn(cmds', Handled') /\ Handled' >= 0
  BY <1>1, <1>3, <1>4
<1>7. Commands'
  BY <1>5, <1>6 DEF Commands
<1>8. QED
  BY <1>2, <1>3, <1>4, <1>7 DEF Command

\* A submit spawns the next request's task.  (actor/mod.rs handle_command)
LEMMA SubmitCounts ==
  ASSUME SamplerAssumption, Typed, Budget, Commands, Requests, Reaped,
         HandleSubmit, UNCHANGED turnVars
  PROVE  /\ Typed' /\ Budget' /\ Commands' /\ Requests' /\ Reaped'
         /\ \E r \in Req : /\ task[r].pc = "none"
                           /\ task'[r].answer = task[r].answer
                           /\ \A s \in Req \ {r} : task'[s] = task[s]
<1> PICK h \in Int : h = Handled
  BY CountsAreIntegers
<1>1. cmds # <<>> /\ cmds' = Tail(cmds) /\ Head(cmds).op = "submit" /\ joined = {}
  BY DEF HandleSubmit
<1>2. UNCHANGED <<actor, token, joined, events, reply, panics, turnVars>>
  BY DEF HandleSubmit
<1>3. /\ Handled' = h + 1 /\ Commands' /\ cmds' \in Seq(Command) /\ Head(cmds).r \in Req
      /\ h + 1 = 2 * Head(cmds).r - 1
  BY <1>1, <1>2, TakeCounts
<1> PICK r \in Req : r = Head(cmds).r
  BY <1>3
<1>4. task' = [task EXCEPT ![r].pc = "ready"] /\ active' = active \cup {r}
  BY DEF HandleSubmit
<1>5. task[r] = NewTask /\ task[r].pc = "none" /\ r \in Nat
  <2>1. 2 * r - 1 > Handled /\ r \in Nat
    BY <1>3 DEF Req
  <2>2. QED
    BY <2>1 DEF Requests, Budget, Paid
<1> PICK t \in Task : t = [NewTask EXCEPT !.pc = "ready"]
  BY ZenonT(60), <1>5 DEF Typed, SamplerTypeOK, Task, Live
<1>6. /\ t.pc = "ready" /\ t.attempts = 0 /\ t.retries = 0 /\ t.doom = 0 /\ t.images = TRUE
      /\ t.answer = "none"
  BY DEF NewTask
<1>7. task' \in [Req -> Task] /\ task'[r] = t /\ \A s \in Req \ {r} : task'[s] = task[s]
  BY <1>4, <1>5 DEF Typed, SamplerTypeOK
<1>8. Paid(t)
  BY <1>6 DEF Paid, Grants, SamplerAssumption
<1>9. Budget'
  BY <1>7, <1>8 DEF Budget
<1>10. Typed'
  <2>1. TurnTypeOK'
    BY <1>2 DEF Typed, TurnTypeOK, turnVars
  <2>2. SamplerTypeOK'
    BY <1>2, <1>3, <1>4, <1>7 DEF Typed, SamplerTypeOK
  <2>3. QED
    BY <2>1, <2>2 DEF Typed
<1>11. Requests'
  <2>1. ASSUME NEW s \in Req
        PROVE  /\ task'[s].pc = "none" <=> 2 * s - 1 > h + 1
               /\ 2 * s - 1 = h + 1 => s \in active' \/ task'[s].pc = "done"
               /\ 2 * s <= h + 1 => s \in token' \/ task'[s].pc = "done"
               /\ reply'[s] # "none" => task'[s].pc = "done"
               /\ task'[s].answer = "ok" => task'[s].pc = "closing"
    <3>1. s \in Nat /\ /\ task[s].pc = "none" <=> 2 * s - 1 > h
                       /\ 2 * s <= h => s \in token \/ task[s].pc = "done"
                       /\ reply[s] # "none" => task[s].pc = "done"
                       /\ task[s].answer = "ok" => task[s].pc = "closing"
      BY DEF Requests, Req, Over
    <3>2. CASE s = r
      <4>1. reply[r] = "none" /\ ~(2 * r <= h + 1) /\ ~(2 * r - 1 > h + 1)
        BY <1>3, <1>5, <3>1, <3>2
      <4>2. QED
        BY <1>2, <1>4, <1>6, <1>7, <3>2, <4>1
    <3>3. CASE s # r
      <4>1. /\ 2 * s - 1 > h + 1 <=> 2 * s - 1 > h
            /\ 2 * s - 1 # h + 1 /\ (2 * s <= h + 1 => 2 * s <= h)
        <5>1. h + 1 = 2 * r - 1 /\ r \in Nat /\ s \in Nat
          BY <1>3, <1>5, <3>1
        <5>2. h = 2 * r - 2
          BY <5>1
        <5>3. s < r \/ s > r
          BY <3>3, <5>1
        <5>4. QED
          BY <5>1, <5>2, <5>3
      <4>2. task'[s] = task[s] /\ reply' = reply /\ token' = token
        BY <1>2, <1>7, <3>3
      <4>3. QED
        BY <3>1, <4>1, <4>2
    <3>4. QED
      BY <3>2, <3>3
  <2>2. QED
    BY <1>3, <2>1 DEF Requests, Over
<1>12. Reaped'
  BY <1>1, <1>2 DEF Reaped
<1>13. task'[r].answer = task[r].answer
  BY <1>5, <1>6, <1>7 DEF NewTask
<1>14. QED
  BY <1>3, <1>5, <1>7, <1>9, <1>10, <1>11, <1>12, <1>13

\* A cancel finds the request over, or fires its token.  (actor/mod.rs
\* handle_command)
LEMMA CancelCounts ==
  ASSUME SamplerAssumption, Typed, Budget, Commands, Requests, Reaped,
         HandleCancel, UNCHANGED turnVars
  PROVE  Typed' /\ Budget' /\ Commands' /\ Requests' /\ Reaped' /\ task' = task
<1> PICK h \in Int : h = Handled
  BY CountsAreIntegers
<1>1. cmds # <<>> /\ cmds' = Tail(cmds) /\ Head(cmds).op = "cancel" /\ joined = {}
  BY DEF HandleCancel
<1>2. UNCHANGED <<actor, joined, task, events, reply, panics, turnVars>>
  BY DEF HandleCancel
<1>3. /\ Handled' = h + 1 /\ Commands' /\ cmds' \in Seq(Command) /\ Head(cmds).r \in Req
      /\ h + 1 = 2 * Head(cmds).r
  BY <1>1, <1>2, TakeCounts
<1> PICK r \in Req : r = Head(cmds).r
  BY <1>3
<1>4. token' = token \cup (active \cap {r}) /\ active' = active \ {r} /\ r \in Nat
  BY DEF HandleCancel, Req
<1>5. Typed'
  <2>1. TurnTypeOK'
    BY <1>2 DEF Typed, TurnTypeOK, turnVars
  <2>2. SamplerTypeOK'
    BY <1>2, <1>3, <1>4 DEF Typed, SamplerTypeOK
  <2>3. QED
    BY <2>1, <2>2 DEF Typed
<1>6. Requests'
  <2>1. ASSUME NEW s \in Req
        PROVE  /\ task[s].pc = "none" <=> 2 * s - 1 > h + 1
               /\ 2 * s - 1 = h + 1 => s \in active' \/ task[s].pc = "done"
               /\ 2 * s <= h + 1 => s \in token' \/ task[s].pc = "done"
               /\ reply[s] # "none" => task[s].pc = "done"
               /\ task[s].answer = "ok" => task[s].pc = "closing"
    <3>1. s \in Nat /\ /\ task[s].pc = "none" <=> 2 * s - 1 > h
                       /\ 2 * s - 1 = h => s \in active \/ task[s].pc = "done"
                       /\ 2 * s <= h => s \in token \/ task[s].pc = "done"
                       /\ reply[s] # "none" => task[s].pc = "done"
                       /\ task[s].answer = "ok" => task[s].pc = "closing"
      BY DEF Requests, Req, Over
    <3>2. 2 * s - 1 # h + 1 /\ (2 * s - 1 > h + 1 <=> 2 * s - 1 > h)
      BY <1>3, <1>4, <3>1
    <3>3. CASE s = r
      <4>1. 2 * s - 1 = h
        BY <1>3, <1>4, <3>3
      <4>2. QED
        BY <1>4, <3>1, <3>2, <3>3, <4>1
    <3>4. CASE s # r
      <4>1. 2 * s <= h + 1 => 2 * s <= h
        BY <1>3, <1>4, <3>1, <3>4
      <4>2. QED
        BY <1>4, <3>1, <3>2, <4>1
    <3>5. QED
      BY <3>3, <3>4
  <2>2. QED
    BY <1>2, <1>3, <2>1 DEF Requests, Over
<1>7. Reaped' /\ Budget'
  BY <1>1, <1>2 DEF Reaped, Budget
<1>8. QED
  BY <1>2, <1>3, <1>5, <1>6, <1>7

\* Steps that take no command and touch no task: reaping, and the actor's end.
LEMMA QuietCounts ==
  ASSUME SamplerAssumption, Typed, Budget, Commands, Requests, Reaped, UNCHANGED turnVars,
         (\E j \in joined : Reap(j)) \/ Stop
  PROVE  Typed' /\ Budget' /\ Commands' /\ Requests' /\ Reaped' /\ task' = task
<1>1. UNCHANGED <<cmds, task, events, reply, panics>> /\ joined' \subseteq joined
  BY DEF Reap, Stop
<1>2. active' \subseteq active /\ token \subseteq token' /\ token' \subseteq token \cup active
      /\ actor' \in {actor, "stopped"} /\ (actor' # actor => Stop)
  BY DEF Reap, Stop
<1>3. Typed'
  <2>1. TurnTypeOK'
    BY DEF Typed, TurnTypeOK, turnVars
  <2>2. SamplerTypeOK'
    BY <1>1, <1>2 DEF Typed, SamplerTypeOK
  <2>3. QED
    BY <2>1, <2>2 DEF Typed
<1>4. turn' = turn /\ Handled' = Handled
  BY <1>1 DEF Handled, Total, turnVars
<1>5. Commands'
  BY <1>1, <1>2, <1>4 DEF Commands, Stop
<1>6. ASSUME NEW s \in Req, 2 * s - 1 = Handled PROVE s \in active' \/ Over(s)
  <2>1. s \in active \/ Over(s)
    BY <1>6 DEF Requests
  <2>2. CASE \E j \in joined : Reap(j)
    <3>1. PICK j \in joined : Reap(j)
      BY <2>2
    <3>2. Over(j.r) /\ active' \in {active, active \ {j.r}}
      BY <3>1 DEF Reap, Reaped
    <3>3. QED
      BY <2>1, <3>2
  <2>3. CASE Stop
    <3>1. cmds = <<>> /\ turn.pc = "idle"
      BY <2>3 DEF Stop, Commands
    <3>2. Handled = 2 * turn.r /\ turn.r \in Nat
      <4>1. Len(cmds) = 0
        BY <3>1
      <4>2. QED
        BY <3>1, <4>1, CountsAreIntegers DEF Handled, Total
    <3>3. s \in Nat
      BY DEF Req
    <3>4. QED
      BY <1>6, <3>2, <3>3
  <2>4. QED
    BY <2>2, <2>3
<1>7. Requests'
  BY <1>1, <1>2, <1>4, <1>6 DEF Requests, Over
<1>8. Reaped' /\ Budget'
  BY <1>1 DEF Reaped, Over, Budget
<1>9. QED
  BY <1>1, <1>3, <1>5, <1>7, <1>8

\* The drainer's step.
LEMMA DrainCounts ==
  ASSUME SamplerAssumption, Typed, Budget, Commands, Requests, Reaped, Slot, Drain
  PROVE  /\ Typed' /\ Budget' /\ Commands' /\ Requests' /\ Reaped' /\ Slot'
         /\ task' = task /\ reply' = reply /\ turn' = turn
<1>1. UNCHANGED <<actor, cmds, active, token, joined, task, reply, panics, turn, auth>>
  BY DEF Drain
<1>2. events' \in Seq(Event)
  BY TailPlaces DEF Drain, Typed, SamplerTypeOK
<1>3. slot' \in {0, slot} /\ opened' \subseteq opened \cup ({slot} \ {0})
  BY DEF Drain
<1>4. slot \in 0..MaxReq /\ opened \subseteq Req /\ turn.r \in 0..MaxReq /\ MaxReq \in Nat
  BY DEF Typed, TurnTypeOK, SamplerAssumption
<1>5. Slot'
  BY <1>1, <1>3, <1>4 DEF Slot
<1>6. TurnTypeOK'
  <2>1. slot' \in 0..MaxReq /\ opened' \subseteq Req
    BY <1>3, <1>4 DEF Req
  <2>2. QED
    BY <1>1, <2>1 DEF Typed, TurnTypeOK
<1>7. SamplerTypeOK'
  BY <1>1, <1>2 DEF Typed, SamplerTypeOK
<1>8. Handled' = Handled
  BY <1>1 DEF Handled, Total
<1>9. Commands' /\ Requests' /\ Reaped' /\ Budget'
  BY <1>1, <1>8 DEF Commands, Requests, Reaped, Over, Budget
<1>10. QED
  BY <1>1, <1>5, <1>6, <1>7, <1>9 DEF Typed
-----------------------------------------------------------------------------
(* The event channel and the barriers.                                     *)

\* What the channel holds, now and after the step.
LEMMA HoldsIsHeld ==
  ASSUME NEW kind, NEW r
  PROVE  /\ Holds(kind, r) <=> HeldIn(events, kind, r)
         /\ Holds(kind, r)' <=> HeldIn(events', kind, r)
BY DEF Holds, HeldIn

\* Nothing that was sent is unsent.
Forward ==
    \A s \in Req : /\ Emitted(s) => Emitted(s)'
                   /\ Past(s) => Past(s)'

\* A task that is not past its last event may send one.  (request_task.rs: the
\* terminal event is the last)
LEMMA TaskOrder ==
  ASSUME SamplerAssumption, Typed, Requests, Order, NEW r \in Req,
         reply[r] = "none", ~Over(r), Works(r) \/ Finishes(r) \/ Ends(r)
  PROVE  /\ Order' /\ Forward
         /\ \A kind, s : /\ Holds(kind, s) => Holds(kind, s)'
                         /\ s # r => (Holds(kind, s)' => Holds(kind, s))
         /\ Works(r) \/ Finishes(r) => ~Past(r)
         /\ Ends(r) => events' = events
         /\ task'[r].answer = "ok" => Holds("completed", r)' \/ task[r].answer = "ok"
<1>1. /\ task \in [Req -> Task] /\ reply \in [Req -> Answers] /\ events \in Seq(Event)
  BY DEF Typed, SamplerTypeOK
<1>2. /\ \A s \in Req \ {r} : task'[s] = task[s]
      /\ Works(r) => /\ task[r].pc \in Busy /\ task'[r].pc \in Busy
                     /\ task'[r].answer = task[r].answer
      /\ Finishes(r) => task[r].pc \in Busy /\ task'[r].pc = "closing"
      /\ Ends(r) => task'[r].pc = "done" /\ task'[r].answer = "none"
  BY OneTask
<1>3. Works(r) \/ Finishes(r) => ~Past(r) /\ task[r].answer # "ok"
  BY <1>2 DEF Past, Busy, Requests
<1>4. reply' = reply \/ \E a : reply' = [reply EXCEPT ![r] = a]
  BY DEF Works, Finishes, Ends
<1>5. Forward
  <2>1. ASSUME NEW s \in Req, s # r PROVE (Emitted(s) => Emitted(s)') /\ (Past(s) => Past(s)')
    <3>1. task'[s] = task[s] /\ reply'[s] = reply[s]
      BY <1>1, <1>2, <1>4, <2>1
    <3>2. QED
      BY <3>1 DEF Emitted, Past
  <2>2. (Emitted(r) => Emitted(r)') /\ (Past(r) => Past(r)')
    <3>1. Emitted(r) => task[r].answer = "ok"
      BY DEF Emitted
    <3>2. CASE Works(r) \/ Finishes(r)
      BY <1>3, <3>1, <3>2
    <3>3. CASE Ends(r)
      <4>1. PICK a \in Answers :
              /\ a = "dropped" \/ (task[r].pc = "closing" /\ a = task[r].answer)
              /\ reply' = [reply EXCEPT ![r] = a]
        BY <3>3 DEF Ends
      <4>2. reply'[r] = a
        BY <1>1, <4>1
      <4>3. QED
        BY <1>2, <3>1, <3>3, <4>1, <4>2 DEF Emitted, Past
    <3>4. QED
      BY <3>2, <3>3
  <2>3. QED
    BY <2>1, <2>2 DEF Forward
<1>6. Works(r) \/ Finishes(r) => ~HeldIn(events, "completed", r)
  BY <1>3, HoldsIsHeld DEF Order
<1>7. ASSUME NEW kind \in {"chunk", "retrying", "completed", "failed"},
             ~HeldIn(events, "completed", r),
             events' = Append(events, [kind |-> kind, r |-> r])
      PROVE  /\ LastOfItsOwn(events')
             /\ \A k, s : HeldIn(events', k, s) <=>
                            HeldIn(events, k, s) \/ (k = kind /\ s = r)
  <2> PICK e \in Event : e = [kind |-> kind, r |-> r]
    BY DEF Event
  <2>1. e.r = r /\ e.kind = kind /\ events' = Append(events, e)
    BY <1>7
  <2>2. LastOfItsOwn(events')
    BY <1>1, <1>7, <2>1, LastAfterSend DEF Order
  <2>3. ASSUME NEW k, NEW s
        PROVE  HeldIn(events', k, s) <=> HeldIn(events, k, s) \/ (k = kind /\ s = r)
    <3>1. HeldIn(events', k, s) <=> HeldIn(events, k, s) \/ e = [kind |-> k, r |-> s]
      BY <1>1, <2>1, HeldAfterSend
    <3>2. e = [kind |-> k, r |-> s] <=> k = kind /\ s = r
      <4>1. [kind |-> k, r |-> s].kind = k /\ [kind |-> k, r |-> s].r = s
        OBVIOUS
      <4>2. QED
        BY <2>1, <4>1
    <3>3. QED
      BY <3>1, <3>2
  <2>4. QED
    BY <2>2, <2>3
<1>8. /\ LastOfItsOwn(events)
      /\ \A s \in Req : HeldIn(events, "completed", s) => Emitted(s) /\ Past(s)
  BY HoldsIsHeld DEF Order
<1>9. CASE events' = events
  <2>1. Order'
    BY <1>5, <1>8, <1>9, HoldsIsHeld DEF Order, Forward
  <2>2. \A kind, s : Holds(kind, s)' <=> Holds(kind, s)
    BY <1>9, HoldsIsHeld
  <2>3. task'[r].answer = "ok" => Holds("completed", r)' \/ task[r].answer = "ok"
    <3>1. ~Finishes(r)
      <4>1. ASSUME NEW k, NEW x PROVE Append(events, x) # events
        <5>1. Len(Append(events, x)) = Len(events) + 1 /\ Len(events) \in Nat
          BY <1>1
        <5>2. QED
          BY <5>1
      <4>2. QED
        BY <1>9, <4>1 DEF Finishes
    <3>2. QED
      BY <1>2, <3>1
  <2>4. QED
    BY <1>3, <1>5, <2>1, <2>2, <2>3 DEF Ends
<1>10. CASE Works(r) /\ events' # events
  <2>1. PICK kind \in {"chunk", "retrying"} : events' = Append(events, [kind |-> kind, r |-> r])
    BY <1>10 DEF Works
  <2>2. /\ LastOfItsOwn(events')
        /\ \A k, s : HeldIn(events', k, s) <=> HeldIn(events, k, s) \/ (k = kind /\ s = r)
    BY <1>6, <1>7, <1>10, <2>1
  <2>3. \A s \in Req : HeldIn(events', "completed", s) => Emitted(s)' /\ Past(s)'
    BY <1>5, <1>8, <2>2 DEF Forward
  <2>4. Order'
    BY <2>2, <2>3, HoldsIsHeld DEF Order
  <2>5. \A k, s : Holds(k, s)' <=> Holds(k, s) \/ (k = kind /\ s = r)
    BY <2>2, HoldsIsHeld
  <2>6. QED
    BY <1>2, <1>3, <1>5, <1>10, <2>4, <2>5 DEF Ends
<1>11. CASE Finishes(r)
  <2>1. PICK kind \in {"completed", "failed"}, a \in Answers :
          /\ a = "ok" <=> kind = "completed"
          /\ task' = [task EXCEPT ![r] = Spent("closing", a)]
          /\ events' = Append(events, [kind |-> kind, r |-> r])
    BY <1>11 DEF Finishes
  <2>2. /\ LastOfItsOwn(events')
        /\ \A k, s : HeldIn(events', k, s) <=> HeldIn(events, k, s) \/ (k = kind /\ s = r)
    BY <1>6, <1>7, <1>11, <2>1
  <2>3. task'[r].answer = a /\ task'[r].pc = "closing"
    BY <1>1, <2>1, SpentIsPaid
  <2>4. kind = "completed" => Emitted(r)' /\ Past(r)'
    BY <2>1, <2>3 DEF Emitted, Past
  <2>5. \A s \in Req : HeldIn(events', "completed", s) => Emitted(s)' /\ Past(s)'
    BY <1>5, <1>8, <2>2, <2>4 DEF Forward
  <2>6. Order'
    BY <2>2, <2>5, HoldsIsHeld DEF Order
  <2>7. \A k, s : Holds(k, s)' <=> Holds(k, s) \/ (k = kind /\ s = r)
    BY <2>2, HoldsIsHeld
  <2>8. ~Ends(r)
    BY <1>2, <2>3
  <2>9. QED
    BY <1>3, <1>5, <1>11, <2>1, <2>3, <2>6, <2>7, <2>8
<1>12. QED
  BY <1>9, <1>10, <1>11 DEF Ends

\* The openings survive a step that opens no barrier and unsends nothing.
LEMMA OpeningsKept ==
  ASSUME SamplerAssumption, Typed, Openings, opened' = opened, Forward,
         \A s \in Req : Sent(s) => Sent(s)'
  PROVE  Openings'
<1>1. opened \subseteq Req /\ Req = 1..MaxReq
  BY DEF Typed, TurnTypeOK, Req
<1>2. ASSUME NEW r \in opened PROVE Sent(r)' \/ OpenedByAnother(r)'
  <2>1. CASE Sent(r)
    BY <1>1, <2>1
  <2>2. CASE OpenedByAnother(r)
    <3>1. PICK s \in 1..(r - 1) : s \notin opened /\ Emitted(s)
      BY <2>2 DEF OpenedByAnother, Emitted
    <3>2. s \in Req
      <4>1. r \in 1..MaxReq /\ MaxReq \in Nat
        BY <1>1 DEF SamplerAssumption
      <4>2. s \in 1..MaxReq
        BY <4>1
      <4>3. QED
        BY <1>1, <4>2
    <3>3. Emitted(s)' /\ s \notin opened'
      BY <3>1, <3>2 DEF Forward
    <3>4. QED
      BY <3>1, <3>3 DEF OpenedByAnother, Emitted
  <2>3. QED
    BY <1>2, <2>1, <2>2 DEF Openings
<1>3. QED
  BY <1>2 DEF Openings

\* The barriers, when a task moves.
LEMMA TaskBarriers ==
  ASSUME SamplerAssumption, Typed, Commands, Requests, Order, Slot, Waits, Openings,
         NEW r \in Req, reply[r] = "none", ~Over(r), Works(r) \/ Finishes(r) \/ Ends(r)
  PROVE  Order' /\ Slot' /\ Waits' /\ Openings'
<1>1. /\ Order' /\ Forward
      /\ \A kind, s : /\ Holds(kind, s) => Holds(kind, s)'
                      /\ s # r => (Holds(kind, s)' => Holds(kind, s))
      /\ Works(r) \/ Finishes(r) => ~Past(r)
      /\ Ends(r) => events' = events
      /\ task'[r].answer = "ok" => Holds("completed", r)' \/ task[r].answer = "ok"
  BY TaskOrder
<1>2. turn' = turn /\ slot' = slot /\ opened' = opened
  BY DEF Works, Finishes, Ends, turnVars
<1>3. Slot'
  BY <1>2 DEF Slot
<1>4. \A s \in Req : Sent(s) => Sent(s)'
  <2>1. ASSUME NEW s \in Req, Sent(s) PROVE Sent(s)'
    <3>1. Past(s)' /\ Past(s)
      BY <1>1, <2>1 DEF Forward, Sent
    <3>2. \A kind : Holds(kind, s)' => Holds(kind, s)
      BY <1>1, <3>1, HoldsIsHeld
    <3>3. QED
      BY <2>1, <3>1, <3>2 DEF Sent
  <2>2. QED
    BY <2>1
<1>5. Openings'
  BY <1>1, <1>2, <1>4, OpeningsKept
<1>6. \A s \in Req : /\ task'[s].answer = "ok" => Holds("completed", s)' \/ task[s].answer = "ok"
                     /\ reply'[s] = "ok" => reply[s] = "ok" \/ task[s].answer = "ok"
                     /\ reply[s] = "ok" => reply'[s] = "ok"
  <2>1. \A s \in Req \ {r} : task'[s] = task[s]
    BY OneTask
  <2>2. \/ reply' = reply
        \/ \E a \in Answers :
             /\ a = "dropped" \/ (task[r].pc = "closing" /\ a = task[r].answer)
             /\ reply' = [reply EXCEPT ![r] = a]
    BY DEF Works, Finishes, Ends
  <2>3. reply \in [Req -> Answers]
    BY DEF Typed, SamplerTypeOK
  <2>4. QED
    BY <1>1, <2>1, <2>2, <2>3
<1>7. Waits'
  <2>1. turn.pc \in {"awaiting", "draining"} => turn.r \in Req
    BY CountsAreIntegers DEF Commands, Req
  <2>2. turn'.pc = "draining" => reply'[turn'.r] = "ok"
    BY <1>2, <1>6, <2>1 DEF Waits
  <2>3. ASSUME turn'.pc \in {"awaiting", "draining"}
        PROVE  /\ slot' = turn'.r \/ turn'.r \in opened'
               /\ reply'[turn'.r] = "ok" \/ task'[turn'.r].answer = "ok"
                    => Holds("completed", turn.r)' \/ turn'.r \in opened'
    BY <1>1, <1>2, <1>6, <2>1, <2>3 DEF Waits
  <2>4. QED
    BY <2>2, <2>3 DEF Waits
<1>8. QED
  BY <1>1, <1>3, <1>5, <1>7
\* The barriers, when the actor moves: at most a task is spawned.
LEMMA ActorBarriers ==
  ASSUME SamplerAssumption, Typed, Commands, Order, Slot, Waits, Openings,
         UNCHANGED <<events, reply, turnVars>>,
         \A s \in Req : task'[s].answer = task[s].answer /\ (Past(s) => Past(s)')
  PROVE  Order' /\ Slot' /\ Waits' /\ Openings'
<1>1. turn' = turn /\ slot' = slot /\ opened' = opened /\ events' = events /\ reply' = reply
  BY DEF turnVars
<1>2. Forward
  BY <1>1 DEF Forward, Emitted
<1>3. \A kind, s : Holds(kind, s)' <=> Holds(kind, s)
  BY <1>1, HoldsIsHeld
<1>4. Order'
  BY <1>1, <1>2, <1>3 DEF Order, Forward
<1>5. Slot'
  BY <1>1 DEF Slot
<1>6. \A s \in Req : Sent(s) => Sent(s)'
  BY <1>2, <1>3 DEF Sent, Forward
<1>7. Openings'
  BY <1>1, <1>2, <1>6, OpeningsKept
<1>8. Waits'
  <2>1. turn.pc \in {"awaiting", "draining"} => turn.r \in Req
    BY CountsAreIntegers DEF Commands, Req
  <2>2. \A s \in Req : task'[s].answer = task[s].answer
    OBVIOUS
  <2>3. QED
    BY <1>1, <1>3, <2>1, <2>2 DEF Waits
<1>9. QED
  BY <1>4, <1>5, <1>7, <1>8

\* A request that was not submitted yet has no task.
LEMMA NotSubmitted ==
  ASSUME Typed, Requests, NEW r \in Req, turn.r < r
  PROVE  task[r].pc = "none" /\ reply[r] # "ok" /\ task[r].answer # "ok"
<1>1. PICK t \in Nat, n \in Nat : t = turn.r /\ n = Len(cmds)
  BY CountsAreIntegers
<1>2. Handled <= 2 * t
  <2>1. Handled \in {2 * t - 1 - n, 2 * t - n}
    BY <1>1 DEF Handled, Total
  <2>2. QED
    BY <2>1
<1>3. r \in Nat /\ t < r /\ 2 * r - 1 > 2 * t
  <2>1. r \in Nat /\ t < r
    BY <1>1 DEF Req
  <2>2. QED
    BY <2>1
<1>4. 2 * r - 1 > Handled
  BY <1>2, <1>3, CountsAreIntegers
<1>5. QED
  BY <1>4 DEF Requests, Over

\* The barriers, when the turn moves: it installs its own before it waits.
\* (sampler_turn.rs run_turn_via_sampler)
LEMMA SessionBarriers ==
  ASSUME SamplerAssumption, Typed, Commands, Requests, Order, Slot, Waits, Openings, Session,
         UNCHANGED <<task, events, reply>>
  PROVE  Order' /\ Slot' /\ Waits' /\ Openings'
<1>1. /\ turn.r \in 0..MaxReq /\ MaxReq \in Nat /\ Req = 1..MaxReq /\ opened \subseteq 1..turn.r
      /\ opened \subseteq Req /\ slot \in {0, turn.r}
      /\ \A pc : [turn EXCEPT !.pc = pc].r = turn.r /\ [turn EXCEPT !.pc = pc].pc = pc
  BY DEF Typed, TurnTypeOK, Slot, SamplerAssumption, Req
<1>2. opened' = opened
  BY DEF Session, TurnStep, Submit, Response, Failure, PassBarrier, GiveUpBarrier, EndTurn,
         DropTurn, CloseSession, turnVars
<1>3. Forward
  BY DEF Forward, Emitted, Past
<1>4. \A kind, s : Holds(kind, s)' <=> Holds(kind, s)
  BY HoldsIsHeld
<1>5. Order'
  BY <1>3, <1>4 DEF Order, Forward
<1>6. \A s \in Req : Sent(s) => Sent(s)'
  BY <1>3, <1>4 DEF Sent, Forward
<1>7. Openings'
  BY <1>2, <1>3, <1>6, OpeningsKept
<1>8. CASE Submit
  <2>1. turn'.pc = "awaiting" /\ turn'.r = turn.r + 1 /\ slot' = turn.r + 1 /\ turn.r < MaxReq
    BY <1>8 DEF Submit
  <2>2. Slot'
    <3>1. 1..turn.r \subseteq 1..(turn.r + 1)
      BY <1>1
    <3>2. QED
      BY <1>1, <1>2, <2>1, <3>1 DEF Slot
  <2>3. PICK r \in Req : r = turn.r + 1 /\ turn.r < r
    <3>1. turn.r + 1 \in 1..MaxReq /\ turn.r < turn.r + 1
      BY <1>1, <2>1
    <3>2. QED
      BY <1>1, <3>1
  <2>4. reply[r] # "ok" /\ task[r].answer # "ok"
    BY <2>3, NotSubmitted
  <2>5. Waits'
    BY <2>1, <2>3, <2>4 DEF Waits
  <2>6. QED
    BY <1>5, <1>7, <2>2, <2>5
<1>9. CASE Response
  <2>1. /\ turn'.pc = "draining" /\ turn'.r = turn.r /\ slot' = slot
        /\ turn.pc = "awaiting" /\ reply[turn.r] = "ok"
    BY <1>1, <1>9 DEF Response
  <2>2. Slot'
    BY <1>1, <1>2, <2>1 DEF Slot
  <2>3. Holds("completed", turn.r)' <=> Holds("completed", turn.r)
    BY <1>4, <2>1, HoldsIsHeld
  <2>4. Waits'
    BY <1>2, <2>1, <2>3 DEF Waits
  <2>5. QED
    BY <1>5, <1>7, <2>2, <2>4
<1>10. CASE Failure \/ PassBarrier \/ GiveUpBarrier \/ EndTurn \/ DropTurn \/ CloseSession
  <2>1. turn'.r = turn.r /\ turn'.pc \notin {"awaiting", "draining"} /\ slot' \in {0, slot}
    <3>1. CASE Failure
      BY ZenonT(60), <1>1, <3>1 DEF Failure
    <3>2. CASE PassBarrier \/ GiveUpBarrier \/ EndTurn \/ DropTurn
      BY <1>1, <3>2 DEF PassBarrier, GiveUpBarrier, EndTurn, DropTurn
    <3>3. CASE CloseSession
      BY <1>1, <3>3 DEF CloseSession, turnVars
    <3>4. QED
      BY <1>10, <3>1, <3>2, <3>3
  <2>2. Slot'
    BY <1>1, <1>2, <2>1 DEF Slot
  <2>3. Waits'
    BY <2>1 DEF Waits
  <2>4. QED
    BY <1>5, <1>7, <2>2, <2>3
<1>11. QED
  BY <1>8, <1>9, <1>10 DEF Session, TurnStep

\* A Completed event opens the barrier in the slot: the request's own, behind
\* its own text, or a later one's, and then its own stays shut.
\* (tool_calls.rs handle_sampling_event)
LEMMA DrainBarriers ==
  ASSUME SamplerAssumption, Typed, Commands, Requests, Order, Slot, Waits, Openings, Drain
  PROVE  Order' /\ Waits' /\ Openings'
<1>1. /\ UNCHANGED <<actor, cmds, active, token, joined, task, reply, panics, turn, auth>>
      /\ events # <<>> /\ events' = Tail(events) /\ events \in Seq(Event)
  BY DEF Drain, Typed, SamplerTypeOK
<1>2. /\ turn.r \in 0..MaxReq /\ MaxReq \in Nat /\ Req = 1..MaxReq /\ opened \subseteq 1..turn.r
      /\ opened \subseteq Req /\ slot \in {0, turn.r}
  BY DEF Typed, TurnTypeOK, Slot, SamplerAssumption, Req
<1>3. Forward
  BY <1>1 DEF Forward, Emitted, Past
<1>4. /\ LastOfItsOwn(events')
      /\ Head(events).kind = "completed" => \A kind : ~HeldIn(events', kind, Head(events).r)
  BY <1>1, LastAfterTake DEF Order
<1>5. \A kind, s : Holds(kind, s)' => Holds(kind, s)
  BY <1>1, HeldAfterTake, HoldsIsHeld
<1>6. Order'
  BY <1>3, <1>4, <1>5 DEF Order, Forward
<1>7. \A s \in Req : Sent(s) => Sent(s)'
  BY <1>3, <1>5 DEF Sent, Forward
<1>8. Head(events) \in Event
  BY <1>1, TailPlaces
<1>9. CASE Head(events).kind # "completed"
  <2>1. slot' = slot /\ opened' = opened
    BY <1>9 DEF Drain
  <2>2. Openings'
    BY <1>3, <1>7, <2>1, OpeningsKept
  <2>3. ASSUME NEW r PROVE Holds("completed", r) => Holds("completed", r)'
    <3>1. Head(events) # [kind |-> "completed", r |-> r]
      BY <1>9
    <3>2. QED
      BY <1>1, <3>1, HeldAfterTake, HoldsIsHeld
  <2>4. Waits'
    <3>1. turn' = turn /\ reply' = reply /\ task' = task
      BY <1>1
    <3>2. Holds("completed", turn.r) => Holds("completed", turn.r)'
      BY <2>3, <3>1
    <3>3. QED
      BY <2>1, <3>1, <3>2 DEF Waits
  <2>5. QED
    BY <1>6, <2>2, <2>4
<1>10. CASE Head(events).kind = "completed"
  <2> PICK s \in Req : s = Head(events).r
    BY <1>8 DEF Event
  <2>1. slot' = 0 /\ opened' = opened \cup ({slot} \ {0})
    BY <1>10 DEF Drain
  <2>2. Waits'
    <3>1. turn' = turn /\ reply' = reply
      BY <1>1
    <3>2. turn.pc \in {"awaiting", "draining"} => turn.r \in opened'
      <4>1. turn.pc \in {"awaiting", "draining"} => turn.r > 0
        BY DEF Commands
      <4>2. QED
        BY <1>2, <2>1, <4>1 DEF Waits
    <3>3. QED
      BY <3>1, <3>2 DEF Waits
  <2>3. Holds("completed", s) /\ \A kind : ~Holds(kind, s)'
    <3>1. Head(events) = [kind |-> "completed", r |-> s]
      BY <1>8, <1>10 DEF Event
    <3>2. HeldIn(events, "completed", s)
      <4>1. 1 \in DOMAIN events /\ events[1] = Head(events)
        BY <1>1, TailPlaces
      <4>2. QED
        BY <3>1, <4>1 DEF HeldIn
    <3>3. QED
      BY <1>4, <1>10, <3>2, HoldsIsHeld
  <2>4. Emitted(s) /\ Past(s) /\ Emitted(s)' /\ Past(s)'
    BY <1>3, <2>3 DEF Order, Forward
  <2>5. s <= turn.r
    <3>1. ~(turn.r < s)
      BY <2>4, NotSubmitted DEF Past
    <3>2. QED
      BY <1>2, <3>1
  <2>6. ASSUME NEW r \in Req, NEW w \in 1..(r - 1), r <= turn.r, w \notin opened, Emitted(w)
        PROVE  OpenedByAnother(r)'
    <3>1. w # slot /\ w \in Req
      BY <1>2, <2>6
    <3>2. w \notin opened' /\ Emitted(w)'
      BY <1>3, <2>1, <2>6, <3>1 DEF Forward
    <3>3. QED
      BY <3>2 DEF OpenedByAnother, Emitted
  <2>7. ASSUME NEW r \in opened PROVE Sent(r)' \/ OpenedByAnother(r)'
    <3>1. r \in Req /\ r <= turn.r
      BY <1>2
    <3>2. CASE Sent(r)
      BY <1>7, <3>1, <3>2
    <3>3. CASE OpenedByAnother(r)
      <4>1. PICK w \in 1..(r - 1) : w \notin opened /\ Emitted(w)
        BY <3>3 DEF OpenedByAnother, Emitted
      <4>2. QED
        BY <2>6, <3>1, <4>1
    <3>4. QED
      BY <3>2, <3>3 DEF Openings
  <2>8. ASSUME NEW r \in Req, r = slot, r = turn.r PROVE Sent(r)' \/ OpenedByAnother(r)'
    <3>1. r \in Nat /\ r <= turn.r
      BY <1>2, <2>8
    <3>2. CASE s = r
      <4>1. Sent(s)'
        BY <2>3, <2>4 DEF Sent
      <4>2. QED
        BY <3>2, <4>1
    <3>3. CASE s # r /\ s \notin opened
      <4>1. s \in 1..(r - 1)
        BY <1>2, <2>5, <2>8, <3>1, <3>3
      <4>2. QED
        BY <2>4, <2>6, <3>1, <3>3, <4>1
    <3>4. CASE s # r /\ s \in opened
      <4>1. ~Sent(s)
        BY <2>3 DEF Sent
      <4>2. PICK w \in 1..(s - 1) : w \notin opened /\ Emitted(w)
        BY <3>4, <4>1 DEF Openings, OpenedByAnother, Emitted
      <4>3. w \in 1..(r - 1) /\ r <= turn.r
        BY <1>2, <2>5, <2>8, <3>1, <3>4
      <4>4. QED
        BY <2>6, <3>1, <4>2, <4>3
    <3>5. QED
      BY <3>2, <3>3, <3>4
  <2>9. Openings'
    <3>1. \A r \in opened' : r \in opened \/ (r = slot /\ r = turn.r /\ r \in Req)
      BY <1>2, <2>1
    <3>2. QED
      BY <2>7, <2>8, <3>1 DEF Openings
  <2>10. QED
    BY <1>6, <2>2, <2>9
<1>11. QED
  BY <1>9, <1>10
-----------------------------------------------------------------------------
(* The theorems.                                                           *)

\* The conjunction is inductive.
LEMMA Inductive ==
  ASSUME SamplerAssumption, AuthRetriesAssumption, IInv, [Next]_vars PROVE IInv'
<1> USE DEF IInv
<1>1. CASE Session
  <2>1. /\ Typed' /\ Commands' /\ Handled' = Handled
        /\ UNCHANGED <<active, token, joined, task, events, reply, panics>>
    BY <1>1, SessionCounts
  <2>2. Budget' /\ Requests' /\ Reaped'
    BY <2>1 DEF Budget, Requests, Reaped, Over
  <2>3. Order' /\ Slot' /\ Waits' /\ Openings'
    BY <1>1, <2>1, SessionBarriers
  <2>4. QED
    BY <2>1, <2>2, <2>3
<1>2. CASE Drain
  BY <1>2, DrainCounts, DrainBarriers
<1>3. CASE SamplerNext /\ UNCHANGED turnVars
  <2>1. CASE ActorStep
    <3>1. UNCHANGED <<events, reply, turnVars>>
      BY <1>3, <2>1 DEF ActorStep, Reap, HandleSubmit, HandleCancel, Stop
    <3>2. /\ Typed' /\ Budget' /\ Commands' /\ Requests' /\ Reaped'
          /\ \A s \in Req : task'[s].answer = task[s].answer /\ (Past(s) => Past(s)')
      <4>1. CASE HandleSubmit
        <5>1. /\ Typed' /\ Budget' /\ Commands' /\ Requests' /\ Reaped'
              /\ \E r \in Req : /\ task[r].pc = "none"
                                /\ task'[r].answer = task[r].answer
                                /\ \A s \in Req \ {r} : task'[s] = task[s]
          BY <1>3, <4>1, SubmitCounts
        <5>2. QED
          BY <5>1 DEF Past
      <4>2. CASE HandleCancel
        BY <1>3, <4>2, CancelCounts DEF Past
      <4>3. CASE (\E j \in joined : Reap(j)) \/ Stop
        BY <1>3, <4>3, QuietCounts DEF Past
      <4>4. QED
        BY <2>1, <4>1, <4>2, <4>3 DEF ActorStep
    <3>3. Order' /\ Slot' /\ Waits' /\ Openings'
      BY <3>1, <3>2, ActorBarriers
    <3>4. QED
      BY <3>2, <3>3
  <2>2. CASE \E r \in Req : TaskStep(r) \/ Answered(r) \/ Panic(r)
    <3>1. PICK r \in Req : Works(r) \/ Finishes(r) \/ Ends(r)
      BY <1>3, <2>2, TaskKinds
    <3>2. Typed' /\ Budget' /\ Commands' /\ Handled' = Handled
      BY <3>1, TaskCounts
    <3>3. Requests' /\ Reaped' /\ reply[r] = "none" /\ ~Over(r)
      BY <3>1, <3>2, TaskRequests
    <3>4. Order' /\ Slot' /\ Waits' /\ Openings'
      BY <3>1, <3>3, TaskBarriers
    <3>5. QED
      BY <3>2, <3>3, <3>4
  <2>3. QED
    BY <1>3, <2>1, <2>2 DEF SamplerNext
<1>4. CASE UNCHANGED vars
  <2>1. /\ UNCHANGED <<actor, cmds, active, token, joined, task, events, reply, panics>>
        /\ UNCHANGED <<turn, auth, slot, opened>>
    BY <1>4 DEF vars, samplerVars, turnVars
  <2>2. Typed'
    BY <2>1 DEF Typed, SamplerTypeOK, TurnTypeOK
  <2>3. Handled' = Handled
    BY <2>1 DEF Handled, Total
  <2>4. Budget' /\ Commands' /\ Requests' /\ Reaped'
    BY <2>1, <2>3 DEF Budget, Commands, Requests, Reaped, Over
  <2>5. Order' /\ Slot' /\ Waits' /\ Openings'
    BY <2>1, ActorBarriers DEF turnVars, Past
  <2>6. QED
    BY <2>2, <2>4, <2>5
<1>5. QED
  BY <1>1, <1>2, <1>3, <1>4 DEF Next

\* It holds in every reachable state.
LEMMA Invariance == Spec => []IInv
<1>1. Init => IInv
  BY InitOK, SamplerAssumption, AuthRetriesAssumption
<1>2. IInv /\ [Next]_vars => IInv'
  BY Inductive, SamplerAssumption, AuthRetriesAssumption
<1>3. QED
  BY <1>1, <1>2, PTL DEF Spec

\* No mixture of errors makes a request send more attempts than its budgets
\* allow.  (request_task.rs run_request_task, retry.rs classify_error)
THEOREM AttemptsAreBudgeted == Spec => []AttemptsWithinBudget
<1>1. ASSUME IInv PROVE AttemptsWithinBudget
  <2>1. ASSUME NEW r \in Req PROVE task[r].attempts <= Grants + 1 + DoomMax
    <3>1. PICK t \in Task : t = task[r]
      BY <1>1 DEF IInv, Typed, SamplerTypeOK
    <3>2. Paid(t)
      BY <1>1, <3>1 DEF IInv, Budget
    <3>3. /\ t.retries \in Nat /\ t.doom \in Nat /\ t.attempts \in Nat
          /\ t.images \in BOOLEAN /\ Grants \in Nat /\ DoomMax \in Nat
      BY <3>1, SamplerAssumption DEF Task, SamplerAssumption, Grants
    <3>4. t.retries <= Grants /\ t.attempts <= t.retries + t.doom + 1
      BY <3>2, <3>3 DEF Paid
    <3>5. t.attempts <= Grants + 1 + DoomMax
      BY <3>2, <3>3, <3>4 DEF Paid
    <3>6. QED
      BY <3>1, <3>5
  <2>2. QED
    BY <1>1, <2>1 DEF IInv, Typed, AttemptsWithinBudget, Grants
<1>2. QED
  BY <1>1, Invariance, PTL

\* A turn that waits for its barrier has the event that opens it on its way.
\* (sampler_turn.rs run_turn_via_sampler, tool_calls.rs handle_sampling_event)
THEOREM BarriersOpen == Spec => []BarrierWillOpen
<1>1. IInv => BarrierWillOpen
  BY DEF IInv, Typed, Waits, BarrierWillOpen
<1>2. QED
  BY <1>1, Invariance, PTL

\* The task whose step it is, when the step is a task's.
LEMMA OneActor ==
  ASSUME SamplerAssumption, AuthRetriesAssumption, IInv, [Next]_vars
  PROVE  \/ \E r \in Req : Works(r) \/ Finishes(r) \/ Ends(r)
         \/ /\ events' = events \/ (events # <<>> /\ events' = Tail(events))
            /\ \A r \in Req : task'[r].attempts = task[r].attempts
<1> USE DEF IInv
<1>1. task \in [Req -> Task]
  BY DEF Typed, SamplerTypeOK
<1>2. CASE Session \/ Drain \/ UNCHANGED vars
  BY <1>2 DEF Session, TurnStep, Submit, Response, Failure, PassBarrier, GiveUpBarrier,
              EndTurn, DropTurn, CloseSession, Drain, samplerVars, vars
<1>3. CASE SamplerNext /\ UNCHANGED turnVars
  <2>1. CASE ActorStep
    <3>1. events' = events
      BY <2>1 DEF ActorStep, Reap, HandleSubmit, HandleCancel, Stop
    <3>2. task' = task \/ \E r : task' = [task EXCEPT ![r].pc = "ready"]
      BY <2>1 DEF ActorStep, Reap, HandleSubmit, HandleCancel, Stop
    <3>3. \A r \in Req : task'[r].attempts = task[r].attempts
      <4>1. ASSUME NEW q, task' = [task EXCEPT ![q].pc = "ready"], NEW r \in Req
            PROVE  task'[r].attempts = task[r].attempts
        <5>1. task[r] \in Task
          BY <1>1
        <5>2. [task[r] EXCEPT !.pc = "ready"].attempts = task[r].attempts
          BY <5>1 DEF Task
        <5>3. task'[r] \in {task[r], [task[r] EXCEPT !.pc = "ready"]}
          BY <1>1, <4>1
        <5>4. QED
          BY <5>2, <5>3
      <4>2. QED
        BY <3>2, <4>1
    <3>4. QED
      BY <3>1, <3>3
  <2>2. CASE \E r \in Req : TaskStep(r) \/ Answered(r) \/ Panic(r)
    BY <1>3, <2>2, TaskKinds
  <2>3. QED
    BY <1>3, <2>1, <2>2 DEF SamplerNext
<1>4. QED
  BY <1>2, <1>3 DEF Next

\* An attempt of a request starts only while it is the last one submitted and
\* its cancel is not handled: a turn waits for it, or the cancel is the first
\* command.  (handle.rs CancelOnDrop, request_task.rs run_request_task)
LEMMA AttemptIsWanted ==
  ASSUME IInv, SamplerAssumption, NEW r \in Req, task[r].pc \in Busy, r \notin token
  PROVE  \/ turn = [pc |-> "awaiting", r |-> r]
         \/ \E i \in DOMAIN cmds : cmds[i] = [op |-> "cancel", r |-> r]
<1>1. /\ cmds \in Seq(Command) /\ Len(cmds) \in Nat /\ r \in Nat
      /\ turn \in [pc : {"idle", "awaiting", "draining", "tools", "resend"}, r : 0..MaxReq]
      /\ turn.r \in Nat
  BY DEF IInv, Typed, SamplerTypeOK, TurnTypeOK, Req, SamplerAssumption
<1>2. Handled = 2 * r - 1
  <2>1. Handled \in Int
    BY CountsAreIntegers DEF IInv
  <2>2. ~(2 * r <= Handled) /\ ~(2 * r - 1 > Handled)
    BY DEF IInv, Requests, Over, Busy
  <2>3. QED
    BY <1>1, <2>1, <2>2
<1>3. CASE Len(cmds) = 0
  <2>1. Total = 2 * r - 1
    BY <1>1, <1>2, <1>3 DEF Handled, Total
  <2>2. turn.pc = "awaiting" /\ turn.r = r
    BY <1>1, <2>1 DEF Total
  <2>3. QED
    BY <1>1, <2>2
<1>4. CASE Len(cmds) # 0
  <2>1. 1 \in 1..Len(cmds) /\ 1 \in DOMAIN cmds /\ cmds[1] \in Command
    BY <1>1, <1>4
  <2>2. PICK c \in Command : c = cmds[1]
    BY <2>1
  <2>3. \/ c.op = "submit" /\ 2 * r - 1 + 1 = 2 * c.r - 1
        \/ c.op = "cancel" /\ 2 * r - 1 + 1 = 2 * c.r
    BY <1>2, <2>1, <2>2 DEF IInv, Commands, InTurn
  <2>4. c.r \in Nat
    BY DEF Command, Req
  <2>5. c.op = "cancel" /\ c.r = r
    BY <1>1, <2>3, <2>4
  <2>6. c = [op |-> "cancel", r |-> r]
    BY <2>5 DEF Command
  <2>7. QED
    BY <2>1, <2>2, <2>6
<1>5. QED
  BY <1>3, <1>4

\* No request is sent for a turn that gave it up, once its cancel was read:
\* neither after a backoff sleep nor beside the next turn's attempts.
\* (request_task.rs run_request_task, handle.rs CancelOnDrop)
THEOREM AbandonedIsQuiet == Spec => AbandonedSendsNothing
<1> DEFINE Wanted ==
      \A r \in Req : task'[r].attempts > task[r].attempts =>
         \/ turn = [pc |-> "awaiting", r |-> r]
         \/ \E i \in DOMAIN cmds : cmds[i] = [op |-> "cancel", r |-> r]
<1>1. ASSUME IInv, [Next]_vars PROVE Wanted
  <2>1. /\ task \in [Req -> Task] /\ \A r \in Req : task[r].attempts \in Nat
    BY <1>1 DEF IInv, Typed, SamplerTypeOK, Task
  <2>2. SUFFICES ASSUME NEW r \in Req, task'[r].attempts > task[r].attempts
                 PROVE  task[r].pc \in Busy /\ r \notin token
    BY <1>1, AttemptIsWanted, SamplerAssumption
  <2>3. PICK q \in Req : Works(q) \/ Finishes(q) \/ Ends(q)
    <3>1. task'[r].attempts # task[r].attempts
      BY <2>1, <2>2
    <3>2. QED
      BY <1>1, <3>1, OneActor, SamplerAssumption, AuthRetriesAssumption
  <2>4. q = r
    <3>1. CASE r # q
      <4>1. task'[r] = task[r]
        BY <1>1, <2>3, <3>1, OneTask, SamplerAssumption DEF IInv
      <4>2. QED
        BY <2>1, <2>2, <4>1
    <3>2. QED
      BY <3>1
  <2>5. CASE Works(r)
    <3>1. PICK t \in Task : /\ task' = [task EXCEPT ![r] = t]
                            /\ r \in token => t.attempts <= task[r].attempts
      BY <2>5 DEF Works
    <3>2. task'[r] = t /\ t.attempts \in Nat
      BY <2>1, <3>1 DEF Task
    <3>3. QED
      BY <2>1, <2>2, <2>5, <3>1, <3>2 DEF Works
  <2>6. CASE Finishes(r) \/ Ends(r)
    <3>1. PICK pc \in {"closing", "done"}, a \in Answers :
            task' = [task EXCEPT ![r] = Spent(pc, a)]
      BY <2>6 DEF Finishes, Ends, Answers
    <3>2. task'[r].attempts = 0
      BY <2>1, <3>1, SpentIsPaid, SamplerAssumption
    <3>3. QED
      BY <2>1, <2>2, <3>2
  <2>7. QED
    BY <2>3, <2>4, <2>5, <2>6
<1>2. ASSUME IInv, [Next]_vars PROVE [Wanted]_vars
  BY <1>1, <1>2
<1> HIDE DEF Wanted
<1>3. Spec => [][Wanted]_vars
  BY <1>2, Invariance, PTL DEF Spec
<1>4. QED
  BY <1>3 DEF Wanted, AbandonedSendsNothing

\* Once a later request's task is spawned, an earlier one sends no chunk and
\* no Completed.  (handle.rs CancelOnDrop, actor/mod.rs handle_command,
\* request_task.rs drive_l2)
THEOREM StreamsAreApart == Spec => StreamsDoNotMix
<1> DEFINE Apart ==
      \A r \in Req :
         /\ \E s \in Req : r < s /\ task[s].pc # "none"
         /\ Len(events') > Len(events) /\ events'[Len(events')].r = r
         => events'[Len(events')].kind \in {"retrying", "failed"}
<1>1. ASSUME IInv, [Next]_vars PROVE Apart
  <2>1. events \in Seq(Event)
    BY <1>1 DEF IInv, Typed, SamplerTypeOK
  <2>2. SUFFICES ASSUME NEW r \in Req, NEW s \in Req, r < s, task[s].pc # "none",
                        Len(events') > Len(events), events'[Len(events')].r = r
                 PROVE  events'[Len(events')].kind \in {"retrying", "failed"}
    OBVIOUS
  <2>3. r \in token \/ Over(r)
    <3>1. r \in Nat /\ s \in Nat /\ Handled \in Int
      BY <1>1, CountsAreIntegers DEF IInv, Req
    <3>2. 2 * s - 1 <= Handled
      BY <1>1, <2>2, <3>1 DEF IInv, Requests
    <3>3. 2 * r <= Handled
      BY <2>2, <3>1, <3>2
    <3>4. QED
      BY <1>1, <3>3 DEF IInv, Requests
  <2>4. PICK q \in Req : Works(q) \/ Finishes(q) \/ Ends(q)
    <3>1. events' # events /\ (events # <<>> => events' # Tail(events))
      <4>1. events # <<>> => Len(Tail(events)) = Len(events) - 1
        BY <2>1
      <4>2. Len(events) \in Nat
        BY <2>1
      <4>3. QED
        BY <2>2, <4>1, <4>2
    <3>2. QED
      BY <1>1, <3>1, OneActor, SamplerAssumption, AuthRetriesAssumption
  <2>5. task[q].pc \in Live
    BY <1>1, <2>4, OneTask, SamplerAssumption DEF IInv
  <2>6. PICK kind \in {"chunk", "retrying", "completed", "failed"} :
          /\ kind \in {"chunk", "completed"} => q \notin token
          /\ events' = Append(events, [kind |-> kind, r |-> q])
    <3>1. events' # events
      BY <2>1, <2>2
    <3>2. QED
      BY <2>4, <3>1 DEF Works, Finishes, Ends
  <2>7. PICK e \in Event : e = [kind |-> kind, r |-> q]
    BY DEF Event
  <2>8. events'[Len(events')] = e
    BY <2>1, <2>6, <2>7, AppendPlaces
  <2>9. q = r /\ events'[Len(events')].kind = kind
    BY <2>2, <2>7, <2>8
  <2>10. QED
    BY <2>3, <2>5, <2>6, <2>9 DEF Over, Live
<1>2. ASSUME IInv, [Next]_vars PROVE [Apart]_vars
  BY <1>1, <1>2
<1> HIDE DEF Apart
<1>3. Spec => [][Apart]_vars
  BY <1>2, Invariance, PTL DEF Spec
<1>4. QED
  BY <1>3 DEF Apart, StreamsDoNotMix

\* When its barrier lets a turn on to its tool calls, every chunk of its
\* response has been sent, unless an earlier turn left a Completed event
\* behind.  (acp_session.rs turn_stream_drained)
THEOREM TextComesFirst == Spec => ToolCallsFollowText
<1> DEFINE First == PassBarrier => ~Holds("chunk", turn.r) \/ OpenedByAnother(turn.r)
<1>1. ASSUME IInv PROVE First
  BY <1>1 DEF IInv, Openings, Sent, PassBarrier
<1> HIDE DEF First
<1>2. ASSUME IInv, [Next]_vars PROVE [First]_vars
  BY <1>1, <1>2
<1>3. Spec => [][First]_vars
  BY <1>2, Invariance, PTL DEF Spec
<1>4. QED
  BY <1>3 DEF First, ToolCallsFollowText
=============================================================================
