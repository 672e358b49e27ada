---------------------------- MODULE PromptQueue ----------------------------
(***************************************************************************)
(* The queue operations of a session, as operators on sequences of prompt  *)
(* ids.  `pending_inputs` is a VecDeque whose front is the prompt of the   *)
(* turn in flight, if there is one: promotion does not pop it, completion  *)
(* or cancellation does.  Every operation below receives the id `r` of     *)
(* that turn (or a value that is no id when no turn runs) and has to leave *)
(* its slot at the front.                                                  *)
(*                                                                         *)
(* The operators carry no state; SessionActor applies them to its queue    *)
(* and SessionActorProofs proves what they preserve.                       *)
(***************************************************************************)
EXTENDS Lists

\* The queue without the items of S.
Without(q, S) == Keep(q, ToSet(q) \ S)

(***************************************************************************)
(* Where an item that must run next goes: behind the front if the front is *)
(* the running prompt's own slot, else at the head.  FrontSlotIgnored and   *)
(* the other forms so named are mistakes to avoid, which nothing here uses. *)
(***************************************************************************)
FrontSlotIgnored(q, r) == 0

FrontSlot(q, r) == IF q # <<>> /\ Head(q) = r THEN 1 ELSE 0

InsertRunNext(q, r, items) ==
  LET at == FrontSlot(q, r)
  IN  SubSeq(q, 1, at) \o items \o SubSeq(q, at + 1, Len(q))

(***************************************************************************)
(* A send-now prompt also steps behind the send-now prompts (the set N)    *)
(* that already stand there, so that stacked sends run in the order sent.  *)
(***************************************************************************)
SendNowSlots(q, r, N) ==
  {k \in FrontSlot(q, r)..Len(q) : k = Len(q) \/ q[k + 1] \notin N}

InsertSendNowFirst(q, r, N, p) == InsertRunNext(q, r, <<p>>)

InsertSendNow(q, r, N, p) ==
  LET slots == SendNowSlots(q, r, N)
      at == CHOOSE k \in slots : \A j \in slots : k <= j
  IN  SubSeq(q, 1, at) \o <<p>> \o SubSeq(q, at + 1, Len(q))

(***************************************************************************)
(* The guarded sweep: drop the items of D except the running turn's slot.  *)
(***************************************************************************)
SweepUnguarded(q, r, D) == Without(q, D)

Sweep(q, r, D) == Without(q, D \ {r})

(***************************************************************************)
(* Reordering keeps the items of `pinned` in front, then the movable ones  *)
(* named in `order`, then the other movable ones in their old order.       *)
(***************************************************************************)
ReorderNamedOnly(q, pinned, order) ==
  Keep(q, pinned) \o Keep(order, ToSet(q) \ pinned)

Reorder(q, pinned, order) ==
  LET movable == ToSet(q) \ pinned
  IN  Keep(q, pinned) \o Keep(order, movable)
                      \o Keep(q, movable \ ToSet(order))

=============================================================================
