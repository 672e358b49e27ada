-------------------------- MODULE SessionActorProofs --------------------------
(***************************************************************************)
(* Proofs, for any sets of prompts, interjections and notifications, of    *)
(* what SessionProperties states and the runs check on small instances:    *)
(* the front of the queue, the types, the pin, where every id is, the      *)
(* waits, the silence of a cancel, which turns live, what is recorded of   *)
(* their ends, what a cancel ends, that an idle session is drained, that   *)
(* the session implements PromptLifecycle, what the clients see of the     *)
(* queue, and the order of the prompts sent now.                           *)
(***************************************************************************)
EXTENDS SessionProperties, ListTheorems, FiniteSetTheorems

-----------------------------------------------------------------------------
(* The operations, for a queue over any set T of items.                    *)

\* What is left of a queue without the items of D is a queue.
LEMMA WithoutProperties ==
  ASSUME NEW T, NEW q \in Seq(T), NEW D
  PROVE  /\ Without(q, D) \in Seq(T)
         /\ \A r : r \notin D /\ FrontIs(q, r) => FrontIs(Without(q, D), r)
<1>1. Without(q, D) \in Seq(T \cap (ToSet(q) \ D))
  BY KeepProperties DEF Without
<1>2. ASSUME NEW r, r \notin D, FrontIs(q, r) PROVE r \in ToSet(q) \ D
  BY <1>2 DEF FrontIs, ToSet
<1>3. QED
  BY <1>1, <1>2, KeepProperties DEF Without

\* The guarded sweep leaves the running prompt in front, whatever it drops.
LEMMA SweepProperties ==
  ASSUME NEW T, NEW q \in Seq(T), NEW r, NEW D
  PROVE  Sweep(q, r, D) \in Seq(T) /\ (FrontIs(q, r) => FrontIs(Sweep(q, r, D), r))
  BY WithoutProperties DEF Sweep

\* The front of a queue is its first item, and of a join its first queue's.
LEMMA FrontProperties ==
  ASSUME NEW T, NEW q \in Seq(T), NEW r
  PROVE  FrontIs(q, r) <=> Len(q) > 0 /\ q[1] = r
  BY DEF FrontIs

LEMMA JoinProperties ==
  ASSUME NEW T, NEW a \in Seq(T), NEW b \in Seq(T), NEW c \in Seq(T)
  PROVE  a \o b \o c \in Seq(T) /\ \A r : FrontIs(a, r) => FrontIs(a \o b \o c, r)
<1>1. ASSUME NEW d \in Seq(T), NEW e \in Seq(T), NEW r, FrontIs(d, r)
      PROVE  FrontIs(d \o e, r)
  <2> DEFINE g == d \o e
  <2>1. g \in Seq(T) /\ Len(g) = Len(d) + Len(e) /\ (Len(d) > 0 => g[1] = d[1])
    OBVIOUS
  <2>2. Len(d) > 0 /\ d[1] = r
    BY <1>1, FrontProperties
  <2> HIDE DEF g
  <2>3. FrontIs(g, r)
    BY <2>1, <2>2, FrontProperties
  <2>4. QED
    BY <2>3 DEF g
<1>2. a \o b \in Seq(T)
  OBVIOUS
<1>3. (a \o b) \o c \in Seq(T)
  BY <1>2
<1>4. QED
  BY <1>1, <1>2, <1>3

\* Items put in at a place behind the front leave the front alone.
LEMMA InsertAtProperties ==
  ASSUME NEW T, NEW q \in Seq(T), NEW r, NEW items \in Seq(T), NEW at \in 0..Len(q),
         FrontSlot(q, r) <= at
  PROVE  LET s == SubSeq(q, 1, at) \o items \o SubSeq(q, at + 1, Len(q))
         IN  s \in Seq(T) /\ (FrontIs(q, r) => FrontIs(s, r))
<1> DEFINE a == SubSeq(q, 1, at)
           b == SubSeq(q, at + 1, Len(q))
           s == a \o items \o b
<1>1. a \in Seq(T) /\ b \in Seq(T) /\ Len(a) = at /\ (at > 0 => a[1] = q[1])
  OBVIOUS
<1>2. FrontIs(q, r) => FrontIs(a, r)
  <2>1. FrontIs(q, r) => at > 0 /\ q[1] = r
    BY FrontProperties DEF FrontIs, FrontSlot
  <2> HIDE DEF a
  <2>2. QED
    BY <1>1, <2>1, FrontProperties
<1>3. s \in Seq(T) /\ (FrontIs(q, r) => FrontIs(s, r))
  <2> HIDE DEF a, b
  <2>1. QED
    BY <1>1, <1>2, JoinProperties
<1>4. QED
  BY <1>3

LEMMA InsertRunNextProperties ==
  ASSUME NEW T, NEW q \in Seq(T), NEW r, NEW items \in Seq(T)
  PROVE  LET s == InsertRunNext(q, r, items)
         IN  s \in Seq(T) /\ (FrontIs(q, r) => FrontIs(s, r))
<1>1. FrontSlot(q, r) \in 0..Len(q)
  BY DEF FrontSlot
<1>2. QED
  BY <1>1, InsertAtProperties DEF InsertRunNext

\* There is a first slot behind the sends now, and it is behind the front.
SendNowPlace(q, r, N) ==
  CHOOSE k \in SendNowSlots(q, r, N) : \A j \in SendNowSlots(q, r, N) : k <= j

LEMMA SendNowIsPlaced ==
  ASSUME NEW T, NEW q \in Seq(T), NEW r, NEW N, NEW p
  PROVE  LET at == SendNowPlace(q, r, N)
         IN  /\ at \in SendNowSlots(q, r, N) /\ at \in 0..Len(q) /\ FrontSlot(q, r) <= at
             /\ \A j \in SendNowSlots(q, r, N) : at <= j
             /\ InsertSendNow(q, r, N, p)
                  = SubSeq(q, 1, at) \o <<p>> \o SubSeq(q, at + 1, Len(q))
<1> DEFINE slots == SendNowSlots(q, r, N)
           at == CHOOSE k \in slots : \A j \in slots : k <= j
<1>1. FrontSlot(q, r) \in 0..Len(q)
  BY DEF FrontSlot
<1>2. slots \subseteq Nat /\ Len(q) \in slots
  BY <1>1 DEF SendNowSlots
<1>3. \E k \in slots : \A j \in slots : k <= j
  <2> HIDE DEF slots
  <2>1. QED
    BY <1>2, LeastNatural
<1>4. at \in slots /\ \A j \in slots : at <= j
  <2> HIDE DEF slots
  <2>1. QED
    BY <1>3
<1>5. at \in 0..Len(q) /\ FrontSlot(q, r) <= at
  <2> HIDE DEF at
  <2>1. QED
    BY <1>1, <1>4 DEF SendNowSlots
<1>6. InsertSendNow(q, r, N, p) = SubSeq(q, 1, at) \o <<p>> \o SubSeq(q, at + 1, Len(q))
  BY DEF InsertSendNow
<1>7. at = SendNowPlace(q, r, N)
  BY DEF SendNowPlace
<1>8. QED
  <2> HIDE DEF at, slots
  <2>1. at \in SendNowSlots(q, r, N) /\ \A j \in SendNowSlots(q, r, N) : at <= j
    BY <1>4 DEF slots
  <2>2. QED
    BY <1>5, <1>6, <1>7, <2>1

LEMMA InsertSendNowFront ==
  ASSUME NEW T, NEW q \in Seq(T), NEW r, NEW N, NEW p \in T
  PROVE  LET s == InsertSendNow(q, r, N, p)
         IN  s \in Seq(T) /\ (FrontIs(q, r) => FrontIs(s, r))
<1> DEFINE at == SendNowPlace(q, r, N)
<1>1. /\ at \in 0..Len(q) /\ FrontSlot(q, r) <= at
      /\ InsertSendNow(q, r, N, p)
           = SubSeq(q, 1, at) \o <<p>> \o SubSeq(q, at + 1, Len(q))
  BY SendNowIsPlaced
<1>2. <<p>> \in Seq(T)
  OBVIOUS
<1>3. QED
  <2> HIDE DEF at
  <2>1. QED
    BY <1>1, <1>2, InsertAtProperties

\* Reordering keeps the queue one of the same items' set, and a pinned front.
LEMMA ReorderProperties ==
  ASSUME NEW T, NEW q \in Seq(T), NEW pinned, NEW U, NEW order \in Seq(U)
  PROVE  /\ Reorder(q, pinned, order) \in Seq(T)
         /\ \A r \in pinned : FrontIs(q, r) => FrontIs(Reorder(q, pinned, order), r)
<1> DEFINE m == ToSet(q) \ pinned
           a == Keep(q, pinned)
           b == Keep(order, m)
           c == Keep(q, m \ ToSet(order))
<1>1. ToSet(q) \subseteq T
  BY DEF ToSet
<1>2. a \in Seq(T \cap pinned) /\ c \in Seq(T \cap (m \ ToSet(order)))
      /\ b \in Seq(U \cap m)
  <2> HIDE DEF m
  <2>1. QED
    BY KeepProperties
<1>3. a \in Seq(T) /\ c \in Seq(T) /\ b \in Seq(T)
  <2> HIDE DEF a, b, c
  <2>1. U \cap m \subseteq T
    BY <1>1
  <2>2. QED
    BY <1>2, <2>1
<1>4. Reorder(q, pinned, order) = a \o b \o c
  BY DEF Reorder
<1>5. \A r \in pinned : FrontIs(q, r) => FrontIs(a, r)
  BY KeepProperties
<1>6. QED
  <2> HIDE DEF a, b, c
  <2>1. QED
    BY <1>3, <1>4, <1>5, JoinProperties

-----------------------------------------------------------------------------
(* The running prompt is the front of the queue.  The strengthening is the *)
(* type of the sequences that enter the queue.                             *)

QueueInv == QueueTypes /\ RunningIsFront

queueVars == <<queue, running, interjections, notes, buffer>>

LEMMA KindsAreIds ==
  /\ Users \subseteq Ids /\ Interjections \subseteq Ids /\ Notes \subseteq Ids
  /\ Goals \subseteq Ids /\ Wakes \subseteq Ids /\ Plans \subseteq Ids
  /\ Crons \subseteq Ids
  BY DEF Ids, UserOrigin, Synthetic

\* What a start does to the queue: nothing, and its front runs.
LEMMA StartKeepsFront ==
  ASSUME QueueInv, MaybeStartRunningTask, UNCHANGED <<queue, interjections, notes, buffer>>
  PROVE  QueueInv'
<1>1. CASE running = None /\ queue # <<>>
  <2>1. running' = Head(queue) /\ Head(queue) \in Ids
    BY <1>1 DEF QueueInv, QueueTypes, MaybeStartRunningTask
  <2>2. QED
    BY <1>1, <2>1 DEF QueueInv, QueueTypes, RunningIsFront
<1>2. CASE ~(running = None /\ queue # <<>>)
  BY <1>2 DEF QueueInv, QueueTypes, RunningIsFront, MaybeStartRunningTask
<1>3. QED
  BY <1>1, <1>2

LEMMA UntouchedQueueInv ==
  ASSUME QueueInv, UNCHANGED queueVars PROVE QueueInv'
  BY DEF QueueInv, QueueTypes, RunningIsFront, queueVars

\* A new queue in which the running prompt is still the front.
LEMMA NewQueueInv ==
  ASSUME QueueInv, running' = running, queue' \in Seq(Ids),
         FrontIs(queue, running) => FrontIs(queue', running),
         interjections' \in Seq(Interjections),
         notes' \in Seq(Notes), buffer' \in Seq(Notes)
  PROVE  QueueInv'
  BY DEF QueueInv, QueueTypes, RunningIsFront, FrontIs

LEMMA QueueInvInit == Init => QueueInv
  BY DEF Init, QueueInv, QueueTypes, RunningIsFront

LEMMA PromptKeepsQueueInv ==
  ASSUME QueueInv, NEW p \in Ids, NEW now \in BOOLEAN, Prompt(p, now)
  PROVE  QueueInv'
<1> DEFINE armed == p \in Users /\ \E w \in Wakes : w \in ToSet(queue) /\ w # running
           swept == IF armed THEN (ToSet(queue) \cap Synthetic) \ {running} ELSE {}
           q == Sweep(queue, running, swept)
<1>1. queue' = InsertSendNow(q, running, sendNow, p) \/ queue' = Append(q, p)
  BY DEF Prompt
<1>2. queue \in Seq(Ids) /\ interjections \in Seq(Interjections)
      /\ notes \in Seq(Notes) /\ buffer \in Seq(Notes)
  BY DEF QueueInv, QueueTypes
<1>3. q \in Seq(Ids) /\ (FrontIs(queue, running) => FrontIs(q, running))
  BY <1>2, SweepProperties
<1> HIDE DEF q
<1>4. queue' \in Seq(Ids) /\ (FrontIs(q, running) => FrontIs(queue', running))
  <2>1. CASE queue' = InsertSendNow(q, running, sendNow, p)
    BY <1>3, <2>1, InsertSendNowFront
  <2>2. CASE queue' = Append(q, p)
    BY <1>3, <2>2 DEF FrontIs
  <2>3. QED
    BY <1>1, <2>1, <2>2
<1>5. UNCHANGED <<running, interjections, notes, buffer>>
  BY DEF Prompt
<1>6. QED
  BY <1>2, <1>3, <1>4, <1>5, NewQueueInv

LEMMA CommandsKeepQueueInv ==
  ASSUME QueueInv, Commands PROVE QueueInv'
<1>1. /\ queue \in Seq(Ids) /\ running \in Ids \cup {None}
      /\ interjections \in Seq(Interjections)
      /\ notes \in Seq(Notes) /\ buffer \in Seq(Notes)
  BY DEF QueueInv, QueueTypes
<1>2. ASSUME NEW p \in Users \cup Wakes \cup Crons, NEW now \in BOOLEAN, Prompt(p, now)
      PROVE  QueueInv'
  BY <1>2, PromptKeepsQueueInv, KindsAreIds
<1>3. ASSUME NEW w \in Wakes, TaskCompletes(w) PROVE QueueInv'
  BY <1>3, UntouchedQueueInv DEF TaskCompletes, lockVars, queueVars
<1>4. ASSUME NEW i \in Interjections, Interject(i) PROVE QueueInv'
  <2>1. CASE pin # None
    BY <1>1, <1>4, <2>1, NewQueueInv DEF Interject
  <2>2. CASE pin = None
    <3>1. /\ queue' = InsertRunNext(queue, running, <<i>>)
          /\ UNCHANGED <<running, interjections, notes, buffer>>
      BY <1>4, <2>2 DEF Interject
    <3>2. <<i>> \in Seq(Ids)
      BY KindsAreIds
    <3>3. QED
      BY <1>1, <3>1, <3>2, InsertRunNextProperties, NewQueueInv
  <2>3. QED
    BY <2>1, <2>2
<1>5. ASSUME NEW n \in Notes, NEW next \in BOOLEAN, InjectNotification(n, next)
      PROVE  QueueInv'
  <2> DEFINE list == Append(IF active /\ next THEN buffer ELSE notes, n)
             cap == IF active /\ next THEN MaxBuffer ELSE MaxPending
             over == IF Len(list) > cap THEN Len(list) - cap ELSE 0
             kept == SubSeq(list, over + 1, Len(list))
  <2>1. list \in Seq(Notes) /\ over + 1 \in Nat \ {0}
    BY <1>1, Bounds
  <2>2. kept \in Seq(Notes)
    <3> HIDE DEF list, over
    <3>1. QED
      BY <2>1
  <2>3. UNCHANGED <<queue, running, interjections>>
        /\ ((notes' = kept /\ buffer' = buffer) \/ (notes' = notes /\ buffer' = kept))
    <3>1. CASE active /\ next
      BY <1>5, <3>1 DEF InjectNotification
    <3>2. CASE ~(active /\ next)
      BY <1>5, <3>2 DEF InjectNotification
    <3>3. QED
      BY <3>1, <3>2
  <2>4. QED
    <3> HIDE DEF kept
    <3>1. QED
      BY <1>1, <2>2, <2>3, NewQueueInv
<1>6. ASSUME NEW n \in Notes, DropMonitorNotifications(n) PROVE QueueInv'
  BY <1>1, <1>6, WithoutProperties, NewQueueInv DEF DropMonitorNotifications
<1>7. ASSUME NEW p \in Users, NEW v, NEW who, RemoveQueuedPrompt(p, v, who)
      PROVE  QueueInv'
  <2>1. UNCHANGED <<running, interjections, notes, buffer>>
        /\ (queue' = queue \/ (p # running /\ queue' = Without(queue, {p})))
    BY <1>7 DEF RemoveQueuedPrompt, RowMatches, untouchedByRows
  <2>2. QED
    BY <1>1, <2>1, WithoutProperties, NewQueueInv
<1>8. ASSUME NEW p \in Users, NEW v, NEW who, NEW edited \in BOOLEAN,
             InterjectQueuedPrompt(p, v, who, edited)
      PROVE  QueueInv'
  <2> DEFINE q == Without(queue, {p})
  <2>1. UNCHANGED <<running, interjections, notes, buffer>>
        /\ (queue' = queue
            \/ (p # running /\ queue' = InsertSendNow(q, running, sendNow, p)))
    BY <1>8 DEF InterjectQueuedPrompt, RowMatches, untouchedByRows
  <2>2. q \in Seq(Ids) /\ (p # running /\ FrontIs(queue, running) => FrontIs(q, running))
    BY <1>1, WithoutProperties
  <2> HIDE DEF q
  <2>3. queue' \in Seq(Ids) /\ (FrontIs(queue, running) => FrontIs(queue', running))
    BY <1>1, <2>1, <2>2, InsertSendNowFront, KindsAreIds
  <2>4. QED
    BY <1>1, <2>1, <2>3, NewQueueInv
<1>9. ASSUME NEW who, ClearQueue(who) PROVE QueueInv'
  <2>1. PICK S : queue' = Without(queue, S \ {running})
    <3>1. \E S : queue' = Without(queue, S \ {running})
      <4> DEFINE S == {p \in Users \ {running} :
                        p \in ToSet(queue) /\ who \in {None, Owner[p]}}
      <4>1. queue' = Without(queue, S) /\ S = S \ {running}
        BY <1>9 DEF ClearQueue
      <4>2. QED
        BY <4>1
    <3>2. QED
      BY <3>1
  <2>2. UNCHANGED <<running, interjections, notes, buffer>>
    BY <1>9 DEF ClearQueue, untouchedByRows
  <2>3. QED
    BY <1>1, <2>1, <2>2, WithoutProperties, NewQueueInv
<1>10. ASSUME NEW S \in SUBSET Users, NEW order \in SetToSeqs(S), ReorderQueue(order)
       PROVE  QueueInv'
  <2>1. order \in Seq(S)
    <3>1. IsFiniteSet(S) /\ Cardinality(S) \in Nat
      BY UsersAreFinite, FS_Subset, FS_CardinalityType
    <3>2. order \in [1..Cardinality(S) -> S]
      BY DEF SetToSeqs
    <3>3. QED
      BY <3>1, <3>2
  <2> DEFINE pinned == ToSet(queue) \ (Users \ {running})
  <2>2. /\ UNCHANGED <<running, interjections, notes, buffer>>
        /\ queue' = Reorder(queue, pinned, order)
    BY <1>10 DEF ReorderQueue, untouchedByRows
  <2>3. FrontIs(queue, running) => running \in pinned
    BY <1>1 DEF FrontIs, ToSet
  <2> HIDE DEF pinned
  <2>4. QED
    BY <1>1, <2>1, <2>2, <2>3, ReorderProperties, NewQueueInv
<1>11. ASSUME NEW p \in Users, EditQueuedPrompt(p) PROVE QueueInv'
  BY <1>11, UntouchedQueueInv DEF EditQueuedPrompt, untouchedByRows, queueVars
<1>12. ASSUME NEW mode, Cancel(mode) PROVE QueueInv'
  BY <1>12, UntouchedQueueInv DEF Cancel, lockVars, queueVars
<1>13. QED
  BY <1>2, <1>3, <1>4, <1>5, <1>6, <1>7, <1>8, <1>9, <1>10, <1>11, <1>12 DEF Commands

StrandedTyped == stranded \in Seq(Interjections)

\* An entry that is queued again is the last of those that were stranded.
LEMMA StrandedParts ==
  ASSUME StrandedTyped, RequeueStranded
  PROVE  /\ Last(stranded) \in Interjections /\ Front(stranded) \in Seq(Interjections)
         /\ ToSet(stranded) = ToSet(Front(stranded)) \cup {Last(stranded)}
         /\ IsInjective(stranded) => /\ IsInjective(Front(stranded))
                                     /\ Last(stranded) \notin ToSet(Front(stranded))
<1>1. stranded \in Seq(Interjections) /\ Len(stranded) > 0
  BY DEF StrandedTyped, RequeueStranded
<1>2. /\ Front(stranded) \in Seq(Interjections)
      /\ Len(Front(stranded)) = Len(stranded) - 1
      /\ \A k \in 1..(Len(stranded) - 1) : Front(stranded)[k] = stranded[k]
  <2> DEFINE n == Len(stranded) - 1
  <2>1. n \in Nat /\ n <= Len(stranded)
    BY <1>1
  <2> HIDE DEF n
  <2>2. SubSeq(stranded, 1, n) \in Seq(Interjections)
    BY <1>1, <2>1
  <2>3. Len(SubSeq(stranded, 1, n)) = n
    BY <1>1, <2>1
  <2>4. \A k \in 1..n : SubSeq(stranded, 1, n)[k] = stranded[k]
    BY <1>1, <2>1
  <2>5. QED
    BY <2>2, <2>3, <2>4 DEF Front, n
<1>3. Last(stranded) = stranded[Len(stranded)] /\ Last(stranded) \in Interjections
  BY <1>1 DEF Last
<1>4. ToSet(stranded) = ToSet(Front(stranded)) \cup {Last(stranded)}
  BY <1>1, <1>2, <1>3 DEF ToSet
<1>5. ASSUME IsInjective(stranded)
      PROVE  IsInjective(Front(stranded)) /\ Last(stranded) \notin ToSet(Front(stranded))
  <2>1. \A k, l \in 1..Len(stranded) : stranded[k] = stranded[l] => k = l
    BY <1>1, <1>5 DEF IsInjective
  <2>2. QED
    BY <1>1, <1>2, <1>3, <2>1 DEF IsInjective, ToSet
<1>6. QED
  BY <1>2, <1>3, <1>4, <1>5

LEMMA StrandedTypedKept ==
  ASSUME QueueInv, StrandedTyped, [Next]_vars PROVE StrandedTyped'
<1>1. CASE FlushStrandedInterjections
  BY <1>1 DEF FlushStrandedInterjections, QueueInv, QueueTypes, StrandedTyped
<1>2. CASE RequeueStranded
  BY <1>2, StrandedParts DEF RequeueStranded, StrandedTyped
<1>3. CASE UNCHANGED stranded
  BY <1>3 DEF StrandedTyped
<1>4. ASSUME Commands PROVE UNCHANGED stranded
  BY ZenonT(60), <1>4 DEF Commands, Prompt, TaskCompletes, Interject, InjectNotification,
     DropMonitorNotifications, RemoveQueuedPrompt, InterjectQueuedPrompt, ClearQueue,
     ReorderQueue, EditQueuedPrompt, Cancel, actorVars
<1>5. ASSUME ActorSteps PROVE \/ FlushStrandedInterjections \/ RequeueStranded
                              \/ UNCHANGED stranded
  BY <1>5 DEF ActorSteps, Start, CancelSnapshot, CancelTeardown, CancelUngates,
     CancelAbort, CancelAnswers, HandleCompletion, SweepMonitorBuffer, TurnEnd,
     MaybeDrainNotifications
<1>6. ASSUME OtherTasks PROVE UNCHANGED stranded
  BY <1>6 DEF OtherTasks, StarterStarts, ResumeStarts, ResumeQueues, ZombieDrops,
     turnOnly, actorVars
<1>7. ASSUME NEW t \in Ids, Turn(t) PROVE UNCHANGED stranded
  BY <1>7 DEF Turn, TurnBegins, TurnEmits, TurnMerges, TurnInjects, TurnRound,
     TurnSetsGoal, TurnReports, TurnConsumes, TurnParks, TurnUnparks, TurnTails,
     TurnUnscopes, TurnFinishes, TurnReaped, turnOnly, actorVars
<1>8. ASSUME UNCHANGED vars PROVE UNCHANGED stranded
  BY <1>8 DEF vars, actorVars
<1>9. QED
  BY <1>1, <1>2, <1>3, <1>4, <1>5, <1>6, <1>7, <1>8 DEF Next

LEMMA ActorStepsKeepQueueInv ==
  ASSUME QueueInv, StrandedTyped, ActorSteps PROVE QueueInv'
<1>1. /\ queue \in Seq(Ids) /\ running \in Ids \cup {None}
      /\ interjections \in Seq(Interjections)
      /\ notes \in Seq(Notes) /\ buffer \in Seq(Notes)
  BY DEF QueueInv, QueueTypes
<1>2. CASE Start
  BY <1>2, StartKeepsFront DEF Start, untouchedByStart
<1>3. CASE CancelSnapshot
  BY <1>1, <1>3, NewQueueInv DEF CancelSnapshot, lockVars
<1>4. CASE CancelTeardown
  <2> DEFINE closing == CancelTakes(job.mode)
             dropped == IF job.mode = "teardown" THEN ToSet(notes \o buffer) ELSE {}
  <2>1. /\ queue' = SubSeq(queue, Len(closing) + 1, Len(queue))
        /\ running' = None /\ UNCHANGED interjections
        /\ notes' = Without(notes \o buffer, dropped) /\ buffer' = <<>>
    BY <1>4 DEF CancelTeardown
  <2>2. closing \in Seq(Ids)
    BY <1>1 DEF CancelTakes
  <2> HIDE DEF closing, dropped
  <2>3. queue' \in Seq(Ids)
    <3>1. Len(closing) + 1 \in Nat \ {0}
      BY <2>2
    <3>2. QED
      BY <1>1, <2>1, <3>1
  <2>4. notes' \in Seq(Notes)
    <3>1. notes \o buffer \in Seq(Notes)
      BY <1>1
    <3>2. QED
      BY <2>1, <3>1, WithoutProperties
  <2>5. QED
    BY <1>1, <2>1, <2>3, <2>4 DEF QueueInv, QueueTypes, RunningIsFront
<1>5. CASE CancelUngates \/ CancelAbort \/ CancelAnswers
  BY <1>5, UntouchedQueueInv DEF CancelUngates, CancelAbort, CancelAnswers, lockVars,
     queueVars
<1>6. CASE HandleCompletion
  <2> DEFINE p == Head(completions)
  <2>1. /\ queue' = IF Owned(p) THEN Tail(queue) ELSE queue
        /\ running' = RunningAfter(p) /\ UNCHANGED <<interjections, notes, buffer>>
    BY <1>6 DEF HandleCompletion
  <2> HIDE DEF p
  <2>3. CASE Owned(p)
    <3>1. queue' \in Seq(Ids) /\ running' = None
      BY <1>1, <2>1, <2>3 DEF Owned, RunningAfter
    <3>2. QED
      BY <1>1, <2>1, <3>1 DEF QueueInv, QueueTypes, RunningIsFront
  <2>4. CASE ~Owned(p)
    BY <1>1, <2>1, <2>4 DEF QueueInv, QueueTypes, RunningIsFront, RunningAfter
  <2>5. QED
    BY <2>3, <2>4
<1>7. CASE TurnEnd
  <2>1. /\ UNCHANGED <<running, interjections, notes, buffer>>
        /\ (queue' = queue \/ \E g \in Goals : queue' = Append(queue, g))
    BY <1>7 DEF TurnEnd
  <2>2. ASSUME NEW g \in Goals, queue' = Append(queue, g) PROVE QueueInv'
    BY SMTT(40), <1>1, <2>1, <2>2, KindsAreIds, NewQueueInv DEF FrontIs
  <2>3. QED
    BY <2>1, <2>2, UntouchedQueueInv DEF queueVars
<1>8. CASE FlushStrandedInterjections \/ SweepMonitorBuffer
  <2>1. notes \o buffer \in Seq(Notes) /\ <<>> \in Seq(Notes) /\ <<>> \in Seq(Interjections)
    BY <1>1
  <2>2. /\ UNCHANGED <<queue, running>> /\ interjections' \in {interjections, <<>>}
        /\ \/ UNCHANGED <<notes, buffer>>
           \/ notes' = notes \o buffer /\ buffer' = <<>>
    BY <1>8 DEF FlushStrandedInterjections, SweepMonitorBuffer, lockVars
  <2>3. interjections' \in Seq(Interjections) /\ notes' \in Seq(Notes) /\ buffer' \in Seq(Notes)
    BY <1>1, <2>1, <2>2
  <2>4. QED
    BY <1>1, <2>2, <2>3, NewQueueInv
<1>11. CASE RequeueStranded
  <2>1. <<Last(stranded)>> \in Seq(Ids)
    BY <1>11, StrandedParts, KindsAreIds
  <2>2. /\ queue' = InsertRunNext(queue, running, <<Last(stranded)>>)
        /\ UNCHANGED <<running, interjections, notes, buffer>>
    BY <1>11 DEF RequeueStranded
  <2>3. QED
    BY <1>1, <2>1, <2>2, InsertRunNextProperties, NewQueueInv
<1>9. CASE MaybeDrainNotifications
  <2>1. CASE Idle
    <3> DEFINE all == notes \o buffer
               muted == IF goal = "off" THEN ToSet(all) \cap GoalTurnNotes ELSE ToSet(all)
               told == Without(all, muted)
    <3>1. /\ notes' = <<>> /\ buffer' = <<>> /\ UNCHANGED <<running, interjections>>
          /\ queue' = SubSeq(told, 1, IF told = <<>> THEN 0 ELSE 1)
      BY <1>9, <2>1 DEF MaybeDrainNotifications
    <3>2. all \in Seq(Notes)
      BY <1>1
    <3>3. told \in Seq(Notes)
      <4> HIDE DEF all, muted
      <4>1. QED
        BY <3>2, WithoutProperties
    <3> HIDE DEF told
    <3>4. queue' \in Seq(Notes)
      BY <3>1, <3>3
    <3>5. QED
      BY <1>1, <2>1, <3>1, <3>4, KindsAreIds
      DEF QueueInv, QueueTypes, RunningIsFront, Idle
  <2>2. CASE ~Idle
    BY <1>9, <2>2, UntouchedQueueInv DEF MaybeDrainNotifications, queueVars
  <2>3. QED
    BY <2>1, <2>2
<1>10. QED
  BY <1>2, <1>3, <1>4, <1>5, <1>6, <1>7, <1>8, <1>9, <1>11 DEF ActorSteps

LEMMA TurnKeepsQueueInv ==
  ASSUME QueueInv, NEW t \in Ids, Turn(t) PROVE QueueInv'
<1>1. /\ queue \in Seq(Ids) /\ running \in Ids \cup {None}
      /\ interjections \in Seq(Interjections)
      /\ notes \in Seq(Notes) /\ buffer \in Seq(Notes)
  BY DEF QueueInv, QueueTypes
<1>2. CASE TurnMerges(t) \/ TurnInjects(t)
  <2>1. CASE TurnMerges(t)
    BY <1>1, <2>1, NewQueueInv DEF TurnMerges, turnOnly
  <2>2. CASE TurnInjects(t)
    BY <1>1, <2>2, NewQueueInv DEF TurnInjects, turnOnly
  <2>3. QED
    BY <1>2, <2>1, <2>2
<1>3. ASSUME NEW x \in Wakes \cup Notes, TurnConsumes(t, x) PROVE QueueInv'
  <2>1. /\ UNCHANGED <<running, interjections, buffer>>
        /\ (queue' = queue \/ queue' = Sweep(queue, running, {x}))
        /\ notes' = Without(notes, {x})
    BY <1>3 DEF TurnConsumes, turnOnly
  <2>2. QED
    BY <1>1, <2>1, SweepProperties, WithoutProperties, NewQueueInv
<1>4. CASE UNCHANGED queueVars
  BY <1>4, UntouchedQueueInv
<1>5. \/ TurnMerges(t) \/ TurnInjects(t)
      \/ \E x \in Wakes \cup Notes : TurnConsumes(t, x)
      \/ UNCHANGED queueVars
  BY DEF Turn, TurnBegins, TurnEmits, TurnRound, TurnSetsGoal, TurnReports,
         TurnParks, TurnUnparks, TurnTails, TurnUnscopes, TurnFinishes,
         TurnReaped, turnOnly, queueVars
<1>6. QED
  BY <1>2, <1>3, <1>4, <1>5

LEMMA OtherTasksKeepQueueInv ==
  ASSUME QueueInv, OtherTasks PROVE QueueInv'
<1>1. /\ queue \in Seq(Ids) /\ interjections \in Seq(Interjections)
      /\ notes \in Seq(Notes) /\ buffer \in Seq(Notes)
  BY DEF QueueInv, QueueTypes
<1>2. CASE StarterStarts
  BY <1>2, StartKeepsFront DEF StarterStarts, untouchedByStart
<1>3. CASE ResumeStarts
  BY <1>3, StartKeepsFront DEF ResumeStarts, untouchedByStart
<1>4. CASE ZombieDrops
  BY <1>4, UntouchedQueueInv DEF ZombieDrops, turnOnly, queueVars
<1>5. ASSUME NEW p \in Plans, ResumeQueues(p) PROVE QueueInv'
  <2>1. queue' = Append(queue, p) /\ UNCHANGED <<running, interjections, notes, buffer>>
    BY <1>5 DEF ResumeQueues
  <2>2. QED
    BY <1>1, <2>1, KindsAreIds, NewQueueInv DEF FrontIs
<1>6. QED
  BY <1>2, <1>3, <1>4, <1>5 DEF OtherTasks

LEMMA QueueInvNext ==
  QueueInv /\ StrandedTyped /\ [Next]_vars => QueueInv' /\ StrandedTyped'
<1> SUFFICES ASSUME QueueInv, StrandedTyped, [Next]_vars PROVE QueueInv' /\ StrandedTyped'
  OBVIOUS
<1>1. ASSUME Next PROVE QueueInv'
  BY <1>1, CommandsKeepQueueInv, ActorStepsKeepQueueInv, TurnKeepsQueueInv,
     OtherTasksKeepQueueInv DEF Next
<1>2. ASSUME UNCHANGED vars PROVE QueueInv'
  BY <1>2, UntouchedQueueInv DEF vars, lockVars, queueVars
<1>3. QED
  BY <1>1, <1>2, StrandedTypedKept

\* Whatever the clients send, and however the tasks interleave, the running
\* prompt is the front of the queue: pop_front at a completion and the index-0
\* rule of a cancel meet the prompt they mean.
THEOREM RunningStaysInFront == Spec => []RunningIsFront
<1>1. QueueInv => RunningIsFront
  BY DEF QueueInv
<1>3. Init => StrandedTyped
  BY DEF Init, StrandedTyped
<1>2. QED
  BY QueueInvInit, QueueInvNext, <1>1, <1>3, PTL DEF Spec

-----------------------------------------------------------------------------
(* Type correctness, part by part.  A step leaves most parts alone.        *)

LEMMA InitTypes == Init => TypeOK
<1> SUFFICES ASSUME Init PROVE TypeOK
  OBVIOUS
<1>1. QueueTypes
  BY DEF Init, QueueTypes
<1>2. RowTypes
  BY Bounds DEF Init, RowTypes
<1>3. FlagTypes
  BY DEF Init, FlagTypes
<1>4. TaskTypes
  BY DEF Init, TaskTypes, Stages
<1>5. ActorTypes
  BY DEF Init, ActorTypes, NoJob
<1>6. FateTypes
  BY DEF Init, FateTypes, Waiting, Ended
<1>7. QED
  BY <1>1, <1>2, <1>3, <1>4, <1>5, <1>6 DEF TypeOK

\* A broadcast lists rows of the queue.
LEMMA BroadcastTypes ==
  ASSUME NEW q \in Seq(Ids), NEW r \in Ids \cup {None}, Broadcast(q, r)
  PROVE  shown' \in [rows : Seq(Users), running : Ids \cup {None}]
<1>1. Keep(q, Users \ {r}) \in Seq(Ids \cap (Users \ {r}))
  BY KeepProperties
<1>2. Keep(q, Users \ {r}) \in Seq(Users)
  BY <1>1
<1>3. QED
  BY <1>2 DEF Broadcast

LEMMA RowTypesKept ==
  ASSUME TypeOK, QueueTypes', Next PROVE RowTypes'
<1>1. /\ queue \in Seq(Ids) /\ queue' \in Seq(Ids) /\ running \in Ids \cup {None}
      /\ interjections \in Seq(Interjections) /\ running' \in Ids \cup {None}
  BY DEF TypeOK, QueueTypes
<1>2. /\ sendNow \subseteq UserOrigin /\ sends \in Seq(UserOrigin)
      /\ version \in [Users -> 0..MaxVersion]
      /\ shown \in [rows : Seq(Users), running : Ids \cup {None}]
  BY DEF TypeOK, RowTypes
<1>3. ASSUME NEW x \in Users \cup Interjections, NEW q \in Seq(UserOrigin)
      PROVE  sendNow \cup {x} \subseteq UserOrigin /\ Append(q, x) \in Seq(UserOrigin)
  <2>1. x \in UserOrigin
    BY DEF UserOrigin
  <2>2. QED
    BY <1>2, <2>1
<1>4. ASSUME MaybeStartRunningTask, UNCHANGED <<queue, sendNow, sends, version>>
      PROVE  RowTypes'
  BY <1>1, <1>2, <1>4, BroadcastTypes DEF MaybeStartRunningTask, RowTypes
<1>5. ASSUME NEW p \in Ids, NEW now \in BOOLEAN, Prompt(p, now), now => p \in Users
      PROVE RowTypes'
  <2>1. shown' \in [rows : Seq(Users), running : Ids \cup {None}]
    BY <1>1, <1>2, <1>5, BroadcastTypes DEF Prompt
  <2>2. /\ UNCHANGED version
        /\ \/ UNCHANGED <<sendNow, sends>>
           \/ p \in Users /\ sendNow' = sendNow \cup {p} /\ sends' = Append(sends, p)
    BY <1>5 DEF Prompt
  <2>3. sendNow' \subseteq UserOrigin /\ sends' \in Seq(UserOrigin)
    <3>1. CASE UNCHANGED <<sendNow, sends>>
      BY <1>2, <3>1
    <3>2. CASE p \in Users /\ sendNow' = sendNow \cup {p} /\ sends' = Append(sends, p)
      <4>1. Append(sends, p) \in Seq(UserOrigin) /\ sendNow \cup {p} \subseteq UserOrigin
        BY <1>2, <1>3, <3>2
      <4>2. QED
        BY <3>2, <4>1
    <3>3. QED
      BY <2>2, <3>1, <3>2
  <2>4. QED
    BY <1>2, <2>1, <2>2, <2>3 DEF RowTypes
<1>6. ASSUME NEW i \in Interjections, Interject(i) PROVE RowTypes'
  <2>1. /\ UNCHANGED <<version, shown>>
        /\ \/ UNCHANGED <<sendNow, sends>>
           \/ sendNow' = sendNow \cup {i} /\ sends' = Append(sends, i)
    BY <1>6 DEF Interject
  <2>2. sendNow' \subseteq UserOrigin /\ sends' \in Seq(UserOrigin)
    <3>1. CASE UNCHANGED <<sendNow, sends>>
      BY <1>2, <3>1
    <3>2. CASE sendNow' = sendNow \cup {i} /\ sends' = Append(sends, i)
      <4>1. Append(sends, i) \in Seq(UserOrigin) /\ sendNow \cup {i} \subseteq UserOrigin
        BY <1>2, <1>3
      <4>2. QED
        BY <3>2, <4>1
    <3>3. QED
      BY <2>1, <3>1, <3>2
  <2>3. QED
    BY <1>2, <2>1, <2>2 DEF RowTypes
<1>7. ASSUME NEW p \in Users, NEW v \in 0..MaxVersion, NEW who,
             RemoveQueuedPrompt(p, v, who)
      PROVE RowTypes'
  BY <1>1, <1>2, <1>7, BroadcastTypes DEF RemoveQueuedPrompt, untouchedByRows, RowTypes
<1>8. ASSUME NEW p \in Users, NEW v \in 0..MaxVersion, NEW who, NEW edited \in BOOLEAN,
             InterjectQueuedPrompt(p, v, who, edited)
      PROVE RowTypes'
  <2>1. shown' \in [rows : Seq(Users), running : Ids \cup {None}]
    BY <1>1, <1>8, BroadcastTypes DEF InterjectQueuedPrompt, untouchedByRows
  <2>2. /\ \/ UNCHANGED version
           \/ version[p] < MaxVersion /\ version' = [version EXCEPT ![p] = @ + 1]
        /\ \/ UNCHANGED <<sendNow, sends>>
           \/ sendNow' = sendNow \cup {p} /\ sends' = Append(Without(sends, {p}), p)
    BY <1>8 DEF InterjectQueuedPrompt
  <2>3. Without(sends, {p}) \in Seq(UserOrigin)
    BY <1>2, WithoutProperties
  <2>4. sendNow' \subseteq UserOrigin /\ sends' \in Seq(UserOrigin)
    <3>1. CASE UNCHANGED <<sendNow, sends>>
      BY <1>2, <3>1
    <3>2. CASE sendNow' = sendNow \cup {p} /\ sends' = Append(Without(sends, {p}), p)
      <4>1. /\ Append(Without(sends, {p}), p) \in Seq(UserOrigin)
            /\ sendNow \cup {p} \subseteq UserOrigin
        BY <1>2, <1>3, <2>3
      <4>2. QED
        BY <3>2, <4>1
    <3>3. QED
      BY <2>2, <3>1, <3>2
  <2>5. version' \in [Users -> 0..MaxVersion]
    BY SMTT(40), <1>2, <2>2, Bounds
  <2>6. QED
    BY <2>1, <2>4, <2>5 DEF RowTypes
<1>9. ASSUME NEW who, ClearQueue(who) PROVE RowTypes'
  BY <1>1, <1>2, <1>9, BroadcastTypes DEF ClearQueue, untouchedByRows, RowTypes
<1>10. ASSUME NEW order, ReorderQueue(order) PROVE RowTypes'
  BY <1>1, <1>2, <1>10, BroadcastTypes DEF ReorderQueue, untouchedByRows, RowTypes
<1>11. ASSUME NEW p \in Users, EditQueuedPrompt(p) PROVE RowTypes'
  <2>1. version' \in [Users -> 0..MaxVersion]
    BY <1>2, <1>11, Bounds DEF EditQueuedPrompt
  <2>2. QED
    BY <1>1, <1>2, <1>11, <2>1, BroadcastTypes DEF EditQueuedPrompt, untouchedByRows,
       RowTypes
<1>12. CASE HandleCompletion
  BY <1>1, <1>2, <1>12, BroadcastTypes DEF HandleCompletion, RowTypes
<1>13. CASE RequeueStranded
  <2>1. Last(stranded) \in Interjections
    BY <1>13, StrandedParts DEF StrandedTyped, TypeOK, ActorTypes
  <2>2. sendNow' \subseteq UserOrigin /\ sends' \in Seq(UserOrigin)
    BY <1>2, <1>13, <2>1 DEF RequeueStranded, UserOrigin
  <2>3. QED
    BY <1>2, <1>13, <2>2 DEF RequeueStranded, RowTypes
<1>14. CASE UNCHANGED <<sendNow, sends, version, shown>>
  BY <1>2, <1>14 DEF RowTypes
<1>15. CASE Commands
  <2>1. ASSUME NEW p \in Wakes \cup Crons, Prompt(p, FALSE) PROVE RowTypes'
    BY <1>5, <2>1, KindsAreIds
  <2>2. ASSUME NEW p \in Users, NEW now \in BOOLEAN, Prompt(p, now) PROVE RowTypes'
    BY <1>5, <2>2, KindsAreIds
  <2>3. CASE \/ \E w \in Wakes : TaskCompletes(w)
             \/ \E n \in Notes, next \in BOOLEAN : InjectNotification(n, next)
             \/ \E n \in Notes : DropMonitorNotifications(n)
             \/ \E mode \in CancelModes : Cancel(mode)
    BY ZenonT(60), <1>14, <2>3 DEF TaskCompletes, InjectNotification,
       DropMonitorNotifications,
       Cancel, lockVars, seenVars
  <2>4. QED
    BY <1>6, <1>7, <1>8, <1>9, <1>10, <1>11, <1>15, <2>1, <2>2, <2>3 DEF Commands
<1>16. CASE ActorSteps
  <2>1. CASE Start
    BY <1>4, <2>1 DEF Start, untouchedByStart
  <2>2. CASE \/ CancelSnapshot \/ CancelTeardown \/ CancelUngates \/ CancelAbort
             \/ CancelAnswers \/ SweepMonitorBuffer \/ TurnEnd
             \/ FlushStrandedInterjections \/ MaybeDrainNotifications
    BY <1>14, <2>2 DEF CancelSnapshot, CancelTeardown, CancelUngates, CancelAbort,
       CancelAnswers, SweepMonitorBuffer, TurnEnd, FlushStrandedInterjections,
       MaybeDrainNotifications, lockVars, seenVars
  <2>3. QED
    BY <1>12, <1>13, <1>16, <2>1, <2>2 DEF ActorSteps
<1>17. CASE OtherTasks
  <2>1. CASE StarterStarts \/ ResumeStarts
    BY <1>4, <2>1 DEF StarterStarts, ResumeStarts, untouchedByStart
  <2>2. CASE ZombieDrops
    BY <1>14, <2>2 DEF ZombieDrops, turnOnly
  <2>3. ASSUME NEW p \in Plans, ResumeQueues(p) PROVE RowTypes'
    BY <1>1, <1>2, <2>3, BroadcastTypes DEF ResumeQueues, RowTypes
  <2>4. QED
    BY <1>17, <2>1, <2>2, <2>3 DEF OtherTasks
<1>18. ASSUME NEW t \in Ids, Turn(t) PROVE RowTypes'
  BY <1>14, <1>18 DEF Turn, TurnBegins, TurnEmits, TurnMerges, TurnInjects,
     TurnRound, TurnSetsGoal, TurnReports, TurnConsumes, TurnParks, TurnUnparks,
     TurnTails, TurnUnscopes,
     TurnFinishes, TurnReaped, turnOnly
<1>19. QED
  BY <1>15, <1>16, <1>17, <1>18 DEF Next

flagVars == <<rewindable, suppressed, active, pin, depth, gate, goal, delivered,
              reported, surfaced>>

LEMMA FlagTypesKept ==
  ASSUME TypeOK, Next PROVE FlagTypes'
<1>1. /\ queue \in Seq(Ids) /\ notes \in Seq(Notes) /\ buffer \in Seq(Notes)
  BY DEF TypeOK, QueueTypes
<1>2. FlagTypes
  BY DEF TypeOK
<1>3. Released \in Nat /\ depth + 1 \in Nat /\ DepthAfterCancel \in Nat
  BY <1>2 DEF FlagTypes, Released, DepthAfterCancel
<1>4. \A t : PinWithout(t) \in Ids \cup {None}
  BY <1>2 DEF FlagTypes, PinWithout
<1>5. ASSUME MaybeStartRunningTask,
             UNCHANGED <<suppressed, active, depth, gate, goal, delivered, reported,
             surfaced>>
      PROVE  FlagTypes'
  <2>1. queue # <<>> => Head(queue) \in Ids
    BY <1>1
  <2>2. QED
    BY <1>2, <1>5, <2>1 DEF MaybeStartRunningTask, FlagTypes
<1>6. CASE UNCHANGED flagVars
  BY <1>2, <1>6 DEF FlagTypes, flagVars
<1>7. CASE Commands
  <2>1. ASSUME NEW p \in Users \cup Wakes \cup Crons, NEW now \in BOOLEAN, Prompt(p, now)
        PROVE  FlagTypes'
    <3>1. /\ suppressed' \in BOOLEAN /\ delivered' \subseteq delivered
          /\ reported' \subseteq reported \cup ({p} \cap Wakes)
          /\ UNCHANGED <<rewindable, active, pin, depth, gate, goal, surfaced>>
      BY <2>1 DEF Prompt, waitVars, goalVars
    <3>2. QED
      BY <1>2, <3>1 DEF FlagTypes
  <2>2. ASSUME NEW w \in Wakes, TaskCompletes(w) PROVE FlagTypes'
    BY <1>2, <2>2 DEF TaskCompletes, FlagTypes, lockVars, waitVars, goalVars
  <2>4. ASSUME NEW i, Interject(i) PROVE UNCHANGED flagVars
    BY <2>4 DEF Interject, flagVars, waitVars, goalVars, wakeVars
  <2>5. ASSUME NEW n, NEW next, InjectNotification(n, next) \/ DropMonitorNotifications(n)
        PROVE  UNCHANGED flagVars
    BY <2>5 DEF InjectNotification, DropMonitorNotifications, flagVars, waitVars,
                goalVars, wakeVars
  <2>6. ASSUME NEW p, NEW v, NEW who, NEW edited, NEW order,
               \/ RemoveQueuedPrompt(p, v, who) \/ InterjectQueuedPrompt(p, v, who, edited)
               \/ ClearQueue(who) \/ ReorderQueue(order) \/ EditQueuedPrompt(p)
        PROVE  UNCHANGED flagVars
    BY <2>6 DEF RemoveQueuedPrompt, InterjectQueuedPrompt, ClearQueue, ReorderQueue,
                EditQueuedPrompt, untouchedByRows, flagVars, waitVars, goalVars, wakeVars
  <2>7. ASSUME NEW mode, Cancel(mode) PROVE UNCHANGED flagVars
    BY <2>7 DEF Cancel, flagVars, lockVars, waitVars, goalVars, wakeVars
  <2>8. QED
    BY <1>6, <1>7, <2>1, <2>2, <2>4, <2>5, <2>6, <2>7 DEF Commands
<1>8. CASE ActorSteps
  <2>1. CASE Start
    BY <1>5, <2>1 DEF Start, untouchedByStart, waitVars, goalVars, wakeVars
  <2>2. CASE CancelSnapshot
    BY <1>6, <2>2 DEF CancelSnapshot, flagVars, lockVars, waitVars, goalVars, wakeVars
  <2>3. CASE CancelTeardown
    BY <1>2, <2>3 DEF CancelTeardown, FlagTypes, goalVars, wakeVars
  <2>4. CASE CancelUngates \/ CancelAbort \/ CancelAnswers
    BY <1>2, <1>3, <2>4 DEF CancelUngates, CancelAbort, CancelAnswers, StillSilent,
       FlagTypes, lockVars, waitVars, goalVars, wakeVars
  <2>5. CASE HandleCompletion
    BY <1>2, <1>4, <2>5 DEF HandleCompletion, FlagTypes, waitVars, wakeVars
  <2>6. CASE TurnEnd
    BY <1>2, <2>6 DEF TurnEnd, FlagTypes, waitVars, wakeVars
  <2>7. CASE SweepMonitorBuffer \/ FlushStrandedInterjections \/ RequeueStranded
    BY <1>6, <2>7 DEF SweepMonitorBuffer, FlushStrandedInterjections, RequeueStranded,
       flagVars, lockVars, waitVars, goalVars, wakeVars
  <2>8. CASE MaybeDrainNotifications
    <3>1. ToSet(notes \o buffer) \subseteq Notes
      <4>1. notes \o buffer \in Seq(Notes)
        BY <1>1
      <4>2. QED
        BY <4>1 DEF ToSet
    <3>2. /\ (reported' = reported \/ reported' = reported \cup ToSet(notes \o buffer))
          /\ UNCHANGED <<rewindable, suppressed, active, pin, depth, gate, goal,
                         delivered, surfaced>>
      BY <2>8 DEF MaybeDrainNotifications, waitVars, goalVars
    <3>3. QED
      BY <1>2, <3>1, <3>2 DEF FlagTypes
  <2>9. QED
    BY <1>8, <2>1, <2>2, <2>3, <2>4, <2>5, <2>6, <2>7, <2>8 DEF ActorSteps
<1>9. CASE OtherTasks
  <2>1. CASE StarterStarts \/ ResumeStarts
    BY <1>5, <2>1 DEF StarterStarts, ResumeStarts, untouchedByStart, waitVars,
       goalVars, wakeVars
  <2>2. CASE ZombieDrops
    BY <1>2, <1>3, <2>2 DEF ZombieDrops, FlagTypes, turnOnly, goalVars, wakeVars
  <2>3. ASSUME NEW p \in Plans, ResumeQueues(p) PROVE FlagTypes'
    BY <1>6, <2>3 DEF ResumeQueues, flagVars, waitVars, goalVars, wakeVars
  <2>4. QED
    BY <1>9, <2>1, <2>2, <2>3 DEF OtherTasks
<1>10. ASSUME NEW t \in Ids, Turn(t) PROVE FlagTypes'
  <2>1. CASE \/ TurnBegins(t) \/ TurnEmits(t) \/ TurnMerges(t)
             \/ TurnInjects(t) \/ TurnTails(t) \/ TurnRound(t)
             \/ \E status \in {"active", "complete", "off"} : TurnSetsGoal(t, status)
    BY <1>2, <2>1 DEF TurnBegins, TurnEmits, TurnMerges, TurnInjects, TurnTails,
       TurnRound, TurnSetsGoal, FlagTypes, turnOnly, waitVars, goalVars, wakeVars
  <2>2. ASSUME NEW atToolCall \in BOOLEAN, TurnReports(t, atToolCall) PROVE FlagTypes'
    BY <1>2, <2>2 DEF TurnReports, FlagTypes, turnOnly, waitVars, goalVars
  <2>3. ASSUME NEW x, TurnConsumes(t, x) PROVE FlagTypes'
    BY <1>2, <2>3 DEF TurnConsumes, FlagTypes, turnOnly, waitVars, goalVars
  <2>4. CASE TurnParks(t) \/ TurnUnparks(t)
    BY <1>2, <1>3, <2>4 DEF TurnParks, TurnUnparks, FlagTypes, turnOnly, goalVars,
       wakeVars
  <2>5. CASE TurnUnscopes(t) \/ TurnFinishes(t) \/ TurnReaped(t)
    BY <1>2, <1>4, <2>5 DEF TurnUnscopes, TurnFinishes, TurnReaped, FlagTypes, turnOnly,
                            waitVars, goalVars, wakeVars
  <2>6. QED
    BY <1>10, <2>1, <2>2, <2>3, <2>4, <2>5 DEF Turn
<1>11. QED
  BY <1>7, <1>8, <1>9, <1>10 DEF Next

taskVars == <<turns, parked, zombies, completions, starter, resume>>

LEMMA TaskTypesKept ==
  ASSUME TypeOK, Next PROVE TaskTypes'
<1>1. queue \in Seq(Ids) /\ TaskTypes
  BY DEF TypeOK, QueueTypes
<1>2. ASSUME NEW t \in Ids, NEW stage \in Stages
      PROVE  [turns EXCEPT ![t] = stage] \in [Ids -> Stages]
  BY <1>1 DEF TaskTypes
<1>3. {"none", "spawned", "run", "late", "tail", "unscoped", "aborted"} \subseteq Stages
  BY DEF Stages
<1>4. ASSUME MaybeStartRunningTask PROVE turns' \in [Ids -> Stages]
  <2>1. queue # <<>> => Head(queue) \in Ids
    BY <1>1
  <2>2. QED
    BY <1>1, <1>2, <1>3, <1>4, <2>1 DEF MaybeStartRunningTask, TaskTypes
<1>5. ASSUME NEW t \in Ids \cup {None}, AbortTask(t)
      PROVE  turns' \in [Ids -> Stages] /\ parked' \subseteq Ids /\ zombies' \in Nat
  <2>1. CASE t = None
    BY <1>1, <1>5, <2>1 DEF AbortTask, TaskTypes
  <2>2. CASE t # None
    <3>1. turns' = [turns EXCEPT ![t] = "none"] \/ turns' = [turns EXCEPT ![t] = "aborted"]
      BY <1>1, <1>5, <2>2 DEF AbortTask, TaskTypes
    <3>2. QED
      BY <1>1, <1>2, <1>3, <1>5, <2>2, <3>1 DEF AbortTask, TaskTypes
  <2>3. QED
    BY <2>1, <2>2
<1>6. CASE UNCHANGED taskVars
  BY <1>1, <1>6 DEF TaskTypes, taskVars
<1>7. CASE Commands
  <2>1. ASSUME NEW p, NEW now, Prompt(p, now) PROVE UNCHANGED taskVars
    BY <2>1 DEF Prompt, taskVars, waitVars, startVars
  <2>2. ASSUME NEW w, TaskCompletes(w) PROVE UNCHANGED taskVars
    BY <2>2 DEF TaskCompletes, taskVars, waitVars, startVars
  <2>3. ASSUME NEW i, Interject(i) PROVE UNCHANGED taskVars
    BY <2>3 DEF Interject, taskVars, waitVars, startVars
  <2>4. ASSUME NEW n, NEW next, InjectNotification(n, next) \/ DropMonitorNotifications(n)
        PROVE  UNCHANGED taskVars
    BY <2>4 DEF InjectNotification, DropMonitorNotifications, taskVars, waitVars,
       startVars
  <2>5. ASSUME NEW p, NEW v, NEW who, NEW edited, NEW order,
               \/ RemoveQueuedPrompt(p, v, who) \/ InterjectQueuedPrompt(p, v, who, edited)
               \/ ClearQueue(who) \/ ReorderQueue(order) \/ EditQueuedPrompt(p)
        PROVE  UNCHANGED taskVars
    BY <2>5 DEF RemoveQueuedPrompt, InterjectQueuedPrompt, ClearQueue, ReorderQueue,
                EditQueuedPrompt, untouchedByRows, taskVars, waitVars, startVars
  <2>6. ASSUME NEW mode, Cancel(mode) PROVE UNCHANGED taskVars
    BY <2>6 DEF Cancel, taskVars, waitVars, startVars
  <2>7. QED
    BY <1>6, <1>7, <2>1, <2>2, <2>3, <2>4, <2>5, <2>6 DEF Commands
<1>8. CASE ActorSteps
  <2>1. CASE Start
    BY <1>1, <1>4, <2>1 DEF Start, TaskTypes, untouchedByStart, waitVars, startVars
  <2>2. CASE CancelTeardown
    <3>1. PICK t \in {running, None} : AbortTask(t)
      BY <2>2 DEF CancelTeardown
    <3>2. t \in Ids \cup {None}
      BY DEF TypeOK, QueueTypes
    <3>3. UNCHANGED <<completions, starter, resume>>
      BY <2>2 DEF CancelTeardown, startVars
    <3>4. QED
      BY <1>1, <1>5, <3>1, <3>2, <3>3 DEF TaskTypes
  <2>3. CASE CancelAbort
    <3>1. job.task \in Ids \cup {None}
      BY DEF TypeOK, ActorTypes
    <3>2. AbortTask(job.task) /\ UNCHANGED <<completions, starter, resume>>
      BY <2>3 DEF CancelAbort, startVars
    <3>3. QED
      BY <1>1, <1>5, <3>1, <3>2 DEF TaskTypes
  <2>4. CASE HandleCompletion
    BY <1>1, <2>4 DEF HandleCompletion, TaskTypes, waitVars, startVars
  <2>5. CASE \/ CancelSnapshot \/ CancelUngates \/ CancelAnswers \/ SweepMonitorBuffer
             \/ TurnEnd \/ FlushStrandedInterjections \/ RequeueStranded
             \/ MaybeDrainNotifications
    BY <1>6, <2>5 DEF CancelSnapshot, CancelUngates, CancelAnswers, SweepMonitorBuffer,
       TurnEnd, FlushStrandedInterjections, RequeueStranded, MaybeDrainNotifications,
       taskVars, waitVars, startVars
  <2>6. QED
    BY <1>8, <2>1, <2>2, <2>3, <2>4, <2>5 DEF ActorSteps
<1>9. CASE OtherTasks
  <2>1. CASE StarterStarts \/ ResumeStarts
    BY <1>1, <1>4, <2>1 DEF StarterStarts, ResumeStarts, TaskTypes, untouchedByStart,
       waitVars
  <2>2. CASE ZombieDrops
    BY <1>1, <2>2 DEF ZombieDrops, TaskTypes, turnOnly, startVars
  <2>3. ASSUME NEW p \in Plans, ResumeQueues(p) PROVE TaskTypes'
    BY <1>1, <2>3 DEF ResumeQueues, TaskTypes, waitVars
  <2>4. QED
    BY <1>9, <2>1, <2>2, <2>3 DEF OtherTasks
<1>10. ASSUME NEW t \in Ids, Turn(t) PROVE TaskTypes'
  <2>1. CASE TurnEmits(t) \/ TurnMerges(t) \/ TurnInjects(t) \/ TurnRound(t)
             \/ (\E status \in {"active", "complete", "off"} : TurnSetsGoal(t, status))
             \/ (\E atToolCall \in BOOLEAN : TurnReports(t, atToolCall))
             \/ \E x \in Wakes \cup Notes : TurnConsumes(t, x)
    BY <1>6, <2>1 DEF TurnEmits, TurnMerges, TurnInjects, TurnRound, TurnSetsGoal,
       TurnReports, TurnConsumes, taskVars, turnOnly, waitVars, startVars
  <2>2. CASE TurnParks(t) \/ TurnUnparks(t)
    BY <1>1, <1>2, <1>3, <2>2 DEF TurnParks, TurnUnparks, TaskTypes, turnOnly, startVars
  <2>3. CASE TurnBegins(t) \/ TurnTails(t) \/ TurnUnscopes(t) \/ TurnReaped(t)
    BY <1>1, <1>2, <1>3, <2>3 DEF TurnBegins, TurnTails, TurnUnscopes, TurnReaped,
                                  TaskTypes, turnOnly, waitVars, startVars
  <2>4. CASE TurnFinishes(t)
    <3>1. Append(completions, t) \in Seq(Ids)
      BY <1>1 DEF TaskTypes
    <3>2. QED
      BY <1>1, <1>2, <1>3, <2>4, <3>1 DEF TurnFinishes, TaskTypes, turnOnly, waitVars,
         startVars
  <2>5. QED
    BY <1>10, <2>1, <2>2, <2>3, <2>4 DEF Turn
<1>11. QED
  BY <1>7, <1>8, <1>9, <1>10 DEF Next

LEMMA ActorTypesKept ==
  ASSUME TypeOK, StrandedTyped', Next PROVE ActorTypes'
<1>1. /\ ActorTypes /\ queue \in Seq(Ids)
      /\ running \in Ids \cup {None} /\ pin \in Ids \cup {None}
  BY DEF TypeOK, QueueTypes, FlagTypes
<1> DEFINE Jobs == [mode : Modes \cup {None}, pinned : Ids \cup {None},
                    named : Ids \cup {None}, task : Ids \cup {None},
                    closing : Seq(Ids), rewound : BOOLEAN]
<1>2. NoJob \in Jobs /\ \A mode \in Modes : [NoJob EXCEPT !.mode = mode] \in Jobs
  <2>1. NoJob \in Jobs
    BY DEF NoJob
  <2>2. ASSUME NEW mode \in Modes PROVE [NoJob EXCEPT !.mode = mode] \in Jobs
    BY <2>1
  <2>3. QED
    BY <2>1, <2>2
<1>3. /\ <<>> \in Seq(Steps) /\ <<"start">> \in Seq(Steps) /\ <<"drain">> \in Seq(Steps)
      /\ Cancelling \in Seq(Steps) /\ Completing \in Seq(Steps)
      /\ <<"requeue">> \in Seq(Steps)
  BY DEF Steps, Cancelling, Completing
<1>4. ASSUME agenda # <<>>
      PROVE  /\ Tail(agenda) \in Seq(Steps) /\ <<"start">> \o Tail(agenda) \in Seq(Steps)
             /\ <<"requeue">> \o Tail(agenda) \in Seq(Steps)
  <2>1. Tail(agenda) \in Seq(Steps)
    BY <1>1, <1>4 DEF ActorTypes
  <2>2. QED
    BY <1>3, <2>1
<1>5. CASE UNCHANGED <<agenda, job>>
  BY <1>1, <1>5 DEF ActorTypes, StrandedTyped
<1> HIDE DEF Jobs
<1>6. ASSUME agenda' \in Seq(Steps), job' \in Jobs PROVE ActorTypes'
  BY <1>6 DEF ActorTypes, Jobs, StrandedTyped
<1>7. job \in Jobs
  BY <1>1 DEF ActorTypes, Jobs
<1>8. CASE Commands
  <2>1. "send_now" \in Modes /\ CancelModes \subseteq Modes
    BY KnownModes DEF Modes
  <2>2. ASSUME NEW p, NEW now, Prompt(p, now) PROVE ActorTypes'
    <3>1. /\ agenda' \in {Cancelling, <<"start">>}
          /\ job' \in {NoJob, [NoJob EXCEPT !.mode = "send_now"]}
      BY <2>2 DEF Prompt
    <3>2. QED
      BY <1>2, <1>3, <1>6, <2>1, <3>1
  <2>3. ASSUME NEW i, Interject(i) PROVE ActorTypes'
    BY <1>1, <1>3, <1>6, <1>7, <2>3 DEF Interject, ActorTypes
  <2>4. ASSUME NEW n, NEW next, InjectNotification(n, next) PROVE ActorTypes'
    BY <1>1, <1>3, <1>6, <1>7, <2>4 DEF InjectNotification, ActorTypes
  <2>5. ASSUME NEW p, NEW v, NEW who, NEW edited, InterjectQueuedPrompt(p, v, who, edited)
        PROVE  ActorTypes'
    <3>1. /\ agenda' \in {Cancelling, <<"start">>}
          /\ job' \in {job, NoJob, [NoJob EXCEPT !.mode = "send_now"]}
      BY <2>5 DEF InterjectQueuedPrompt
    <3>2. QED
      BY <1>2, <1>3, <1>6, <1>7, <2>1, <3>1
  <2>6. ASSUME NEW mode \in CancelModes, Cancel(mode) PROVE ActorTypes'
    <3>1. agenda' = Cancelling /\ job' = [NoJob EXCEPT !.mode = mode]
      BY <2>6 DEF Cancel
    <3>2. QED
      BY <1>2, <1>3, <1>6, <2>1, <3>1
  <2>7. ASSUME NEW p, NEW v, NEW who, NEW order, NEW n, NEW w,
               \/ RemoveQueuedPrompt(p, v, who) \/ ClearQueue(who) \/ ReorderQueue(order)
               \/ EditQueuedPrompt(p) \/ DropMonitorNotifications(n) \/ TaskCompletes(w)
        PROVE  ActorTypes'
    BY <1>5, <2>7 DEF RemoveQueuedPrompt, ClearQueue, ReorderQueue, EditQueuedPrompt,
                      DropMonitorNotifications, TaskCompletes, actorVars
  <2>8. QED
    BY <1>8, <2>2, <2>3, <2>4, <2>5, <2>6, <2>7 DEF Commands
<1>9. CASE ActorSteps
  <2>1. CASE Start
    BY <1>4, <1>6, <1>7, <2>1 DEF Start, Doing
  <2>2. CASE CancelSnapshot
    <3>1. job' = [job EXCEPT !.pinned = pin,
    !.named = IF running # None THEN running ELSE pin]
      BY <2>2 DEF CancelSnapshot
    <3>2. job' \in Jobs
      BY <1>1, <1>7, <3>1 DEF Jobs
    <3>3. QED
      BY <1>4, <1>6, <2>2, <3>2 DEF CancelSnapshot, Doing
  <2>3. CASE CancelTeardown
    <3>1. CancelTakes(job.mode) \in Seq(Ids)
      BY <1>1 DEF CancelTakes
    <3>2. PICK task \in {running, None}, rewound \in BOOLEAN :
            job' = [job EXCEPT !.task = task, !.closing = CancelTakes(job.mode),
                               !.rewound = rewound]
      BY <2>3 DEF CancelTeardown
    <3>3. job' \in Jobs
      BY <1>1, <1>7, <3>1, <3>2 DEF Jobs
    <3>4. QED
      BY <1>4, <1>6, <2>3, <3>3 DEF CancelTeardown, Doing
  <2>4. CASE CancelUngates \/ CancelAbort \/ CancelAnswers
    BY <1>2, <1>4, <1>6, <1>7, <2>4 DEF CancelUngates, CancelAbort, CancelAnswers, Doing
  <2>5. CASE HandleCompletion
    BY <1>3, <1>6, <1>7, <2>5 DEF HandleCompletion
  <2>6. CASE SweepMonitorBuffer \/ TurnEnd \/ FlushStrandedInterjections
             \/ RequeueStranded
    <3>1. /\ agenda # <<>> /\ job' = job
          /\ agenda' \in {agenda, Tail(agenda), <<"requeue">> \o Tail(agenda)}
      BY <2>6 DEF SweepMonitorBuffer, TurnEnd, FlushStrandedInterjections,
         RequeueStranded, Doing
    <3>2. agenda \in Seq(Steps)
      BY <1>1 DEF ActorTypes
    <3>3. QED
      BY <1>4, <1>6, <1>7, <3>1, <3>2
  <2>7. CASE MaybeDrainNotifications
    <3>1. agenda # <<>> /\ job' = job /\ agenda' \in {Tail(agenda),
    <<"start">> \o Tail(agenda)}
      BY <2>7 DEF MaybeDrainNotifications, Doing
    <3>2. QED
      BY <1>4, <1>6, <1>7, <3>1
  <2>8. QED
    BY <1>9, <2>1, <2>2, <2>3, <2>4, <2>5, <2>6, <2>7 DEF ActorSteps
<1>10. CASE OtherTasks
  BY <1>5, <1>10 DEF OtherTasks, StarterStarts, ResumeStarts, ResumeQueues, ZombieDrops,
                     turnOnly, actorVars
<1>11. ASSUME NEW t \in Ids, Turn(t) PROVE ActorTypes'
  BY <1>5, <1>11 DEF Turn, TurnBegins, TurnEmits, TurnMerges, TurnInjects,
     TurnRound, TurnSetsGoal, TurnReports, TurnConsumes, TurnParks, TurnUnparks,
     TurnTails, TurnUnscopes,
     TurnFinishes, TurnReaped, turnOnly, actorVars
<1>12. QED
  BY <1>8, <1>9, <1>10, <1>11 DEF Next

LEMMA FateTypesKept ==
  ASSUME TypeOK, Next PROVE FateTypes'
<1> DEFINE Fates == Waiting \cup Ended
<1>1. FateTypes /\ queue \in Seq(Ids)
  BY DEF TypeOK, QueueTypes
<1>2. {"unsent", "sent", "queued", "buffered", "pending", "done", "cancelled",
       "rewound", "removed", "swept", "consumed", "merged", "discarded", "capped",
       "muted", "dropped", "injected"} \subseteq Fates
  BY DEF Waiting, Ended
<1> HIDE DEF Fates
<1>3. /\ fate \in [Ids -> Fates] /\ started \subseteq Ids
      /\ terminals \in [Ids -> Nat] /\ hushed \in BOOLEAN
  BY <1>1 DEF FateTypes, Fates
<1>4. ASSUME NEW S, NEW what \in Fates, Becomes(S, what) PROVE fate' \in [Ids -> Fates]
  BY <1>3, <1>4 DEF Becomes
<1>5. ASSUME fate' \in [Ids -> Fates], started' \subseteq Ids,
             terminals' \in [Ids -> Nat], hushed' \in BOOLEAN
      PROVE  FateTypes'
  BY <1>5 DEF FateTypes, Fates
<1>6. ASSUME MaybeStartRunningTask PROVE started' \subseteq Ids
  BY <1>1, <1>3, <1>6 DEF MaybeStartRunningTask
<1>7. completions # <<>> => Head(completions) \in Ids
  BY DEF TypeOK, TaskTypes
<1>8. CASE Commands
  <2>1. started' = started /\ terminals' = terminals
    BY ZenonT(60), <1>8 DEF Commands, Prompt, TaskCompletes, Interject, InjectNotification,
       DropMonitorNotifications, RemoveQueuedPrompt, InterjectQueuedPrompt, ClearQueue,
       ReorderQueue, EditQueuedPrompt, Cancel, untouchedByRows, seenVars
  <2>4. hushed' \in BOOLEAN
    <3>1. ASSUME NEW p, NEW now, Prompt(p, now) PROVE hushed' \in BOOLEAN
      BY <1>3, <3>1 DEF Prompt
    <3>2. (\E p, now : Prompt(p, now)) \/ hushed' = hushed
      BY ZenonT(60), <1>8 DEF Commands, TaskCompletes, Interject, InjectNotification,
         DropMonitorNotifications, RemoveQueuedPrompt, InterjectQueuedPrompt, ClearQueue,
         ReorderQueue, EditQueuedPrompt, Cancel, untouchedByRows, seenVars
    <3>3. QED
      BY <1>3, <3>1, <3>2
  <2>2. fate' \in [Ids -> Fates]
    <3>1. ASSUME NEW p, NEW now, Prompt(p, now) PROVE fate' \in [Ids -> Fates]
      BY <1>2, <1>3, <3>1 DEF Prompt
    <3>2. ASSUME NEW w, TaskCompletes(w) PROVE fate' \in [Ids -> Fates]
      BY <1>2, <1>4, <3>2 DEF TaskCompletes
    <3>3. ASSUME NEW i, Interject(i) PROVE fate' \in [Ids -> Fates]
      BY <1>2, <1>4, <3>3 DEF Interject
    <3>4. ASSUME NEW n, NEW next, InjectNotification(n, next) PROVE fate' \in [Ids -> Fates]
      BY <1>2, <1>3, <3>4 DEF InjectNotification
    <3>5. ASSUME NEW n, DropMonitorNotifications(n) PROVE fate' \in [Ids -> Fates]
      BY <1>2, <1>4, <3>5 DEF DropMonitorNotifications
    <3>6. ASSUME NEW p, NEW v, NEW who, RemoveQueuedPrompt(p, v, who)
          PROVE  fate' \in [Ids -> Fates]
      BY <1>2, <1>3, <1>4, <3>6 DEF RemoveQueuedPrompt
    <3>7. ASSUME NEW who, ClearQueue(who) PROVE fate' \in [Ids -> Fates]
      BY <1>2, <1>4, <3>7 DEF ClearQueue
    <3>8. ASSUME NEW p, NEW v, NEW who, NEW edited, NEW order, NEW mode,
                 \/ InterjectQueuedPrompt(p, v, who, edited) \/ ReorderQueue(order)
                 \/ EditQueuedPrompt(p) \/ Cancel(mode)
          PROVE  fate' \in [Ids -> Fates]
      BY <1>3, <3>8 DEF InterjectQueuedPrompt, ReorderQueue, EditQueuedPrompt, Cancel,
         seenVars
    <3>9. QED
      BY <1>8, <3>1, <3>2, <3>3, <3>4, <3>5, <3>6, <3>7, <3>8 DEF Commands
  <2>3. QED
    BY <1>3, <1>5, <2>1, <2>2, <2>4
<1>9. CASE ActorSteps
  <2>1. CASE Start
    BY <1>3, <1>5, <1>6, <2>1 DEF Start, untouchedByStart
  <2>2. CASE CancelSnapshot
    BY <1>2, <1>3, <1>4, <1>5, <2>2 DEF CancelSnapshot
  <2>3. CASE CancelTeardown
    BY <1>2, <1>3, <1>4, <1>5, <2>3 DEF CancelTeardown
  <2>10. CASE CancelUngates \/ CancelAbort \/ SweepMonitorBuffer
              \/ FlushStrandedInterjections
    BY <1>3, <1>5, <2>10 DEF CancelUngates, CancelAbort, SweepMonitorBuffer,
       FlushStrandedInterjections, seenVars
  <2>4. CASE CancelAnswers
    <3> DEFINE ends == IF job.rewound THEN {} ELSE {Victim} \ {None}
    <3>1. terminals' = [p \in Ids |-> IF p \in ends THEN terminals[p] + 1 ELSE terminals[p]]
      BY <2>4 DEF CancelAnswers
    <3> HIDE DEF ends
    <3>2. terminals' \in [Ids -> Nat]
      BY <1>3, <3>1
    <3>3. PICK what \in {"rewound", "cancelled"} : Becomes(ToSet(job.closing), what)
      BY <2>4 DEF CancelAnswers
    <3>4. fate' \in [Ids -> Fates]
      BY <1>2, <1>4, <3>3
    <3>5. QED
      BY <1>3, <1>5, <2>4, <3>2, <3>4 DEF CancelAnswers
  <2>5. CASE HandleCompletion
    <3>1. fate' \in [Ids -> Fates]
      BY <1>2, <1>3, <1>4, <2>5 DEF HandleCompletion
    <3>2. terminals' \in [Ids -> Nat]
      BY <1>3, <1>7, <2>5 DEF HandleCompletion
    <3>3. QED
      BY <1>3, <1>5, <2>5, <3>1, <3>2 DEF HandleCompletion
  <2>6. CASE TurnEnd
    BY <1>2, <1>3, <1>4, <1>5, <2>6 DEF TurnEnd
  <2>7. CASE RequeueStranded
    BY <1>2, <1>3, <1>4, <1>5, <2>7 DEF RequeueStranded
  <2>8. CASE MaybeDrainNotifications
    <3>1. fate' \in [Ids -> Fates]
      BY <1>2, <1>3, <2>8 DEF MaybeDrainNotifications
    <3>2. QED
      BY <1>3, <1>5, <2>8, <3>1 DEF MaybeDrainNotifications
  <2>9. QED
    BY <1>9, <2>1, <2>2, <2>3, <2>4, <2>5, <2>6, <2>7, <2>8, <2>10
    DEF ActorSteps
<1>10. CASE OtherTasks
  <2>1. CASE StarterStarts \/ ResumeStarts
    BY <1>3, <1>5, <1>6, <2>1 DEF StarterStarts, ResumeStarts, untouchedByStart
  <2>2. CASE ZombieDrops
    BY <1>3, <1>5, <2>2 DEF ZombieDrops, turnOnly
  <2>3. ASSUME NEW p \in Plans, ResumeQueues(p) PROVE FateTypes'
    BY <1>2, <1>3, <1>4, <1>5, <2>3 DEF ResumeQueues
  <2>4. QED
    BY <1>10, <2>1, <2>2, <2>3 DEF OtherTasks
<1>11. ASSUME NEW t \in Ids, Turn(t) PROVE FateTypes'
  <2>1. started' = started /\ terminals' = terminals /\ hushed' = hushed
    BY <1>11 DEF Turn, TurnBegins, TurnEmits, TurnMerges, TurnInjects,
       TurnRound, TurnSetsGoal, TurnReports, TurnConsumes, TurnParks, TurnUnparks,
       TurnTails, TurnUnscopes,
       TurnFinishes, TurnReaped, turnOnly
  <2>2. CASE TurnMerges(t) \/ TurnInjects(t)
    <3>1. fate' \in [Ids -> Fates]
      BY <1>2, <1>3, <2>2 DEF TurnMerges, TurnInjects, Becomes
    <3>2. QED
      BY <1>3, <1>5, <2>1, <3>1
  <2>3. ASSUME NEW x, TurnConsumes(t, x) PROVE FateTypes'
    <3>1. fate' \in [Ids -> Fates]
      BY <1>2, <1>4, <2>3 DEF TurnConsumes
    <3>2. QED
      BY <1>3, <1>5, <2>1, <3>1
  <2>4. CASE fate' = fate
    BY <1>3, <1>5, <2>1, <2>4
  <2>5. QED
    BY <1>11, <2>2, <2>3, <2>4 DEF Turn, TurnBegins, TurnEmits, TurnRound, TurnSetsGoal,
       TurnReports, TurnParks, TurnUnparks, TurnTails, TurnUnscopes, TurnFinishes,
       TurnReaped
<1>12. QED
  BY <1>8, <1>9, <1>10, <1>11 DEF Next

\* The types hold in every reachable state: above all the wait count, which the
\* guards of aborted turns release late, never goes below zero.
THEOREM TypeCorrect == Spec => []TypeOK
<1>1. QueueInv /\ TypeOK /\ [Next]_vars => TypeOK'
  <2> SUFFICES ASSUME QueueInv, TypeOK, [Next]_vars PROVE TypeOK'
    OBVIOUS
  <2>1. CASE Next
    <3>1. QueueInv' /\ StrandedTyped'
      BY <2>1, QueueInvNext DEF TypeOK, ActorTypes, StrandedTyped
    <3>2. QueueTypes'
      BY <3>1 DEF QueueInv
    <3>3. QED
      BY <2>1, <3>1, <3>2, RowTypesKept, FlagTypesKept, TaskTypesKept, ActorTypesKept,
         FateTypesKept DEF TypeOK
  <2>2. CASE UNCHANGED vars
    <3>1. /\ UNCHANGED <<queueVars, flagVars, taskVars, actorVars>>
          /\ UNCHANGED <<sendNow, sends, version, shown, fate, started, terminals, hushed>>
      BY <2>2 DEF vars, lockVars, waitVars, goalVars, wakeVars, startVars, actorVars,
                  seenVars, queueVars, flagVars, taskVars
    <3>2. QueueTypes' /\ RowTypes'
      BY <3>1 DEF TypeOK, QueueTypes, RowTypes, queueVars
    <3>3. FlagTypes' /\ TaskTypes'
      BY <3>1 DEF TypeOK, FlagTypes, TaskTypes, flagVars, taskVars
    <3>4. ActorTypes' /\ FateTypes'
      BY <3>1 DEF TypeOK, ActorTypes, FateTypes, actorVars
    <3>5. QED
      BY <3>2, <3>3, <3>4 DEF TypeOK
  <2>3. QED
    BY <2>1, <2>2
<1>2. QueueInv /\ TypeOK /\ [Next]_vars => QueueInv'
  BY QueueInvNext DEF TypeOK, ActorTypes, StrandedTyped
<1>3. QED
  BY InitTypes, QueueInvInit, <1>1, <1>2, PTL DEF Spec

-----------------------------------------------------------------------------
(* The pin and the running task.  The actor's agendas are the two of its   *)
(* handlers and what is left of them, so that "teardown" comes right after *)
(* "snapshot"; the pin names the running task but while a cancel, which    *)
(* has taken the task, has not cleared it yet.                             *)

Agendas == {<<>>, <<"start">>, <<"drain">>, <<"start", "drain">>,
            <<"requeue", "start", "drain">>, <<"flush", "start", "drain">>,
            <<"turn_end", "flush", "start", "drain">>, Completing,
            <<"answer", "start">>, <<"abort", "answer", "start">>,
            <<"ungate", "abort", "answer", "start">>,
            <<"teardown", "ungate", "abort", "answer", "start">>, Cancelling}

\* A cancel has taken the task, and has not answered yet.
Ending == Doing("ungate") \/ Doing("abort") \/ Doing("answer")

PinInv ==
  /\ agenda \in Agendas
  /\ pin # None => running = pin \/ Ending
  /\ Doing("teardown") => job.pinned = None \/ running = job.pinned

LEMMA AgendaSteps ==
  ASSUME agenda \in Agendas
  PROVE  /\ Doing("start") => Tail(agenda) \in {<<>>, <<"drain">>}
         /\ Doing("snapshot")
              => Tail(agenda) = <<"teardown", "ungate", "abort", "answer", "start">>
         /\ Doing("teardown") => Tail(agenda) = <<"ungate", "abort", "answer", "start">>
         /\ Doing("ungate") => Tail(agenda) = <<"abort", "answer", "start">>
         /\ Doing("abort") => Tail(agenda) = <<"answer", "start">>
         /\ Doing("answer") => Tail(agenda) = <<"start">>
         /\ Doing("sweep") => Tail(agenda) = <<"turn_end", "flush", "start", "drain">>
         /\ Doing("turn_end") => Tail(agenda) = <<"flush", "start", "drain">>
         /\ Doing("flush") => Tail(agenda) = <<"start", "drain">>
         /\ Doing("requeue") => Tail(agenda) = <<"start", "drain">>
         /\ Doing("drain") => Tail(agenda) = <<>>
<1>1. CASE agenda = <<>>
  BY <1>1 DEF Doing
<1>2. CASE agenda = <<"start">>
  BY <1>2 DEF Doing
<1>3. CASE agenda = <<"drain">>
  BY <1>3 DEF Doing
<1>4. CASE agenda = <<"start", "drain">>
  BY <1>4 DEF Doing
<1>5. CASE agenda = <<"requeue", "start", "drain">>
  BY <1>5 DEF Doing
<1>6. CASE agenda = <<"flush", "start", "drain">>
  BY <1>6 DEF Doing
<1>7. CASE agenda = <<"turn_end", "flush", "start", "drain">>
  BY <1>7 DEF Doing
<1>8. CASE agenda = <<"sweep", "turn_end", "flush", "start", "drain">>
  BY <1>8 DEF Doing
<1>9. CASE agenda = <<"answer", "start">>
  BY <1>9 DEF Doing
<1>10. CASE agenda = <<"abort", "answer", "start">>
  BY <1>10 DEF Doing
<1>11. CASE agenda = <<"ungate", "abort", "answer", "start">>
  BY <1>11 DEF Doing
<1>12. CASE agenda = <<"teardown", "ungate", "abort", "answer", "start">>
  BY <1>12 DEF Doing
<1>13. CASE agenda = <<"snapshot", "teardown", "ungate", "abort", "answer", "start">>
  BY <1>13 DEF Doing
<1>14. QED
  BY <1>1, <1>2, <1>3, <1>4, <1>5, <1>6, <1>7, <1>8, <1>9, <1>10, <1>11, <1>12, <1>13
  DEF Agendas, Completing, Cancelling

\* An agenda at none of the steps of a cancel from its lock on.
Plain == {<<>>, <<"start">>, <<"drain">>, <<"start", "drain">>,
          <<"requeue", "start", "drain">>, <<"flush", "start", "drain">>,
          <<"turn_end", "flush", "start", "drain">>, Completing, Cancelling}

LEMMA PlainAgendas ==
  ASSUME agenda' \in Plain
  PROVE  agenda' \in Agendas /\ ~Ending' /\ ~Doing("teardown")'
  BY DEF Plain, Agendas, Ending, Doing, Completing, Cancelling

\* The interjections that were stranded are queued before the start.
LEMMA FlushSteps ==
  ASSUME agenda \in Agendas, FlushStrandedInterjections \/ RequeueStranded
  PROVE  agenda' \in {<<"start", "drain">>, <<"requeue", "start", "drain">>}
<1>1. CASE FlushStrandedInterjections
  <2>1. Tail(agenda) = <<"start", "drain">>
    BY <1>1, AgendaSteps DEF FlushStrandedInterjections
  <2>2. <<"requeue">> \o <<"start", "drain">> = <<"requeue", "start", "drain">>
    <3> DEFINE steps == {"requeue", "start", "drain"}
    <3>1. "requeue" \in steps /\ "start" \in steps /\ "drain" \in steps
      OBVIOUS
    <3> HIDE DEF steps
    <3>2. QED
      BY <3>1, OneThenTwo
  <2>3. QED
    BY <1>1, <2>1, <2>2 DEF FlushStrandedInterjections
<1>2. CASE RequeueStranded
  <2>1. Doing("requeue") /\ (agenda' = agenda \/ agenda' = Tail(agenda))
    BY <1>2 DEF RequeueStranded
  <2>2. agenda = <<"requeue", "start", "drain">>
    BY <2>1 DEF Agendas, Doing, Completing, Cancelling
  <2>3. QED
    BY <2>1, <2>2, AgendaSteps
<1>3. QED
  BY <1>1, <1>2

\* Where the other steps of the actor leave its agenda.
LEMMA PlainSteps ==
  ASSUME agenda \in Agendas,
         \/ Start \/ HandleCompletion \/ SweepMonitorBuffer \/ TurnEnd
         \/ FlushStrandedInterjections \/ RequeueStranded \/ MaybeDrainNotifications
         \/ CancelAnswers
  PROVE  agenda' \in Plain
<1>1. CASE Start \/ SweepMonitorBuffer \/ TurnEnd \/ CancelAnswers
  <2>1. agenda' = Tail(agenda)
    BY <1>1 DEF Start, SweepMonitorBuffer, TurnEnd, CancelAnswers
  <2>2. Doing("start") \/ Doing("sweep") \/ Doing("turn_end") \/ Doing("answer")
    BY <1>1 DEF Start, SweepMonitorBuffer, TurnEnd, CancelAnswers
  <2>3. QED
    BY <2>1, <2>2, AgendaSteps DEF Plain
<1>2. CASE HandleCompletion
  BY <1>2 DEF HandleCompletion, Plain
<1>3. CASE FlushStrandedInterjections \/ RequeueStranded
  BY <1>3, FlushSteps DEF Plain
<1>5. CASE MaybeDrainNotifications
  <2>1. Doing("drain") /\ agenda' \in {Tail(agenda), <<"start">> \o Tail(agenda)}
    BY <1>5 DEF MaybeDrainNotifications
  <2>2. Tail(agenda) = <<>>
    BY <2>1, AgendaSteps
  <2>3. <<"start">> \o <<>> = <<"start">>
    OBVIOUS
  <2>4. QED
    BY <2>1, <2>2, <2>3 DEF Plain
<1>6. QED
  BY <1>1, <1>2, <1>3, <1>5

\* The steps other than those of a cancel keep the pin with the task.
LEMMA PlainKeepsPinInv ==
  ASSUME agenda' \in Plain, pin' # None => running' = pin' PROVE PinInv'
  BY PlainAgendas DEF PinInv

LEMMA PinInvCommands ==
  ASSUME TypeOK, PinInv, Commands PROVE PinInv'
<1>1. UNCHANGED <<pin, running>>
  BY ZenonT(60) DEF Commands, Prompt, TaskCompletes, Interject, InjectNotification,
     DropMonitorNotifications, RemoveQueuedPrompt, InterjectQueuedPrompt, ClearQueue,
     ReorderQueue, EditQueuedPrompt, Cancel, untouchedByRows, lockVars
<1>2. CASE Ready
  <2>1. pin' # None => running' = pin'
    BY <1>1, <1>2 DEF PinInv, Ready, Ending, Doing
  <2>2. agenda' \in {<<>>, <<"start">>, <<"drain">>, Cancelling}
    <3>1. agenda = <<>>
      BY <1>2 DEF Ready
    <3>2. agenda' \in {agenda, <<"start">>, <<"drain">>, Cancelling}
      BY ZenonT(60) DEF Commands, Prompt, TaskCompletes, Interject, InjectNotification,
         DropMonitorNotifications, RemoveQueuedPrompt, InterjectQueuedPrompt, ClearQueue,
         ReorderQueue, EditQueuedPrompt, Cancel, actorVars
    <3>3. QED
      BY <3>1, <3>2
  <2>3. agenda' \in Plain
    BY <2>2 DEF Plain
  <2>4. QED
    BY <2>1, <2>3, PlainKeepsPinInv
<1>3. CASE \E w \in Wakes : TaskCompletes(w)
  BY <1>1, <1>3 DEF TaskCompletes, actorVars, PinInv, Ending, Doing
<1>4. QED
  BY ZenonT(60), <1>2, <1>3 DEF Commands, Prompt, Interject, InjectNotification,
     DropMonitorNotifications, RemoveQueuedPrompt, InterjectQueuedPrompt, ClearQueue,
     ReorderQueue, EditQueuedPrompt, Cancel

\* A start gives the pin and the task together, and only if there is no task.
LEMMA PinInvStart ==
  ASSUME PinInv, MaybeStartRunningTask
  PROVE  /\ running # None => running' = running
         /\ pin' # None => running' = pin' \/ (pin' = pin /\ running' = running)
  BY DEF MaybeStartRunningTask

LEMMA PinInvActorSteps ==
  ASSUME TypeOK, RunningIsFront, PinInv, ActorSteps PROVE PinInv'
<1>1. agenda \in Agendas
  BY DEF PinInv
<1>2. ASSUME NEW step, Doing(step), step # "ungate", step # "abort", step # "answer"
      PROVE pin # None => running = pin
  BY <1>2 DEF PinInv, Ending, Doing
<1>3. CASE Start
  <2>1. Doing("start") /\ MaybeStartRunningTask
    BY <1>3 DEF Start
  <2>2. pin # None => running = pin
    BY <1>2, <2>1
  <2>3. pin' # None => running' = pin'
    BY <2>1, <2>2, PinInvStart
  <2>4. QED
    BY <1>1, <1>3, <2>3, PlainSteps, PlainKeepsPinInv
<1>4. CASE CancelSnapshot
  <2>1. Doing("snapshot") /\ agenda' = Tail(agenda) /\ UNCHANGED <<pin, running>>
        /\ job' = [job EXCEPT !.pinned = pin,
                              !.named = IF running # None THEN running ELSE pin]
    BY <1>4 DEF CancelSnapshot, lockVars
  <2>2. agenda' = <<"teardown", "ungate", "abort", "answer", "start">>
    BY <1>1, <2>1, AgendaSteps
  <2>3. pin # None => running = pin
    BY <1>2, <2>1
  <2>4. job'.pinned = pin
    BY <2>1 DEF TypeOK, ActorTypes
  <2>5. agenda' \in Agendas
    BY <2>2 DEF Agendas
  <2>6. QED
    BY <2>1, <2>3, <2>4, <2>5 DEF PinInv
<1>5. CASE CancelTeardown \/ CancelUngates \/ CancelAbort
  <2>1. /\ Doing("teardown") \/ Doing("ungate") \/ Doing("abort")
        /\ agenda' = Tail(agenda)
    BY <1>5 DEF CancelTeardown, CancelUngates, CancelAbort
  <2>2. agenda' \in {<<"ungate", "abort", "answer", "start">>,
                     <<"abort", "answer", "start">>, <<"answer", "start">>}
    BY <1>1, <2>1, AgendaSteps
  <2>3. agenda' \in Agendas /\ Ending' /\ ~Doing("teardown")'
    BY <2>2 DEF Agendas, Ending, Doing
  <2>4. QED
    BY <2>3 DEF PinInv
<1>6. CASE CancelAnswers
  <2>1. pin' = None
    BY <1>6 DEF CancelAnswers
  <2>2. QED
    BY <1>1, <1>6, <2>1, PlainSteps, PlainKeepsPinInv
<1>7. CASE HandleCompletion
  <2> DEFINE p == Head(completions)
  <2>1. agenda = <<>> /\ pin' = PinWithout(p) /\ running' = RunningAfter(p)
    BY <1>7 DEF HandleCompletion
  <2> HIDE DEF p
  <2>2. pin # None => running = pin
    BY <2>1 DEF PinInv, Ending, Doing
  <2>3. Owned(p) /\ running # None => running = p
    BY DEF Owned, RunningIsFront
  <2>4. pin' # None => running' = pin'
    BY <2>1, <2>2, <2>3 DEF PinWithout, RunningAfter
  <2>5. QED
    BY <1>1, <1>7, <2>4, PlainSteps, PlainKeepsPinInv
<1>8. CASE \/ SweepMonitorBuffer \/ TurnEnd \/ FlushStrandedInterjections
           \/ RequeueStranded \/ MaybeDrainNotifications
  <2>1. /\ \/ Doing("sweep") \/ Doing("turn_end") \/ Doing("flush") \/ Doing("requeue")
           \/ Doing("drain")
        /\ UNCHANGED <<pin, running>>
    BY <1>8 DEF SweepMonitorBuffer, TurnEnd, FlushStrandedInterjections, RequeueStranded,
       MaybeDrainNotifications, lockVars
  <2>2. pin' # None => running' = pin'
    BY <1>2, <2>1
  <2>3. QED
    BY <1>1, <1>8, <2>2, PlainSteps, PlainKeepsPinInv
<1>9. QED
  BY <1>3, <1>4, <1>5, <1>6, <1>7, <1>8 DEF ActorSteps

\* The other tasks: a start between two steps of a cancel, and turns, which only
\* give the pin up.
LEMMA PinInvOthers ==
  ASSUME TypeOK, PinInv, OtherTasks \/ \E t \in Ids : Turn(t) PROVE PinInv'
<1>1. ASSUME UNCHANGED <<agenda, job>>, running # None => running' = running,
             pin' # None => running' = pin' \/ (pin' = pin /\ running' = running)
      PROVE  PinInv'
  <2>1. agenda' \in Agendas
    BY <1>1 DEF PinInv
  <2>2. pin' # None => running' = pin' \/ Ending'
    BY <1>1 DEF PinInv, Ending, Doing
  <2>3. Doing("teardown")' => job'.pinned = None \/ running' = job'.pinned
    BY <1>1 DEF PinInv, Doing
  <2>4. QED
    BY <2>1, <2>2, <2>3 DEF PinInv
<1>2. CASE StarterStarts \/ ResumeStarts
  BY <1>1, <1>2, PinInvStart DEF StarterStarts, ResumeStarts, actorVars
<1>3. ASSUME NEW t, pin' \in {pin, PinWithout(t)}, UNCHANGED <<running, agenda, job>>
      PROVE  PinInv'
  BY <1>1, <1>3 DEF PinWithout
<1>4. CASE ZombieDrops \/ \E p \in Plans : ResumeQueues(p)
  BY <1>3, <1>4 DEF ZombieDrops, ResumeQueues, turnOnly, actorVars
<1>5. ASSUME NEW t \in Ids, Turn(t) PROVE PinInv'
  <2>1. pin' \in {pin, PinWithout(t)} /\ UNCHANGED <<running, agenda, job>>
    BY <1>5 DEF Turn, TurnBegins, TurnEmits, TurnMerges, TurnInjects,
       TurnRound, TurnSetsGoal, TurnReports, TurnConsumes, TurnParks, TurnUnparks,
       TurnTails, TurnUnscopes,
       TurnFinishes, TurnReaped, turnOnly, actorVars
  <2>2. QED
    BY <1>3, <2>1
<1>6. QED
  BY <1>2, <1>4, <1>5 DEF OtherTasks

LEMMA PinIsRunning == Spec => []PinInv
<1>1. Init => PinInv
  BY DEF Init, PinInv, Agendas, Doing
<1>2. TypeOK /\ RunningIsFront /\ PinInv /\ [Next]_vars => PinInv'
  <2> SUFFICES ASSUME TypeOK, RunningIsFront, PinInv, [Next]_vars PROVE PinInv'
    OBVIOUS
  <2>1. CASE Next
    BY <2>1, PinInvCommands, PinInvActorSteps, PinInvOthers DEF Next
  <2>2. CASE UNCHANGED vars
    BY <2>2 DEF vars, lockVars, actorVars, PinInv, Ending, Doing
  <2>3. QED
    BY <2>1, <2>2
<1>3. QED
  BY <1>1, <1>2, TypeCorrect, RunningStaysInFront, PTL DEF Spec

\* The assertion of cancel_running_task never fails: under the lock, the pin it
\* read before and the task that runs do not disagree, whatever the starter of
\* MCP servers and the plan approval promote in between.
THEOREM PinNeverDisagrees == Spec => []PinAgreesAtCancel
<1>1. PinInv => PinAgreesAtCancel
  BY DEF PinInv, PinAgreesAtCancel
<1>2. QED
  BY <1>1, PinIsRunning, PTL

-----------------------------------------------------------------------------
(* What the queue operations hold: no item is lost, none is there twice.   *)

LEMMA WithoutElements ==
  ASSUME NEW T, NEW q \in Seq(T), NEW D
  PROVE  /\ Without(q, D) \in Seq(T) /\ ToSet(Without(q, D)) = ToSet(q) \ D
         /\ IsInjective(q) => IsInjective(Without(q, D))
<1>1. ToSet(q) \cap (ToSet(q) \ D) = ToSet(q) \ D
  OBVIOUS
<1>2. QED
  BY <1>1, KeepElements, KeepOnce DEF Without

LEMMA SweepElements ==
  ASSUME NEW T, NEW q \in Seq(T), NEW r, NEW D
  PROVE  /\ Sweep(q, r, D) \in Seq(T) /\ ToSet(Sweep(q, r, D)) = ToSet(q) \ (D \ {r})
         /\ IsInjective(q) => IsInjective(Sweep(q, r, D))
  BY WithoutElements DEF Sweep

\* Items put in at a place.
LEMMA InsertAtElements ==
  ASSUME NEW T, NEW q \in Seq(T), NEW items \in Seq(T), NEW at \in 0..Len(q)
  PROVE  LET s == SubSeq(q, 1, at) \o items \o SubSeq(q, at + 1, Len(q))
         IN  /\ s \in Seq(T) /\ ToSet(s) = ToSet(q) \cup ToSet(items)
             /\ IsInjective(q) /\ IsInjective(items) /\ ToSet(q) \cap ToSet(items) = {}
                  => IsInjective(s)
<1> DEFINE a == SubSeq(q, 1, at)
           b == SubSeq(q, at + 1, Len(q))
           s == (a \o items) \o b
<1>1. a \in Seq(T) /\ b \in Seq(T)
  BY SplitList
<1>2. a \o b = q
  BY SplitList
<1> HIDE DEF a, b
<1>3. /\ ToSet(q) = ToSet(a) \cup ToSet(b)
      /\ IsInjective(q) <=>
           IsInjective(a) /\ IsInjective(b) /\ ToSet(a) \cap ToSet(b) = {}
  <2>1. /\ ToSet(a \o b) = ToSet(a) \cup ToSet(b)
        /\ IsInjective(a \o b) <=>
             IsInjective(a) /\ IsInjective(b) /\ ToSet(a) \cap ToSet(b) = {}
    BY <1>1, JoinElements
  <2>2. QED
    BY <1>2, <2>1
<1> DEFINE c == a \o items
<1>4. /\ c \in Seq(T) /\ ToSet(c) = ToSet(a) \cup ToSet(items)
      /\ IsInjective(c) <=>
           IsInjective(a) /\ IsInjective(items) /\ ToSet(a) \cap ToSet(items) = {}
  BY <1>1, JoinElements
<1> HIDE DEF c
<1>5. /\ c \o b \in Seq(T) /\ ToSet(c \o b) = ToSet(c) \cup ToSet(b)
      /\ IsInjective(c \o b) <=>
           IsInjective(c) /\ IsInjective(b) /\ ToSet(c) \cap ToSet(b) = {}
  BY <1>1, <1>4, JoinElements
<1>6. /\ c \o b \in Seq(T) /\ ToSet(c \o b) = ToSet(q) \cup ToSet(items)
      /\ IsInjective(q) /\ IsInjective(items) /\ ToSet(q) \cap ToSet(items) = {}
           => IsInjective(c \o b)
  BY <1>3, <1>4, <1>5
<1>7. QED
  BY <1>6 DEF a, b, c

LEMMA InsertRunNextElements ==
  ASSUME NEW T, NEW q \in Seq(T), NEW r, NEW items \in Seq(T)
  PROVE  LET s == InsertRunNext(q, r, items)
         IN  /\ s \in Seq(T) /\ ToSet(s) = ToSet(q) \cup ToSet(items)
             /\ IsInjective(q) /\ IsInjective(items) /\ ToSet(q) \cap ToSet(items) = {}
                  => IsInjective(s)
<1>1. FrontSlot(q, r) \in 0..Len(q)
  BY DEF FrontSlot
<1>2. QED
  BY <1>1, InsertAtElements DEF InsertRunNext

LEMMA InsertSendNowElements ==
  ASSUME NEW T, NEW q \in Seq(T), NEW r, NEW N, NEW p \in T
  PROVE  LET s == InsertSendNow(q, r, N, p)
         IN  /\ s \in Seq(T) /\ ToSet(s) = ToSet(q) \cup {p}
             /\ IsInjective(q) /\ p \notin ToSet(q) => IsInjective(s)
<1> DEFINE at == SendNowPlace(q, r, N)
<1>1. /\ at \in 0..Len(q)
      /\ InsertSendNow(q, r, N, p)
           = SubSeq(q, 1, at) \o <<p>> \o SubSeq(q, at + 1, Len(q))
  BY SendNowIsPlaced
<1> HIDE DEF at
<1>2. <<p>> \in Seq(T) /\ ToSet(<<p>>) = {p} /\ IsInjective(<<p>>)
  BY ShortLists
<1> DEFINE s == SubSeq(q, 1, at) \o <<p>> \o SubSeq(q, at + 1, Len(q))
<1>3. /\ s \in Seq(T) /\ ToSet(s) = ToSet(q) \cup ToSet(<<p>>)
      /\ IsInjective(q) /\ IsInjective(<<p>>) /\ ToSet(q) \cap ToSet(<<p>>) = {}
           => IsInjective(s)
  BY <1>1, <1>2, InsertAtElements
<1> HIDE DEF s
<1>4. InsertSendNow(q, r, N, p) = s
  BY <1>1 DEF s
<1>5. QED
  BY <1>2, <1>3, <1>4

LEMMA ReorderElements ==
  ASSUME NEW T, NEW q \in Seq(T), NEW pinned, NEW U, NEW order \in Seq(U)
  PROVE  LET s == Reorder(q, pinned, order)
         IN  /\ s \in Seq(T) /\ ToSet(s) = ToSet(q)
             /\ IsInjective(q) /\ IsInjective(order) => IsInjective(s)
<1> DEFINE m == ToSet(q) \ pinned
           a == Keep(q, pinned)
           b == Keep(order, m)
           c == Keep(q, m \ ToSet(order))
           d == a \o b
<1>1. ToSet(q) \subseteq T
  BY DEF ToSet
<1> HIDE DEF m
<1>2. /\ a \in Seq(T) /\ ToSet(a) = ToSet(q) \cap pinned
      /\ IsInjective(q) => IsInjective(a)
  BY KeepElements, KeepOnce
<1>3. /\ b \in Seq(T) /\ ToSet(b) = ToSet(order) \cap m
      /\ IsInjective(order) => IsInjective(b)
  <2>1. b \in Seq(U \cap m)
    BY KeepProperties
  <2>2. U \cap m \subseteq T
    BY <1>1 DEF m
  <2>3. b \in Seq(T)
    <3> HIDE DEF b
    <3>1. QED
      BY <2>1, <2>2
  <2>4. QED
    BY <2>3, KeepElements, KeepOnce
<1>4. /\ c \in Seq(T) /\ ToSet(c) = ToSet(q) \cap (m \ ToSet(order))
      /\ IsInjective(q) => IsInjective(c)
  BY KeepElements, KeepOnce
<1> HIDE DEF a, b, c
<1>5. /\ d \in Seq(T) /\ ToSet(d) = ToSet(a) \cup ToSet(b)
      /\ IsInjective(d) <=> IsInjective(a) /\ IsInjective(b) /\ ToSet(a) \cap ToSet(b) = {}
  BY <1>2, <1>3, JoinElements
<1> HIDE DEF d
<1>6. /\ d \o c \in Seq(T) /\ ToSet(d \o c) = ToSet(d) \cup ToSet(c)
      /\ IsInjective(d \o c) <=>
           IsInjective(d) /\ IsInjective(c) /\ ToSet(d) \cap ToSet(c) = {}
  BY <1>4, <1>5, JoinElements
<1>7. /\ ToSet(d \o c) = ToSet(q)
      /\ IsInjective(q) /\ IsInjective(order) => IsInjective(d \o c)
  BY <1>2, <1>3, <1>4, <1>5, <1>6 DEF m
<1>8. Reorder(q, pinned, order) = d \o c
  BY DEF Reorder, a, b, c, d, m
<1>9. QED
  BY <1>6, <1>7, <1>8

-----------------------------------------------------------------------------
(* Where every id is.  A prompt accepted and not answered stands in the    *)
(* queue, or among those a cancel has taken and not answered yet; an       *)
(* interjection and a notification that wait stand in their lists, the     *)
(* interjections that a completion queues again in `stranded`.             *)

Closing == ToSet(job.closing)

QueueLedger ==
  /\ IsInjective(queue) /\ ToSet(queue) \cap Closing = {}
  /\ \A x \in Ids : fate[x] = "queued" <=> x \in ToSet(queue) \cup Closing

BufferLedger ==
  /\ IsInjective(interjections) /\ IsInjective(stranded)
  /\ ToSet(interjections) \cap ToSet(stranded) = {}
  /\ \A x \in Ids : fate[x] = "buffered"
                      <=> x \in ToSet(interjections) \cup ToSet(stranded)

NoteLedger ==
  /\ IsInjective(notes) /\ IsInjective(buffer) /\ ToSet(notes) \cap ToSet(buffer) = {}
  /\ \A x \in Ids : fate[x] = "pending" <=> x \in ToSet(notes) \cup ToSet(buffer)

JobLedger ==
  ~Ending => job.closing = <<>> /\ job.task = None /\ ~job.rewound

Ledger == QueueLedger /\ BufferLedger /\ NoteLedger /\ JobLedger

\* Interjections are stranded only while they are queued again.
StrandedLedger == stranded # <<>> => Doing("requeue")

LEMMA StrandedLedgerKept ==
  ASSUME StrandedLedger, [Next]_vars PROVE StrandedLedger'
<1>1. ASSUME UNCHANGED stranded, ~Doing("requeue") \/ UNCHANGED agenda
      PROVE  StrandedLedger'
  BY <1>1 DEF StrandedLedger, Doing
<1>2. CASE Commands
  <2>1. UNCHANGED stranded /\ (agenda = <<>> \/ UNCHANGED agenda)
    BY ZenonT(60), <1>2 DEF Commands, Prompt, TaskCompletes, Interject,
       InjectNotification, DropMonitorNotifications, RemoveQueuedPrompt,
       InterjectQueuedPrompt, ClearQueue, ReorderQueue, EditQueuedPrompt, Cancel,
       actorVars, Ready
  <2>2. QED
    BY <1>1, <2>1 DEF Doing
<1>3. CASE ActorSteps
  <2>1. CASE FlushStrandedInterjections
    <3>1. stranded' # <<>> => agenda' = <<"requeue">> \o Tail(agenda)
      BY <2>1 DEF FlushStrandedInterjections
    <3>2. <<"requeue">> \o Tail(agenda) # <<>> /\ Head(<<"requeue">> \o Tail(agenda)) = "requeue"
      OBVIOUS
    <3>3. QED
      BY <3>1, <3>2 DEF StrandedLedger, Doing
  <2>2. CASE RequeueStranded
    BY <2>2 DEF RequeueStranded, StrandedLedger, Doing
  <2>3. CASE ~FlushStrandedInterjections /\ ~RequeueStranded
    <3>1. UNCHANGED stranded /\ ~Doing("requeue")
      BY <1>3, <2>3 DEF ActorSteps, Start, CancelSnapshot, CancelTeardown, CancelUngates,
         CancelAbort, CancelAnswers, HandleCompletion, SweepMonitorBuffer, TurnEnd,
         MaybeDrainNotifications, Doing
    <3>2. QED
      BY <1>1, <3>1
  <2>4. QED
    BY <2>1, <2>2, <2>3
<1>4. CASE OtherTasks
  BY <1>1, <1>4 DEF OtherTasks, StarterStarts, ResumeStarts, ResumeQueues, ZombieDrops,
     turnOnly, actorVars
<1>5. ASSUME NEW t \in Ids, Turn(t) PROVE StrandedLedger'
  BY <1>1, <1>5 DEF Turn, TurnBegins, TurnEmits, TurnMerges, TurnInjects, TurnRound,
     TurnSetsGoal, TurnReports, TurnConsumes, TurnParks, TurnUnparks, TurnTails,
     TurnUnscopes, TurnFinishes, TurnReaped, turnOnly, actorVars
<1>6. CASE UNCHANGED vars
  BY <1>1, <1>6 DEF vars, actorVars
<1>7. QED
  BY <1>2, <1>3, <1>4, <1>5, <1>6 DEF Next

\* Every list is one of ids.
LEMMA ListsOfIds ==
  ASSUME TypeOK
  PROVE  /\ queue \in Seq(Ids) /\ interjections \in Seq(Ids)
         /\ stranded \in Seq(Ids) /\ ToSet(stranded) \subseteq Ids
         /\ notes \in Seq(Ids) /\ buffer \in Seq(Ids) /\ job.closing \in Seq(Ids)
         /\ ToSet(queue) \subseteq Ids /\ ToSet(interjections) \subseteq Ids
         /\ ToSet(notes) \subseteq Ids /\ ToSet(buffer) \subseteq Ids
         /\ Closing \subseteq Ids
<1>1. /\ queue \in Seq(Ids) /\ interjections \in Seq(Interjections)
      /\ notes \in Seq(Notes) /\ buffer \in Seq(Notes) /\ job.closing \in Seq(Ids)
      /\ stranded \in Seq(Interjections)
  BY DEF TypeOK, QueueTypes, ActorTypes
<1>2. /\ interjections \in Seq(Ids) /\ notes \in Seq(Ids) /\ buffer \in Seq(Ids)
      /\ stranded \in Seq(Ids)
  BY <1>1, KindsAreIds
<1>3. \A s \in Seq(Ids) : ToSet(s) \subseteq Ids
  BY DEF ToSet
<1>4. QED
  BY <1>1, <1>2, <1>3 DEF Closing

\* A part of the ledger stays as it is if its lists and its fates do.
LEMMA QueueLedgerKept ==
  ASSUME QueueLedger, queue' = queue, job'.closing = job.closing,
         \A x \in Ids : fate'[x] = "queued" <=> fate[x] = "queued"
  PROVE  QueueLedger'
<1>1. Closing' = Closing
  BY DEF Closing
<1>2. QED
  BY <1>1 DEF QueueLedger

LEMMA BufferLedgerKept ==
  ASSUME BufferLedger, UNCHANGED <<interjections, stranded>>,
         \A x \in Ids : fate'[x] = "buffered" <=> fate[x] = "buffered"
  PROVE  BufferLedger'
  BY DEF BufferLedger

LEMMA NoteLedgerKept ==
  ASSUME NoteLedger, notes' = notes, buffer' = buffer,
         \A x \in Ids : fate'[x] = "pending" <=> fate[x] = "pending"
  PROVE  NoteLedger'
  BY DEF NoteLedger

LEMMA JobLedgerKept ==
  ASSUME JobLedger, ~Ending, job' \in {job, NoJob}
  PROVE  JobLedger' /\ job'.closing = job.closing /\ job.closing = <<>> /\ Closing = {}
<1>1. NoJob.closing = <<>> /\ NoJob.task = None /\ ~NoJob.rewound
  BY DEF NoJob
<1>2. job.closing = <<>> /\ job.task = None /\ ~job.rewound
  BY DEF JobLedger
<1>3. Closing = {}
  BY <1>2, ShortLists DEF Closing
<1>4. job'.closing = <<>> /\ job'.task = None /\ ~job'.rewound
  BY <1>1, <1>2
<1>5. QED
  BY <1>2, <1>3, <1>4 DEF JobLedger

\* A command finds no prompt that a cancel has taken, and gives no such prompt.
LEMMA JobLedgerReady ==
  ASSUME JobLedger, Ready,
         job' = job \/ \E mode : job' = [NoJob EXCEPT !.mode = mode] \/ job' = NoJob
  PROVE  JobLedger' /\ job'.closing = job.closing /\ job.closing = <<>> /\ Closing = {}
<1>1. ~Ending
  BY DEF Ready, Ending, Doing
<1>2. job.closing = <<>> /\ job.task = None /\ ~job.rewound
  BY <1>1 DEF JobLedger
<1>3. Closing = {}
  BY <1>2, ShortLists DEF Closing
<1>4. job'.closing = <<>> /\ job'.task = None /\ ~job'.rewound
  BY <1>2 DEF NoJob
<1>5. QED
  BY <1>2, <1>3, <1>4 DEF JobLedger


LEMMA PromptKeepsLedger ==
  ASSUME TypeOK, Ledger, NEW p \in Ids, NEW now \in BOOLEAN, Prompt(p, now),
         p \in Users \cup Wakes \cup Crons
  PROVE  Ledger'
<1> DEFINE armed == p \in Users /\ \E w \in Wakes : w \in ToSet(queue) /\ w # running
           swept == IF armed THEN (ToSet(queue) \cap Synthetic) \ {running} ELSE {}
           q == Sweep(queue, running, swept)
<1>1. /\ queue \in Seq(Ids) /\ ToSet(queue) \subseteq Ids
      /\ QueueLedger /\ BufferLedger /\ NoteLedger /\ JobLedger
  BY ListsOfIds DEF Ledger
<1>2. /\ Ready /\ fate[p] \in {"sent", "unsent"}
      /\ (queue' = InsertSendNow(q, running, sendNow, p) \/ queue' = Append(q, p))
      /\ fate' = [x \in Ids |-> IF x \in swept THEN "swept"
                                ELSE IF x = p THEN "queued" ELSE fate[x]]
      /\ (job' = NoJob \/ job' = [NoJob EXCEPT !.mode = "send_now"])
      /\ UNCHANGED <<interjections, stranded, notes, buffer>>
  BY DEF Prompt
<1>3. swept \subseteq ToSet(queue) /\ running \notin swept
  OBVIOUS
<1>4. /\ q \in Seq(Ids) /\ ToSet(q) = ToSet(queue) \ swept
      /\ IsInjective(queue) => IsInjective(q)
  <2>1. swept \ {running} = swept
    BY <1>3
  <2> HIDE DEF swept
  <2>2. QED
    BY <1>1, <2>1, SweepElements
<1> HIDE DEF swept, q
<1>5. JobLedger' /\ job'.closing = job.closing /\ Closing = {} /\ Closing' = {}
  BY <1>1, <1>2, JobLedgerReady DEF Closing
<1>6. p \notin ToSet(queue)
  BY <1>1, <1>2 DEF QueueLedger
<1>7. /\ ToSet(queue') = (ToSet(queue) \ swept) \cup {p}
      /\ IsInjective(queue')
  <2>1. CASE queue' = InsertSendNow(q, running, sendNow, p)
    BY <1>1, <1>4, <1>6, <2>1, InsertSendNowElements DEF QueueLedger
  <2>2. CASE queue' = Append(q, p)
    BY <1>1, <1>4, <1>6, <2>2, AppendElements, AppendOnce DEF QueueLedger
  <2>3. QED
    BY <1>2, <2>1, <2>2
<1>8. QueueLedger'
  BY <1>1, <1>2, <1>3, <1>5, <1>6, <1>7 DEF QueueLedger
<1>9. \A x \in Ids : /\ fate'[x] = "buffered" <=> fate[x] = "buffered"
                     /\ fate'[x] = "pending" <=> fate[x] = "pending"
  BY <1>1, <1>2, <1>3 DEF QueueLedger
<1>10. QED
  BY <1>1, <1>2, <1>5, <1>8, <1>9, BufferLedgerKept, NoteLedgerKept DEF Ledger

LEMMA InjectKeepsLedger ==
  ASSUME TypeOK, Ledger, NEW n \in Notes, NEW next \in BOOLEAN,
         InjectNotification(n, next)
  PROVE  Ledger'
<1> DEFINE toTurn == active /\ next
           old == IF toTurn THEN buffer ELSE notes
           other == IF toTurn THEN notes ELSE buffer
           list == Append(old, n)
           cap == IF toTurn THEN MaxBuffer ELSE MaxPending
           over == IF Len(list) > cap THEN Len(list) - cap ELSE 0
           kept == SubSeq(list, over + 1, Len(list))
<1>1. /\ QueueLedger /\ BufferLedger /\ NoteLedger /\ JobLedger
      /\ old \in Seq(Ids) /\ ToSet(old) \subseteq Ids /\ n \in Ids /\ cap \in Nat
  BY ListsOfIds, KindsAreIds, Bounds DEF Ledger
<1>2. /\ Ready /\ fate[n] = "unsent" /\ UNCHANGED <<queue, interjections, stranded, job>>
      /\ fate' = [x \in Ids |->
                IF x \in ToSet(list) \ ToSet(kept) THEN "capped"
                ELSE IF x = n THEN "pending" ELSE fate[x]]
      /\ (toTurn /\ buffer' = kept /\ notes' = notes)
         \/ (~toTurn /\ notes' = kept /\ buffer' = buffer)
  BY DEF InjectNotification
<1>3. /\ IsInjective(notes) /\ IsInjective(buffer) /\ ToSet(notes) \cap ToSet(buffer) = {}
      /\ \A x \in Ids : fate[x] = "pending" <=> x \in ToSet(notes) \cup ToSet(buffer)
  BY <1>1 DEF NoteLedger
<1>4. /\ IsInjective(old) /\ IsInjective(other) /\ ToSet(old) \cap ToSet(other) = {}
      /\ ToSet(old) \cup ToSet(other) = ToSet(notes) \cup ToSet(buffer)
      /\ n \notin ToSet(old) \cup ToSet(other)
  BY <1>1, <1>2, <1>3
<1>5. /\ (old = buffer /\ other = notes /\ buffer' = kept /\ notes' = other)
         \/ (old = notes /\ other = buffer /\ notes' = kept /\ buffer' = other)
  BY <1>2
<1> HIDE DEF old, other
<1>6. list \in Seq(Ids) /\ ToSet(list) = ToSet(old) \cup {n} /\ IsInjective(list)
  BY <1>1, <1>4, AppendElements, AppendOnce
<1> HIDE DEF list, cap
<1>7. over \in 0..Len(list)
  BY <1>1, <1>6
<1>8. kept \in Seq(Ids) /\ ToSet(kept) \subseteq ToSet(list) /\ IsInjective(kept)
  <2> DEFINE a == SubSeq(list, 1, over)
  <2>1. a \in Seq(Ids) /\ kept \in Seq(Ids)
    BY <1>6, <1>7, SplitList
  <2>2. a \o kept = list
    BY <1>6, <1>7, SplitList
  <2> HIDE DEF a, kept
  <2>3. /\ ToSet(a \o kept) = ToSet(a) \cup ToSet(kept)
        /\ IsInjective(a \o kept) <=>
             IsInjective(a) /\ IsInjective(kept) /\ ToSet(a) \cap ToSet(kept) = {}
    BY <2>1, JoinElements
  <2>4. QED
    BY <1>6, <2>1, <2>2, <2>3
<1> HIDE DEF kept, over
<1>9. JobLedger' /\ job'.closing = job.closing
  BY <1>1, <1>2, JobLedgerReady
<1>10. \A x \in Ids : fate'[x] = "pending" <=> x \in ToSet(kept) \cup ToSet(other)
  BY <1>1, <1>2, <1>3, <1>4, <1>6, <1>8
<1>11. NoteLedger'
  <2>1. ToSet(kept) \cap ToSet(other) = {}
    BY <1>4, <1>6, <1>8
  <2>2. CASE buffer' = kept /\ notes' = other
    BY <1>4, <1>8, <1>10, <2>1, <2>2 DEF NoteLedger
  <2>3. CASE notes' = kept /\ buffer' = other
    BY <1>4, <1>8, <1>10, <2>1, <2>3 DEF NoteLedger
  <2>4. QED
    BY <1>5, <2>2, <2>3
<1>12. \A x \in Ids : /\ fate'[x] = "buffered" <=> fate[x] = "buffered"
                      /\ fate'[x] = "queued" <=> fate[x] = "queued"
  <2>1. ASSUME NEW x \in ToSet(list) PROVE fate[x] \in {"unsent", "pending"}
    BY <1>1, <1>2, <1>3, <1>4, <1>6, <2>1
  <2>2. QED
    BY <1>1, <1>2, <2>1
<1>13. QED
  BY <1>1, <1>2, <1>9, <1>11, <1>12, QueueLedgerKept, BufferLedgerKept DEF Ledger


LEMMA CommandsKeepLedger ==
  ASSUME TypeOK, Ledger, Commands PROVE Ledger'
<1>1. /\ queue \in Seq(Ids) /\ ToSet(queue) \subseteq Ids
      /\ interjections \in Seq(Ids) /\ notes \in Seq(Ids) /\ buffer \in Seq(Ids)
      /\ QueueLedger /\ BufferLedger /\ NoteLedger /\ JobLedger
  BY ListsOfIds DEF Ledger
<1>2. ASSUME Ready,
             job' = job \/ (\E mode : job' = [NoJob EXCEPT !.mode = mode]) \/ job' = NoJob
      PROVE  JobLedger' /\ job'.closing = job.closing /\ Closing = {} /\ Closing' = {}
  BY <1>1, <1>2, JobLedgerReady DEF Closing
<1>3. ASSUME NEW w \in Wakes, TaskCompletes(w) PROVE Ledger'
  <2>1. /\ fate[w] = "unsent"
        /\ UNCHANGED <<queue, interjections, stranded, notes, buffer, agenda, job>>
        /\ fate' = [x \in Ids |-> IF x = w THEN "sent" ELSE fate[x]]
    BY <1>3 DEF TaskCompletes, Becomes, lockVars, actorVars
  <2>2. JobLedger'
    BY <1>1, <2>1 DEF JobLedger, Ending, Doing
  <2>3. QED
    BY <1>1, <2>1, <2>2, QueueLedgerKept, BufferLedgerKept, NoteLedgerKept DEF Ledger
<1>4. ASSUME NEW i \in Interjections, Interject(i) PROVE Ledger'
  <2>1. /\ i \in Ids /\ Ready /\ fate[i] = "unsent"
        /\ UNCHANGED <<stranded, notes, buffer, job>>
    BY <1>4, KindsAreIds DEF Interject
  <2>2. JobLedger' /\ job'.closing = job.closing /\ Closing = {} /\ Closing' = {}
    BY <1>2, <2>1
  <2>3. CASE pin # None
    <3>1. /\ interjections' = Append(interjections, i) /\ queue' = queue
          /\ fate' = [x \in Ids |-> IF x = i THEN "buffered" ELSE fate[x]]
      BY <1>4, <2>3 DEF Interject, Becomes
    <3>2. i \notin ToSet(interjections) /\ i \notin ToSet(stranded)
      BY <1>1, <2>1 DEF BufferLedger
    <3>3. IsInjective(interjections') /\ ToSet(interjections') = ToSet(interjections) \cup {i}
      <4>1. ToSet(Append(interjections, i)) = ToSet(interjections) \cup {i}
        BY <1>1, <2>1, AppendElements
      <4>2. IsInjective(Append(interjections, i))
        BY <1>1, <2>1, <3>2, AppendOnce DEF BufferLedger
      <4>3. QED
        BY <3>1, <4>1, <4>2
    <3>4. BufferLedger'
      BY <1>1, <2>1, <3>1, <3>2, <3>3 DEF BufferLedger
    <3>5. QED
      BY <1>1, <2>1, <2>2, <3>1, <3>4, QueueLedgerKept, NoteLedgerKept DEF Ledger
  <2>4. CASE pin = None
    <3>1. /\ queue' = InsertRunNext(queue, running, <<i>>) /\ interjections' = interjections
          /\ fate' = [x \in Ids |-> IF x = i THEN "queued" ELSE fate[x]]
      BY <1>4, <2>4 DEF Interject, Becomes
    <3>2. i \notin ToSet(queue)
      BY <1>1, <2>1 DEF QueueLedger
    <3>3. <<i>> \in Seq(Ids) /\ ToSet(<<i>>) = {i} /\ IsInjective(<<i>>)
      BY <2>1, ShortLists
    <3>4. IsInjective(queue') /\ ToSet(queue') = ToSet(queue) \cup {i}
      <4> DEFINE one == <<i>>
      <4>1. ToSet(queue) \cap ToSet(one) = {} /\ IsInjective(queue)
        BY <1>1, <3>2, <3>3 DEF QueueLedger
      <4> HIDE DEF one
      <4>2. /\ one \in Seq(Ids) /\ ToSet(one) = {i} /\ IsInjective(one)
            /\ queue' = InsertRunNext(queue, running, one)
        BY <3>1, <3>3 DEF one
      <4>3. QED
        BY <1>1, <4>1, <4>2, InsertRunNextElements
    <3>5. QueueLedger'
      BY <1>1, <2>2, <3>1, <3>4 DEF QueueLedger
    <3>6. QED
      BY <1>1, <2>1, <2>2, <3>1, <3>5, BufferLedgerKept, NoteLedgerKept DEF Ledger
  <2>5. QED
    BY <2>3, <2>4
<1>5. ASSUME NEW n \in Notes, DropMonitorNotifications(n) PROVE Ledger'
  <2>1. /\ Ready /\ fate[n] = "pending" /\ UNCHANGED <<queue, interjections, stranded, job>>
        /\ notes' = Without(notes, {n}) /\ buffer' = Without(buffer, {n})
        /\ fate' = [x \in Ids |-> IF x = n THEN "dropped" ELSE fate[x]]
    BY <1>5 DEF DropMonitorNotifications, Becomes, actorVars
  <2>2. JobLedger' /\ job'.closing = job.closing
    BY <1>2, <2>1
  <2>3. /\ ToSet(notes') = ToSet(notes) \ {n} /\ ToSet(buffer') = ToSet(buffer) \ {n}
        /\ IsInjective(notes') /\ IsInjective(buffer')
    BY <1>1, <2>1, WithoutElements DEF NoteLedger
  <2>4. NoteLedger'
    BY <1>1, <2>1, <2>3 DEF NoteLedger
  <2>5. QED
    BY <1>1, <2>1, <2>2, <2>4, QueueLedgerKept, BufferLedgerKept DEF Ledger
\* The rows that leave the queue are removed.
<1>6. ASSUME Ready, UNCHANGED <<interjections, stranded, notes, buffer, job>>, NEW S,
             S \subseteq ToSet(queue), queue' = Without(queue, S), Becomes(S, "removed")
      PROVE  Ledger'
  <2>1. JobLedger' /\ job'.closing = job.closing /\ Closing = {} /\ Closing' = {}
    BY <1>2, <1>6
  <2>2. fate' = [x \in Ids |-> IF x \in S THEN "removed" ELSE fate[x]]
    BY <1>6 DEF Becomes
  <2>3. ToSet(queue') = ToSet(queue) \ S /\ IsInjective(queue')
    BY <1>1, <1>6, WithoutElements DEF QueueLedger
  <2>4. QueueLedger'
    BY <1>1, <2>1, <2>2, <2>3 DEF QueueLedger
  <2>5. \A x \in Ids : /\ fate'[x] = "buffered" <=> fate[x] = "buffered"
                       /\ fate'[x] = "pending" <=> fate[x] = "pending"
    BY <1>1, <1>6, <2>2 DEF QueueLedger
  <2>6. QED
    BY <1>1, <1>6, <2>1, <2>4, <2>5, BufferLedgerKept, NoteLedgerKept DEF Ledger
\* The rows stay the same, in some order.
<1>7. ASSUME Ready, UNCHANGED <<interjections, stranded, notes, buffer, fate>>,
             job' = job \/ (\E mode : job' = [NoJob EXCEPT !.mode = mode]) \/ job' = NoJob,
             IsInjective(queue'), ToSet(queue') = ToSet(queue)
      PROVE  Ledger'
  <2>1. JobLedger' /\ job'.closing = job.closing /\ Closing = {} /\ Closing' = {}
    BY <1>2, <1>7
  <2>2. QueueLedger'
    BY <1>1, <1>7, <2>1 DEF QueueLedger
  <2>3. QED
    BY <1>1, <1>7, <2>1, <2>2, BufferLedgerKept, NoteLedgerKept DEF Ledger
<1>8. ASSUME NEW p \in Users, NEW v, NEW who, RemoveQueuedPrompt(p, v, who) PROVE Ledger'
  <2>1. Ready /\ UNCHANGED <<interjections, stranded, notes, buffer, job>>
    BY <1>8 DEF RemoveQueuedPrompt, untouchedByRows, actorVars
  <2>2. CASE RowMatches(p, v, who)
    BY <1>6, <1>8, <2>1, <2>2 DEF RemoveQueuedPrompt, RowMatches
  <2>3. CASE ~RowMatches(p, v, who)
    BY <1>1, <1>7, <1>8, <2>1, <2>3 DEF RemoveQueuedPrompt, QueueLedger
  <2>4. QED
    BY <2>2, <2>3
<1>9. ASSUME NEW who, ClearQueue(who) PROVE Ledger'
  <2> DEFINE S == {p \in Users \ {running} : p \in ToSet(queue) /\ who \in {None, Owner[p]}}
  <2>1. /\ Ready /\ UNCHANGED <<interjections, stranded, notes, buffer, job>>
        /\ queue' = Without(queue, S) /\ Becomes(S, "removed")
    BY <1>9 DEF ClearQueue, untouchedByRows, actorVars
  <2>2. S \subseteq ToSet(queue)
    OBVIOUS
  <2> HIDE DEF S
  <2>3. QED
    BY <1>6, <2>1, <2>2
<1>10. ASSUME NEW S \in SUBSET Users, NEW order \in SetToSeqs(S), ReorderQueue(order)
       PROVE  Ledger'
  <2>1. order \in Seq(S) /\ IsInjective(order)
    <3>1. IsFiniteSet(S) /\ Cardinality(S) \in Nat
      BY UsersAreFinite, FS_Subset, FS_CardinalityType
    <3>2. /\ order \in [1..Cardinality(S) -> S]
          /\ \A i, j \in 1..Cardinality(S) : i # j => order[i] # order[j]
      BY DEF SetToSeqs
    <3>3. order \in Seq(S) /\ DOMAIN order = 1..Cardinality(S)
      BY <3>1, <3>2
    <3>4. QED
      BY <3>2, <3>3 DEF IsInjective
  <2> DEFINE pinned == ToSet(queue) \ (Users \ {running})
  <2>2. /\ Ready /\ UNCHANGED <<interjections, stranded, notes, buffer, fate, job>>
        /\ queue' = Reorder(queue, pinned, order)
    BY <1>10 DEF ReorderQueue, untouchedByRows, actorVars
  <2> HIDE DEF pinned
  <2>3. IsInjective(queue') /\ ToSet(queue') = ToSet(queue)
    BY <1>1, <2>1, <2>2, ReorderElements DEF QueueLedger
  <2>4. QED
    BY <1>7, <2>2, <2>3
<1>11. ASSUME NEW p \in Users, EditQueuedPrompt(p) PROVE Ledger'
  BY <1>1, <1>7, <1>11 DEF EditQueuedPrompt, untouchedByRows, actorVars, QueueLedger
<1>12. ASSUME NEW p \in Users, NEW v, NEW who, NEW edited \in BOOLEAN,
             InterjectQueuedPrompt(p, v, who, edited)
       PROVE Ledger'
  <2>1. /\ Ready /\ UNCHANGED <<interjections, stranded, notes, buffer, fate>>
        /\ job' = job \/ job' = [NoJob EXCEPT !.mode = "send_now"] \/ job' = NoJob
    BY <1>12 DEF InterjectQueuedPrompt, untouchedByRows
  <2>2. CASE RowMatches(p, v, who)
    <3> DEFINE q == Without(queue, {p})
    <3>1. p \in ToSet(queue) /\ p \in Ids /\ queue' = InsertSendNow(q, running, sendNow, p)
      BY <1>12, <2>2, KindsAreIds DEF InterjectQueuedPrompt, RowMatches
    <3>2. q \in Seq(Ids) /\ ToSet(q) = ToSet(queue) \ {p} /\ IsInjective(q)
      BY <1>1, WithoutElements DEF QueueLedger
    <3> HIDE DEF q
    <3>3. IsInjective(queue') /\ ToSet(queue') = ToSet(q) \cup {p}
      BY <3>1, <3>2, InsertSendNowElements
    <3>4. ToSet(queue') = ToSet(queue)
      BY <3>1, <3>2, <3>3
    <3>5. QED
      BY <1>7, <2>1, <3>3, <3>4
  <2>3. CASE ~RowMatches(p, v, who)
    BY <1>1, <1>7, <1>12, <2>1, <2>3 DEF InterjectQueuedPrompt, QueueLedger
  <2>4. QED
    BY <2>2, <2>3
<1>13. ASSUME NEW mode, Cancel(mode) PROVE Ledger'
  BY <1>1, <1>7, <1>13 DEF Cancel, lockVars, seenVars, QueueLedger
<1>14. ASSUME NEW p \in Users \cup Wakes \cup Crons, NEW now \in BOOLEAN, Prompt(p, now)
       PROVE  Ledger'
  BY <1>14, PromptKeepsLedger, KindsAreIds
<1>15. QED
  BY <1>3, <1>4, <1>5, <1>8, <1>9, <1>10, <1>11, <1>12, <1>13, <1>14, InjectKeepsLedger
  DEF Commands


\* A completion takes the front, or no prompt.
LEMMA CompletionKeepsLedger ==
  ASSUME TypeOK, Ledger, HandleCompletion PROVE Ledger'
<1>1. /\ queue \in Seq(Ids) /\ ToSet(queue) \subseteq Ids
      /\ QueueLedger /\ BufferLedger /\ NoteLedger /\ JobLedger
  BY ListsOfIds DEF Ledger
<1> PICK p : p = Head(completions)
  OBVIOUS
<1>2. /\ agenda = <<>> /\ UNCHANGED <<interjections, stranded, notes, buffer, job>>
      /\ queue' = IF Owned(p) THEN Tail(queue) ELSE queue
      /\ IF Owned(p) THEN Becomes({p}, "done") ELSE UNCHANGED fate
  BY DEF HandleCompletion
<1>3. JobLedger' /\ job'.closing = job.closing /\ Closing = {} /\ Closing' = {}
  BY <1>1, <1>2, JobLedgerKept DEF Ending, Doing, Closing
<1>6. /\ QueueLedger'
      /\ \A x \in Ids : /\ fate'[x] = "buffered" <=> fate[x] = "buffered"
                        /\ fate'[x] = "pending" <=> fate[x] = "pending"
  <2>1. CASE Owned(p)
    <3>1. /\ queue # <<>> /\ Head(queue) = p /\ queue' = Tail(queue)
          /\ fate' = [x \in Ids |-> IF x = p THEN "done" ELSE fate[x]]
      BY <1>2, <2>1 DEF Owned, Becomes
    <3>2. /\ ToSet(queue) = {p} \cup ToSet(queue') /\ p \notin ToSet(queue')
          /\ IsInjective(queue')
      BY <1>1, <3>1, HeadAndTail DEF QueueLedger
    <3>3. QueueLedger'
      BY <1>1, <1>3, <3>1, <3>2 DEF QueueLedger
    <3>4. \A x \in Ids : /\ fate'[x] = "buffered" <=> fate[x] = "buffered"
                         /\ fate'[x] = "pending" <=> fate[x] = "pending"
      BY <1>1, <3>1, <3>2 DEF QueueLedger
    <3>5. QED
      BY <3>3, <3>4
  <2>2. CASE ~Owned(p)
    BY <1>1, <1>2, <1>3, <2>2, QueueLedgerKept
  <2>3. QED
    BY <2>1, <2>2
<1>7. QED
  BY <1>1, <1>2, <1>3, <1>6, BufferLedgerKept, NoteLedgerKept DEF Ledger

\* A cancel takes a part of the front of the queue and leaves the rest.
LEMMA TeardownParts ==
  ASSUME TypeOK, CancelTeardown
  PROVE  /\ CancelTakes(job.mode) \in Seq(Ids) /\ queue' \in Seq(Ids)
         /\ job'.closing = CancelTakes(job.mode)
         /\ CancelTakes(job.mode) \o queue' = queue
         /\ ToSet(queue) = Closing' \cup ToSet(queue')
         /\ IsInjective(queue) => IsInjective(queue') /\ Closing' \cap ToSet(queue') = {}
<1> DEFINE closing == CancelTakes(job.mode)
<1>1. queue \in Seq(Ids)
  BY ListsOfIds
<1>2. PICK k \in 0..Len(queue) : closing = SubSeq(queue, 1, k) /\ Len(closing) = k
  <2>1. CASE job.mode = "teardown"
    <3>1. closing = queue /\ Len(queue) \in 0..Len(queue)
      BY <1>1, <2>1 DEF CancelTakes
    <3>2. SubSeq(queue, 1, Len(queue)) = queue
      BY <1>1
    <3>3. QED
      BY <3>1, <3>2
  <2>2. CASE job.mode # "teardown"
    <3> DEFINE k == IF queue = <<>> THEN 0 ELSE 1
    <3>1. closing = SubSeq(queue, 1, k)
      BY <2>2 DEF CancelTakes
    <3>2. k \in 0..Len(queue) /\ Len(SubSeq(queue, 1, k)) = k
      BY <1>1
    <3>3. QED
      BY <3>1, <3>2
  <2>3. QED
    BY <2>1, <2>2
<1>3. queue' = SubSeq(queue, Len(closing) + 1, Len(queue)) /\ job'.closing = closing
  BY DEF CancelTeardown, TypeOK, ActorTypes
<1>4. closing \in Seq(Ids) /\ queue' \in Seq(Ids)
  BY <1>1, <1>2, <1>3, SplitList
<1>5. closing \o queue' = queue
  BY <1>1, <1>2, <1>3, SplitList
<1> HIDE DEF closing
<1>6. /\ ToSet(closing \o queue') = ToSet(closing) \cup ToSet(queue')
      /\ IsInjective(closing \o queue') =>
           IsInjective(queue') /\ ToSet(closing) \cap ToSet(queue') = {}
  BY <1>4, JoinElements
<1>7. Closing' = ToSet(closing)
  BY <1>3 DEF Closing
<1>8. QED
  BY <1>3, <1>4, <1>5, <1>6, <1>7 DEF closing

LEMMA TeardownKeepsLedger ==
  ASSUME TypeOK, agenda \in Agendas, Ledger, CancelTeardown PROVE Ledger'
<1>1. /\ queue \in Seq(Ids) /\ ToSet(queue) \subseteq Ids
      /\ notes \in Seq(Ids) /\ buffer \in Seq(Ids) /\ ToSet(notes) \subseteq Ids
      /\ QueueLedger /\ BufferLedger /\ NoteLedger /\ JobLedger
  BY ListsOfIds DEF Ledger
<1> DEFINE all == notes \o buffer
           dropped == IF job.mode = "teardown" THEN ToSet(all) ELSE {}
<1>2. /\ Doing("teardown") /\ agenda' = Tail(agenda) /\ UNCHANGED <<interjections, stranded>>
      /\ notes' = Without(all, dropped) /\ buffer' = <<>>
      /\ fate' = [x \in Ids |-> IF x \in dropped THEN "dropped" ELSE fate[x]]
  BY DEF CancelTeardown, Becomes
<1>3. /\ all \in Seq(Ids) /\ ToSet(all) = ToSet(notes) \cup ToSet(buffer) /\ IsInjective(all)
  BY <1>1, JoinElements DEF NoteLedger
<1>4. dropped \subseteq ToSet(all)
  OBVIOUS
<1> HIDE DEF all, dropped
<1>5. /\ ToSet(notes') = ToSet(all) \ dropped /\ IsInjective(notes')
      /\ ToSet(buffer') = {} /\ IsInjective(buffer')
  BY <1>2, <1>3, WithoutElements, ShortLists
<1>6. NoteLedger'
  BY <1>1, <1>2, <1>3, <1>4, <1>5 DEF NoteLedger
<1>7. /\ ToSet(queue) = Closing' \cup ToSet(queue')
      /\ IsInjective(queue') /\ ToSet(queue') \cap Closing' = {}
  BY <1>1, TeardownParts DEF QueueLedger
<1>8. Closing = {}
  BY <1>1, <1>2, ShortLists DEF Ending, Doing, JobLedger, Closing
<1>9. \A x \in Ids : /\ fate'[x] = "buffered" <=> fate[x] = "buffered"
                     /\ fate'[x] = "queued" <=> fate[x] = "queued"
  BY <1>1, <1>2, <1>3, <1>4 DEF NoteLedger
<1>10. QueueLedger'
  BY <1>1, <1>7, <1>8, <1>9 DEF QueueLedger
<1>11. JobLedger'
  <2>1. agenda' = <<"ungate", "abort", "answer", "start">>
    BY <1>2, AgendaSteps
  <2>2. Ending'
    BY <2>1 DEF Ending, Doing
  <2>3. QED
    BY <2>2 DEF JobLedger
<1>12. QED
  BY <1>1, <1>2, <1>6, <1>9, <1>10, <1>11, BufferLedgerKept DEF Ledger


LEMMA ActorStepsKeepLedger ==
  ASSUME TypeOK, agenda \in Agendas, Ledger, StrandedLedger, ActorSteps PROVE Ledger'
<1>1. /\ queue \in Seq(Ids) /\ interjections \in Seq(Ids)
      /\ notes \in Seq(Ids) /\ buffer \in Seq(Ids)
      /\ ToSet(queue) \subseteq Ids /\ ToSet(interjections) \subseteq Ids
      /\ ToSet(notes) \subseteq Ids /\ ToSet(buffer) \subseteq Ids
      /\ QueueLedger /\ BufferLedger /\ NoteLedger /\ JobLedger
  BY ListsOfIds DEF Ledger
\* A step other than the cancel's.
<1>2. ASSUME NEW step, Doing(step), step \notin {"ungate", "abort", "answer"}, job' = job
      PROVE  JobLedger' /\ job'.closing = job.closing /\ Closing = {} /\ Closing' = {}
  BY <1>1, <1>2, JobLedgerKept DEF Ending, Doing, Closing
<1>3. CASE Start
  <2>1. /\ Doing("start") /\ agenda' = Tail(agenda) /\ job' = job
        /\ UNCHANGED <<queue, interjections, stranded, notes, buffer, fate>>
    BY <1>3 DEF Start, untouchedByStart
  <2>2. QED
    BY <1>1, <1>2, <2>1, QueueLedgerKept, BufferLedgerKept, NoteLedgerKept DEF Ledger
<1>4. CASE CancelSnapshot
  <2>1. /\ Doing("snapshot") /\ UNCHANGED <<queue, stranded, notes, buffer>>
        /\ interjections' = <<>>
        /\ fate' = [x \in Ids |-> IF x \in ToSet(interjections) THEN "discarded" ELSE fate[x]]
        /\ \E named : job' = [job EXCEPT !.pinned = pin, !.named = named]
    BY <1>4 DEF CancelSnapshot, Becomes, lockVars
  <2>2. job'.closing = job.closing /\ job'.task = job.task /\ job'.rewound = job.rewound
    BY <2>1 DEF TypeOK, ActorTypes
  <2>3. JobLedger'
    BY <1>1, <2>1, <2>2 DEF JobLedger, Ending, Doing
  <2>4. BufferLedger'
    BY <1>1, <2>1, ShortLists DEF BufferLedger
  <2>5. \A x \in Ids : /\ fate'[x] = "queued" <=> fate[x] = "queued"
                       /\ fate'[x] = "pending" <=> fate[x] = "pending"
    BY <1>1, <2>1 DEF BufferLedger
  <2>6. QED
    BY <1>1, <2>1, <2>2, <2>3, <2>4, <2>5, QueueLedgerKept, NoteLedgerKept DEF Ledger
<1>10. CASE CancelUngates \/ CancelAbort
  <2>1. /\ Doing("ungate") \/ Doing("abort")
        /\ agenda' = Tail(agenda)
        /\ UNCHANGED <<queue, interjections, stranded, notes, buffer, fate, job>>
    BY <1>10 DEF CancelUngates, CancelAbort, lockVars, seenVars
  <2>2. agenda' \in {<<"abort", "answer", "start">>, <<"answer", "start">>}
    BY <2>1, AgendaSteps
  <2>3. JobLedger'
    BY <2>2 DEF JobLedger, Ending, Doing
  <2>4. QED
    BY <1>1, <2>1, <2>3, QueueLedgerKept, BufferLedgerKept, NoteLedgerKept DEF Ledger
<1>5. CASE CancelAnswers
  <2>1. /\ job' = NoJob /\ UNCHANGED <<queue, interjections, stranded, notes, buffer>>
        /\ \E what \in {"rewound", "cancelled"} :
             fate' = [x \in Ids |-> IF x \in Closing THEN what ELSE fate[x]]
    BY <1>5 DEF CancelAnswers, Becomes, Closing
  <2>2. NoJob.closing = <<>> /\ NoJob.task = None /\ ~NoJob.rewound
    BY DEF NoJob
  <2>3. JobLedger' /\ Closing' = {}
    BY <2>1, <2>2, ShortLists DEF JobLedger, Closing
  <2>4. QueueLedger'
    BY <1>1, <2>1, <2>3 DEF QueueLedger
  <2>5. \A x \in Ids : /\ fate'[x] = "buffered" <=> fate[x] = "buffered"
                       /\ fate'[x] = "pending" <=> fate[x] = "pending"
    BY <1>1, <2>1 DEF QueueLedger
  <2>6. QED
    BY <1>1, <2>1, <2>3, <2>4, <2>5, BufferLedgerKept, NoteLedgerKept DEF Ledger
<1>6. CASE TurnEnd
  <2>1. /\ Doing("turn_end") /\ UNCHANGED <<interjections, stranded, notes, buffer, job>>
        /\ \/ UNCHANGED <<queue, fate>>
           \/ \E g \in Goals : /\ fate[g] = "unsent" /\ queue' = Append(queue, g)
                              /\ fate' = [x \in Ids |-> IF x = g THEN "queued" ELSE fate[x]]
    BY <1>6 DEF TurnEnd, Becomes
  <2>2. JobLedger' /\ job'.closing = job.closing /\ Closing = {} /\ Closing' = {}
    BY <1>2, <2>1
  <2>3. CASE UNCHANGED <<queue, fate>>
    BY <1>1, <2>1, <2>2, <2>3, QueueLedgerKept, BufferLedgerKept, NoteLedgerKept DEF Ledger
  <2>4. ASSUME NEW g \in Goals, fate[g] = "unsent", queue' = Append(queue, g),
               fate' = [x \in Ids |-> IF x = g THEN "queued" ELSE fate[x]]
        PROVE  Ledger'
    <3>1. g \in Ids /\ g \notin ToSet(queue)
      BY <1>1, <2>4, KindsAreIds DEF QueueLedger
    <3>2. IsInjective(Append(queue, g)) /\ ToSet(Append(queue, g)) = ToSet(queue) \cup {g}
      BY <1>1, <3>1, AppendElements, AppendOnce DEF QueueLedger
    <3>3. QueueLedger'
      BY <1>1, <2>2, <2>4, <3>2 DEF QueueLedger
    <3>4. QED
      BY <1>1, <2>1, <2>2, <2>4, <3>3, BufferLedgerKept, NoteLedgerKept DEF Ledger
  <2>5. QED
    BY <2>1, <2>3, <2>4
<1>7. CASE FlushStrandedInterjections
  <2>1. /\ Doing("flush") /\ UNCHANGED <<queue, notes, buffer, fate, job>>
        /\ stranded' = interjections /\ interjections' = <<>>
    BY <1>7 DEF FlushStrandedInterjections, lockVars, seenVars
  <2>2. stranded = <<>>
    BY <2>1 DEF StrandedLedger, Doing
  <2>3. JobLedger' /\ job'.closing = job.closing
    BY <1>2, <2>1
  <2>4. BufferLedger'
    BY <1>1, <2>1, <2>2, ShortLists DEF BufferLedger
  <2>5. QED
    BY <1>1, <2>1, <2>3, <2>4, QueueLedgerKept, NoteLedgerKept DEF Ledger
<1>11. CASE RequeueStranded
  <2> PICK i : i = Last(stranded)
    OBVIOUS
  <2>1. /\ Doing("requeue") /\ UNCHANGED <<interjections, notes, buffer, job>>
        /\ queue' = InsertRunNext(queue, running, <<i>>) /\ stranded' = Front(stranded)
        /\ fate' = [x \in Ids |-> IF x = i THEN "queued" ELSE fate[x]]
    BY <1>11 DEF RequeueStranded, Becomes
  <2>2. JobLedger' /\ job'.closing = job.closing /\ Closing = {} /\ Closing' = {}
    BY <1>2, <2>1
  <2>3. /\ i \in Ids /\ i \in ToSet(stranded) /\ i \notin ToSet(stranded')
        /\ IsInjective(stranded') /\ ToSet(stranded) = ToSet(stranded') \cup {i}
    BY <1>1, <1>11, <2>1, StrandedParts, KindsAreIds
    DEF BufferLedger, TypeOK, ActorTypes, StrandedTyped
  <2>4. i \notin ToSet(queue)
    BY <1>1, <2>3 DEF QueueLedger, BufferLedger
  <2>5. IsInjective(queue') /\ ToSet(queue') = ToSet(queue) \cup {i}
    <3> DEFINE one == <<i>>
    <3>1. one \in Seq(Ids) /\ ToSet(one) = {i} /\ IsInjective(one)
      BY <2>3, ShortLists
    <3>2. queue' = InsertRunNext(queue, running, one)
      BY <2>1
    <3> HIDE DEF one
    <3>3. ToSet(queue) \cap ToSet(one) = {} /\ IsInjective(queue)
      BY <1>1, <2>4, <3>1 DEF QueueLedger
    <3>4. QED
      BY <1>1, <3>1, <3>2, <3>3, InsertRunNextElements
  <2>6. QueueLedger'
    BY <1>1, <2>1, <2>2, <2>5 DEF QueueLedger
  <2>7. BufferLedger'
    BY <1>1, <2>1, <2>3 DEF BufferLedger
  <2>8. \A x \in Ids : fate'[x] = "pending" <=> fate[x] = "pending"
    BY <1>1, <2>1, <2>3 DEF BufferLedger
  <2>9. QED
    BY <1>1, <2>1, <2>2, <2>6, <2>7, <2>8, NoteLedgerKept DEF Ledger
<1>12. CASE SweepMonitorBuffer
  <2>1. /\ Doing("sweep") /\ UNCHANGED <<queue, interjections, stranded, fate, job>>
        /\ notes' = notes \o buffer /\ buffer' = <<>>
    BY <1>12 DEF SweepMonitorBuffer, seenVars
  <2>2. JobLedger' /\ job'.closing = job.closing
    BY <1>2, <2>1
  <2>3. /\ ToSet(notes') = ToSet(notes) \cup ToSet(buffer) /\ IsInjective(notes')
        /\ ToSet(buffer') = {} /\ IsInjective(buffer')
    BY <1>1, <2>1, JoinElements, ShortLists DEF NoteLedger
  <2>4. NoteLedger'
    BY <1>1, <2>1, <2>3 DEF NoteLedger
  <2>5. QED
    BY <1>1, <2>1, <2>2, <2>4, QueueLedgerKept, BufferLedgerKept DEF Ledger
<1>8. CASE MaybeDrainNotifications
  <2>1. Doing("drain") /\ UNCHANGED <<interjections, stranded, job>>
    BY <1>8 DEF MaybeDrainNotifications
  <2>2. JobLedger' /\ job'.closing = job.closing /\ Closing = {} /\ Closing' = {}
    BY <1>2, <2>1
  <2>3. CASE ~Idle
    BY <1>1, <1>8, <2>1, <2>2, <2>3, QueueLedgerKept, BufferLedgerKept, NoteLedgerKept
    DEF Ledger, MaybeDrainNotifications
  <2>4. CASE Idle
    <3> DEFINE all == notes \o buffer
               muted == IF goal = "off" THEN ToSet(all) \cap GoalTurnNotes ELSE ToSet(all)
               told == Without(all, muted)
               k == IF told = <<>> THEN 0 ELSE 1
    <3>1. /\ queue = <<>> /\ notes' = <<>> /\ buffer' = <<>>
          /\ queue' = SubSeq(told, 1, k)
          /\ fate' = [x \in Ids |-> IF x \in muted THEN "muted"
                                    ELSE IF x \in ToSet(queue') THEN "queued"
                                    ELSE IF x \in ToSet(told) THEN "merged"
                                    ELSE fate[x]]
      BY <1>8, <2>4 DEF MaybeDrainNotifications, Idle
    <3>2. /\ all \in Seq(Ids) /\ ToSet(all) = ToSet(notes) \cup ToSet(buffer)
          /\ IsInjective(all)
      BY <1>1, JoinElements DEF NoteLedger
    <3>3. muted \subseteq ToSet(all)
      OBVIOUS
    <3> HIDE DEF all, muted
    <3>4. told \in Seq(Ids) /\ ToSet(told) = ToSet(all) \ muted /\ IsInjective(told)
      BY <3>2, WithoutElements
    <3> HIDE DEF told
    <3>5. ToSet(queue') \subseteq ToSet(told) /\ IsInjective(queue')
      <4>1. k \in 0..Len(told)
        BY <3>4
      <4> DEFINE b == SubSeq(told, k + 1, Len(told))
      <4>2. queue' \in Seq(Ids) /\ b \in Seq(Ids)
        BY <3>1, <3>4, <4>1, SplitList
      <4>3. queue' \o b = told
        BY <3>1, <3>4, <4>1, SplitList
      <4> HIDE DEF b
      <4>4. /\ ToSet(queue' \o b) = ToSet(queue') \cup ToSet(b)
            /\ IsInjective(queue' \o b) => IsInjective(queue')
        BY <4>2, JoinElements
      <4>5. QED
        BY <3>4, <4>3, <4>4
    <3>6. \A x \in Ids : /\ fate[x] = "queued" <=> FALSE
                         /\ fate[x] = "pending" <=> x \in ToSet(all)
      BY <1>1, <2>2, <3>1, <3>2, ShortLists DEF QueueLedger, NoteLedger
    <3>7. QueueLedger'
      BY <2>2, <3>1, <3>3, <3>4, <3>5, <3>6 DEF QueueLedger
    <3>8. NoteLedger'
      BY <3>1, <3>3, <3>4, <3>5, <3>6, ShortLists DEF NoteLedger
    <3>9. \A x \in Ids : fate'[x] = "buffered" <=> fate[x] = "buffered"
      BY <3>1, <3>3, <3>4, <3>5, <3>6
    <3>10. QED
      BY <1>1, <2>1, <2>2, <3>7, <3>8, <3>9, BufferLedgerKept DEF Ledger
  <2>5. QED
    BY <2>3, <2>4
<1>9. QED
  BY <1>3, <1>4, <1>5, <1>6, <1>7, <1>8, <1>10, <1>11, <1>12, CompletionKeepsLedger,
     TeardownKeepsLedger
  DEF ActorSteps


\* A turn merges what waits for it, and drops what it has been shown.
LEMMA TurnKeepsLedger ==
  ASSUME TypeOK, Ledger, NEW t \in Ids, Turn(t) PROVE Ledger'
<1>1. /\ queue \in Seq(Ids) /\ interjections \in Seq(Ids)
      /\ notes \in Seq(Ids) /\ buffer \in Seq(Ids)
      /\ ToSet(queue) \subseteq Ids /\ ToSet(interjections) \subseteq Ids
      /\ ToSet(notes) \subseteq Ids /\ ToSet(buffer) \subseteq Ids
      /\ QueueLedger /\ BufferLedger /\ NoteLedger /\ JobLedger
  BY ListsOfIds DEF Ledger
<1>2. UNCHANGED <<agenda, job, stranded>>
  BY DEF Turn, TurnBegins, TurnEmits, TurnMerges, TurnInjects,
     TurnRound, TurnSetsGoal, TurnReports, TurnConsumes, TurnParks, TurnUnparks,
     TurnTails, TurnUnscopes, TurnFinishes, TurnReaped, turnOnly, actorVars
<1>3. JobLedger' /\ Closing' = Closing
  BY <1>1, <1>2 DEF JobLedger, Ending, Doing, Closing
<1>4. CASE UNCHANGED <<queue, interjections, notes, buffer, fate>>
  BY <1>1, <1>2, <1>3, <1>4, QueueLedgerKept, BufferLedgerKept, NoteLedgerKept DEF Ledger
<1>5. CASE TurnMerges(t)
  <2>1. /\ interjections' = <<>> /\ UNCHANGED <<queue, notes, buffer>>
        /\ fate' = [x \in Ids |-> IF x \in ToSet(interjections) THEN "merged" ELSE fate[x]]
    BY <1>5 DEF TurnMerges, Becomes
  <2>2. BufferLedger'
    BY <1>1, <1>2, <2>1, ShortLists DEF BufferLedger
  <2>3. \A x \in Ids : /\ fate'[x] = "queued" <=> fate[x] = "queued"
                       /\ fate'[x] = "pending" <=> fate[x] = "pending"
    BY <1>1, <2>1 DEF BufferLedger
  <2>4. QED
    BY <1>1, <1>2, <1>3, <2>1, <2>2, <2>3, QueueLedgerKept, NoteLedgerKept DEF Ledger
<1>6. CASE TurnInjects(t)
  <2>1. /\ buffer' = <<>> /\ UNCHANGED <<queue, notes, interjections>>
        /\ fate' = [x \in Ids |-> IF x \in ToSet(buffer) THEN "injected" ELSE fate[x]]
    BY <1>6 DEF TurnInjects, Becomes
  <2>2. NoteLedger'
    BY <1>1, <2>1, ShortLists DEF NoteLedger
  <2>3. \A x \in Ids : /\ fate'[x] = "queued" <=> fate[x] = "queued"
                       /\ fate'[x] = "buffered" <=> fate[x] = "buffered"
    BY <1>1, <2>1 DEF NoteLedger
  <2>4. QED
    BY <1>1, <1>2, <1>3, <2>1, <2>2, <2>3, QueueLedgerKept, BufferLedgerKept DEF Ledger
<1>7. ASSUME NEW x \in Wakes \cup Notes, TurnConsumes(t, x) PROVE Ledger'
  <2>1. /\ queue' = IF x \in Wakes THEN Sweep(queue, running, {x}) ELSE queue
        /\ notes' = Without(notes, {x}) /\ UNCHANGED <<interjections, buffer>>
        /\ Becomes(ToSet(queue \o notes) \ ToSet(queue' \o notes'), "consumed")
    BY <1>7 DEF TurnConsumes
  <2>2. /\ queue' \in Seq(Ids) /\ ToSet(queue') \subseteq ToSet(queue) /\ IsInjective(queue')
    BY <1>1, <2>1, SweepElements DEF QueueLedger
  <2>3. /\ notes' \in Seq(Ids) /\ ToSet(notes') \subseteq ToSet(notes) /\ IsInjective(notes')
    BY <1>1, <2>1, WithoutElements DEF NoteLedger
  <2>4. /\ ToSet(queue \o notes) = ToSet(queue) \cup ToSet(notes)
        /\ ToSet(queue' \o notes') = ToSet(queue') \cup ToSet(notes')
    BY <1>1, <2>2, <2>3, JoinElements
  <2>5. fate' = [y \in Ids |->
                   IF y \in (ToSet(queue) \cup ToSet(notes)) \ (ToSet(queue') \cup ToSet(notes'))
                   THEN "consumed" ELSE fate[y]]
    BY <2>1, <2>4 DEF Becomes
  <2>6. ToSet(queue) \cap (ToSet(notes) \cup ToSet(buffer)) = {}
    BY <1>1 DEF QueueLedger, NoteLedger
  <2>7. QueueLedger'
    <3>1. /\ ToSet(queue) \cap Closing = {}
          /\ \A y \in Ids : fate[y] = "queued" <=> y \in ToSet(queue) \cup Closing
          /\ \A y \in Ids : fate[y] = "pending" <=> y \in ToSet(notes) \cup ToSet(buffer)
      BY <1>1 DEF QueueLedger, NoteLedger
    <3>2. \A y \in Ids : fate'[y] = "queued" <=> y \in ToSet(queue') \cup Closing
      BY <2>2, <2>3, <2>5, <2>6, <3>1
    <3>3. ToSet(queue') \cap Closing = {}
      BY <2>2, <3>1
    <3>4. QED
      BY <1>3, <2>2, <3>2, <3>3 DEF QueueLedger
  <2>8. NoteLedger'
    BY <1>1, <2>1, <2>2, <2>3, <2>5, <2>6 DEF NoteLedger
  <2>9. \A y \in Ids : fate'[y] = "buffered" <=> fate[y] = "buffered"
    BY <1>1, <2>5 DEF QueueLedger, NoteLedger
  <2>10. QED
    BY <1>1, <1>2, <1>3, <2>1, <2>7, <2>8, <2>9, BufferLedgerKept DEF Ledger
<1>8. \/ TurnMerges(t) \/ TurnInjects(t) \/ \E x \in Wakes \cup Notes : TurnConsumes(t, x)
      \/ UNCHANGED <<queue, interjections, notes, buffer, fate>>
  BY DEF Turn, TurnBegins, TurnEmits, TurnRound, TurnSetsGoal, TurnReports, TurnParks,
     TurnUnparks, TurnTails, TurnUnscopes, TurnFinishes, TurnReaped
<1>9. QED
  BY <1>4, <1>5, <1>6, <1>7, <1>8

LEMMA OthersKeepLedger ==
  ASSUME TypeOK, Ledger, OtherTasks PROVE Ledger'
<1>1. /\ queue \in Seq(Ids)
      /\ QueueLedger /\ BufferLedger /\ NoteLedger /\ JobLedger
  BY ListsOfIds DEF Ledger
<1>2. UNCHANGED <<agenda, job, interjections, stranded, notes, buffer>>
  BY DEF OtherTasks, StarterStarts, ResumeStarts, ResumeQueues, ZombieDrops,
     untouchedByStart, turnOnly, actorVars
<1>3. JobLedger' /\ Closing' = Closing
  BY <1>1, <1>2 DEF JobLedger, Ending, Doing, Closing
<1>4. CASE UNCHANGED <<queue, fate>>
  BY <1>1, <1>2, <1>3, <1>4, QueueLedgerKept, BufferLedgerKept, NoteLedgerKept DEF Ledger
<1>5. ASSUME NEW p \in Plans, ResumeQueues(p) PROVE Ledger'
  <2>1. /\ p \in Ids /\ fate[p] = "unsent" /\ queue' = Append(queue, p)
        /\ fate' = [x \in Ids |-> IF x = p THEN "queued" ELSE fate[x]]
    BY <1>5, KindsAreIds DEF ResumeQueues, Becomes
  <2>2. p \notin ToSet(queue)
    BY <1>1, <2>1 DEF QueueLedger
  <2>3. IsInjective(Append(queue, p)) /\ ToSet(Append(queue, p)) = ToSet(queue) \cup {p}
    BY <1>1, <2>1, <2>2, AppendElements, AppendOnce DEF QueueLedger
  <2>4. p \notin Closing
    BY <1>1, <2>1 DEF QueueLedger
  <2>5. QueueLedger'
    BY <1>1, <1>3, <2>1, <2>3, <2>4 DEF QueueLedger
  <2>6. QED
    BY <1>1, <1>2, <1>3, <2>1, <2>5, BufferLedgerKept, NoteLedgerKept DEF Ledger
<1>6. QED
  BY <1>4, <1>5 DEF OtherTasks, StarterStarts, ResumeStarts, ZombieDrops,
     untouchedByStart, turnOnly

LEMMA LedgerInit == Init => Ledger /\ StrandedLedger
<1> SUFFICES ASSUME Init PROVE Ledger /\ StrandedLedger
  OBVIOUS
<1>1. /\ queue = <<>> /\ interjections = <<>> /\ notes = <<>> /\ buffer = <<>>
      /\ stranded = <<>> /\ job.closing = <<>> /\ job.task = None /\ ~job.rewound
      /\ \A x \in Ids : fate[x] = "unsent"
  BY DEF Init, NoJob
<1>2. QED
  BY <1>1, ShortLists DEF Ledger, QueueLedger, BufferLedger, NoteLedger, JobLedger,
     StrandedLedger, Closing

\* What the rest rests on: the types, the agendas and the ledger.
Ground == TypeOK /\ RunningIsFront /\ PinInv /\ Ledger /\ StrandedLedger

\* Every id is where its fate says, and stays so whatever the queue operations do.
THEOREM LedgerKept == Spec => []Ground
<1>1. TypeOK /\ PinInv /\ Ledger /\ StrandedLedger /\ [Next]_vars => Ledger'
  <2> SUFFICES ASSUME TypeOK, PinInv, Ledger, StrandedLedger, [Next]_vars PROVE Ledger'
    OBVIOUS
  <2>1. CASE Next
    BY <2>1, CommandsKeepLedger, ActorStepsKeepLedger, TurnKeepsLedger, OthersKeepLedger
    DEF Next, PinInv
  <2>2. CASE UNCHANGED vars
    <3>1. UNCHANGED <<queue, interjections, stranded, notes, buffer, fate, agenda, job>>
      BY <2>2 DEF vars, lockVars, actorVars, seenVars
    <3>2. QED
      BY <3>1, QueueLedgerKept, BufferLedgerKept, NoteLedgerKept
      DEF Ledger, JobLedger, Ending, Doing
  <2>3. QED
    BY <2>1, <2>2
<1>2. Ground <=> TypeOK /\ RunningIsFront /\ PinInv /\ Ledger /\ StrandedLedger
  BY DEF Ground
<1>3. StrandedLedger /\ [Next]_vars => StrandedLedger'
  BY StrandedLedgerKept
<1>4. QED
  BY LedgerInit, <1>1, <1>2, <1>3, TypeCorrect, RunningStaysInFront, PinIsRunning, PTL DEF Spec

\* No queue operation loses or duplicates a prompt: whatever the clients send, the
\* sweeps, the reorderings, the cancels and the drains leave in the queue, once,
\* what was accepted and not answered.
THEOREM NothingIsLost == Spec => []NothingLost
<1>1. Ground => NothingLost
  BY ListsOfIds DEF Ground, Ledger, QueueLedger, NothingLost, Closing
<1>2. QED
  BY LedgerKept, <1>1, PTL

-----------------------------------------------------------------------------
(* The count of waits.  It is exact or too low, but for a cancel that has  *)
(* taken a parked turn and not reset the count yet.                        *)

Unreset == Doing("ungate") \/ Doing("abort")

WaitsCounted ==
  /\ IsFiniteSet(parked)
  /\ ~Unreset => depth <= Cardinality(parked)

\* The steps of a turn that enter and leave a wait.
LEMMA WaitsCountedTurn ==
  ASSUME TypeOK, WaitsCounted, NEW t \in Ids, TurnParks(t) \/ TurnUnparks(t)
  PROVE  WaitsCounted'
<1>1. /\ depth \in Nat /\ IsFiniteSet(parked) /\ Cardinality(parked) \in Nat
      /\ Unreset' = Unreset
  BY FS_CardinalityType DEF TypeOK, FlagTypes, WaitsCounted, TurnParks, TurnUnparks,
     turnOnly, actorVars, Unreset, Doing
<1>2. CASE TurnParks(t)
  <2>1. t \notin parked /\ parked' = parked \cup {t} /\ depth' = depth + 1
    BY <1>2 DEF TurnParks
  <2>2. IsFiniteSet(parked \cup {t}) /\ Cardinality(parked \cup {t}) = Cardinality(parked) + 1
    BY <1>1, <2>1, FS_AddElement
  <2>3. QED
    BY <1>1, <2>1, <2>2 DEF WaitsCounted
<1>3. CASE TurnUnparks(t)
  <2>1. t \in parked /\ parked' = parked \ {t} /\ depth' = Released
    BY <1>3 DEF TurnUnparks
  <2>2. IsFiniteSet(parked \ {t}) /\ Cardinality(parked \ {t}) = Cardinality(parked) - 1
    BY <1>1, <2>1, FS_RemoveElement
  <2>3. Cardinality(parked \ {t}) \in Nat
    BY <2>2, FS_CardinalityType
  <2>4. QED
    BY <1>1, <2>1, <2>2, <2>3 DEF WaitsCounted, Released
<1>4. QED
  BY <1>2, <1>3

LEMMA WaitsCountedNext ==
  ASSUME TypeOK, agenda \in Agendas, WaitsCounted, [Next]_vars PROVE WaitsCounted'
<1>1. /\ depth \in Nat /\ IsFiniteSet(parked) /\ Cardinality(parked) \in Nat
  BY FS_CardinalityType DEF TypeOK, FlagTypes, WaitsCounted
\* Elsewhere the turns that wait stay so, or one is gone; the count is kept.
<1>2. ASSUME UNCHANGED <<parked, depth>>, Unreset' \/ ~Unreset
      PROVE  WaitsCounted'
  BY <1>2 DEF WaitsCounted
<1>3. CASE Commands
  <2>1. UNCHANGED <<parked, depth>>
    BY ZenonT(60), <1>3 DEF Commands, Prompt, TaskCompletes, Interject, InjectNotification,
       DropMonitorNotifications, RemoveQueuedPrompt, InterjectQueuedPrompt, ClearQueue,
       ReorderQueue, EditQueuedPrompt, Cancel, untouchedByRows, waitVars
  <2>2. CASE Ready
    BY <1>2, <2>1, <2>2 DEF Ready, Unreset, Doing
  <2>3. CASE \E w \in Wakes : TaskCompletes(w)
    BY <1>2, <2>1, <2>3 DEF TaskCompletes, actorVars, Unreset, Doing
  <2>4. QED
    BY ZenonT(60), <1>3, <2>2, <2>3 DEF Commands, Prompt, Interject, InjectNotification,
       DropMonitorNotifications, RemoveQueuedPrompt, InterjectQueuedPrompt, ClearQueue,
       ReorderQueue, EditQueuedPrompt, Cancel
<1>4. CASE ActorSteps
  <2>1. CASE CancelTeardown
    <3>1. Unreset'
      <4>1. agenda' = <<"ungate", "abort", "answer", "start">>
        BY <2>1, AgendaSteps DEF CancelTeardown
      <4>2. QED
        BY <4>1 DEF Unreset, Doing
    <3>2. parked' = parked \/ \E t : parked' = parked \ {t}
      BY <2>1 DEF CancelTeardown, AbortTask
    <3>3. IsFiniteSet(parked')
      BY <1>1, <3>2, FS_RemoveElement
    <3>4. QED
      BY <3>1, <3>3 DEF WaitsCounted
  <2>2. CASE CancelAbort
    <3>1. depth' = 0 /\ (parked' = parked \/ \E t : parked' = parked \ {t})
      BY <2>2 DEF CancelAbort, AbortTask, DepthAfterCancel
    <3>2. IsFiniteSet(parked')
      BY SMTT(40), <1>1, <3>1, FS_RemoveElement
    <3>3. Cardinality(parked') \in Nat
      BY <3>2, FS_CardinalityType
    <3>4. QED
      BY <3>1, <3>2, <3>3 DEF WaitsCounted
  <2>3. CASE CancelUngates
    <3>1. Doing("ungate") /\ agenda' = Tail(agenda) /\ UNCHANGED <<parked, depth>>
      BY <2>3 DEF CancelUngates, waitVars
    <3>2. agenda' = <<"abort", "answer", "start">>
      BY <3>1, AgendaSteps
    <3>3. Unreset'
      BY <3>2 DEF Unreset, Doing
    <3>4. QED
      BY <1>2, <3>1, <3>3
  <2>5. CASE \/ Start \/ CancelSnapshot \/ CancelAnswers \/ HandleCompletion
             \/ SweepMonitorBuffer \/ TurnEnd \/ FlushStrandedInterjections
             \/ RequeueStranded \/ MaybeDrainNotifications
    <3>1. UNCHANGED <<parked, depth>>
      BY <2>5 DEF Start, CancelSnapshot, CancelAnswers, HandleCompletion,
         SweepMonitorBuffer, TurnEnd, FlushStrandedInterjections, RequeueStranded,
         MaybeDrainNotifications, untouchedByStart, waitVars
    <3>2. ~Unreset
      BY <2>5 DEF Start, CancelSnapshot, CancelAnswers, HandleCompletion,
         SweepMonitorBuffer, TurnEnd, FlushStrandedInterjections, RequeueStranded,
         MaybeDrainNotifications, Unreset, Doing
    <3>3. QED
      BY <1>2, <3>1, <3>2
  <2>4. QED
    BY <1>4, <2>1, <2>2, <2>3, <2>5 DEF ActorSteps
<1>5. ASSUME UNCHANGED <<parked, depth, agenda>> PROVE WaitsCounted'
  BY <1>5 DEF WaitsCounted, Unreset, Doing
<1>6. CASE OtherTasks
  <2>1. CASE ZombieDrops
    BY <1>1, <2>1 DEF ZombieDrops, Released, WaitsCounted, turnOnly, actorVars,
       Unreset, Doing
  <2>2. CASE StarterStarts \/ ResumeStarts \/ \E p \in Plans : ResumeQueues(p)
    BY <1>5, <2>2 DEF StarterStarts, ResumeStarts, ResumeQueues, untouchedByStart, waitVars,
       actorVars
  <2>3. QED
    BY <1>6, <2>1, <2>2 DEF OtherTasks
<1>7. ASSUME NEW t \in Ids, Turn(t) PROVE WaitsCounted'
  <2>1. TurnParks(t) \/ TurnUnparks(t) \/ UNCHANGED <<parked, depth, agenda>>
    BY <1>7 DEF Turn, TurnBegins, TurnEmits, TurnMerges, TurnInjects, TurnRound,
       TurnSetsGoal, TurnReports, TurnConsumes, TurnTails, TurnUnscopes, TurnFinishes,
       TurnReaped, turnOnly, waitVars, actorVars
  <2>2. QED
    BY <1>5, <1>7, <2>1, WaitsCountedTurn
<1>8. CASE UNCHANGED vars
  BY <1>5, <1>8 DEF vars, waitVars, actorVars
<1>9. QED
  BY <1>3, <1>4, <1>6, <1>7, <1>8 DEF Next

\* No wait is counted that the turns are not in, once a cancel is done: a cancel
\* resets the count, and the guards of an aborted turn that drop later find it at
\* zero, or take from the count of another turn's wait, never below.
THEOREM WaitsAreReal == Spec => []NoPhantomWait
<1>1. Init => WaitsCounted
  BY FS_EmptySet DEF Init, WaitsCounted
<1>2. Ground /\ WaitsCounted /\ [Next]_vars => WaitsCounted'
  BY WaitsCountedNext DEF Ground, PinInv
<1>3. WaitsCounted => NoPhantomWait
  BY DEF WaitsCounted, NoPhantomWait, Ready, Unreset, Doing
<1>4. QED
  BY <1>1, <1>2, <1>3, LedgerKept, PTL DEF Spec

-----------------------------------------------------------------------------
(* The silence of a cancel: the flag is set from the lock of the cancel to *)
(* the next prompt of the user, unless the cancel rewinds or is a send now.*)

SilenceInv ==
  /\ Ending => (suppressed <=> ~job.rewound)
  /\ hushed => suppressed \/ Ending

\* A notification is queued by the drain alone.
LEMMA OnlyTheDrainQueues ==
  ASSUME TypeOK, Next, ~MaybeDrainNotifications, NEW n \in Notes, fate[n] # "queued"
  PROVE  fate'[n] # "queued"
<1>1. /\ n \in Ids /\ n \notin Users \cup Interjections \cup Wakes \cup Crons \cup Goals \cup Plans
      /\ ToSet(interjections) \subseteq Interjections
  <2>1. Notes \cap (Users \cup Interjections \cup Wakes \cup Crons \cup Goals \cup Plans) = {}
    <3> DEFINE kinds == <<Users, Interjections, Wakes, Crons, Goals, Plans, Notes>>
    <3>1. /\ DOMAIN kinds = 1..7 /\ kinds[1] = Users /\ kinds[2] = Interjections
          /\ kinds[3] = Wakes /\ kinds[4] = Crons /\ kinds[5] = Goals
          /\ kinds[6] = Plans /\ kinds[7] = Notes
      OBVIOUS
    <3>2. \A k, l \in DOMAIN kinds : k # l => kinds[k] \cap kinds[l] = {}
      BY KindsAreDisjoint
    <3> HIDE DEF kinds
    <3>3. \A k \in 1..6 : kinds[k] \cap kinds[7] = {}
      BY <3>1, <3>2
    <3>4. /\ kinds[1] \cap kinds[7] = {} /\ kinds[2] \cap kinds[7] = {}
          /\ kinds[3] \cap kinds[7] = {} /\ kinds[4] \cap kinds[7] = {}
          /\ kinds[5] \cap kinds[7] = {} /\ kinds[6] \cap kinds[7] = {}
      BY <3>3
    <3>5. QED
      BY <3>1, <3>4
  <2>2. interjections \in Seq(Interjections)
    BY DEF TypeOK, QueueTypes
  <2>3. ToSet(interjections) \subseteq Interjections
    BY <2>2 DEF ToSet
  <2>4. QED
    BY <2>1, <2>3, KindsAreIds
<1>2. ASSUME NEW S, NEW what, Becomes(S, what), what = "queued" => n \notin S
      PROVE  fate'[n] # "queued"
  BY <1>1, <1>2 DEF Becomes
<1>3. CASE Commands
  <2>1. ASSUME NEW p \in Users \cup Wakes \cup Crons, NEW now, Prompt(p, now)
        PROVE  fate'[n] # "queued"
    BY <1>1, <2>1 DEF Prompt
  <2>2. ASSUME NEW i \in Interjections, Interject(i) PROVE fate'[n] # "queued"
    BY <1>1, <1>2, <2>2 DEF Interject
  <2>3. ASSUME NEW m, NEW next, InjectNotification(m, next) PROVE fate'[n] # "queued"
    BY <1>1, <2>3 DEF InjectNotification
  <2>4. ASSUME NEW w, TaskCompletes(w) PROVE fate'[n] # "queued"
    BY <1>2, <2>4 DEF TaskCompletes
  <2>5. ASSUME NEW m, DropMonitorNotifications(m) PROVE fate'[n] # "queued"
    BY <1>2, <2>5 DEF DropMonitorNotifications
  <2>6. ASSUME NEW p, NEW v, NEW who, RemoveQueuedPrompt(p, v, who) PROVE fate'[n] # "queued"
    BY <1>2, <2>6 DEF RemoveQueuedPrompt
  <2>7. ASSUME NEW who, ClearQueue(who) PROVE fate'[n] # "queued"
    BY <1>2, <2>7 DEF ClearQueue
  <2>8. ASSUME NEW p, NEW v, NEW who, NEW edited, NEW order, NEW mode,
               \/ InterjectQueuedPrompt(p, v, who, edited) \/ ReorderQueue(order)
               \/ EditQueuedPrompt(p) \/ Cancel(mode)
        PROVE  fate'[n] # "queued"
    BY <2>8 DEF InterjectQueuedPrompt, ReorderQueue, EditQueuedPrompt, Cancel, seenVars
  <2>9. QED
    BY <1>3, <2>1, <2>2, <2>3, <2>4, <2>5, <2>6, <2>7, <2>8 DEF Commands
<1>4. CASE ActorSteps
  <2>1. CASE Start
    BY <2>1 DEF Start, untouchedByStart
  <2>2. CASE CancelSnapshot \/ CancelTeardown \/ CancelAnswers
    BY <1>2, <2>2 DEF CancelSnapshot, CancelTeardown, CancelAnswers
  <2>3. CASE HandleCompletion
    BY <1>2, <2>3 DEF HandleCompletion
  <2>4. CASE TurnEnd
    BY <1>1, <1>2, <2>4 DEF TurnEnd
  <2>5. CASE RequeueStranded
    <3>1. Last(stranded) # n
      BY <1>1, <2>5, StrandedParts DEF TypeOK, ActorTypes, StrandedTyped
    <3>2. QED
      BY <1>2, <2>5, <3>1 DEF RequeueStranded
  <2>6. CASE CancelUngates \/ CancelAbort \/ SweepMonitorBuffer
             \/ FlushStrandedInterjections
    BY <2>6 DEF CancelUngates, CancelAbort, SweepMonitorBuffer,
       FlushStrandedInterjections, seenVars
  <2>7. QED
    BY <1>4, <2>1, <2>2, <2>3, <2>4, <2>5, <2>6 DEF ActorSteps
<1>5. CASE OtherTasks
  BY <1>1, <1>2, <1>5 DEF OtherTasks, StarterStarts, ResumeStarts, ResumeQueues,
     ZombieDrops, untouchedByStart, turnOnly
<1>6. ASSUME NEW t \in Ids, Turn(t) PROVE fate'[n] # "queued"
  <2>1. CASE TurnMerges(t) \/ TurnInjects(t)
    BY <1>2, <2>1 DEF TurnMerges, TurnInjects
  <2>2. ASSUME NEW x, TurnConsumes(t, x) PROVE fate'[n] # "queued"
    BY <1>2, <2>2 DEF TurnConsumes
  <2>3. CASE fate' = fate
    BY <2>3
  <2>4. QED
    BY <1>6, <2>1, <2>2, <2>3 DEF Turn, TurnBegins, TurnEmits, TurnRound, TurnSetsGoal,
       TurnReports, TurnParks, TurnUnparks, TurnTails, TurnUnscopes, TurnFinishes,
       TurnReaped
<1>7. QED
  BY <1>3, <1>4, <1>5, <1>6 DEF Next

LEMMA SilenceInvKept ==
  ASSUME TypeOK, PinInv, SilenceInv, [Next]_vars PROVE SilenceInv'
<1>1. agenda \in Agendas
  BY DEF PinInv
<1>2. CASE UNCHANGED <<agenda, job, suppressed, hushed>>
  BY <1>2 DEF SilenceInv, Ending, Doing
\* Elsewhere the cancel is not between its lock and its answer.
<1>3. ASSUME agenda' \in Plain, hushed' => suppressed' PROVE SilenceInv'
  BY <1>3, PlainAgendas DEF SilenceInv
<1>4. CASE Commands
  <2>1. CASE \E w \in Wakes : TaskCompletes(w)
    BY <1>2, <2>1 DEF TaskCompletes, actorVars, lockVars
  <2>2. CASE ~\E w \in Wakes : TaskCompletes(w)
    <3>1. Ready
      BY ZenonT(60), <1>4, <2>2 DEF Commands, Prompt, Interject, InjectNotification,
         DropMonitorNotifications, RemoveQueuedPrompt, InterjectQueuedPrompt, ClearQueue,
         ReorderQueue, EditQueuedPrompt, Cancel
    <3>2. agenda' \in {agenda, <<"start">>, <<"drain">>, Cancelling}
      BY ZenonT(60), <1>4 DEF Commands, Prompt, TaskCompletes, Interject,
         InjectNotification, DropMonitorNotifications, RemoveQueuedPrompt,
         InterjectQueuedPrompt, ClearQueue, ReorderQueue, EditQueuedPrompt, Cancel,
         actorVars
    <3>3. agenda' \in Plain
      BY <3>1, <3>2 DEF Ready, Plain
    <3>4. hushed => suppressed
      BY <3>1 DEF SilenceInv, Ending, Ready, Doing
    <3>5. ASSUME NEW p, NEW now, Prompt(p, now) PROVE hushed' => suppressed'
      BY <3>4, <3>5 DEF Prompt
    <3>6. (\E p, now : Prompt(p, now)) \/ UNCHANGED <<suppressed, hushed>>
      BY ZenonT(60), <1>4 DEF Commands, TaskCompletes, Interject, InjectNotification,
         DropMonitorNotifications, RemoveQueuedPrompt, InterjectQueuedPrompt, ClearQueue,
         ReorderQueue, EditQueuedPrompt, Cancel, untouchedByRows, seenVars, lockVars
    <3>7. QED
      BY <1>3, <3>3, <3>4, <3>5, <3>6
  <2>3. QED
    BY <2>1, <2>2
<1>5. CASE ActorSteps
  <2>1. CASE CancelSnapshot
    <3>1. /\ Doing("snapshot") /\ agenda' = Tail(agenda)
          /\ UNCHANGED <<suppressed, hushed>>
      BY <2>1 DEF CancelSnapshot, lockVars
    <3>2. agenda' = <<"teardown", "ungate", "abort", "answer", "start">>
      BY <1>1, <3>1, AgendaSteps
    <3>3. ~Ending /\ ~Ending'
      BY <3>1, <3>2 DEF Ending, Doing
    <3>4. QED
      BY <3>1, <3>3 DEF SilenceInv
  <2>2. CASE CancelTeardown
    <3>1. /\ Doing("teardown") /\ agenda' = Tail(agenda)
          /\ suppressed' = ~(job.mode = "rewind" /\ rewindable /\ queue # <<>>)
          /\ job'.rewound = (job.mode = "rewind" /\ rewindable /\ queue # <<>>)
      BY <2>2 DEF CancelTeardown, TypeOK, ActorTypes
    <3>2. Ending'
      <4>1. agenda' = <<"ungate", "abort", "answer", "start">>
        BY <1>1, <3>1, AgendaSteps
      <4>2. QED
        BY <4>1 DEF Ending, Doing
    <3>3. QED
      BY <3>1, <3>2 DEF SilenceInv
  <2>3. CASE CancelUngates \/ CancelAbort
    <3>1. /\ Doing("ungate") \/ Doing("abort")
          /\ UNCHANGED <<suppressed, hushed, job>> /\ agenda' = Tail(agenda)
      BY <2>3 DEF CancelUngates, CancelAbort, lockVars, seenVars
    <3>2. agenda' \in {<<"abort", "answer", "start">>, <<"answer", "start">>}
      BY <1>1, <3>1, AgendaSteps
    <3>3. Ending
      BY <3>1 DEF Ending
    <3>4. Ending'
      <4>1. ASSUME agenda' = <<"abort", "answer", "start">> PROVE Ending'
        BY <4>1 DEF Ending, Doing
      <4>2. ASSUME agenda' = <<"answer", "start">> PROVE Ending'
        BY <4>2 DEF Ending, Doing
      <4>3. QED
        BY <3>2, <4>1, <4>2
    <3>5. QED
      BY <3>1, <3>3, <3>4 DEF SilenceInv
  <2>4. CASE CancelAnswers
    <3>1. /\ Doing("answer") /\ suppressed' = (suppressed /\ job.mode # "send_now")
          /\ hushed' = (job.mode # "send_now" /\ ~job.rewound)
      BY <2>4 DEF CancelAnswers, StillSilent
    <3>2. suppressed <=> ~job.rewound
      BY <3>1 DEF SilenceInv, Ending
    <3>3. QED
      BY <1>1, <1>3, <2>4, <3>1, <3>2, PlainSteps
  <2>5. CASE \/ Start \/ HandleCompletion \/ SweepMonitorBuffer \/ TurnEnd
             \/ FlushStrandedInterjections \/ RequeueStranded \/ MaybeDrainNotifications
    <3>1. UNCHANGED <<suppressed, hushed>>
      BY <2>5 DEF Start, HandleCompletion, SweepMonitorBuffer, TurnEnd,
         FlushStrandedInterjections, RequeueStranded, MaybeDrainNotifications,
         untouchedByStart, MaybeStartRunningTask, lockVars, seenVars
    <3>2. ~Ending
      BY <2>5 DEF Start, HandleCompletion, SweepMonitorBuffer, TurnEnd,
         FlushStrandedInterjections, RequeueStranded, MaybeDrainNotifications, Ending,
         Doing
    <3>3. QED
      BY <1>1, <1>3, <2>5, <3>1, <3>2, PlainSteps DEF SilenceInv
  <2>6. QED
    BY <1>5, <2>1, <2>2, <2>3, <2>4, <2>5 DEF ActorSteps
<1>6. CASE OtherTasks
  BY <1>2, <1>6 DEF OtherTasks, StarterStarts, ResumeStarts, ResumeQueues, ZombieDrops,
     untouchedByStart, turnOnly, actorVars
<1>7. ASSUME NEW t \in Ids, Turn(t) PROVE SilenceInv'
  BY <1>2, <1>7 DEF Turn, TurnBegins, TurnEmits, TurnMerges, TurnInjects, TurnRound,
     TurnSetsGoal, TurnReports, TurnConsumes, TurnParks, TurnUnparks, TurnTails,
     TurnUnscopes, TurnFinishes, TurnReaped, turnOnly, actorVars
<1>8. CASE UNCHANGED vars
  BY <1>2, <1>8 DEF vars, lockVars, seenVars, actorVars
<1>9. QED
  BY <1>4, <1>5, <1>6, <1>7, <1>8 DEF Next

\* After a cancel no notification starts a turn until the user prompts, sends now or
\* rewinds: the drain alone makes a prompt of them, the flag it reads is set from the
\* lock of that cancel on, and what resets it is the user, or a cancel whose answer
\* ends the silence too.
THEOREM SilenceIsKept == Spec => SilenceLasts
<1> DEFINE Hush == hushed => \A n \in Notes : fate[n] # "queued" => fate'[n] # "queued"
<1>1. Init => SilenceInv
  BY DEF Init, SilenceInv, Ending, Doing
<1>2. TypeOK /\ PinInv /\ SilenceInv /\ [Next]_vars => SilenceInv'
  BY SilenceInvKept
<1>3. ASSUME TypeOK, SilenceInv, [Next]_vars PROVE [Hush]_vars
  <2>1. SUFFICES ASSUME Next, hushed, NEW n \in Notes, fate[n] # "queued"
                 PROVE  fate'[n] # "queued"
    BY <1>3
  <2>2. CASE MaybeDrainNotifications
    <3>1. ~Ending
      BY <2>2 DEF MaybeDrainNotifications, Ending, Doing
    <3>3. suppressed
      BY <1>3, <2>1, <3>1 DEF SilenceInv
    <3>2. QED
      BY <2>1, <2>2, <3>3 DEF MaybeDrainNotifications, Idle
  <2>3. QED
    BY <1>3, <2>1, <2>2, OnlyTheDrainQueues
<1>4. SilenceLasts <=> [][Hush]_vars
  BY DEF SilenceLasts
<1> HIDE DEF Hush
<1>5. QED
  BY <1>1, <1>2, <1>3, <1>4, TypeCorrect, PinIsRunning, PTL DEF Spec

-----------------------------------------------------------------------------
(* Which turns live.                                                       *)

Alive(t) == turns[t] \notin {"none", "aborted"}

\* What was once queued, and may have been started.
Seen == Ended \cup {"queued"}

\* Only the running prompt of those in the queue has begun.
Begun ==
  /\ \A t \in ToSet(queue) \cap started : t = running
  /\ running # None => running \in started
  /\ \A t \in started : fate[t] \in Seen

\* Only a cancel between its lock and its abort lets a turn outlive its task.
Tasks ==
  /\ \A t \in Ids : turns[t] # "none" \/ t \in ToSet(completions) => t \in started
  /\ \A t \in ToSet(completions) : turns[t] = "none"
  /\ \A t \in parked : turns[t] = "run"
  /\ IsInjective(completions)
  /\ \A t \in Ids : Alive(t) => t = running \/ t = job.task
  /\ running # None => Alive(running) \/ running \in ToSet(completions)
  /\ job.task # None => job.task \in Closing

Life == Begun /\ Tasks

\* The running prompt is a prompt of the queue.
LEMMA RunningInQueue ==
  ASSUME Ground, running # None
  PROVE  running \in ToSet(queue) /\ running \in Ids /\ queue # <<>> /\ Head(queue) = running
<1>1. queue # <<>> /\ Head(queue) = running /\ queue \in Seq(Ids)
  BY ListsOfIds DEF Ground, RunningIsFront
<1>2. QED
  BY <1>1, HeadAndTail

LEMMA TasksOfIds ==
  ASSUME Ground
  PROVE  /\ completions \in Seq(Ids) /\ ToSet(completions) \subseteq Ids
         /\ parked \subseteq Ids /\ turns \in [Ids -> Stages]
         /\ running \in Ids \cup {None} /\ job.task \in Ids \cup {None} /\ None \notin Ids
<1>1. completions \in Seq(Ids)
  BY DEF Ground, TypeOK, TaskTypes
<1>2. ToSet(completions) \subseteq Ids
  BY <1>1 DEF ToSet
<1>3. QED
  BY <1>1, <1>2, NoneIsNoId DEF Ground, TypeOK, TaskTypes, QueueTypes, ActorTypes

\* What was never queued has begun no turn.
LEMMA UnseenFates ==
  /\ {"unsent", "sent", "buffered", "pending"} \cap Seen = {}
  /\ {"queued", "swept", "removed", "merged", "consumed", "muted", "discarded", "dropped",
      "rewound", "cancelled", "done", "capped", "injected"} \subseteq Seen
  BY DEF Seen, Ended

\* A step that gives the queue prompts never queued before, and starts no turn.
LEMMA BegunKept ==
  ASSUME Begun, UNCHANGED <<running, started>>,
         \A t \in ToSet(queue') : t \in ToSet(queue) \/ fate[t] \notin Seen,
         \A t \in started : fate[t] \in Seen => fate'[t] \in Seen
  PROVE  Begun'
  BY DEF Begun

LEMMA TasksKept ==
  ASSUME Tasks, UNCHANGED <<running, started, turns, completions, parked>>,
         job'.task = job.task, job'.closing = job.closing
  PROVE  Tasks'
<1>1. Closing' = Closing
  BY DEF Closing
<1>2. QED
  BY <1>1 DEF Tasks, Alive

\* A command finds no task that a cancel has taken, and takes none.
LEMMA ReadyJobs ==
  ASSUME JobLedger, Ready,
         job' = job \/ (\E mode : job' = [NoJob EXCEPT !.mode = mode]) \/ job' = NoJob
  PROVE  job'.task = job.task /\ job'.closing = job.closing
<1>1. ~Ending
  BY DEF Ready, Ending, Doing
<1>2. job.closing = <<>> /\ job.task = None
  BY <1>1 DEF JobLedger
<1>3. QED
  BY <1>2 DEF NoJob

LEMMA CommandsKeepLife ==
  ASSUME Ground, Life, Commands PROVE Life'
<1>1. /\ queue \in Seq(Ids) /\ ToSet(queue) \subseteq Ids /\ started \subseteq Ids
      /\ Begun /\ Tasks /\ JobLedger /\ QueueLedger /\ NoteLedger
  BY ListsOfIds DEF Ground, Ledger, Life, TypeOK, FateTypes
<1>2. UNCHANGED <<running, started, turns, completions, parked>>
  BY ZenonT(60) DEF Commands, Prompt, TaskCompletes, Interject, InjectNotification,
     DropMonitorNotifications, RemoveQueuedPrompt, InterjectQueuedPrompt, ClearQueue,
     ReorderQueue, EditQueuedPrompt, Cancel, untouchedByRows, waitVars, lockVars, seenVars
<1>3. ASSUME Ready,
             job' = job \/ (\E mode : job' = [NoJob EXCEPT !.mode = mode]) \/ job' = NoJob,
             \A t \in ToSet(queue') : t \in ToSet(queue) \/ fate[t] \notin Seen,
             \A t \in started : fate[t] \in Seen => fate'[t] \in Seen
      PROVE  Life'
  BY <1>1, <1>2, <1>3, ReadyJobs, BegunKept, TasksKept DEF Life
<1>4. ASSUME NEW S, NEW what \in Seen, Becomes(S, what)
      PROVE  \A t \in started : fate[t] \in Seen => fate'[t] \in Seen
  BY <1>1, <1>4 DEF Becomes
<1>5. ASSUME NEW p \in Users \cup Wakes \cup Crons, NEW now \in BOOLEAN, Prompt(p, now)
      PROVE  Life'
  <2> DEFINE armed == p \in Users /\ \E w \in Wakes : w \in ToSet(queue) /\ w # running
             swept == IF armed THEN (ToSet(queue) \cap Synthetic) \ {running} ELSE {}
             q == Sweep(queue, running, swept)
  <2>1. /\ Ready /\ fate[p] \in {"sent", "unsent"} /\ p \in Ids
        /\ (queue' = InsertSendNow(q, running, sendNow, p) \/ queue' = Append(q, p))
        /\ fate' = [x \in Ids |-> IF x \in swept THEN "swept"
                                  ELSE IF x = p THEN "queued" ELSE fate[x]]
        /\ (job' = NoJob \/ job' = [NoJob EXCEPT !.mode = "send_now"])
    BY <1>5, KindsAreIds DEF Prompt
  <2>2. q \in Seq(Ids) /\ ToSet(q) \subseteq ToSet(queue)
    <3> HIDE DEF swept
    <3>1. QED
      BY <1>1, SweepElements
  <2> HIDE DEF swept, q
  <2>3. ToSet(queue') = ToSet(q) \cup {p}
    <3>1. CASE queue' = InsertSendNow(q, running, sendNow, p)
      BY <2>1, <2>2, <3>1, InsertSendNowElements
    <3>2. CASE queue' = Append(q, p)
      BY <2>1, <2>2, <3>2, AppendElements
    <3>3. QED
      BY <2>1, <3>1, <3>2
  <2>4. \A t \in started : fate[t] \in Seen => fate'[t] \in Seen
    BY <1>1, <2>1, UnseenFates
  <2>5. QED
    BY <1>3, <2>1, <2>2, <2>3, <2>4, UnseenFates
<1>6. ASSUME NEW w \in Wakes, TaskCompletes(w) PROVE Life'
  <2>1. /\ queue' = queue /\ job' = job /\ fate[w] = "unsent" /\ Becomes({w}, "sent")
    BY <1>6 DEF TaskCompletes, lockVars, actorVars
  <2>2. \A t \in started : fate[t] \in Seen => fate'[t] \in Seen
    BY <1>1, <2>1, UnseenFates DEF Becomes
  <2>3. QED
    BY <1>1, <1>2, <2>1, <2>2, BegunKept, TasksKept DEF Life
<1>7. ASSUME NEW i \in Interjections, Interject(i) PROVE Life'
  <2>1. Ready /\ i \in Ids /\ fate[i] = "unsent" /\ job' = job
    BY <1>7, KindsAreIds DEF Interject
  <2>2. \A t \in ToSet(queue') : t \in ToSet(queue) \/ fate[t] \notin Seen
    <3>1. CASE queue' = queue
      BY <3>1
    <3>2. CASE queue' = InsertRunNext(queue, running, <<i>>)
      <4> DEFINE one == <<i>>
      <4>1. one \in Seq(Ids) /\ ToSet(one) = {i}
        BY <2>1, ShortLists
      <4>2. queue' = InsertRunNext(queue, running, one)
        BY <3>2
      <4> HIDE DEF one
      <4>3. ToSet(queue') = ToSet(queue) \cup ToSet(one)
        BY <1>1, <4>1, <4>2, InsertRunNextElements
      <4>4. QED
        BY <2>1, <4>1, <4>3, UnseenFates
    <3>3. QED
      BY <1>7, <3>1, <3>2 DEF Interject
  <2>3. \A t \in started : fate[t] \in Seen => fate'[t] \in Seen
    BY <1>1, <1>7, <2>1, UnseenFates DEF Interject, Becomes
  <2>4. QED
    BY <1>3, <2>1, <2>2, <2>3
<1>8. ASSUME NEW n \in Notes, NEW next, InjectNotification(n, next) PROVE Life'
  <2>1. /\ Ready /\ queue' = queue /\ job' = job /\ fate[n] = "unsent"
        /\ \E S : fate' = [x \in Ids |-> IF x \in S THEN "capped"
                                         ELSE IF x = n THEN "pending" ELSE fate[x]]
    BY <1>8 DEF InjectNotification
  <2>2. \A t \in started : fate[t] \in Seen => fate'[t] \in Seen
    BY <1>1, <2>1, UnseenFates
  <2>3. QED
    BY <1>3, <2>1, <2>2
<1>9. ASSUME NEW n \in Notes, DropMonitorNotifications(n) PROVE Life'
  BY <1>3, <1>4, <1>9, UnseenFates DEF DropMonitorNotifications, actorVars
<1>10. ASSUME Ready, job' = job, NEW S, queue' = Without(queue, S),
              Becomes(S, "removed")
       PROVE  Life'
  <2>1. ToSet(queue') \subseteq ToSet(queue)
    BY <1>1, <1>10, WithoutElements
  <2>2. QED
    BY <1>3, <1>4, <1>10, <2>1, UnseenFates
<1>11. ASSUME Ready, fate' = fate, ToSet(queue') = ToSet(queue),
             job' = job \/ (\E mode : job' = [NoJob EXCEPT !.mode = mode]) \/ job' = NoJob
       PROVE  Life'
  BY <1>3, <1>11
<1>12. ASSUME NEW p \in Users, NEW v, NEW who, RemoveQueuedPrompt(p, v, who) PROVE Life'
  BY <1>10, <1>11, <1>12 DEF RemoveQueuedPrompt, actorVars
<1>13. ASSUME NEW who, ClearQueue(who) PROVE Life'
  <2> DEFINE S == {p \in Users \ {running} : p \in ToSet(queue) /\ who \in {None, Owner[p]}}
  <2>1. Ready /\ job' = job /\ queue' = Without(queue, S) /\ Becomes(S, "removed")
    BY <1>13 DEF ClearQueue, actorVars
  <2> HIDE DEF S
  <2>2. QED
    BY <1>10, <2>1
<1>14. ASSUME NEW S \in SUBSET Users, NEW order \in SetToSeqs(S), ReorderQueue(order)
       PROVE  Life'
  <2>1. IsFiniteSet(S) /\ Cardinality(S) \in Nat
    BY UsersAreFinite, FS_Subset, FS_CardinalityType
  <2>2. order \in [1..Cardinality(S) -> S]
    BY DEF SetToSeqs
  <2>3. order \in Seq(S)
    BY <2>1, <2>2
  <2>4. PICK pinned : queue' = Reorder(queue, pinned, order)
    BY <1>14 DEF ReorderQueue
  <2>5. ToSet(queue') = ToSet(queue)
    BY <1>1, <2>3, <2>4, ReorderElements
  <2>6. QED
    BY <1>11, <1>14, <2>5 DEF ReorderQueue, actorVars
<1>15. ASSUME NEW p \in Users, EditQueuedPrompt(p) PROVE Life'
  BY <1>11, <1>15 DEF EditQueuedPrompt, actorVars
<1>16. ASSUME NEW p \in Users, NEW v, NEW who, NEW edited,
              InterjectQueuedPrompt(p, v, who, edited)
       PROVE  Life'
  <2>1. /\ Ready /\ fate' = fate
        /\ job' = job \/ job' = [NoJob EXCEPT !.mode = "send_now"] \/ job' = NoJob
    BY <1>16 DEF InterjectQueuedPrompt
  <2>2. ToSet(queue') = ToSet(queue)
    <3> DEFINE q == Without(queue, {p})
    <3>1. CASE RowMatches(p, v, who)
      <4>1. /\ p \in ToSet(queue) /\ queue' = InsertSendNow(q, running, sendNow, p)
        BY <1>16, <3>1 DEF InterjectQueuedPrompt, RowMatches
      <4>2. q \in Seq(Ids) /\ ToSet(q) = ToSet(queue) \ {p} /\ p \in Ids
        BY <1>1, <4>1, WithoutElements
      <4> HIDE DEF q
      <4>3. QED
        BY <4>1, <4>2, InsertSendNowElements
    <3>2. CASE ~RowMatches(p, v, who)
      BY <1>16, <3>2 DEF InterjectQueuedPrompt
    <3>3. QED
      BY <3>1, <3>2
  <2>3. QED
    BY <1>11, <2>1, <2>2
<1>17. ASSUME NEW mode, Cancel(mode) PROVE Life'
  BY <1>11, <1>17 DEF Cancel, lockVars, seenVars
<1>18. QED
  BY <1>5, <1>6, <1>7, <1>8, <1>9, <1>12, <1>13, <1>14, <1>15, <1>16, <1>17 DEF Commands

\* The start of a turn: its prompt is the front, and was not started before.
LEMMA StartKeepsLife ==
  ASSUME Ground, Life, MaybeStartRunningTask,
         UNCHANGED <<queue, fate, completions, parked, job>>
  PROVE  Life'
<1>1. /\ queue \in Seq(Ids) /\ turns \in [Ids -> Stages] /\ None \notin Ids
      /\ Begun /\ Tasks /\ QueueLedger
  BY ListsOfIds, NoneIsNoId DEF Ground, Ledger, Life, TypeOK, TaskTypes
<1>2. CASE running = None /\ queue # <<>>
  <2> PICK p : p = Head(queue)
    OBVIOUS
  <2>1. p \in Ids /\ p \in ToSet(queue)
    BY <1>1, <1>2, HeadAndTail
  <2>2. p \notin started /\ fate[p] = "queued"
    BY <1>1, <1>2, <2>1 DEF Begun, QueueLedger
  <2>3. /\ running' = p /\ started' = started \cup {p}
        /\ turns' = [turns EXCEPT ![p] = "spawned"]
    BY <1>2 DEF MaybeStartRunningTask
  <2>4. Begun'
    <3>1. \A t \in ToSet(queue) \cap started' : t = p
      BY <1>1, <1>2, <2>3, <2>1, NoneIsNoId, ListsOfIds DEF Begun, Ground
    <3>2. \A t \in started' : fate[t] \in Seen
      BY <1>1, <2>2, <2>3 DEF Begun, Seen
    <3>3. p \in started'
      BY <2>3
    <3>4. QED
      BY <2>3, <3>1, <3>2, <3>3 DEF Begun
  <2>5. p \notin ToSet(completions) /\ p \notin parked /\ turns[p] = "none"
    BY <1>1, <2>1, <2>2 DEF Tasks
  <2>6. /\ \A t \in Ids \ {p} : turns'[t] = turns[t]
        /\ turns'[p] = "spawned"
    BY <1>1, <2>1, <2>3
  <2>7. Closing' = Closing
    BY DEF Closing
  <2>8. Tasks'
    <3>1. \A t \in Ids : turns'[t] # "none" \/ t \in ToSet(completions) => t \in started'
      BY <1>1, <2>3, <2>5, <2>6 DEF Tasks
    <3>2. \A t \in ToSet(completions) : turns'[t] = "none"
      <4>1. ToSet(completions) \subseteq Ids
        BY TasksOfIds
      <4>2. QED
        BY <1>1, <2>5, <2>6, <4>1 DEF Tasks
    <3>3. \A t \in parked : turns'[t] = "run"
      <4>1. parked \subseteq Ids
        BY TasksOfIds
      <4>2. QED
        BY <1>1, <2>5, <2>6, <4>1 DEF Tasks
    <3>4. \A t \in Ids : Alive(t)' => t = p \/ t = job.task
      BY <1>1, <1>2, <2>6 DEF Tasks, Alive
    <3>5. Alive(p)'
      BY <2>6 DEF Alive
    <3>6. QED
      BY <1>1, <2>3, <2>7, <3>1, <3>2, <3>3, <3>4, <3>5 DEF Tasks
  <2>9. QED
    BY <2>4, <2>8 DEF Life
<1>3. CASE ~(running = None /\ queue # <<>>)
  <2>1. UNCHANGED <<running, turns, started>>
    BY <1>3 DEF MaybeStartRunningTask
  <2>2. QED
    BY <1>1, <2>1, BegunKept, TasksKept DEF Life
<1>4. QED
  BY <1>2, <1>3

\* Aborting a task ends its turn and its waits, and no other's.
LEMMA AbortedTask ==
  ASSUME Ground, NEW t \in Ids \cup {None}, AbortTask(t)
  PROVE  /\ \A x \in Ids \ {t} : turns'[x] = turns[x]
         /\ t \in Ids => turns'[t] \in {"none", "aborted"}
         /\ t \in Ids /\ turns[t] = "none" => turns'[t] = "none"
         /\ parked' \subseteq parked \ {t}
<1>1. turns \in [Ids -> Stages] /\ None \notin Ids /\ parked \subseteq Ids
  BY TasksOfIds
<1>2. CASE t = None
  BY <1>1, <1>2 DEF AbortTask
<1>3. CASE t # None
  BY <1>1, <1>3 DEF AbortTask
<1>4. QED
  BY <1>2, <1>3

LEMMA CompletionKeepsLife ==
  ASSUME Ground, Life, HandleCompletion PROVE Life'
<1> PICK p : p = Head(completions)
  OBVIOUS
<1>1. /\ queue \in Seq(Ids) /\ None \notin Ids /\ completions \in Seq(Ids)
      /\ started \subseteq Ids /\ Begun /\ Tasks
      /\ IsInjective(queue) /\ RunningIsFront
      /\ fate \in [Ids -> Waiting \cup Ended]
  BY ListsOfIds, TasksOfIds DEF Ground, Ledger, Life, QueueLedger, TypeOK, FateTypes
<1>2. /\ agenda = <<>> /\ completions # <<>> /\ completions' = Tail(completions)
      /\ queue' = IF Owned(p) THEN Tail(queue) ELSE queue
      /\ running' = RunningAfter(p)
      /\ IF Owned(p) THEN Becomes({p}, "done") ELSE UNCHANGED fate
      /\ UNCHANGED <<started, turns, parked, job>>
  BY DEF HandleCompletion, waitVars
<1>3. /\ p \in ToSet(completions) /\ p \in Ids /\ p \in started /\ turns[p] = "none"
      /\ ToSet(completions) = {p} \cup ToSet(completions') /\ IsInjective(completions')
  BY <1>1, <1>2, HeadAndTail DEF Tasks
<1>4. Closing' = Closing /\ job.task = None
  BY <1>2 DEF Closing, Ground, Ledger, JobLedger, Ending, Doing
<1>5. CASE Owned(p)
  <2>1. /\ queue # <<>> /\ queue' = Tail(queue) /\ running' = None
        /\ fate' = [x \in Ids |-> IF x = p THEN "done" ELSE fate[x]]
    BY <1>2, <1>5 DEF Owned, RunningAfter, Becomes
  <2>2. p \in ToSet(queue) /\ ToSet(queue') \subseteq ToSet(queue) \ {p}
    BY <1>1, <1>5, <2>1, HeadAndTail DEF Owned
  <2>3. running = p
    BY <1>1, <1>3, <2>2 DEF Begun
  <2>4. Begun'
    <3>1. ToSet(queue') \cap started = {}
      BY <1>1, <2>2, <2>3 DEF Begun
    <3>2. \A t \in started : fate'[t] \in Seen
      BY <1>1, <2>1, UnseenFates DEF Begun
    <3>3. QED
      BY <1>2, <2>1, <3>1, <3>2 DEF Begun
  <2>5. \A t \in Ids : ~Alive(t)
    BY <1>1, <1>3, <1>4, <2>3 DEF Tasks, Alive
  <2>6. Tasks'
    BY <1>1, <1>2, <1>3, <1>4, <2>1, <2>5 DEF Tasks, Alive
  <2>7. QED
    BY <2>4, <2>6 DEF Life
<1>6. CASE ~Owned(p)
  <2>1. running # p
    BY <1>1, <1>3, <1>6 DEF RunningIsFront, Owned
  <2>2. UNCHANGED <<queue, running, fate>>
    BY <1>2, <1>6, <2>1 DEF RunningAfter
  <2>3. Begun'
    BY <1>1, <1>2, <2>2 DEF Begun
  <2>4. Tasks'
    BY <1>1, <1>2, <1>3, <1>4, <2>1, <2>2 DEF Tasks, Alive
  <2>5. QED
    BY <2>3, <2>4 DEF Life
<1>7. QED
  BY <1>5, <1>6

\* A cancel takes the front whatever its mode, so it takes the running prompt.
LEMMA TeardownTakesRunning ==
  ASSUME Ground, CancelTeardown, running # None PROVE running \in Closing'
<1>1. /\ queue \in Seq(Ids) /\ running \in ToSet(queue) /\ queue # <<>>
      /\ Head(queue) = running /\ job'.closing = CancelTakes(job.mode)
  BY RunningInQueue, ListsOfIds, TeardownParts DEF Ground
<1>2. CASE job.mode = "teardown"
  BY <1>1, <1>2 DEF CancelTakes, Closing
<1>3. CASE job.mode # "teardown"
  <2> DEFINE c == SubSeq(queue, 1, 1)
  <2>1. c \in Seq(Ids) /\ c # <<>> /\ Head(c) = running
    BY <1>1
  <2>2. job'.closing = c
    BY <1>1, <1>3 DEF CancelTakes
  <2> HIDE DEF c
  <2>3. QED
    BY <2>1, <2>2, HeadAndTail DEF Closing
<1>4. QED
  BY <1>2, <1>3

LEMMA TeardownKeepsLife ==
  ASSUME Ground, Life, CancelTeardown PROVE Life'
<1> DEFINE rewind == job.mode = "rewind" /\ rewindable
<1>1. /\ queue \in Seq(Ids) /\ started \subseteq Ids /\ Begun /\ Tasks
      /\ fate \in [Ids -> Waiting \cup Ended]
      /\ ToSet(queue) = Closing' \cup ToSet(queue') /\ ToSet(queue') \cap Closing' = {}
  BY ListsOfIds, TeardownParts DEF Ground, Ledger, Life, QueueLedger, TypeOK, FateTypes
<1>2. /\ running' = None /\ UNCHANGED <<completions, started>>
      /\ AbortTask(IF rewind THEN running ELSE None)
      /\ job'.task = (IF rewind THEN None ELSE running)
      /\ \E S : Becomes(S, "dropped")
  BY DEF CancelTeardown, Ground, TypeOK, ActorTypes
<1>3. job.task = None
  BY DEF CancelTeardown, Ground, Ledger, JobLedger, Ending, Doing
<1>4. running # None => running \in Closing'
  BY TeardownTakesRunning
<1>5. Begun'
  <2>1. ToSet(queue') \cap started = {}
    BY <1>1, <1>4, TasksOfIds, ListsOfIds DEF Begun, Ground
  <2>2. \A t \in started : fate'[t] \in Seen
    BY <1>1, <1>2, UnseenFates DEF Begun, Becomes
  <2>3. QED
    BY <1>2, <2>1, <2>2 DEF Begun
<1>6. Tasks'
  <2>1. PICK a : a = (IF rewind THEN running ELSE None)
    OBVIOUS
  <2>2. /\ \A x \in Ids \ {a} : turns'[x] = turns[x]
        /\ a \in Ids => turns'[a] \in {"none", "aborted"}
        /\ a \in Ids /\ turns[a] = "none" => turns'[a] = "none"
        /\ parked' \subseteq parked \ {a}
    BY <1>2, <2>1, AbortedTask, TasksOfIds
  <2>3. \A t \in Ids : turns'[t] # "none" => turns[t] # "none"
    BY <2>2
  <2>4. \A t \in Ids : Alive(t)' => t = job'.task
    BY <1>1, <1>2, <1>3, <2>1, <2>2, TasksOfIds DEF Tasks, Alive
  <2>5. \A t \in ToSet(completions) : turns'[t] = "none"
    BY <1>1, <2>2, TasksOfIds DEF Tasks
  <2>6. \A t \in parked' : turns'[t] = "run"
    BY <1>1, <2>2, TasksOfIds DEF Tasks
  <2>7. QED
    BY <1>1, <1>2, <1>4, <2>3, <2>4, <2>5, <2>6 DEF Tasks
<1>7. QED
  BY <1>5, <1>6 DEF Life

LEMMA AbortKeepsLife ==
  ASSUME Ground, Life, CancelAbort PROVE Life'
<1> PICK a : a = job.task
  OBVIOUS
<1>1. /\ Begun /\ Tasks /\ ToSet(queue) \cap Closing = {}
      /\ Closing' = Closing
      /\ AbortTask(a) /\ UNCHANGED <<queue, running, started, completions, fate, job>>
  BY DEF Ground, Ledger, Life, QueueLedger, CancelAbort, Closing, lockVars, seenVars
<1>2. a # None => a # running
  BY <1>1, RunningInQueue DEF Tasks
<1>3. /\ \A x \in Ids \ {a} : turns'[x] = turns[x]
      /\ a \in Ids => turns'[a] \in {"none", "aborted"}
      /\ a \in Ids /\ turns[a] = "none" => turns'[a] = "none"
      /\ parked' \subseteq parked \ {a}
  BY <1>1, AbortedTask, TasksOfIds
<1>4. Begun'
  BY <1>1, BegunKept
<1>5. Tasks'
  <2>1. \A t \in Ids : Alive(t)' => Alive(t)
    BY <1>3 DEF Alive
  <2>2. \A t \in ToSet(completions) : turns'[t] = "none"
    BY <1>1, <1>3, TasksOfIds DEF Tasks
  <2>3. \A t \in parked' : turns'[t] = "run"
    BY <1>1, <1>3, TasksOfIds DEF Tasks
  <2>4. \A t \in Ids : turns'[t] # "none" => turns[t] # "none"
    BY <1>3
  <2>5. running # None => turns'[running] = turns[running]
    BY <1>2, <1>3, TasksOfIds
  <2>6. QED
    BY <1>1, <2>1, <2>2, <2>3, <2>4, <2>5 DEF Tasks, Alive
<1>6. QED
  BY <1>4, <1>5 DEF Life

\* When the prompts that a cancel took are answered, its task is dead.
TaskIsDead == Doing("answer") /\ job.task # None => ~Alive(job.task)

LEMMA AnswerKeepsLife ==
  ASSUME Ground, Life, TaskIsDead, CancelAnswers PROVE Life'
<1>1. /\ started \subseteq Ids /\ Begun /\ Tasks /\ fate \in [Ids -> Waiting \cup Ended]
  BY DEF Ground, Life, TypeOK, FateTypes
<1>2. /\ Doing("answer") /\ job' = NoJob
      /\ UNCHANGED <<queue, running, started, completions, turns, parked>>
      /\ Becomes(Closing, IF job.rewound THEN "rewound" ELSE "cancelled")
  BY DEF CancelAnswers, Closing, waitVars
<1>3. Begun'
  <2>1. \A t \in started : fate[t] \in Seen => fate'[t] \in Seen
    BY <1>1, <1>2, UnseenFates DEF Becomes
  <2>2. QED
    BY <1>1, <1>2, <2>1, BegunKept
<1>4. Tasks'
  <2>1. job'.task = None
    BY <1>2 DEF NoJob
  <2>2. \A t \in Ids : Alive(t) => t = running
    BY <1>1, <1>2, NoneIsNoId DEF Tasks, TaskIsDead
  <2>3. QED
    BY <1>1, <1>2, <2>1, <2>2 DEF Tasks, Alive
<1>5. QED
  BY <1>3, <1>4 DEF Life

LEMMA ActorStepsKeepLife ==
  ASSUME Ground, Life, TaskIsDead, ActorSteps PROVE Life'
<1>1. /\ queue \in Seq(Ids) /\ ToSet(queue) \subseteq Ids /\ started \subseteq Ids
      /\ interjections \in Seq(Ids) /\ ToSet(interjections) \subseteq Ids
      /\ notes \in Seq(Ids) /\ buffer \in Seq(Ids)
      /\ fate \in [Ids -> Waiting \cup Ended]
      /\ Begun /\ Tasks /\ QueueLedger /\ BufferLedger /\ NoteLedger
  BY ListsOfIds DEF Ground, Ledger, Life, TypeOK, FateTypes
<1>2. CASE Start
  BY <1>2, StartKeepsLife DEF Start, untouchedByStart, waitVars
\* A step that starts and ends no turn.
<1>3. ASSUME UNCHANGED <<running, started, turns, completions, parked>>,
             job'.task = job.task, job'.closing = job.closing,
             \A t \in ToSet(queue') : t \in ToSet(queue) \/ fate[t] \notin Seen,
             \A t \in started : fate[t] \in Seen => fate'[t] \in Seen
      PROVE  Life'
  BY <1>1, <1>3, BegunKept, TasksKept DEF Life
<1>4. CASE CancelSnapshot
  <2>1. job'.task = job.task /\ job'.closing = job.closing /\ queue' = queue
    BY <1>4 DEF CancelSnapshot, Ground, TypeOK, ActorTypes, lockVars
  <2>2. \A t \in started : fate[t] \in Seen => fate'[t] \in Seen
    BY <1>1, <1>4, UnseenFates DEF CancelSnapshot, Becomes
  <2>3. QED
    BY <1>3, <1>4, <2>1, <2>2 DEF CancelSnapshot, lockVars, waitVars
<1>5. CASE TurnEnd
  <2>1. UNCHANGED <<running, started, turns, completions, parked, job>>
    BY <1>5 DEF TurnEnd, waitVars
  <2>2. CASE UNCHANGED <<queue, fate>>
    BY <1>3, <2>1, <2>2
  <2>3. ASSUME NEW g \in Goals, fate[g] = "unsent", queue' = Append(queue, g),
               Becomes({g}, "queued")
        PROVE  Life'
    <3>1. ToSet(queue') = ToSet(queue) \cup {g}
      BY <1>1, <2>3, KindsAreIds, AppendElements
    <3>2. \A t \in started : fate[t] \in Seen => fate'[t] \in Seen
      BY <1>1, <2>3, UnseenFates DEF Becomes
    <3>3. QED
      BY <1>3, <2>1, <2>3, <3>1, <3>2, UnseenFates
  <2>4. QED
    BY <1>5, <2>2, <2>3 DEF TurnEnd
<1>6. CASE RequeueStranded
  <2> PICK i : i = Last(stranded)
    OBVIOUS
  <2>1. /\ UNCHANGED <<running, started, turns, completions, parked, job>>
        /\ queue' = InsertRunNext(queue, running, <<i>>) /\ Becomes({i}, "queued")
    BY <1>6 DEF RequeueStranded, waitVars
  <2>2. i \in Ids /\ i \in ToSet(stranded)
    BY <1>6, KindsAreIds, StrandedParts DEF Ground, TypeOK, ActorTypes, StrandedTyped
  <2>3. ToSet(queue') = ToSet(queue) \cup {i}
    <3> DEFINE one == <<i>>
    <3>1. one \in Seq(Ids) /\ ToSet(one) = {i}
      BY <2>2, ShortLists
    <3>2. queue' = InsertRunNext(queue, running, one)
      BY <2>1
    <3> HIDE DEF one
    <3>3. QED
      BY <1>1, <3>1, <3>2, InsertRunNextElements
  <2>4. fate[i] \notin Seen
    BY <1>1, <2>2, UnseenFates DEF BufferLedger
  <2>5. \A t \in started : fate[t] \in Seen => fate'[t] \in Seen
    BY <1>1, <2>1, UnseenFates DEF Becomes
  <2>6. QED
    BY <1>3, <2>1, <2>3, <2>4, <2>5
<1>9. CASE CancelUngates \/ FlushStrandedInterjections \/ SweepMonitorBuffer
  <2>1. UNCHANGED <<queue, fate, running, started, turns, completions, parked, job>>
    BY <1>9 DEF CancelUngates, FlushStrandedInterjections, SweepMonitorBuffer, lockVars,
       seenVars, waitVars
  <2>2. QED
    BY <1>3, <2>1
<1>7. CASE MaybeDrainNotifications
  <2> DEFINE all == notes \o buffer
             muted == IF goal = "off" THEN ToSet(all) \cap GoalTurnNotes ELSE ToSet(all)
             told == Without(all, muted)
  <2>1. UNCHANGED <<running, started, turns, completions, parked, job>>
    BY <1>7 DEF MaybeDrainNotifications, waitVars
  <2>2. CASE ~Idle
    BY <1>3, <1>7, <2>1, <2>2 DEF MaybeDrainNotifications
  <2>3. CASE Idle
    <3>1. /\ queue' = SubSeq(told, 1, IF told = <<>> THEN 0 ELSE 1)
          /\ fate' = [x \in Ids |-> IF x \in muted THEN "muted"
                                     ELSE IF x \in ToSet(queue') THEN "queued"
                                     ELSE IF x \in ToSet(told) THEN "merged"
                                     ELSE fate[x]]
      BY <1>7, <2>3 DEF MaybeDrainNotifications
    <3>2. all \in Seq(Ids) /\ ToSet(all) = ToSet(notes) \cup ToSet(buffer)
      BY <1>1, JoinElements
    <3>3. \A t \in ToSet(all) \cap Ids : fate[t] \notin Seen
      BY <1>1, <3>2, UnseenFates DEF NoteLedger
    <3> HIDE DEF all, muted
    <3>4. told \in Seq(Ids) /\ ToSet(told) = ToSet(all) \ muted
      BY <3>2, WithoutElements
    <3> HIDE DEF told
    <3>5. ToSet(queue') \subseteq ToSet(told) /\ ToSet(told) \subseteq ToSet(all) \cap Ids
      BY <3>1, <3>4, FrontElements DEF ToSet
    <3>6. \A t \in started : fate[t] \in Seen => fate'[t] \in Seen
      BY <1>1, <3>1, UnseenFates
    <3>7. QED
      BY <1>3, <2>1, <3>3, <3>5, <3>6
  <2>4. QED
    BY <2>2, <2>3
<1>8. QED
  BY <1>2, <1>4, <1>5, <1>6, <1>7, <1>9, CompletionKeepsLife, TeardownKeepsLife,
     AbortKeepsLife, AnswerKeepsLife DEF ActorSteps

\* A turn passes from one stage of its life to a later one.
LEMMA StagesKeepTasks ==
  ASSUME Ground, Tasks, NEW t \in Ids, NEW stage,
         turns' = [turns EXCEPT ![t] = stage], turns[t] # "none",
         Alive(t) <=> stage \notin {"none", "aborted"},
         UNCHANGED <<running, started, completions, job>>,
         parked' \subseteq parked \cup {t}, t \in parked' => stage = "run"
  PROVE  Tasks'
<1>1. /\ \A x \in Ids \ {t} : turns'[x] = turns[x]
      /\ turns'[t] = stage /\ parked \subseteq Ids /\ ToSet(completions) \subseteq Ids
      /\ running \in Ids \cup {None}
  BY TasksOfIds
<1>2. Closing' = Closing
  BY DEF Closing
<1>3. t \notin ToSet(completions) /\ t \in started
  BY DEF Tasks
<1>4. \A x \in Ids : Alive(x)' <=> Alive(x)
  BY <1>1 DEF Alive
<1>5. \A x \in parked' : turns'[x] = "run"
  BY <1>1 DEF Tasks
<1>6. QED
  BY <1>1, <1>2, <1>3, <1>4, <1>5 DEF Tasks

LEMMA TurnKeepsLife ==
  ASSUME Ground, Life, NEW t \in Ids, Turn(t) PROVE Life'
<1>1. /\ queue \in Seq(Ids) /\ started \subseteq Ids
      /\ fate \in [Ids -> Waiting \cup Ended] /\ Begun /\ Tasks
  BY ListsOfIds DEF Ground, Ledger, Life, TypeOK, FateTypes
<1>2. UNCHANGED <<running, started, job>>
  BY DEF Turn, TurnBegins, TurnEmits, TurnMerges, TurnInjects, TurnRound, TurnSetsGoal,
     TurnReports, TurnConsumes, TurnParks, TurnUnparks, TurnTails, TurnUnscopes,
     TurnFinishes, TurnReaped, turnOnly, actorVars
<1>3. Begun'
  <2>1. CASE UNCHANGED <<queue, fate>>
    BY <1>1, <1>2, <2>1, BegunKept
  <2>2. ASSUME NEW S, NEW what \in Seen, Becomes(S, what), queue' = queue PROVE Begun'
    BY <1>1, <1>2, <2>2, BegunKept DEF Becomes
  <2>3. ASSUME NEW x \in Wakes \cup Notes, TurnConsumes(t, x) PROVE Begun'
    <3>1. /\ queue' = IF x \in Wakes THEN Sweep(queue, running, {x}) ELSE queue
          /\ \E S : Becomes(S, "consumed")
      BY <2>3 DEF TurnConsumes
    <3>2. ToSet(queue') \subseteq ToSet(queue)
      BY <1>1, <3>1, SweepElements
    <3>3. QED
      BY <1>1, <1>2, <3>1, <3>2, UnseenFates, BegunKept DEF Becomes
  <2>4. CASE TurnMerges(t) \/ TurnInjects(t)
    BY <2>2, <2>4, UnseenFates DEF TurnMerges, TurnInjects
  <2>5. \/ UNCHANGED <<queue, fate>> \/ TurnMerges(t) \/ TurnInjects(t)
        \/ \E x \in Wakes \cup Notes : TurnConsumes(t, x)
    BY DEF Turn, TurnBegins, TurnEmits, TurnRound, TurnSetsGoal, TurnReports, TurnParks,
       TurnUnparks, TurnTails, TurnUnscopes, TurnFinishes, TurnReaped
  <2>6. QED
    BY <2>1, <2>3, <2>4, <2>5
<1>4. Tasks'
  <2>1. CASE UNCHANGED <<turns, parked, completions>>
    BY <1>1, <1>2, <2>1, TasksKept
  <2>2. CASE TurnBegins(t)
    BY <1>1, <1>2, <2>2, StagesKeepTasks
    DEF TurnBegins, waitVars, Alive, Tasks
  <2>3. CASE TurnTails(t)
    BY <1>1, <1>2, <2>3, StagesKeepTasks
    DEF TurnTails, waitVars, Alive, InTurn
  <2>4. CASE TurnUnscopes(t)
    BY <1>1, <1>2, <2>4, StagesKeepTasks
    DEF TurnUnscopes, waitVars, Alive, Tasks
  <2>5. CASE TurnUnparks(t)
    BY <1>1, <1>2, <2>5, StagesKeepTasks
    DEF TurnUnparks, Alive, Tasks
  <2>6. CASE TurnReaped(t)
    BY <1>1, <1>2, <2>6, StagesKeepTasks
    DEF TurnReaped, waitVars, Alive, Tasks
  <2>7. CASE TurnParks(t)
    <3>1. turns[t] = "run" /\ parked' = parked \cup {t} /\ UNCHANGED <<turns, completions>>
      BY <2>7 DEF TurnParks
    <3>2. Closing' = Closing
      BY <1>2 DEF Closing
    <3>3. QED
      BY <1>1, <1>2, <3>1, <3>2 DEF Tasks, Alive
  <2>8. CASE TurnFinishes(t)
    <3>1. /\ turns[t] \in {"tail", "unscoped"} /\ turns' = [turns EXCEPT ![t] = "none"]
          /\ completions' = Append(completions, t) /\ parked' = parked
      BY <2>8 DEF TurnFinishes, waitVars
    <3>2. /\ \A x \in Ids \ {t} : turns'[x] = turns[x]
          /\ turns'[t] = "none" /\ parked \subseteq Ids
          /\ completions \in Seq(Ids) /\ ToSet(completions) \subseteq Ids
          /\ running \in Ids \cup {None}
      BY <3>1, TasksOfIds
    <3>3. t \notin ToSet(completions) /\ t \in started /\ t \notin parked
      BY <1>1, <3>1 DEF Tasks
    <3>4. IsInjective(completions') /\ ToSet(completions') = ToSet(completions) \cup {t}
      <4>1. ToSet(Append(completions, t)) = ToSet(completions) \cup {t}
        BY <3>2, AppendElements
      <4>2. IsInjective(Append(completions, t))
        BY <1>1, <3>2, <3>3, AppendOnce DEF Tasks
      <4>3. QED
        BY <3>1, <4>1, <4>2
    <3>5. Closing' = Closing
      BY <1>2 DEF Closing
    <3>6. \A x \in Ids \ {t} : Alive(x)' <=> Alive(x)
      BY <3>2 DEF Alive
    <3>7. ~Alive(t)'
      BY <3>2 DEF Alive
    <3>8. /\ \A x \in Ids : turns'[x] # "none" \/ x \in ToSet(completions') => x \in started
          /\ \A x \in ToSet(completions') : turns'[x] = "none"
          /\ \A x \in parked : turns'[x] = "run"
      BY <1>1, <3>2, <3>3, <3>4 DEF Tasks
    <3>9. QED
      BY <1>1, <1>2, <3>1, <3>2, <3>4, <3>5, <3>6, <3>7, <3>8 DEF Tasks
  <2>9. \/ UNCHANGED <<turns, parked, completions>>
        \/ TurnBegins(t) \/ TurnTails(t) \/ TurnUnscopes(t) \/ TurnUnparks(t)
        \/ TurnReaped(t) \/ TurnParks(t) \/ TurnFinishes(t)
    BY DEF Turn, TurnEmits, TurnMerges, TurnInjects, TurnRound, TurnSetsGoal, TurnReports,
       TurnConsumes, waitVars
  <2>10. QED
    BY <2>1, <2>2, <2>3, <2>4, <2>5, <2>6, <2>7, <2>8, <2>9
<1>5. QED
  BY <1>3, <1>4 DEF Life

LEMMA OthersKeepLife ==
  ASSUME Ground, Life, OtherTasks PROVE Life'
<1>1. /\ queue \in Seq(Ids) /\ started \subseteq Ids /\ Begun /\ Tasks
      /\ fate \in [Ids -> Waiting \cup Ended]
  BY ListsOfIds DEF Ground, Life, TypeOK, FateTypes
<1>2. CASE StarterStarts \/ ResumeStarts
  BY <1>2, StartKeepsLife DEF StarterStarts, ResumeStarts, untouchedByStart, waitVars,
     actorVars
<1>3. CASE ZombieDrops
  <2>1. UNCHANGED <<queue, running, started, fate, turns, completions, parked, job>>
    BY <1>3 DEF ZombieDrops, turnOnly, actorVars
  <2>2. QED
    BY <1>1, <2>1, BegunKept, TasksKept DEF Life
<1>4. ASSUME NEW p \in Plans, ResumeQueues(p) PROVE Life'
  <2>1. /\ UNCHANGED <<running, started, turns, completions, parked, job>>
        /\ fate[p] = "unsent" /\ queue' = Append(queue, p) /\ Becomes({p}, "queued")
    BY <1>4 DEF ResumeQueues, waitVars, actorVars
  <2>2. ToSet(queue') = ToSet(queue) \cup {p}
    BY <1>1, <2>1, KindsAreIds, AppendElements
  <2>3. \A x \in started : fate[x] \in Seen => fate'[x] \in Seen
    BY <1>1, <2>1, UnseenFates DEF Becomes
  <2>4. QED
    BY <1>1, <2>1, <2>2, <2>3, UnseenFates, BegunKept, TasksKept DEF Life
<1>5. QED
  BY <1>2, <1>3, <1>4 DEF OtherTasks

LEMMA TaskIsDeadKept ==
  ASSUME Ground, Life, TaskIsDead, [Next]_vars PROVE TaskIsDead'
<1>1. ASSUME UNCHANGED <<agenda, job>>, \A t \in Ids : Alive(t)' /\ ~Alive(t) => t # job.task
      PROVE  TaskIsDead'
  BY <1>1, TasksOfIds DEF TaskIsDead, Doing
<1>2. ASSUME UNCHANGED <<agenda, job, turns>> PROVE TaskIsDead'
  BY <1>1, <1>2 DEF Alive
<1>3. ASSUME agenda' \in Plain PROVE TaskIsDead'
  BY <1>3, PlainAgendas DEF TaskIsDead, Ending
<1>4. CASE Commands
  <2>1. CASE \E w \in Wakes : TaskCompletes(w)
    BY <1>2, <2>1 DEF TaskCompletes, actorVars
  <2>2. CASE ~\E w \in Wakes : TaskCompletes(w)
    <3>1. Ready
      BY ZenonT(60), <1>4, <2>2 DEF Commands, Prompt, Interject, InjectNotification,
         DropMonitorNotifications, RemoveQueuedPrompt, InterjectQueuedPrompt, ClearQueue,
         ReorderQueue, EditQueuedPrompt, Cancel
    <3>2. agenda' \in {agenda, <<"start">>, <<"drain">>, Cancelling}
      BY ZenonT(60), <1>4 DEF Commands, Prompt, TaskCompletes, Interject,
         InjectNotification, DropMonitorNotifications, RemoveQueuedPrompt,
         InterjectQueuedPrompt, ClearQueue, ReorderQueue, EditQueuedPrompt, Cancel,
         actorVars
    <3>3. QED
      BY <1>3, <3>1, <3>2 DEF Ready, Plain
  <2>3. QED
    BY <2>1, <2>2
<1>5. CASE ActorSteps
  <2>1. agenda \in Agendas
    BY DEF Ground, PinInv
  <2>2. CASE CancelSnapshot \/ CancelTeardown \/ CancelUngates
    <3>1. /\ Doing("snapshot") \/ Doing("teardown") \/ Doing("ungate")
          /\ agenda' = Tail(agenda)
      BY <2>2 DEF CancelSnapshot, CancelTeardown, CancelUngates
    <3>2. \/ agenda' = <<"teardown", "ungate", "abort", "answer", "start">>
          \/ agenda' = <<"ungate", "abort", "answer", "start">>
          \/ agenda' = <<"abort", "answer", "start">>
      BY <2>1, <3>1, AgendaSteps
    <3>3. ~Doing("answer")'
      BY <3>2 DEF Doing
    <3>4. QED
      BY <3>3 DEF TaskIsDead
  <2>3. CASE CancelAbort
    <3>1. AbortTask(job.task) /\ UNCHANGED job
      BY <2>3 DEF CancelAbort
    <3>2. PICK a : a = job.task
      OBVIOUS
    <3>3. a \in Ids => turns'[a] \in {"none", "aborted"}
      BY <3>1, <3>2, AbortedTask, TasksOfIds
    <3>4. QED
      BY <3>1, <3>2, <3>3, TasksOfIds DEF TaskIsDead, Alive
  <2>4. CASE ~(CancelSnapshot \/ CancelTeardown \/ CancelUngates \/ CancelAbort)
    BY <1>3, <1>5, <2>1, <2>4, PlainSteps DEF ActorSteps
  <2>5. QED
    BY <2>2, <2>3, <2>4
<1>6. CASE OtherTasks
  <2>1. CASE StarterStarts \/ ResumeStarts
    <3>1. MaybeStartRunningTask /\ UNCHANGED <<agenda, job>>
      BY <2>1 DEF StarterStarts, ResumeStarts, actorVars
    <3>2. CASE running = None /\ queue # <<>>
      <4> PICK p : p = Head(queue)
        OBVIOUS
      <4>1. p \in Ids /\ p \in ToSet(queue)
        BY <3>2, HeadAndTail, ListsOfIds DEF Ground
      <4>2. turns' = [turns EXCEPT ![p] = "spawned"]
        BY <3>1, <3>2 DEF MaybeStartRunningTask
      <4>3. p # job.task
        BY <4>1, NoneIsNoId DEF Ground, Ledger, QueueLedger, Life, Tasks
      <4>4. \A t \in Ids \ {p} : turns'[t] = turns[t]
        BY <4>1, <4>2, TasksOfIds
      <4>5. QED
        BY <1>1, <3>1, <4>3, <4>4 DEF Alive
    <3>3. CASE ~(running = None /\ queue # <<>>)
      BY <1>2, <3>1, <3>3 DEF MaybeStartRunningTask
    <3>4. QED
      BY <3>2, <3>3
  <2>2. CASE ZombieDrops \/ \E p \in Plans : ResumeQueues(p)
    BY <1>2, <2>2 DEF ZombieDrops, ResumeQueues, turnOnly, actorVars
  <2>3. QED
    BY <1>6, <2>1, <2>2 DEF OtherTasks
<1>7. ASSUME NEW t \in Ids, Turn(t) PROVE TaskIsDead'
  <2>1. UNCHANGED <<agenda, job>>
    BY <1>7 DEF Turn, TurnBegins, TurnEmits, TurnMerges, TurnInjects, TurnRound,
       TurnSetsGoal, TurnReports, TurnConsumes, TurnParks, TurnUnparks, TurnTails,
       TurnUnscopes, TurnFinishes, TurnReaped, turnOnly, actorVars
  <2>2. CASE UNCHANGED turns
    BY <1>2, <2>1, <2>2
  <2>3. ASSUME NEW stage, turns' = [turns EXCEPT ![t] = stage],
               Alive(t) \/ stage \in {"none", "aborted"}
        PROVE  TaskIsDead'
    <3>1. \A x \in Ids : Alive(x)' => Alive(x)
      BY <2>3, TasksOfIds DEF Alive
    <3>2. QED
      BY <1>1, <2>1, <3>1
  <2>4. CASE TurnBegins(t) \/ TurnTails(t) \/ TurnUnscopes(t)
    BY <2>3, <2>4 DEF TurnBegins, TurnTails, TurnUnscopes, InTurn, Alive
  <2>5. CASE TurnUnparks(t)
    BY <2>3, <2>5 DEF TurnUnparks, Alive, Life, Tasks
  <2>6. CASE TurnFinishes(t) \/ TurnReaped(t)
    BY <2>3, <2>6 DEF TurnFinishes, TurnReaped
  <2>7. \/ UNCHANGED turns \/ TurnBegins(t) \/ TurnTails(t) \/ TurnUnscopes(t)
        \/ TurnUnparks(t) \/ TurnReaped(t) \/ TurnFinishes(t)
    BY <1>7 DEF Turn, TurnEmits, TurnMerges, TurnInjects, TurnRound, TurnSetsGoal,
       TurnReports, TurnConsumes, TurnParks
  <2>8. QED
    BY <2>2, <2>4, <2>5, <2>6, <2>7
<1>8. CASE UNCHANGED vars
  BY <1>2, <1>8 DEF vars, actorVars
<1>9. QED
  BY <1>4, <1>5, <1>6, <1>7, <1>8 DEF Next

LEMMA LifeKept == Spec => [](Ground /\ Life)
<1>1. Init => Life /\ TaskIsDead
  <2> SUFFICES ASSUME Init PROVE Life /\ TaskIsDead
    OBVIOUS
  <2>1. /\ queue = <<>> /\ running = None /\ started = {} /\ completions = <<>>
        /\ parked = {} /\ job.task = None /\ \A t \in Ids : turns[t] = "none"
    BY DEF Init, NoJob
  <2>2. Begun
    BY <2>1, ShortLists DEF Begun
  <2>3. Tasks
    BY <2>1, ShortLists DEF Tasks, Alive
  <2>4. QED
    BY <2>1, <2>2, <2>3 DEF Life, TaskIsDead
<1>2. Ground /\ Life /\ TaskIsDead /\ [Next]_vars => Life'
  <2> SUFFICES ASSUME Ground, Life, TaskIsDead, [Next]_vars PROVE Life'
    OBVIOUS
  <2>1. CASE Next
    BY <2>1, CommandsKeepLife, ActorStepsKeepLife, OthersKeepLife, TurnKeepsLife DEF Next
  <2>2. CASE UNCHANGED vars
    <3>1. UNCHANGED <<queue, running, started, fate, turns, completions, parked, job>>
      BY <2>2 DEF vars, lockVars, waitVars, actorVars, seenVars
    <3>2. QED
      BY <3>1, BegunKept, TasksKept DEF Life
  <2>3. QED
    BY <2>1, <2>2
<1>3. Ground /\ Life /\ TaskIsDead /\ [Next]_vars => TaskIsDead'
  BY TaskIsDeadKept
<1>4. QED
  BY <1>1, <1>2, <1>3, LedgerKept, PTL DEF Spec

\* Between two handlers the turns that live are exactly the running one: no cancel
\* leaves an orphan that works on, and no task is held whose turn is dead.
THEOREM OnlyTheRunningTurnLives == Spec => []TurnIffRunning
<1>1. Ground /\ Life => TurnIffRunning
  <2> SUFFICES ASSUME Ground, Life, Ready, NEW t \in Ids PROVE Alive(t) <=> t = running
    BY DEF TurnIffRunning, Alive
  <2>1. job.task = None /\ ToSet(completions) = {} /\ None \notin Ids
    BY ShortLists, NoneIsNoId DEF Ground, Ledger, JobLedger, Ready, Ending, Doing
  <2>2. QED
    BY <2>1 DEF Life, Tasks
<1>2. QED
  BY <1>1, LifeKept, PTL

-----------------------------------------------------------------------------
(* What became of an id stays so; only a cancel makes it rewound.          *)

KeepsEnds ==
  \A x \in Ids :
    /\ fate[x] \in Ended => fate'[x] = fate[x]
    /\ fate'[x] = "rewound" => fate[x] = "rewound"

LEMMA BecomesKeepsEnds ==
  ASSUME NEW S, NEW what, Becomes(S, what), \A x \in S : x \in Ids => fate[x] \notin Ended,
         what # "rewound"
  PROVE  KeepsEnds
BY DEF Becomes, KeepsEnds

\* What waits has no outcome yet.
LEMMA WaitingFates ==
  ASSUME Ground
  PROVE  /\ \A x \in ToSet(queue) \cup Closing : x \in Ids /\ fate[x] \notin Ended
         /\ \A x \in ToSet(interjections) \cup ToSet(stranded) :
              x \in Ids /\ fate[x] \notin Ended
         /\ \A x \in ToSet(notes) \cup ToSet(buffer) : x \in Ids /\ fate[x] \notin Ended
         /\ \A x \in Ids : fate[x] \in {"unsent", "sent", "pending"} => fate[x] \notin Ended
         /\ "rewound" \in Ended
<1>1. Waiting \cap Ended = {} /\ "rewound" \in Ended
  BY DEF Waiting, Ended
<1>2. {"unsent", "sent", "queued", "buffered", "pending"} \subseteq Waiting
  BY DEF Waiting
<1>3. QED
  BY <1>1, <1>2, ListsOfIds DEF Ground, Ledger, QueueLedger, BufferLedger, NoteLedger

LEMMA CommandsKeepEnds ==
  ASSUME Ground, Commands PROVE KeepsEnds
<1>1. queue \in Seq(Ids) /\ notes \in Seq(Ids) /\ buffer \in Seq(Ids)
  BY ListsOfIds DEF Ground
<1>2. CASE fate' = fate
  BY <1>2 DEF KeepsEnds
<1>3. ASSUME NEW p \in Users \cup Wakes \cup Crons, NEW now \in BOOLEAN, Prompt(p, now)
      PROVE  KeepsEnds
  <2>1. PICK swept : /\ swept \subseteq ToSet(queue) /\ fate[p] \in {"sent", "unsent"}
                     /\ fate' = [x \in Ids |-> IF x \in swept THEN "swept"
                                               ELSE IF x = p THEN "queued" ELSE fate[x]]
    BY <1>3 DEF Prompt
  <2>2. QED
    BY <2>1, WaitingFates DEF KeepsEnds
<1>4. ASSUME NEW w \in Wakes, TaskCompletes(w) PROVE KeepsEnds
  BY <1>4, BecomesKeepsEnds, WaitingFates DEF TaskCompletes
<1>5. ASSUME NEW i \in Interjections, Interject(i) PROVE KeepsEnds
  BY <1>5, BecomesKeepsEnds, WaitingFates DEF Interject
<1>6. ASSUME NEW n \in Notes, NEW next \in BOOLEAN, InjectNotification(n, next)
      PROVE  KeepsEnds
  <2> DEFINE old == IF active /\ next THEN buffer ELSE notes
  <2>1. /\ fate[n] = "unsent"
        /\ \E kept : fate' = [x \in Ids |->
                       IF x \in ToSet(Append(old, n)) \ kept THEN "capped"
                       ELSE IF x = n THEN "pending" ELSE fate[x]]
    BY <1>6 DEF InjectNotification
  <2>2. ToSet(Append(old, n)) = ToSet(old) \cup {n}
    BY <1>1, KindsAreIds, AppendElements
  <2>3. ToSet(old) \subseteq ToSet(notes) \cup ToSet(buffer)
    OBVIOUS
  <2> HIDE DEF old
  <2>4. QED
    BY <2>1, <2>2, <2>3, WaitingFates DEF KeepsEnds
<1>7. ASSUME NEW n \in Notes, DropMonitorNotifications(n) PROVE KeepsEnds
  BY <1>7, BecomesKeepsEnds, WaitingFates DEF DropMonitorNotifications
<1>8. ASSUME NEW p \in Users, NEW v, NEW who, RemoveQueuedPrompt(p, v, who) PROVE KeepsEnds
  BY <1>2, <1>8, BecomesKeepsEnds, WaitingFates DEF RemoveQueuedPrompt, RowMatches
<1>9. ASSUME NEW who, ClearQueue(who) PROVE KeepsEnds
  <2>1. \E S \in SUBSET ToSet(queue) : Becomes(S, "removed")
    BY <1>9 DEF ClearQueue
  <2>2. QED
    BY <2>1, BecomesKeepsEnds, WaitingFates
<1>10. ASSUME NEW p, NEW v, NEW who, NEW edited, NEW order, NEW mode,
              \/ InterjectQueuedPrompt(p, v, who, edited) \/ ReorderQueue(order)
              \/ EditQueuedPrompt(p) \/ Cancel(mode)
       PROVE  KeepsEnds
  BY <1>2, <1>10 DEF InterjectQueuedPrompt, ReorderQueue, EditQueuedPrompt, Cancel, seenVars
<1>11. QED
  BY <1>3, <1>4, <1>5, <1>6, <1>7, <1>8, <1>9, <1>10 DEF Commands

LEMMA ActorStepsKeepEnds ==
  ASSUME Ground, ActorSteps, ~CancelAnswers PROVE KeepsEnds
<1>1. queue \in Seq(Ids) /\ notes \in Seq(Ids) /\ buffer \in Seq(Ids)
  BY ListsOfIds DEF Ground
<1>2. CASE fate' = fate
  BY <1>2 DEF KeepsEnds
<1>3. CASE CancelSnapshot
  BY <1>3, BecomesKeepsEnds, WaitingFates DEF CancelSnapshot
<1>4. CASE CancelTeardown
  <2>1. ToSet(notes \o buffer) = ToSet(notes) \cup ToSet(buffer)
    BY <1>1, JoinElements
  <2>2. \E S \in SUBSET ToSet(notes \o buffer) : Becomes(S, "dropped")
    BY <1>4 DEF CancelTeardown
  <2>3. QED
    BY <2>1, <2>2, BecomesKeepsEnds, WaitingFates
<1>5. CASE HandleCompletion
  <2>1. PICK p : IF Owned(p) THEN Becomes({p}, "done") ELSE UNCHANGED fate
    BY <1>5 DEF HandleCompletion
  <2>2. CASE Owned(p)
    <3>1. p \in ToSet(queue)
      BY <1>1, <2>2, HeadAndTail DEF Owned
    <3>2. QED
      BY <2>1, <2>2, <3>1, BecomesKeepsEnds, WaitingFates
  <2>3. QED
    BY <1>2, <2>1, <2>2
<1>6. CASE TurnEnd
  <2>1. \/ fate' = fate \/ \E g \in Goals : fate[g] = "unsent" /\ Becomes({g}, "queued")
    BY <1>6 DEF TurnEnd
  <2>2. QED
    BY <1>2, <2>1, BecomesKeepsEnds, WaitingFates
<1>7. CASE RequeueStranded
  <2>1. Becomes({Last(stranded)}, "queued") /\ Last(stranded) \in ToSet(stranded)
    BY <1>7, StrandedParts DEF RequeueStranded, Ground, TypeOK, ActorTypes, StrandedTyped
  <2>2. QED
    BY <2>1, BecomesKeepsEnds, WaitingFates
<1>8. CASE MaybeDrainNotifications
  <2> DEFINE all == notes \o buffer
             muted == IF goal = "off" THEN ToSet(all) \cap GoalTurnNotes ELSE ToSet(all)
             told == Without(all, muted)
  <2>1. CASE ~Idle
    BY <1>2, <1>8, <2>1 DEF MaybeDrainNotifications
  <2>2. CASE Idle
    <3>1. /\ queue' = SubSeq(told, 1, IF told = <<>> THEN 0 ELSE 1)
          /\ fate' = [x \in Ids |-> IF x \in muted THEN "muted"
                                     ELSE IF x \in ToSet(queue') THEN "queued"
                                     ELSE IF x \in ToSet(told) THEN "merged"
                                     ELSE fate[x]]
      BY <1>8, <2>2 DEF MaybeDrainNotifications
    <3>2. /\ all \in Seq(Ids) /\ ToSet(all) = ToSet(notes) \cup ToSet(buffer)
          /\ muted \subseteq ToSet(all)
      BY <1>1, JoinElements
    <3> HIDE DEF all, muted
    <3>3. told \in Seq(Ids) /\ ToSet(told) \subseteq ToSet(all)
      BY <3>2, WithoutElements
    <3> HIDE DEF told
    <3>4. ToSet(queue') \subseteq ToSet(told)
      BY <3>1, <3>3, FrontElements
    <3>5. QED
      BY <3>1, <3>2, <3>3, <3>4, WaitingFates DEF KeepsEnds
  <2>3. QED
    BY <2>1, <2>2
<1>9. CASE \/ Start \/ CancelUngates \/ CancelAbort \/ SweepMonitorBuffer
           \/ FlushStrandedInterjections
  BY <1>2, <1>9 DEF Start, CancelUngates, CancelAbort, SweepMonitorBuffer,
     FlushStrandedInterjections, untouchedByStart, seenVars
<1>10. QED
  BY <1>3, <1>4, <1>5, <1>6, <1>7, <1>8, <1>9 DEF ActorSteps

LEMMA TurnKeepsEnds ==
  ASSUME Ground, NEW t \in Ids, Turn(t) PROVE KeepsEnds
<1>1. queue \in Seq(Ids) /\ notes \in Seq(Ids) /\ buffer \in Seq(Ids)
  BY ListsOfIds DEF Ground
<1>2. CASE fate' = fate
  BY <1>2 DEF KeepsEnds
<1>3. CASE TurnMerges(t)
  BY <1>3, BecomesKeepsEnds, WaitingFates DEF TurnMerges
<1>4. CASE TurnInjects(t)
  BY <1>4, BecomesKeepsEnds, WaitingFates DEF TurnInjects
<1>5. ASSUME NEW x, TurnConsumes(t, x) PROVE KeepsEnds
  <2>1. \E S \in SUBSET ToSet(queue \o notes) : Becomes(S, "consumed")
    BY <1>5 DEF TurnConsumes
  <2>2. ToSet(queue \o notes) = ToSet(queue) \cup ToSet(notes)
    BY <1>1, JoinElements
  <2>3. QED
    BY <2>1, <2>2, BecomesKeepsEnds, WaitingFates
<1>6. \/ fate' = fate \/ TurnMerges(t) \/ TurnInjects(t) \/ \E x : TurnConsumes(t, x)
  BY DEF Turn, TurnBegins, TurnEmits, TurnRound, TurnSetsGoal, TurnReports,
     TurnParks, TurnUnparks, TurnTails, TurnUnscopes, TurnFinishes, TurnReaped
<1>7. QED
  BY <1>2, <1>3, <1>4, <1>5, <1>6

LEMMA OthersKeepEnds ==
  ASSUME Ground, OtherTasks PROVE KeepsEnds
<1>1. CASE fate' = fate
  BY <1>1 DEF KeepsEnds
<1>2. \/ fate' = fate \/ \E p \in Plans : fate[p] = "unsent" /\ Becomes({p}, "queued")
  BY DEF OtherTasks, StarterStarts, ResumeStarts, ResumeQueues, ZombieDrops, untouchedByStart
<1>3. QED
  BY <1>1, <1>2, BecomesKeepsEnds, WaitingFates

-----------------------------------------------------------------------------
(* How many ends are recorded.  A turn that was started has its record     *)
(* unless it runs, a cancel is about to record it, or it was rewound.      *)

Due(p) == p \in started /\ p \notin Closing /\ p # running /\ fate[p] # "rewound"

RecordsDue == \A p \in Ids : terminals[p] = IF Due(p) THEN 1 ELSE 0

\* A cancel is about the running task, and closes no other turn that was started.
CancelNames ==
  /\ Doing("teardown") => job.named \in {None, running}
  /\ Ending =>
       /\ ~job.rewound => Victim = job.task /\ Closing \cap started \subseteq {job.task}
       /\ job.task # None => job.task \in started

Records == RecordsDue /\ CancelNames

\* A step that starts and ends no turn.
LEMMA RecordsDueKept ==
  ASSUME Ground, RecordsDue, KeepsEnds, UNCHANGED <<terminals, started, running>>,
         Closing' = Closing
  PROVE  RecordsDue'
<1>1. ASSUME NEW p \in started PROVE fate'[p] = "rewound" <=> fate[p] = "rewound"
  BY WaitingFates DEF KeepsEnds, Ground, TypeOK, FateTypes
<1>2. QED
  BY <1>1 DEF RecordsDue, Due

\* A step between two others of the same cancel, or away from cancels.
LEMMA CancelNamesKept ==
  ASSUME CancelNames, UNCHANGED <<agenda, job, started, running>> PROVE CancelNames'
  BY DEF CancelNames, Ending, Doing, Victim, Closing

LEMMA NoCancelNames ==
  ASSUME agenda' \in Plain PROVE CancelNames'
  BY PlainAgendas DEF CancelNames

LEMMA CommandsKeepRecords ==
  ASSUME Ground, Records, Commands PROVE Records'
<1>1. UNCHANGED <<terminals, started, running>>
  BY ZenonT(60) DEF Commands, Prompt, TaskCompletes, Interject, InjectNotification,
     DropMonitorNotifications, RemoveQueuedPrompt, InterjectQueuedPrompt, ClearQueue,
     ReorderQueue, EditQueuedPrompt, Cancel, untouchedByRows, seenVars, lockVars
<1>2. KeepsEnds
  BY CommandsKeepEnds
<1>3. CASE UNCHANGED <<agenda, job>>
  <2>1. Closing' = Closing
    BY <1>3 DEF Closing
  <2>2. QED
    BY <1>1, <1>2, <1>3, <2>1, RecordsDueKept, CancelNamesKept DEF Records
<1>4. CASE Ready
  <2>1. agenda' \in {<<>>, <<"start">>, <<"drain">>, Cancelling}
    <3>1. agenda = <<>>
      BY <1>4 DEF Ready
    <3>2. QED
      BY ZenonT(60), <3>1 DEF Commands, Prompt, TaskCompletes, Interject, InjectNotification,
         DropMonitorNotifications, RemoveQueuedPrompt, InterjectQueuedPrompt, ClearQueue,
         ReorderQueue, EditQueuedPrompt, Cancel, actorVars
  <2>2. job' = job \/ (\E mode : job' = [NoJob EXCEPT !.mode = mode]) \/ job' = NoJob
    BY ZenonT(60) DEF Commands, Prompt, TaskCompletes, Interject, InjectNotification,
       DropMonitorNotifications, RemoveQueuedPrompt, InterjectQueuedPrompt, ClearQueue,
       ReorderQueue, EditQueuedPrompt, Cancel, actorVars
  <2>3. Closing' = Closing
    BY <1>4, <2>2, ReadyJobs DEF Ground, Ledger, Closing
  <2>4. CancelNames'
    BY <2>1, NoCancelNames DEF Plain
  <2>5. QED
    BY <1>1, <1>2, <2>3, <2>4, RecordsDueKept DEF Records
<1>5. Ready \/ UNCHANGED <<agenda, job>>
  BY ZenonT(60) DEF Commands, Prompt, TaskCompletes, Interject, InjectNotification,
     DropMonitorNotifications, RemoveQueuedPrompt, InterjectQueuedPrompt, ClearQueue,
     ReorderQueue, EditQueuedPrompt, Cancel, actorVars
<1>6. QED
  BY <1>3, <1>4, <1>5

LEMMA StartKeepsRecords ==
  ASSUME Ground, Life, Records, MaybeStartRunningTask, KeepsEnds,
         UNCHANGED <<queue, fate, terminals, job>>,
         agenda' = agenda \/ agenda' \in Plain
  PROVE  Records'
<1>1. /\ queue \in Seq(Ids) /\ None \notin Ids /\ Begun /\ ToSet(queue) \cap Closing = {}
      /\ started \subseteq Ids
  BY ListsOfIds, NoneIsNoId DEF Ground, Ledger, Life, QueueLedger, TypeOK, FateTypes
<1>2. Closing' = Closing
  BY DEF Closing
<1>3. CASE running = None /\ queue # <<>>
  <2> PICK p : p = Head(queue)
    OBVIOUS
  <2>1. /\ p \in Ids /\ p \in ToSet(queue) /\ p \notin started /\ p \notin Closing
    BY <1>1, <1>3, HeadAndTail DEF Begun
  <2>2. running' = p /\ started' = started \cup {p}
    BY <1>3 DEF MaybeStartRunningTask
  <2>3. \A x \in Ids : Due(x)' <=> Due(x)
    BY <1>1, <1>2, <1>3, <2>1, <2>2 DEF Due
  <2>4. RecordsDue'
    BY <2>3 DEF RecordsDue, Records
  <2>5. CancelNames'
    <3>1. CASE agenda' \in Plain
      BY <3>1, NoCancelNames
    <3>2. CASE agenda' = agenda
      <4>1. \A step : Doing(step)' <=> Doing(step)
        BY <3>2 DEF Doing
      <4>2. Victim' = Victim
        BY DEF Victim
      <4>3. QED
        BY <1>2, <1>3, <2>1, <2>2, <4>1, <4>2 DEF CancelNames, Ending, Records
    <3>3. QED
      BY <3>1, <3>2
  <2>6. QED
    BY <2>4, <2>5 DEF Records
<1>4. CASE ~(running = None /\ queue # <<>>)
  <2>1. UNCHANGED <<running, started>>
    BY <1>4 DEF MaybeStartRunningTask
  <2>2. RecordsDue'
    BY <1>2, <2>1 DEF Records, RecordsDue, Due
  <2>3. CancelNames'
    BY <2>1, CancelNamesKept, NoCancelNames DEF Records
  <2>4. QED
    BY <2>2, <2>3 DEF Records
<1>5. QED
  BY <1>3, <1>4

LEMMA CompletionKeepsRecords ==
  ASSUME Ground, Life, Records, HandleCompletion, KeepsEnds PROVE Records'
<1> PICK p : p = Head(completions)
  OBVIOUS
<1>1. /\ queue \in Seq(Ids) /\ None \notin Ids /\ started \subseteq Ids /\ Begun /\ Tasks
      /\ RunningIsFront /\ fate \in [Ids -> Waiting \cup Ended]
      /\ terminals \in [Ids -> Nat] /\ RecordsDue
  BY ListsOfIds, NoneIsNoId DEF Ground, Life, TypeOK, FateTypes, Records
<1>2. /\ agenda = <<>> /\ agenda' = Completing /\ UNCHANGED <<started, job>>
      /\ running' = RunningAfter(p)
      /\ IF Owned(p) THEN Becomes({p}, "done") ELSE UNCHANGED fate
      /\ terminals' = IF Owned(p) THEN [terminals EXCEPT ![p] = @ + 1] ELSE terminals
      /\ completions # <<>>
  BY DEF HandleCompletion, EndRecorded
<1>3. p \in Ids /\ p \in started
  BY <1>1, <1>2, HeadAndTail, TasksOfIds DEF Tasks
<1>4. Closing = {} /\ Closing' = {}
  BY <1>2, ShortLists DEF Closing, Ground, Ledger, JobLedger, Ending, Doing
<1>5. CancelNames'
  BY <1>2, NoCancelNames DEF Plain
<1>6. CASE Owned(p)
  <2>1. running = p
    BY <1>1, <1>3, <1>6, HeadAndTail DEF Owned, Begun
  <2>2. /\ running' = None /\ fate' = [x \in Ids |-> IF x = p THEN "done" ELSE fate[x]]
        /\ \A x \in Ids : terminals'[x] = IF x = p THEN terminals[x] + 1 ELSE terminals[x]
    BY <1>1, <1>2, <1>3, <1>6 DEF RunningAfter, Becomes
  <2>3. ~Due(p) /\ Due(p)'
    BY <1>3, <1>4, <2>1, <2>2, <1>1, <1>2 DEF Due
  <2>4. \A x \in Ids \ {p} : Due(x)' <=> Due(x)
    BY <1>1, <1>2, <1>4, <2>1, <2>2 DEF Due
  <2>5. \A x \in Ids : terminals'[x] = IF Due(x)' THEN 1 ELSE 0
    BY <1>1, <1>3, <2>2, <2>3, <2>4 DEF RecordsDue
  <2>6. QED
    BY <1>5, <2>5 DEF Records, RecordsDue
<1>7. CASE ~Owned(p)
  <2>1. running # p
    BY <1>1, <1>3, <1>7 DEF RunningIsFront, Owned
  <2>2. UNCHANGED <<running, fate, terminals>>
    BY <1>2, <1>7, <2>1 DEF RunningAfter
  <2>3. RecordsDue'
    BY <1>1, <1>2, <1>4, <2>2 DEF RecordsDue, Due
  <2>4. QED
    BY <1>5, <2>3 DEF Records
<1>8. QED
  BY <1>6, <1>7

LEMMA TeardownKeepsRecords ==
  ASSUME Ground, Life, Records, CancelTeardown, KeepsEnds PROVE Records'
<1> DEFINE rewind == job.mode = "rewind" /\ rewindable
<1>1. /\ queue \in Seq(Ids) /\ None \notin Ids /\ started \subseteq Ids /\ Begun
      /\ ToSet(queue) = Closing' \cup ToSet(queue') /\ RecordsDue /\ agenda \in Agendas
      /\ job.pinned = None \/ running = job.pinned
      /\ job.named \in {None, running} /\ running \in Ids \cup {None}
  BY ListsOfIds, NoneIsNoId, TeardownParts, TasksOfIds
  DEF Ground, Ledger, Life, TypeOK, FateTypes, Records, CancelNames, PinInv, CancelTeardown
<1>2. /\ Doing("teardown") /\ running' = None /\ UNCHANGED <<terminals, started>>
      /\ job'.task = (IF rewind THEN None ELSE running)
      /\ job'.rewound = (rewind /\ queue # <<>>)
      /\ job'.pinned = job.pinned /\ job'.named = job.named
      /\ agenda' = Tail(agenda)
  BY DEF CancelTeardown, Ground, TypeOK, ActorTypes
<1>3. Closing = {}
  BY <1>2, ShortLists DEF Closing, Ground, Ledger, JobLedger, Ending, Doing
<1>4. running # None => running \in Closing' /\ running \in started /\ queue # <<>>
  BY <1>1, TeardownTakesRunning, RunningInQueue DEF Begun
<1>5. Closing' \cap started \subseteq {running}
  BY <1>1 DEF Begun
<1>6. RecordsDue'
  <2>1. ASSUME NEW p \in started PROVE fate'[p] = "rewound" <=> fate[p] = "rewound"
    BY <1>1, <1>3, WaitingFates DEF KeepsEnds
  <2>2. \A p \in Ids : Due(p)' <=> Due(p)
    BY <1>1, <1>2, <1>3, <1>4, <1>5, <2>1 DEF Due
  <2>3. QED
    BY <1>1, <1>2, <2>2 DEF RecordsDue
<1>7. CancelNames'
  <2>1. agenda' = <<"ungate", "abort", "answer", "start">>
    BY <1>1, <1>2, AgendaSteps
  <2>2. ~Doing("teardown")'
    BY <2>1 DEF Doing
  <2>3. ASSUME ~job'.rewound
        PROVE  Victim' = job'.task /\ Closing' \cap started' \subseteq {job'.task}
    <3>1. job'.task = running
      BY <1>2, <1>4, <2>3
    <3>2. Victim' = running
      BY <1>1, <1>2, <3>1 DEF Victim
    <3>3. QED
      BY <1>2, <1>5, <3>1, <3>2
  <2>4. job'.task # None => job'.task \in started'
    BY <1>2, <1>4
  <2>5. QED
    BY <2>2, <2>3, <2>4 DEF CancelNames
<1>8. QED
  BY <1>6, <1>7 DEF Records

LEMMA AnswerKeepsRecords ==
  ASSUME Ground, Life, Records, CancelAnswers PROVE Records'
<1>1. /\ started \subseteq Ids /\ Begun /\ Tasks /\ ToSet(queue) \cap Closing = {}
      /\ fate \in [Ids -> Waiting \cup Ended] /\ terminals \in [Ids -> Nat]
      /\ RecordsDue /\ CancelNames /\ agenda \in Agendas
  BY DEF Ground, Ledger, Life, QueueLedger, TypeOK, FateTypes, Records, PinInv
<1> DEFINE ends == IF job.rewound THEN {} ELSE {Victim} \ {None}
<1>2. /\ Doing("answer") /\ job' = NoJob /\ UNCHANGED <<running, started>>
      /\ agenda' = Tail(agenda)
      /\ terminals' = [p \in Ids |-> IF p \in ends THEN terminals[p] + 1 ELSE terminals[p]]
      /\ fate' = [x \in Ids |-> IF x \in Closing
                                THEN IF job.rewound THEN "rewound" ELSE "cancelled"
                                ELSE fate[x]]
  BY DEF CancelAnswers, Becomes, Closing
<1>3. Closing' = {}
  BY <1>2, ShortLists DEF NoJob, Closing
<1>4. running \notin Closing \/ running = None
  BY <1>1, RunningInQueue
<1>5. RecordsDue'
  <2>1. CASE job.rewound
    <3>1. \A p \in Ids : Due(p)' <=> Due(p)
      BY <1>1, <1>2, <1>3, <2>1 DEF Due
    <3>2. ends = {}
      BY <2>1
    <3> HIDE DEF ends
    <3>3. QED
      BY <1>1, <1>2, <3>1, <3>2 DEF RecordsDue
  <2>2. CASE ~job.rewound
    <3>1. /\ ends = {job.task} \ {None} /\ Closing \cap started \subseteq {job.task}
          /\ job.task # None => job.task \in started /\ job.task \in Closing
      BY <1>1, <1>2, <2>2 DEF CancelNames, Ending, Tasks
    <3> HIDE DEF ends
    <3>2. \A p \in Ids : Due(p)' <=> Due(p) \/ p \in ends
      BY <1>1, <1>2, <1>3, <1>4, <2>2, <3>1, NoneIsNoId DEF Due
    <3>3. \A p \in ends : ~Due(p)
      BY <3>1 DEF Due
    <3>4. QED
      BY <1>1, <1>2, <3>2, <3>3 DEF RecordsDue
  <2>3. QED
    BY <2>1, <2>2
<1>6. agenda' = <<"start">>
  BY <1>1, <1>2, AgendaSteps
<1>7. CancelNames'
  BY <1>6, NoCancelNames DEF Plain
<1>8. QED
  BY <1>5, <1>7 DEF Records

LEMMA ActorStepsKeepRecords ==
  ASSUME Ground, Life, Records, ActorSteps PROVE Records'
<1>1. agenda \in Agendas /\ RecordsDue /\ CancelNames
  BY DEF Ground, PinInv, Records
\* A step that starts and ends no turn.
<1>2. ASSUME KeepsEnds, CancelNames', UNCHANGED <<terminals, started, running>>,
             job'.closing = job.closing
      PROVE  Records'
  <2>1. Closing' = Closing
    BY <1>2 DEF Closing
  <2>2. QED
    BY <1>1, <1>2, <2>1, RecordsDueKept DEF Records
<1>3. CASE CancelAnswers
  BY <1>3, AnswerKeepsRecords
<1>4. CASE ~CancelAnswers
  <2>1. KeepsEnds
    BY <1>4, ActorStepsKeepEnds
  <2>2. CASE Start
    <3>1. agenda' \in Plain
      BY <1>1, <2>2, PlainSteps
    <3>2. QED
      BY <2>1, <2>2, <3>1, StartKeepsRecords DEF Start, untouchedByStart
  <2>3. CASE CancelSnapshot
    <3>1. /\ UNCHANGED <<terminals, started, running>>
          /\ job'.closing = job.closing
          /\ job'.named = (IF running # None THEN running ELSE pin)
          /\ agenda' = Tail(agenda) /\ Doing("snapshot")
      BY <2>3 DEF CancelSnapshot, Ground, TypeOK, ActorTypes, lockVars
    <3>2. job'.named \in {None, running}
      BY <3>1 DEF Ground, PinInv, Ending, Doing
    <3>3. agenda' = <<"teardown", "ungate", "abort", "answer", "start">>
      BY <1>1, <3>1, AgendaSteps
    <3>4. ~Ending'
      BY <3>3 DEF Ending, Doing
    <3>5. QED
      BY <1>2, <2>1, <3>1, <3>2, <3>4 DEF CancelNames
  <2>4. CASE CancelUngates \/ CancelAbort
    <3>1. /\ Doing("ungate") \/ Doing("abort")
          /\ agenda' = Tail(agenda)
          /\ UNCHANGED <<terminals, started, running, job>>
      BY <2>4 DEF CancelUngates, CancelAbort, lockVars, seenVars
    <3>2. agenda' = <<"abort", "answer", "start">> \/ agenda' = <<"answer", "start">>
      BY <1>1, <3>1, AgendaSteps
    <3>3. ~Doing("teardown")'
      BY <3>2 DEF Doing
    <3>7. Ending
      BY <3>1 DEF Ending
    <3>4. Closing' = Closing /\ Victim' = Victim
      BY <3>1 DEF Closing, Victim
    <3>5. CancelNames'
      BY <1>1, <3>1, <3>3, <3>4, <3>7 DEF CancelNames
    <3>6. QED
      BY <1>2, <2>1, <3>1, <3>5
  <2>5. CASE \/ SweepMonitorBuffer \/ TurnEnd \/ FlushStrandedInterjections
             \/ RequeueStranded \/ MaybeDrainNotifications
    <3>1. CancelNames'
      BY <1>1, <2>5, PlainSteps, NoCancelNames
    <3>2. UNCHANGED <<terminals, started, running, job>>
      BY <2>5 DEF SweepMonitorBuffer, TurnEnd, FlushStrandedInterjections,
         RequeueStranded, MaybeDrainNotifications, lockVars, seenVars
    <3>3. QED
      BY <1>2, <2>1, <3>1, <3>2
  <2>6. QED
    BY <1>4, <2>1, <2>2, <2>3, <2>4, <2>5, CompletionKeepsRecords,
       TeardownKeepsRecords DEF ActorSteps
<1>5. QED
  BY <1>3, <1>4

LEMMA RecordsKept == Spec => []Records
<1>1. Init => Records
  <2> SUFFICES ASSUME Init PROVE Records
    OBVIOUS
  <2>1. started = {} /\ agenda = <<>> /\ \A p \in Ids : terminals[p] = 0
    BY DEF Init
  <2>2. QED
    BY <2>1 DEF Records, RecordsDue, Due, CancelNames, Ending, Doing
<1>2. Ground /\ Life /\ Records /\ [Next]_vars => Records'
  <2> SUFFICES ASSUME Ground, Life, Records, [Next]_vars PROVE Records'
    OBVIOUS
  <2>1. ASSUME KeepsEnds, UNCHANGED <<terminals, started, running, agenda, job>>
        PROVE  Records'
    <3>1. Closing' = Closing
      BY <2>1 DEF Closing
    <3>2. QED
      BY <2>1, <3>1, RecordsDueKept, CancelNamesKept DEF Records
  <2>2. ASSUME NEW t \in Ids, Turn(t) PROVE Records'
    <3>1. UNCHANGED <<terminals, started, running, agenda, job>>
      BY <2>2 DEF Turn, TurnBegins, TurnEmits, TurnMerges, TurnInjects, TurnRound,
         TurnSetsGoal, TurnReports, TurnConsumes, TurnParks, TurnUnparks, TurnTails,
         TurnUnscopes, TurnFinishes, TurnReaped, turnOnly, actorVars
    <3>2. QED
      BY <2>1, <2>2, <3>1, TurnKeepsEnds
  <2>3. CASE OtherTasks
    <3>1. KeepsEnds
      BY <2>3, OthersKeepEnds
    <3>2. CASE StarterStarts \/ ResumeStarts
      BY <3>1, <3>2, StartKeepsRecords
      DEF StarterStarts, ResumeStarts, untouchedByStart, actorVars
    <3>3. CASE ZombieDrops \/ \E p \in Plans : ResumeQueues(p)
      <4>1. UNCHANGED <<terminals, started, running, agenda, job>>
        BY <3>3 DEF ZombieDrops, ResumeQueues, turnOnly, actorVars
      <4>2. QED
        BY <2>1, <3>1, <4>1
    <3>4. QED
      BY <2>3, <3>2, <3>3 DEF OtherTasks
  <2>4. CASE UNCHANGED vars
    <3>1. UNCHANGED <<terminals, started, running, agenda, job, fate>>
      BY <2>4 DEF vars, lockVars, actorVars, seenVars
    <3>2. QED
      BY <2>1, <3>1 DEF KeepsEnds
  <2>5. QED
    BY <2>2, <2>3, <2>4, CommandsKeepRecords, ActorStepsKeepRecords DEF Next
<1>3. QED
  BY <1>1, <1>2, LifeKept, PTL DEF Spec

\* Whatever ends a turn, a completion, a stale completion or a cancel, its end is
\* recorded once; not at all if the cancel rewound it, nor if it never began.
THEOREM OneRecordEach == Spec => []OneTerminal
<1>1. Ground /\ Records => OneTerminal
  <2> SUFFICES ASSUME Ground, Records, Ready PROVE OneTerminal
    BY DEF OneTerminal
  <2>1. Closing = {}
    BY ShortLists DEF Closing, Ground, Ledger, JobLedger, Ready, Ending, Doing
  <2>2. QED
    BY <2>1 DEF Records, RecordsDue, Due, OneTerminal
<1>2. QED
  BY <1>1, LedgerKept, RecordsKept, PTL

-----------------------------------------------------------------------------
(* What a command leaves to be done: it queues a prompt and starts it,     *)
(* cuts the turn for a prompt sent now, asks for a cancel, edits the rows, *)
(* has the notifications drained, or only marks a wake delivered.          *)

Enqueues ==
  Ready /\ agenda' = <<"start">> /\ job' \in {job, NoJob} /\ queue' # <<>>

Cuts ==
  /\ Ready /\ agenda' = Cancelling /\ job' = [NoJob EXCEPT !.mode = "send_now"]
  /\ running # None /\ \E u \in Users \cap ToSet(queue') : u # running

AsksToCancel ==
  /\ Ready /\ agenda' = Cancelling /\ UNCHANGED <<queue, notes, suppressed>>
  /\ \E mode \in CancelModes : job' = [NoJob EXCEPT !.mode = mode]

EditsRows ==
  /\ Ready /\ agenda' \in {<<>>, <<"start">>} /\ UNCHANGED <<job, suppressed>>
  /\ ToSet(queue') \subseteq ToSet(queue) /\ ToSet(queue) \subseteq ToSet(queue') \cup Users
  /\ notes = <<>> => notes' = <<>>

Notifies ==
  Ready /\ agenda' = <<"drain">> /\ UNCHANGED <<queue, job, suppressed>>

OnlyMarks == UNCHANGED <<queue, agenda, job, notes, suppressed>>

LEMMA CommandKinds ==
  ASSUME Ground, Commands
  PROVE  /\ running' = running
         /\ Enqueues \/ Cuts \/ AsksToCancel \/ EditsRows \/ Notifies \/ OnlyMarks
<1> DEFINE Kinds == Enqueues \/ Cuts \/ AsksToCancel \/ EditsRows \/ Notifies \/ OnlyMarks
<1>1. /\ queue \in Seq(Ids) /\ ToSet(queue) \subseteq Ids /\ notes \in Seq(Ids)
      /\ QueueLedger /\ NoteLedger
  BY ListsOfIds DEF Ground, Ledger
<1>2. running' = running
  BY ZenonT(60) DEF Commands, Prompt, TaskCompletes, Interject, InjectNotification,
     DropMonitorNotifications, RemoveQueuedPrompt, InterjectQueuedPrompt, ClearQueue,
     ReorderQueue, EditQueuedPrompt, Cancel, untouchedByRows, lockVars
<1>3. ToSet(<<>>) = {}
  BY ShortLists
<1>4. ASSUME NEW p \in Users \cup Wakes \cup Crons, NEW now \in BOOLEAN, Prompt(p, now)
      PROVE  Kinds
  <2> DEFINE armed == p \in Users /\ \E w \in Wakes : w \in ToSet(queue) /\ w # running
             swept == IF armed THEN (ToSet(queue) \cap Synthetic) \ {running} ELSE {}
             q == Sweep(queue, running, swept)
  <2>1. /\ Ready /\ fate[p] \in {"sent", "unsent"} /\ p \in Ids
        /\ (queue' = InsertSendNow(q, running, sendNow, p) \/ queue' = Append(q, p))
        /\ \/ agenda' = <<"start">> /\ job' = NoJob
           \/ /\ p \in Users /\ running # None /\ agenda' = Cancelling
              /\ job' = [NoJob EXCEPT !.mode = "send_now"]
    BY <1>4, KindsAreIds DEF Prompt
  <2>2. q \in Seq(Ids)
    <3> HIDE DEF swept
    <3>1. QED
      BY <1>1, SweepElements
  <2> HIDE DEF swept, q
  <2>3. p \in ToSet(queue')
    <3>1. CASE queue' = InsertSendNow(q, running, sendNow, p)
      BY <2>1, <2>2, <3>1, InsertSendNowElements
    <3>2. CASE queue' = Append(q, p)
      BY <2>1, <2>2, <3>2, AppendElements
    <3>3. QED
      BY <2>1, <3>1, <3>2
  <2>4. running # None => p # running
    BY <1>1, <2>1, RunningInQueue DEF QueueLedger
  <2>5. queue' # <<>>
    BY <1>3, <2>3
  <2>6. QED
    BY <2>1, <2>3, <2>4, <2>5 DEF Enqueues, Cuts
<1>5. ASSUME NEW w \in Wakes, TaskCompletes(w) PROVE Kinds
  BY <1>5 DEF TaskCompletes, OnlyMarks, lockVars, actorVars
<1>6. ASSUME NEW i \in Interjections, Interject(i) PROVE Kinds
  <2>1. CASE pin # None
    BY <1>6, <2>1 DEF Interject, EditsRows, Ready
  <2>2. CASE pin = None
    <3> DEFINE one == <<i>>
    <3>1. one \in Seq(Ids) /\ ToSet(one) = {i}
      BY ShortLists, KindsAreIds
    <3>2. /\ Ready /\ agenda' = <<"start">> /\ job' = job
          /\ queue' = InsertRunNext(queue, running, one)
      BY <1>6, <2>2 DEF Interject
    <3> HIDE DEF one
    <3>3. i \in ToSet(queue')
      BY <1>1, <3>1, <3>2, InsertRunNextElements
    <3>4. QED
      BY <1>3, <3>2, <3>3 DEF Enqueues
  <2>3. QED
    BY <2>1, <2>2
<1>7. ASSUME NEW n \in Notes, NEW next \in BOOLEAN, InjectNotification(n, next)
      PROVE  Kinds
  <2>1. Ready /\ UNCHANGED <<queue, job, suppressed>>
    BY <1>7 DEF InjectNotification
  <2>2. (notes' = notes /\ agenda' = agenda) \/ agenda' = <<"drain">>
    BY <1>7 DEF InjectNotification
  <2>3. QED
    BY <2>1, <2>2 DEF EditsRows, Notifies, Ready
<1>8. ASSUME NEW n \in Notes, DropMonitorNotifications(n) PROVE Kinds
  <2>1. /\ Ready /\ UNCHANGED <<queue, agenda, job, suppressed>>
        /\ notes' = Without(notes, {n})
    BY <1>8 DEF DropMonitorNotifications, actorVars
  <2>2. notes = <<>> => notes' = <<>>
    <3>1. notes' \in Seq(Ids) /\ ToSet(notes') \subseteq ToSet(notes)
      BY <1>1, <2>1, WithoutElements
    <3>2. QED
      BY <1>1, <1>3, <3>1, NothingHeld
  <2>3. QED
    BY <2>1, <2>2 DEF EditsRows, Ready
<1>9. ASSUME Ready, agenda' \in {agenda, <<"start">>}, UNCHANGED <<notes, suppressed, job>>,
             \/ ToSet(queue') = ToSet(queue)
             \/ \E S \in SUBSET Users : queue' = Without(queue, S)
      PROVE  Kinds
  <2>1. CASE ToSet(queue') = ToSet(queue)
    BY <1>9, <2>1 DEF EditsRows, Ready
  <2>2. ASSUME NEW S \in SUBSET Users, queue' = Without(queue, S) PROVE Kinds
    <3>1. ToSet(queue') = ToSet(queue) \ S
      BY <1>1, <2>2, WithoutElements
    <3>2. QED
      BY <1>9, <3>1 DEF EditsRows, Ready
  <2>3. QED
    BY <1>9, <2>1, <2>2
<1>10. ASSUME NEW p \in Users, NEW v, NEW who, RemoveQueuedPrompt(p, v, who) PROVE Kinds
  BY <1>9, <1>10 DEF RemoveQueuedPrompt, untouchedByRows, actorVars
<1>11. ASSUME NEW who, ClearQueue(who) PROVE Kinds
  <2> DEFINE S == {p \in Users \ {running} : p \in ToSet(queue) /\ who \in {None, Owner[p]}}
  <2>1. /\ Ready /\ queue' = Without(queue, S) /\ UNCHANGED <<notes, suppressed, agenda, job>>
    BY <1>11 DEF ClearQueue, untouchedByRows, actorVars
  <2>2. S \in SUBSET Users
    OBVIOUS
  <2> HIDE DEF S
  <2>3. QED
    BY <1>9, <2>1, <2>2
<1>12. ASSUME NEW S \in SUBSET Users, NEW order \in SetToSeqs(S), ReorderQueue(order)
       PROVE  Kinds
  <2>1. IsFiniteSet(S) /\ Cardinality(S) \in Nat
    BY UsersAreFinite, FS_Subset, FS_CardinalityType
  <2>2. order \in [1..Cardinality(S) -> S]
    BY DEF SetToSeqs
  <2>3. order \in Seq(S)
    BY <2>1, <2>2
  <2>4. PICK pinned : queue' = Reorder(queue, pinned, order)
    BY <1>12 DEF ReorderQueue
  <2>5. ToSet(queue') = ToSet(queue)
    BY <1>1, <2>3, <2>4, ReorderElements
  <2>6. QED
    BY <1>9, <1>12, <2>5 DEF ReorderQueue, untouchedByRows, actorVars
<1>13. ASSUME NEW p \in Users, EditQueuedPrompt(p) PROVE Kinds
  BY <1>9, <1>13 DEF EditQueuedPrompt, untouchedByRows, actorVars
<1>14. ASSUME NEW p \in Users, NEW v, NEW who, NEW edited,
              InterjectQueuedPrompt(p, v, who, edited)
       PROVE  Kinds
  <2>1. CASE ~RowMatches(p, v, who)
    BY <1>9, <1>14, <2>1 DEF InterjectQueuedPrompt, untouchedByRows
  <2>2. CASE RowMatches(p, v, who)
    <3> DEFINE q == Without(queue, {p})
    <3>1. /\ p \in ToSet(queue) /\ p # running /\ Ready
          /\ queue' = InsertSendNow(q, running, sendNow, p)
          /\ \/ agenda' = <<"start">> /\ job' = NoJob
             \/ /\ running # None /\ agenda' = Cancelling
                /\ job' = [NoJob EXCEPT !.mode = "send_now"]
      BY <1>14, <2>2 DEF InterjectQueuedPrompt, RowMatches
    <3>2. q \in Seq(Ids) /\ p \in Ids
      BY <1>1, <3>1, WithoutElements
    <3> HIDE DEF q
    <3>3. p \in ToSet(queue')
      BY <3>1, <3>2, InsertSendNowElements
    <3>4. queue' # <<>>
      BY <1>3, <3>3
    <3>5. QED
      BY <3>1, <3>3, <3>4 DEF Enqueues, Cuts
  <2>3. QED
    BY <2>1, <2>2
<1>15. ASSUME NEW mode \in CancelModes, Cancel(mode) PROVE Kinds
  BY <1>15 DEF Cancel, AsksToCancel, lockVars
<1>16. Kinds
  <2> HIDE DEF Kinds
  <2>1. QED
    BY <1>4, <1>5, <1>6, <1>7, <1>8, <1>10, <1>11, <1>12, <1>13, <1>14, <1>15
    DEF Commands
<1>17. QED
  BY <1>2, <1>16

-----------------------------------------------------------------------------
(* What waits while nothing runs.                                          *)

\* The agendas of an actor that has started what it queued.
Settled == {<<>>, <<"drain">>, Cancelling,
            <<"teardown", "ungate", "abort", "answer", "start">>}

\* What waits beside no turn, once the actor has had its start, is the prompt of
\* a plan approval; a cancel therefore takes what ran, or such a prompt.
OnlyPlansWait == agenda \in Settled /\ running = None => ToSet(queue) \subseteq Plans

Waits == OnlyPlansWait /\ CancelEndsOnlyWhatRan

\* The kinds that the proof tells apart have no member in common.
LEMMA KindsDiffer ==
  /\ Users \cap Interjections = {} /\ Users \cap Synthetic = {}
  /\ Wakes \cap Users = {} /\ Plans \cap Users = {}
  /\ Plans \cap UserOrigin = {} /\ Wakes \cap Notes = {}
<1> DEFINE kinds == <<Users, Interjections, Wakes, Crons, Goals, Plans, Notes>>
<1>1. \A k, l \in DOMAIN kinds : k # l => kinds[k] \cap kinds[l] = {}
  BY KindsAreDisjoint
<1>2. 1..7 \subseteq DOMAIN kinds
  OBVIOUS
<1>3. /\ \A k \in 2..7 : kinds[1] \cap kinds[k] = {}
      /\ kinds[6] \cap kinds[2] = {} /\ kinds[3] \cap kinds[7] = {}
  <2> HIDE DEF kinds
  <2>1. QED
    BY <1>1, <1>2
<1>4. /\ kinds[1] = Users /\ kinds[2] = Interjections /\ kinds[3] = Wakes
      /\ kinds[4] = Crons /\ kinds[5] = Goals /\ kinds[6] = Plans /\ kinds[7] = Notes
  OBVIOUS
<1> HIDE DEF kinds
<1>5. /\ Users \cap Interjections = {} /\ Users \cap Wakes = {} /\ Users \cap Crons = {}
      /\ Users \cap Goals = {} /\ Users \cap Plans = {} /\ Users \cap Notes = {}
      /\ Plans \cap Interjections = {} /\ Wakes \cap Notes = {}
  BY <1>3, <1>4
<1>6. QED
  BY <1>5 DEF Synthetic, UserOrigin

LEMMA SettledAgendas ==
  /\ \A a \in Settled : a = <<>> \/ Head(a) \in {"drain", "snapshot", "teardown"}
  /\ Cancelling \in Settled /\ <<>> \in Settled /\ <<"drain">> \in Settled
  BY DEF Settled, Cancelling

\* A handler that has its start to come is not settled.
LEMMA Unsettled ==
  ASSUME agenda' # <<>>,
         Head(agenda') \in {"start", "sweep", "turn_end", "flush", "requeue",
                            "ungate", "abort", "answer"}
  PROVE  agenda' \notin Settled
  BY SettledAgendas

LEMMA StartKeepsWaits ==
  ASSUME Ground, Waits, MaybeStartRunningTask, UNCHANGED <<queue, job>> PROVE Waits'
<1>1. queue = <<>> \/ running' # None \/ (running = None /\ queue # <<>>)
  BY DEF MaybeStartRunningTask
<1>2. queue # <<>> => Head(queue) # None
  BY ListsOfIds, HeadAndTail, NoneIsNoId DEF Ground
<1>3. OnlyPlansWait'
  BY <1>1, <1>2, ShortLists DEF MaybeStartRunningTask, OnlyPlansWait
<1>4. started \subseteq started'
  BY DEF MaybeStartRunningTask
<1>5. QED
  BY <1>3, <1>4 DEF Waits, CancelEndsOnlyWhatRan

LEMMA CommandsKeepWaits ==
  ASSUME Ground, Waits, Commands PROVE Waits'
<1>1. running' = running /\ (Ready => agenda = <<>> /\ agenda \in Settled)
  BY CommandKinds, SettledAgendas DEF Ready
<1>2. started' = started
  BY ZenonT(60) DEF Commands, Prompt, TaskCompletes, Interject, InjectNotification,
     DropMonitorNotifications, RemoveQueuedPrompt, InterjectQueuedPrompt, ClearQueue,
     ReorderQueue, EditQueuedPrompt, Cancel, untouchedByRows, seenVars
<1>3. OnlyPlansWait'
  <2>1. CASE Enqueues
    <3>1. agenda' = <<"start">>
      BY <2>1 DEF Enqueues
    <3>2. agenda' \notin Settled
      BY <3>1, Unsettled
    <3>3. QED
      BY <3>2 DEF OnlyPlansWait
  <2>2. CASE Cuts
    BY <1>1, <2>2 DEF Cuts, OnlyPlansWait
  <2>3. CASE AsksToCancel \/ EditsRows \/ Notifies
    BY <1>1, <2>3 DEF AsksToCancel, EditsRows, Notifies, OnlyPlansWait, Waits
  <2>4. CASE OnlyMarks
    BY <1>1, <2>4 DEF OnlyMarks, OnlyPlansWait, Waits
  <2>5. QED
    BY <2>1, <2>2, <2>3, <2>4, CommandKinds
<1>4. CancelEndsOnlyWhatRan'
  <2>1. CASE OnlyMarks
    BY <1>2, <2>1 DEF OnlyMarks, CancelEndsOnlyWhatRan, Waits
  <2>2. CASE ~OnlyMarks
    <3>1. /\ Ready
          /\ job' = job \/ (\E mode : job' = [NoJob EXCEPT !.mode = mode]) \/ job' = NoJob
      BY <2>2, CommandKinds DEF Enqueues, Cuts, AsksToCancel, EditsRows, Notifies
    <3>2. Closing' = {}
      BY <3>1, JobLedgerReady, ReadyJobs, ShortLists DEF Ground, Ledger, Closing
    <3>3. QED
      BY <3>2 DEF Closing, CancelEndsOnlyWhatRan
  <2>3. QED
    BY <2>1, <2>2
<1>5. QED
  BY <1>3, <1>4 DEF Waits

LEMMA TeardownKeepsWaits ==
  ASSUME Ground, Life, Waits, CancelTeardown PROVE Waits'
<1>1. /\ queue \in Seq(Ids) /\ Begun /\ agenda \in Agendas /\ running \in Ids \cup {None}
      /\ job'.closing = CancelTakes(job.mode) /\ job'.mode = job.mode
      /\ started' = started
  BY ListsOfIds, TeardownParts, TasksOfIds
  DEF Ground, Life, PinInv, CancelTeardown, TypeOK, ActorTypes
<1>2. Doing("teardown") /\ agenda' = Tail(agenda)
  BY DEF CancelTeardown
<1>3. /\ agenda = <<"teardown", "ungate", "abort", "answer", "start">>
      /\ agenda' = <<"ungate", "abort", "answer", "start">>
  BY <1>1, <1>2, AgendaSteps DEF Agendas, Doing, Completing, Cancelling
<1>4. OnlyPlansWait'
  BY <1>3, Unsettled DEF OnlyPlansWait
<1>5. CancelEndsOnlyWhatRan'
  <2>1. CASE job.mode = "teardown"
    BY <1>1, <2>1 DEF CancelEndsOnlyWhatRan
  <2>2. CASE job.mode # "teardown" /\ queue = <<>>
    <3>1. job'.closing = <<>>
      BY <1>1, <2>2 DEF CancelTakes
    <3>2. QED
      BY <3>1, ShortLists DEF CancelEndsOnlyWhatRan
  <2>3. CASE job.mode # "teardown" /\ queue # <<>>
    <3> PICK p : p = Head(queue)
      OBVIOUS
    <3>1. job'.closing = SubSeq(queue, 1, 1)
      BY <1>1, <2>3 DEF CancelTakes
    <3>2. ToSet(SubSeq(queue, 1, 1)) = {p}
      <4> DEFINE c == SubSeq(queue, 1, 1)
      <4>1. c \in Seq(Ids) /\ Len(c) = 1 /\ c[1] = p
        BY <1>1, <2>3
      <4> HIDE DEF c
      <4>2. DOMAIN c = {1}
        BY <4>1
      <4>3. ToSet(c) = {p}
        BY <4>1, <4>2 DEF ToSet
      <4>4. QED
        BY <4>3 DEF c
    <3>3. ToSet(job'.closing) = {p} /\ p \in ToSet(queue)
      BY <1>1, <2>3, <3>1, <3>2, HeadAndTail
    <3>4. CASE running # None
      BY <1>1, <2>3, <3>3, <3>4, RunningInQueue DEF Begun, CancelEndsOnlyWhatRan
    <3>5. CASE running = None
      <4>1. ToSet(queue) \subseteq Plans
        BY <1>3, <3>5 DEF Settled, OnlyPlansWait, Waits
      <4>2. QED
        BY <3>3, <4>1, KindsDiffer DEF CancelEndsOnlyWhatRan
    <3>6. QED
      BY <3>4, <3>5
  <2>4. QED
    BY <2>1, <2>2, <2>3
<1>6. QED
  BY <1>4, <1>5 DEF Waits

LEMMA ActorStepsKeepWaits ==
  ASSUME Ground, Life, Waits, ActorSteps PROVE Waits'
<1>1. agenda \in Agendas
  BY DEF Ground, PinInv
\* A step of a handler that has its start to come.
<1>2. ASSUME agenda' \notin Settled, UNCHANGED <<job, started>> PROVE Waits'
  BY <1>2 DEF Waits, OnlyPlansWait, CancelEndsOnlyWhatRan
<1>3. CASE Start
  BY <1>3, StartKeepsWaits DEF Start, untouchedByStart
<1>4. CASE CancelSnapshot
  <2>1. /\ UNCHANGED <<queue, running, started>> /\ Doing("snapshot")
        /\ job'.mode = job.mode /\ job'.closing = job.closing
    BY <1>4 DEF CancelSnapshot, lockVars, Ground, TypeOK, ActorTypes
  <2>2. agenda \in Settled
    BY <1>1, <2>1, SettledAgendas DEF Agendas, Doing, Completing
  <2>3. QED
    BY <2>1, <2>2 DEF Waits, OnlyPlansWait, CancelEndsOnlyWhatRan
<1>5. CASE CancelTeardown
  BY <1>5, TeardownKeepsWaits
<1>6. CASE CancelAnswers
  <2>1. agenda' = <<"start">> /\ job'.closing = <<>>
    BY <1>1, <1>6, AgendaSteps DEF CancelAnswers, NoJob
  <2>2. agenda' \notin Settled
    BY <2>1, Unsettled
  <2>3. QED
    BY <2>1, <2>2, ShortLists DEF Waits, OnlyPlansWait, CancelEndsOnlyWhatRan
<1>7. CASE CancelUngates \/ CancelAbort
  <2>1. /\ Doing("ungate") \/ Doing("abort")
        /\ agenda' = Tail(agenda) /\ UNCHANGED <<job, started>>
    BY <1>7 DEF CancelUngates, CancelAbort, seenVars
  <2>2. agenda' = <<"abort", "answer", "start">> \/ agenda' = <<"answer", "start">>
    BY <1>1, <2>1, AgendaSteps
  <2>3. agenda' \notin Settled
    BY <2>2, Unsettled
  <2>4. QED
    BY <1>2, <2>1, <2>3
<1>8. CASE HandleCompletion \/ SweepMonitorBuffer \/ TurnEnd
  <2>1. UNCHANGED <<job, started>>
    BY <1>8 DEF HandleCompletion, SweepMonitorBuffer, TurnEnd, seenVars
  <2>2. \/ agenda' = <<"sweep", "turn_end", "flush", "start", "drain">>
        \/ agenda' = <<"turn_end", "flush", "start", "drain">>
        \/ agenda' = <<"flush", "start", "drain">>
    BY <1>1, <1>8, AgendaSteps DEF HandleCompletion, SweepMonitorBuffer, TurnEnd, Completing
  <2>3. agenda' \notin Settled
    BY <2>2, Unsettled
  <2>4. QED
    BY <1>2, <2>1, <2>3
<1>9. CASE FlushStrandedInterjections \/ RequeueStranded
  <2>1. UNCHANGED <<job, started>>
    BY <1>9 DEF FlushStrandedInterjections, RequeueStranded, seenVars
  <2>2. agenda' = <<"start", "drain">> \/ agenda' = <<"requeue", "start", "drain">>
    BY <1>1, <1>9, FlushSteps
  <2>3. agenda' \notin Settled
    BY <2>2, Unsettled
  <2>4. QED
    BY <1>2, <2>1, <2>3
<1>10. CASE MaybeDrainNotifications
  <2> DEFINE all == notes \o buffer
             muted == IF goal = "off" THEN ToSet(all) \cap GoalTurnNotes ELSE ToSet(all)
             told == Without(all, muted)
  <2>1. /\ UNCHANGED <<running, job, started>> /\ Doing("drain") /\ Tail(agenda) = <<>>
    BY <1>1, <1>10, AgendaSteps DEF MaybeDrainNotifications
  <2>2. CASE ~Idle
    <3>1. queue' = queue
      BY <1>10, <2>2 DEF MaybeDrainNotifications
    <3>2. agenda \in Settled
      BY <1>1, <2>1, SettledAgendas DEF Agendas, Doing, Completing, Cancelling
    <3>3. QED
      BY <2>1, <3>1, <3>2 DEF Waits, OnlyPlansWait, CancelEndsOnlyWhatRan
  <2>3. CASE Idle /\ told = <<>>
    <3>1. queue' = SubSeq(told, 1, 0)
      BY <1>10, <2>3 DEF MaybeDrainNotifications
    <3>2. queue' = <<>>
      BY <3>1, <2>3
    <3>3. QED
      BY <2>1, <3>2, ShortLists DEF Waits, OnlyPlansWait, CancelEndsOnlyWhatRan
  <2>4. CASE Idle /\ told # <<>>
    <3>1. agenda' = <<"start">> \o Tail(agenda)
      BY <1>10, <2>4 DEF MaybeDrainNotifications
    <3>2. <<"start">> \o <<>> = <<"start">>
      OBVIOUS
    <3>3. agenda' = <<"start">>
      BY <2>1, <3>1, <3>2
    <3>4. agenda' \notin Settled
      BY <3>3, Unsettled
    <3>5. QED
      BY <1>2, <2>1, <3>4
  <2>5. QED
    BY <2>2, <2>3, <2>4
<1>11. QED
  BY <1>3, <1>4, <1>5, <1>6, <1>7, <1>8, <1>9, <1>10 DEF ActorSteps

LEMMA WaitsKept == Spec => []Waits
<1>1. Init => Waits
  BY ShortLists DEF Init, Waits, OnlyPlansWait, CancelEndsOnlyWhatRan, NoJob
<1>2. Ground /\ Life /\ Waits /\ [Next]_vars => Waits'
  <2> SUFFICES ASSUME Ground, Life, Waits, [Next]_vars PROVE Waits'
    OBVIOUS
  <2>1. queue \in Seq(Ids)
    BY ListsOfIds DEF Ground
  <2>2. ASSUME UNCHANGED <<running, agenda, job, started>>,
               ToSet(queue') \subseteq ToSet(queue) \cup Plans
        PROVE  Waits'
    BY <2>2 DEF Waits, OnlyPlansWait, CancelEndsOnlyWhatRan
  <2>3. ASSUME NEW t \in Ids, Turn(t) PROVE Waits'
    <3>1. UNCHANGED <<running, agenda, job, started>>
      BY <2>3 DEF Turn, TurnBegins, TurnEmits, TurnMerges, TurnInjects, TurnRound,
         TurnSetsGoal, TurnReports, TurnConsumes, TurnParks, TurnUnparks, TurnTails,
         TurnUnscopes, TurnFinishes, TurnReaped, turnOnly, actorVars
    <3>2. queue' = queue \/ \E x : queue' = Sweep(queue, running, {x})
      BY <2>3 DEF Turn, TurnBegins, TurnEmits, TurnMerges, TurnInjects, TurnRound,
         TurnSetsGoal, TurnReports, TurnConsumes, TurnParks, TurnUnparks, TurnTails,
         TurnUnscopes, TurnFinishes, TurnReaped
    <3>3. ToSet(queue') \subseteq ToSet(queue)
      <4>1. ASSUME NEW x, queue' = Sweep(queue, running, {x})
            PROVE  ToSet(queue') \subseteq ToSet(queue)
        <5> PICK D : D = {x}
          OBVIOUS
        <5>1. ToSet(Sweep(queue, running, D)) \subseteq ToSet(queue)
          BY <2>1, SweepElements
        <5>2. QED
          BY <4>1, <5>1
      <4>2. QED
        BY <3>2, <4>1
    <3>4. QED
      BY <2>2, <3>1, <3>3
  <2>4. CASE OtherTasks
    <3>1. CASE StarterStarts \/ ResumeStarts
      BY <3>1, StartKeepsWaits DEF StarterStarts, ResumeStarts, untouchedByStart, actorVars
    <3>2. CASE ZombieDrops
      BY <2>2, <3>2 DEF ZombieDrops, turnOnly, actorVars
    <3>3. ASSUME NEW p \in Plans, ResumeQueues(p) PROVE Waits'
      <4>1. UNCHANGED <<running, agenda, job, started>> /\ queue' = Append(queue, p)
        BY <3>3 DEF ResumeQueues, actorVars
      <4>2. ToSet(queue') = ToSet(queue) \cup {p}
        BY <2>1, <4>1, KindsAreIds, AppendElements
      <4>3. QED
        BY <2>2, <4>1, <4>2
    <3>4. QED
      BY <2>4, <3>1, <3>2, <3>3 DEF OtherTasks
  <2>5. CASE UNCHANGED vars
    BY <2>2, <2>5 DEF vars, lockVars, actorVars, seenVars
  <2>6. QED
    BY <2>3, <2>4, <2>5, CommandsKeepWaits, ActorStepsKeepWaits DEF Next
<1>3. QED
  BY <1>1, <1>2, LifeKept, PTL DEF Spec

\* A cancel other than a teardown ends a user's prompt only if its turn was started:
\* what waits behind the front survives, and so does a user prompt that a sweep, a
\* consumption or another starter has brought to the front.
THEOREM CancelsSpareTheWaiting == Spec => []CancelEndsOnlyWhatRan
<1>1. Waits => CancelEndsOnlyWhatRan
  BY DEF Waits
<1>2. QED
  BY <1>1, WaitsKept, PTL

-----------------------------------------------------------------------------
(* Why no notification is left pending in an idle session.                 *)

\* A user prompt stands behind the turn that its send cuts, so that the session is
\* not idle when the cancel is over.
SendWaits ==
  job.mode = "send_now" =>
    /\ Doing("snapshot") \/ Doing("teardown") =>
         running # None /\ \E u \in Users \cap ToSet(queue) : u # running
    /\ Ending => Users \cap ToSet(queue) # {}

\* A prompt was rewound, or is about to be.
Rewound == job.rewound \/ \E p \in Ids : fate[p] = "rewound"

DrainToCome == agenda # <<>> /\ agenda[Len(agenda)] = "drain"

\* Pending notifications are drained by a step to come, are silenced, wait for the
\* end of a turn, or were left by a rewind.
Drains ==
  /\ job.rewound => Closing # {}
  /\ Ending => suppressed \/ job.rewound
  /\ running = None /\ queue = <<>> /\ ~suppressed /\ notes # <<>> =>
       DrainToCome \/ Rewound

Quiet == SendWaits /\ Drains

LEMMA LastSteps ==
  /\ <<"turn_end", "flush", "start", "drain">>
       [Len(<<"turn_end", "flush", "start", "drain">>)] = "drain"
  /\ <<"requeue", "start", "drain">>[Len(<<"requeue", "start", "drain">>)] = "drain"
  /\ <<"flush", "start", "drain">>[Len(<<"flush", "start", "drain">>)] = "drain"
  /\ <<"start", "drain">>[Len(<<"start", "drain">>)] = "drain"
  /\ <<"drain">>[Len(<<"drain">>)] = "drain"
  /\ Completing # <<>> /\ Completing[Len(Completing)] = "drain"
  /\ <<"start">>[Len(<<"start">>)] = "start"
  /\ Cancelling[Len(Cancelling)] = "start"
<1>1. Len(Completing) = 5 /\ Completing[5] = "drain"
  BY DEF Completing
<1>2. Len(Cancelling) = 6 /\ Cancelling[6] = "start"
  BY DEF Cancelling
<1>3. QED
  BY <1>1, <1>2

\* What was rewound stays so.
LEMMA RewoundStays ==
  ASSUME Ground, KeepsEnds, \E p \in Ids : fate[p] = "rewound"
  PROVE  \E p \in Ids : fate'[p] = "rewound"
BY WaitingFates DEF KeepsEnds

\* A step that leaves all of it alone.
LEMMA QuietKept ==
  ASSUME Ground, Quiet, KeepsEnds, UNCHANGED <<agenda, job, running, suppressed>>,
         ToSet(queue) \cap Users \subseteq ToSet(queue'),
         queue' = <<>> /\ notes' # <<>> =>
           (queue = <<>> /\ notes # <<>>) \/ running # None \/ suppressed \/ job.rewound
  PROVE  Quiet'
<1>1. /\ Closing' = Closing /\ \A step : Doing(step)' <=> Doing(step)
      /\ Ending' <=> Ending
  BY DEF Closing, Ending, Doing
<1>2. SendWaits'
  BY <1>1 DEF Quiet, SendWaits
<1>3. Rewound => Rewound'
  BY RewoundStays DEF Rewound
<1>4. DrainToCome' <=> DrainToCome
  BY DEF DrainToCome
<1>5. job.rewound => Rewound'
  BY DEF Rewound
<1>6. Drains'
  BY <1>1, <1>3, <1>4, <1>5 DEF Quiet, Drains
<1>7. QED
  BY <1>2, <1>6 DEF Quiet

LEMMA StartKeepsQuiet ==
  ASSUME Ground, Quiet, KeepsEnds, MaybeStartRunningTask,
         UNCHANGED <<queue, notes, suppressed, agenda, job>>
  PROVE  Quiet'
<1>1. CASE running' = running
  BY <1>1, QuietKept
<1>2. CASE running = None /\ queue # <<>>
  <2>1. /\ Closing' = Closing /\ \A step : Doing(step)' <=> Doing(step)
        /\ Ending' <=> Ending
    BY DEF Closing, Ending, Doing
  <2>2. SendWaits'
    BY <1>2, <2>1 DEF Quiet, SendWaits
  <2>3. Drains'
    BY <1>2, <2>1 DEF Quiet, Drains
  <2>4. QED
    BY <2>2, <2>3 DEF Quiet
<1>3. QED
  BY <1>1, <1>2 DEF MaybeStartRunningTask

\* In the plain agendas only the pending notifications matter.
LEMMA PlainQuiet ==
  ASSUME agenda' \in Plain, ~job'.rewound,
         job'.mode = "send_now" /\ Doing("snapshot")' =>
           running' # None /\ \E u \in Users \cap ToSet(queue') : u # running',
         running' = None /\ queue' = <<>> /\ ~suppressed' /\ notes' # <<>> =>
           DrainToCome' \/ Rewound'
  PROVE  Quiet'
  BY PlainAgendas DEF Quiet, SendWaits, Drains

LEMMA CommandsKeepQuiet ==
  ASSUME Ground, Waits, Quiet, Commands PROVE Quiet'
<1>1. running' = running /\ KeepsEnds /\ queue \in Seq(Ids) /\ JobLedger
  BY CommandKinds, CommandsKeepEnds, ListsOfIds DEF Ground, Ledger
<1>2. ASSUME Ready
      PROVE  /\ agenda = <<>> /\ ~job.rewound /\ ~Ending
             /\ running = None => ToSet(queue) \subseteq Plans
             /\ Rewound => Rewound'
  <2>1. agenda = <<>> /\ ~Ending
    BY <1>2 DEF Ready, Ending, Doing
  <2>2. ~job.rewound
    BY <1>1, <2>1 DEF JobLedger
  <2>3. running = None => ToSet(queue) \subseteq Plans
    BY <2>1, SettledAgendas DEF Waits, OnlyPlansWait
  <2>4. Rewound => Rewound'
    BY <1>1, <2>2, RewoundStays DEF Rewound
  <2>5. QED
    BY <2>1, <2>2, <2>3, <2>4
<1>3. /\ ~NoJob.rewound /\ \A mode : [NoJob EXCEPT !.mode = mode].rewound = FALSE
      /\ \A mode : [NoJob EXCEPT !.mode = mode].mode = mode
  BY DEF NoJob
<1>4. <<"start">> \in Plain /\ Cancelling \in Plain /\ <<"drain">> \in Plain /\ <<>> \in Plain
  BY DEF Plain
<1>5. Head(<<"start">>) # "snapshot" /\ Head(<<"drain">>) # "snapshot"
  OBVIOUS
<1>6. CASE Enqueues
  <2>1. /\ agenda' = <<"start">> /\ ~job'.rewound /\ queue' # <<>>
    BY <1>2, <1>3, <1>6 DEF Enqueues
  <2>2. QED
    BY <1>4, <1>5, <2>1, PlainQuiet DEF Doing
<1>7. CASE Cuts
  BY <1>1, <1>3, <1>4, <1>7, PlainQuiet DEF Cuts
<1>8. CASE AsksToCancel
  <2>1. /\ agenda' = Cancelling /\ ~job'.rewound /\ job'.mode # "send_now"
        /\ UNCHANGED <<queue, notes, suppressed>>
    BY <1>3, <1>8, KnownModes DEF AsksToCancel
  <2>2. running = None /\ queue = <<>> /\ ~suppressed /\ notes # <<>> => Rewound'
    BY <1>2, <1>8 DEF AsksToCancel, Quiet, Drains, DrainToCome
  <2>3. QED
    BY <1>1, <1>4, <2>1, <2>2, PlainQuiet
<1>9. CASE EditsRows
  <2>1. /\ agenda' \in {<<>>, <<"start">>} /\ ~job'.rewound /\ suppressed' = suppressed
        /\ Ready
    BY <1>2, <1>9 DEF EditsRows
  <2>2. ASSUME running' = None, queue' = <<>>, ~suppressed', notes' # <<>> PROVE Rewound'
    <3>1. ToSet(queue) \subseteq Users \cap Plans
      BY <1>1, <1>2, <1>9, <2>2, ShortLists DEF EditsRows
    <3>2. queue = <<>>
      BY <1>1, <3>1, KindsDiffer, NothingHeld
    <3>3. QED
      BY <1>1, <1>2, <1>9, <2>1, <2>2, <3>2 DEF EditsRows, Quiet, Drains, DrainToCome
  <2>3. ~Doing("snapshot")'
    BY <1>5, <2>1 DEF Doing
  <2>4. agenda' \in Plain
    BY <1>4, <2>1
  <2>5. QED
    BY <2>1, <2>2, <2>3, <2>4, PlainQuiet
<1>10. CASE Notifies
  <2>1. agenda' = <<"drain">> /\ ~job'.rewound
    BY <1>2, <1>10 DEF Notifies
  <2>2. ~Doing("snapshot")' /\ DrainToCome'
    BY <1>5, <2>1, LastSteps DEF Doing, DrainToCome
  <2>3. QED
    BY <1>4, <2>1, <2>2, PlainQuiet
<1>11. CASE OnlyMarks
  BY <1>1, <1>11, QuietKept DEF OnlyMarks
<1>12. QED
  BY <1>6, <1>7, <1>8, <1>9, <1>10, <1>11, CommandKinds

LEMMA TeardownKeepsQuiet ==
  ASSUME Ground, Quiet, CancelTeardown PROVE Quiet'
<1> DEFINE rewind == job.mode = "rewind" /\ rewindable
<1>1. /\ queue \in Seq(Ids) /\ agenda \in Agendas
      /\ job'.closing = CancelTakes(job.mode) /\ job'.mode = job.mode
      /\ ToSet(queue) = Closing' \cup ToSet(queue')
      /\ Doing("teardown") /\ agenda' = Tail(agenda)
      /\ job'.rewound = (rewind /\ queue # <<>>) /\ suppressed' = ~(rewind /\ queue # <<>>)
  BY ListsOfIds, TeardownParts
  DEF Ground, PinInv, CancelTeardown, TypeOK, ActorTypes
<1>2. agenda' = <<"ungate", "abort", "answer", "start">>
  BY <1>1, AgendaSteps
<1>3. ~Doing("snapshot")' /\ ~Doing("teardown")'
  BY <1>2 DEF Doing
<1>4. job.mode # "teardown" /\ queue # <<>> => Closing' = {Head(queue)}
  <2> DEFINE c == SubSeq(queue, 1, 1)
  <2>1. job.mode # "teardown" /\ queue # <<>> => Closing' = ToSet(c)
    BY <1>1 DEF CancelTakes, Closing
  <2>2. queue # <<>> => c \in Seq(Ids) /\ Len(c) = 1 /\ c[1] = Head(queue)
    BY <1>1
  <2> HIDE DEF c
  <2>3. queue # <<>> => DOMAIN c = {1} /\ c[1] = Head(queue)
    BY <2>2
  <2>4. queue # <<>> => ToSet(c) = {Head(queue)}
    BY <2>3 DEF ToSet
  <2>5. QED
    BY <2>1, <2>4
<1>5. SendWaits'
  <2>1. ASSUME job.mode = "send_now" PROVE Users \cap ToSet(queue') # {}
    <3>1. PICK u \in Users \cap ToSet(queue) : running # None /\ u # running
      BY <1>1, <2>1 DEF Quiet, SendWaits
    <3>2. Closing' = {running}
      BY <1>4, <2>1, <3>1, RunningInQueue
    <3>3. QED
      BY <1>1, <3>1, <3>2
  <2>2. QED
    BY <1>1, <1>3, <2>1 DEF SendWaits
<1>6. Drains'
  <2>1. job'.rewound => Closing' # {}
    BY <1>1, <1>4
  <2>2. suppressed' \/ job'.rewound
    BY <1>1
  <2>3. QED
    BY <2>1, <2>2 DEF Drains, Rewound
<1>7. QED
  BY <1>5, <1>6 DEF Quiet

LEMMA AnswerKeepsQuiet ==
  ASSUME Ground, Quiet, CancelAnswers PROVE Quiet'
<1>1. /\ agenda' = <<"start">> /\ job' = NoJob /\ UNCHANGED <<queue, running, notes>>
      /\ suppressed' = (suppressed /\ job.mode # "send_now") /\ Doing("answer")
      /\ Becomes(Closing, IF job.rewound THEN "rewound" ELSE "cancelled")
      /\ Closing \subseteq Ids
  BY AgendaSteps, ListsOfIds DEF CancelAnswers, StillSilent, Ground, PinInv, Closing
<1>2. ASSUME queue' = <<>>, ~suppressed' PROVE Rewound'
  <2>1. job.mode # "send_now"
    BY <1>1, <1>2, ShortLists DEF Quiet, SendWaits, Ending
  <2>2. job.rewound /\ Closing # {}
    BY <1>1, <1>2, <2>1 DEF Quiet, Drains, Ending
  <2>3. QED
    BY <1>1, <2>2 DEF Becomes, Rewound
<1>3. agenda' \in Plain /\ ~job'.rewound /\ ~Doing("snapshot")'
  BY <1>1 DEF Plain, NoJob, Doing
<1>4. QED
  BY <1>2, <1>3, PlainQuiet

LEMMA ActorStepsKeepQuiet ==
  ASSUME Ground, Quiet, ActorSteps PROVE Quiet'
<1>1. agenda \in Agendas /\ JobLedger
  BY DEF Ground, PinInv, Ledger
<1>2. CASE CancelTeardown
  BY <1>2, TeardownKeepsQuiet
<1>3. CASE CancelAnswers
  BY <1>3, AnswerKeepsQuiet
<1>4. CASE ~CancelAnswers /\ ~CancelTeardown
  <2>1. KeepsEnds
    BY <1>4, ActorStepsKeepEnds
  \* The drain is still to come.
  <2>2. ASSUME job' = job, ~Ending,
               \/ agenda' = <<"drain">>
               \/ agenda' = <<"start", "drain">>
               \/ agenda' = <<"requeue", "start", "drain">>
               \/ agenda' = <<"flush", "start", "drain">>
               \/ agenda' = <<"turn_end", "flush", "start", "drain">>
               \/ agenda' = Completing
        PROVE  Quiet'
    <3>1. agenda' \in Plain /\ ~Doing("snapshot")'
      BY <2>2 DEF Plain, Doing, Completing
    <3>2. DrainToCome'
      <4>1. CASE agenda' = <<"drain">>
        BY <4>1, LastSteps DEF DrainToCome
      <4>2. CASE agenda' = <<"start", "drain">>
        BY <4>2, LastSteps DEF DrainToCome
      <4>3. CASE agenda' = <<"requeue", "start", "drain">>
        BY <4>3, LastSteps DEF DrainToCome
      <4>4. CASE agenda' = <<"flush", "start", "drain">>
        BY <4>4, LastSteps DEF DrainToCome
      <4>5. CASE agenda' = <<"turn_end", "flush", "start", "drain">>
        BY <4>5, LastSteps DEF DrainToCome
      <4>6. CASE agenda' = Completing
        BY <4>6, LastSteps DEF DrainToCome
      <4>7. QED
        BY <2>2, <4>1, <4>2, <4>3, <4>4, <4>5, <4>6
    <3>3. QED
      BY <1>1, <2>2, <3>1, <3>2, PlainQuiet DEF JobLedger
  <2>3. CASE HandleCompletion
    <3>1. agenda' = Completing /\ job' = job /\ agenda = <<>>
      BY <2>3 DEF HandleCompletion
    <3>2. QED
      BY <2>2, <3>1 DEF Ending, Doing
  <2>4. CASE SweepMonitorBuffer \/ TurnEnd
    <3>2. /\ job' = job
          /\ \/ agenda' = <<"turn_end", "flush", "start", "drain">>
             \/ agenda' = <<"flush", "start", "drain">>
      BY <1>1, <2>4, AgendaSteps DEF SweepMonitorBuffer, TurnEnd
    <3>3. ~Ending
      BY <2>4 DEF SweepMonitorBuffer, TurnEnd, Ending, Doing
    <3>4. QED
      BY <2>2, <3>2, <3>3
  <2>5. CASE FlushStrandedInterjections \/ RequeueStranded
    <3>1. agenda' = <<"start", "drain">> \/ agenda' = <<"requeue", "start", "drain">>
      BY <1>1, <2>5, FlushSteps
    <3>2. job' = job /\ ~Ending
      BY <2>5 DEF FlushStrandedInterjections, RequeueStranded, Ending, Doing
    <3>3. QED
      BY <2>2, <3>1, <3>2
  <2>6. CASE Start
    <3>1. /\ MaybeStartRunningTask /\ UNCHANGED <<queue, notes, suppressed, job>>
          /\ Doing("start") /\ agenda' = Tail(agenda) /\ agenda' \in {<<>>, <<"drain">>}
      BY <1>1, <2>6, AgendaSteps DEF Start, untouchedByStart
    <3>2. CASE agenda' = <<"drain">>
      BY <2>2, <3>1, <3>2 DEF Ending, Doing
    <3>3. CASE agenda' = <<>>
      <4>1. agenda = <<"start">>
        <5>1. agenda = <<"start">> \/ agenda = <<"start", "drain">>
          BY <1>1, <3>1 DEF Agendas, Doing, Completing, Cancelling
        <5>2. ASSUME agenda = <<"start", "drain">> PROVE FALSE
          <6>1. agenda' = <<"drain">>
            BY <3>1, <5>2
          <6>2. QED
            BY <3>3, <6>1
        <5>3. QED
          BY <5>1, <5>2
      <4>2. ~job.rewound
        BY <1>1, <3>1 DEF JobLedger, Ending, Doing
      <4>3. ASSUME running' = None, queue' = <<>>, ~suppressed', notes' # <<>>
            PROVE  Rewound'
        <5>1. running = None
          BY <3>1, <4>3 DEF MaybeStartRunningTask
        <5>2. ~DrainToCome
          BY <4>1, LastSteps DEF DrainToCome
        <5>3. Rewound
          BY <3>1, <4>3, <5>1, <5>2 DEF Quiet, Drains
        <5>4. QED
          BY <2>1, <4>2, <5>3, RewoundStays DEF Rewound
      <4>4. agenda' \in Plain /\ ~Doing("snapshot")'
        BY <3>3 DEF Plain, Doing
      <4>5. QED
        BY <3>1, <4>2, <4>3, <4>4, PlainQuiet
    <3>4. QED
      BY <3>1, <3>2, <3>3
  <2>7. CASE CancelSnapshot
    <3>1. /\ UNCHANGED <<queue, notes, suppressed, running>> /\ Doing("snapshot")
          /\ agenda' = Tail(agenda)
          /\ job'.mode = job.mode /\ job'.closing = job.closing /\ job'.rewound = job.rewound
      BY <2>7 DEF CancelSnapshot, lockVars, Ground, TypeOK, ActorTypes
    <3>2. agenda = Cancelling
      BY <1>1, <3>1 DEF Agendas, Doing, Completing
    <3>3. ~job.rewound
      BY <1>1, <3>1 DEF JobLedger, Ending, Doing
    <3>4. agenda' = <<"teardown", "ungate", "abort", "answer", "start">>
      BY <1>1, <3>1, AgendaSteps
    <3>5. ~Ending' /\ ~Doing("snapshot")'
      BY <3>4 DEF Ending, Doing
    <3>6. SendWaits'
      BY <3>1, <3>5 DEF Quiet, SendWaits
    <3>7. ~DrainToCome
      BY <3>2, LastSteps DEF DrainToCome
    <3>8. Rewound => Rewound'
      BY <2>1, <3>3, RewoundStays DEF Rewound
    <3>9. Drains'
      BY <3>1, <3>3, <3>5, <3>7, <3>8 DEF Quiet, Drains
    <3>10. QED
      BY <3>6, <3>9 DEF Quiet
  <2>10. CASE CancelUngates \/ CancelAbort
    <3>1. /\ Doing("ungate") \/ Doing("abort")
          /\ agenda' = Tail(agenda)
          /\ UNCHANGED <<queue, notes, suppressed, running, job>>
      BY <2>10 DEF CancelUngates, CancelAbort, lockVars
    <3>2. agenda' = <<"abort", "answer", "start">> \/ agenda' = <<"answer", "start">>
      BY <1>1, <3>1, AgendaSteps
    <3>3. Ending
      BY <3>1 DEF Ending
    <3>4. ~Doing("snapshot")' /\ ~Doing("teardown")'
      BY <3>2 DEF Doing
    <3>5. SendWaits'
      BY <3>1, <3>3, <3>4 DEF Quiet, SendWaits
    <3>6. suppressed \/ job.rewound
      BY <3>3 DEF Quiet, Drains
    <3>7. job.rewound => Closing' # {} /\ Rewound'
      BY <3>1 DEF Quiet, Drains, Closing, Rewound
    <3>8. Drains'
      BY <3>1, <3>6, <3>7 DEF Drains
    <3>9. QED
      BY <3>5, <3>8 DEF Quiet
  <2>8. CASE MaybeDrainNotifications
    <3>1. /\ UNCHANGED <<running, suppressed, job>> /\ Doing("drain") /\ Tail(agenda) = <<>>
          /\ agenda' \in {Tail(agenda), <<"start">> \o Tail(agenda)}
          /\ IF Idle THEN notes' = <<>> ELSE UNCHANGED <<notes, queue>>
      BY <1>1, <2>8, AgendaSteps DEF MaybeDrainNotifications
    <3>2. <<"start">> \o <<>> = <<"start">>
      OBVIOUS
    <3>3. agenda' \in {<<>>, <<"start">>}
      BY <3>1, <3>2
    <3>4. agenda' \in Plain /\ ~Doing("snapshot")'
      BY <3>3 DEF Plain, Doing
    <3>5. ~job.rewound
      BY <1>1, <3>1 DEF JobLedger, Ending, Doing
    <3>6. ~(running' = None /\ queue' = <<>> /\ ~suppressed' /\ notes' # <<>>)
      BY <3>1 DEF Idle
    <3>7. QED
      BY <3>1, <3>4, <3>5, <3>6, PlainQuiet
  <2>9. QED
    BY <1>4, <2>3, <2>4, <2>5, <2>6, <2>7, <2>8, <2>10 DEF ActorSteps
<1>5. QED
  BY <1>2, <1>3, <1>4, ActorStepsKeepEnds DEF ActorSteps

LEMMA TurnKeepsQuiet ==
  ASSUME Ground, Life, Quiet, NEW t \in Ids, Turn(t) PROVE Quiet'
<1>1. queue \in Seq(Ids) /\ notes \in Seq(Ids) /\ KeepsEnds
  BY ListsOfIds, TurnKeepsEnds DEF Ground
<1>2. UNCHANGED <<agenda, job, running, suppressed>>
  BY DEF Turn, TurnBegins, TurnEmits, TurnMerges, TurnInjects, TurnRound, TurnSetsGoal,
     TurnReports, TurnConsumes, TurnParks, TurnUnparks, TurnTails, TurnUnscopes,
     TurnFinishes, TurnReaped, turnOnly, actorVars
<1>3. CASE UNCHANGED <<queue, notes>>
  BY <1>1, <1>2, <1>3, QuietKept
<1>4. ASSUME NEW x \in Wakes \cup Notes, TurnConsumes(t, x) PROVE Quiet'
  <2>1. /\ InTurn(t)
        /\ queue' = IF x \in Wakes THEN Sweep(queue, running, {x}) ELSE queue
    BY <1>4 DEF TurnConsumes
  <2>2. ToSet(queue) \cap Users \subseteq ToSet(queue')
    <3>1. CASE x \in Wakes
      <4> PICK D : D = {x}
        OBVIOUS
      <4>1. queue' = Sweep(queue, running, D)
        BY <2>1, <3>1
      <4>2. ToSet(Sweep(queue, running, D)) = ToSet(queue) \ (D \ {running})
        BY <1>1, SweepElements
      <4>3. QED
        BY <3>1, <4>1, <4>2, KindsDiffer
    <3>2. CASE x \notin Wakes
      BY <2>1, <3>2
    <3>3. QED
      BY <3>1, <3>2
  \* Only a turn that a cancel is about to abort runs beside no running task.
  <2>3. running = None => suppressed \/ job.rewound
    <3>1. running = None => t = job.task
      BY <2>1, NoneIsNoId DEF InTurn, Life, Tasks, Alive
    <3>2. running = None => Ending
      BY <3>1, NoneIsNoId DEF Ground, Ledger, JobLedger
    <3>3. QED
      BY <3>2 DEF Quiet, Drains
  <2>4. QED
    BY <1>1, <1>2, <2>2, <2>3, QuietKept
<1>5. UNCHANGED <<queue, notes>> \/ \E x \in Wakes \cup Notes : TurnConsumes(t, x)
  BY DEF Turn, TurnBegins, TurnEmits, TurnMerges, TurnInjects, TurnRound, TurnSetsGoal,
     TurnReports, TurnParks, TurnUnparks, TurnTails, TurnUnscopes, TurnFinishes, TurnReaped
<1>6. QED
  BY <1>3, <1>4, <1>5

LEMMA OthersKeepQuiet ==
  ASSUME Ground, Quiet, OtherTasks PROVE Quiet'
<1>1. queue \in Seq(Ids) /\ KeepsEnds
  BY ListsOfIds, OthersKeepEnds DEF Ground
<1>2. CASE StarterStarts \/ ResumeStarts
  BY <1>1, <1>2, StartKeepsQuiet
  DEF StarterStarts, ResumeStarts, untouchedByStart, actorVars
<1>3. CASE ZombieDrops
  BY <1>1, <1>3, QuietKept DEF ZombieDrops, turnOnly, actorVars
<1>4. ASSUME NEW p \in Plans, ResumeQueues(p) PROVE Quiet'
  <2>1. /\ UNCHANGED <<agenda, job, running, suppressed, notes>>
        /\ queue' = Append(queue, p)
    BY <1>4 DEF ResumeQueues, actorVars
  <2>2. ToSet(queue') = ToSet(queue) \cup {p} /\ queue' # <<>>
    BY <1>1, <2>1, KindsAreIds, AppendElements
  <2>3. QED
    BY <1>1, <2>1, <2>2, QuietKept
<1>5. QED
  BY <1>2, <1>3, <1>4 DEF OtherTasks

\* An idle session that no cancel silences has nothing pending: the drain of a
\* completion, or of an arrival, has taken it, unless a cancel rewound its prompt; a
\* cancel silences, and a send now, which ends the silence, leaves its prompt queued.
THEOREM IdleSessionsAreDrained == Spec => []IdleHoldsNoNotes
<1>1. Init => Quiet
  BY ShortLists DEF Init, Quiet, SendWaits, Drains, NoJob, Ending, Doing
<1>2. Ground /\ Life /\ Waits /\ Quiet /\ [Next]_vars => Quiet'
  <2> SUFFICES ASSUME Ground, Life, Waits, Quiet, [Next]_vars PROVE Quiet'
    OBVIOUS
  <2>1. CASE UNCHANGED vars
    <3>1. UNCHANGED <<queue, notes, fate, agenda, job, running, suppressed>>
      BY <2>1 DEF vars, lockVars, actorVars, seenVars
    <3>2. KeepsEnds
      BY <3>1 DEF KeepsEnds
    <3>3. QED
      BY <3>1, <3>2, QuietKept
  <2>2. QED
    BY <2>1, CommandsKeepQuiet, ActorStepsKeepQuiet, TurnKeepsQuiet, OthersKeepQuiet DEF Next
<1>3. Ground /\ Quiet => IdleHoldsNoNotes
  <2> SUFFICES ASSUME Ground, Quiet PROVE IdleHoldsNoNotes
    OBVIOUS
  <2>1. Ready => ~job.rewound /\ ~DrainToCome
    BY DEF Ground, Ledger, JobLedger, Ready, Ending, Doing, DrainToCome
  <2>2. QED
    BY <2>1 DEF Quiet, Drains, Rewound, IdleHoldsNoNotes
<1>4. QED
  BY <1>1, <1>2, <1>3, LifeKept, WaitsKept, PTL DEF Spec

-----------------------------------------------------------------------------
(* The session implements PromptLifecycle: what waits stands in the queue, *)
(* what runs is live, what a cancel has taken is closing, and what left    *)
(* the queue was answered.                                                 *)

Standing == ToSet(queue) \ {running}

Answers == {"done", "cancelled", "rewound", "removed", "swept"}

Answered == {x \in Ids : fate[x] \in Answers} \cup {w \in Wakes : fate[w] = "consumed"}

\* An id stays where it is, or moves before it is queued or beside the queue, or
\* leaves the queue and is answered.
Moves ==
  \A x \in Ids : \/ fate'[x] = fate[x]
                 \/ fate[x] # "queued" /\ x \notin Answered /\ x \notin Answered'
                 \/ fate[x] = "queued" /\ x \in Answered'

LEMMA FatesOfLists ==
  ASSUME Ground
  PROVE  /\ \A x \in ToSet(queue) \cup Closing : x \in Ids /\ fate[x] = "queued"
         /\ \A x \in ToSet(interjections) : x \in Ids /\ fate[x] = "buffered"
         /\ \A x \in ToSet(notes) \cup ToSet(buffer) : x \in Ids /\ fate[x] = "pending"
         /\ ToSet(notes) \subseteq Notes /\ ToSet(buffer) \subseteq Notes
<1>1. notes \in Seq(Notes) /\ buffer \in Seq(Notes)
  BY DEF Ground, TypeOK, QueueTypes
<1>2. ToSet(notes) \subseteq Notes /\ ToSet(buffer) \subseteq Notes
  BY <1>1 DEF ToSet
<1>3. QED
  BY <1>2, ListsOfIds DEF Ground, Ledger, QueueLedger, BufferLedger, NoteLedger

\* The fates of what leaves the queue, and of what moves beside it.
LEMMA QueuedMoves ==
  ASSUME NEW S, NEW what \in Answers, Becomes(S, what), \A x \in S : fate[x] = "queued"
  PROVE  Moves
BY DEF Becomes, Moves, Answered

Beside == {"unsent", "sent", "buffered", "pending"}

LEMMA OtherMoves ==
  ASSUME NEW S, NEW what, Becomes(S, what), \A x \in S : x \in Ids => fate[x] \in Beside,
         what \notin Answers \cup {"consumed"}
  PROVE  Moves
<1>1. Beside \cap (Answers \cup {"consumed", "queued"}) = {}
  BY DEF Beside, Answers
<1>2. \A x \in Ids : IF x \in S THEN fate'[x] = what ELSE fate'[x] = fate[x]
  BY DEF Becomes
<1>3. QED
  BY <1>1, <1>2 DEF Moves, Answered

LEMMA CommandsMove ==
  ASSUME Ground, Commands PROVE Moves
<1> USE DEF Beside, Answers
<1>1. queue \in Seq(Ids) /\ notes \in Seq(Ids) /\ buffer \in Seq(Ids)
  BY ListsOfIds DEF Ground
<1>2. CASE fate' = fate
  BY <1>2 DEF Moves
<1>3. ASSUME NEW p \in Users \cup Wakes \cup Crons, NEW now \in BOOLEAN, Prompt(p, now)
      PROVE  Moves
  <2>1. PICK swept : /\ swept \subseteq ToSet(queue) /\ fate[p] \in {"sent", "unsent"}
                     /\ fate' = [x \in Ids |-> IF x \in swept THEN "swept"
                                               ELSE IF x = p THEN "queued" ELSE fate[x]]
    BY <1>3 DEF Prompt
  <2>2. QED
    BY <2>1, FatesOfLists DEF Moves, Answered
<1>4. ASSUME NEW w \in Wakes, TaskCompletes(w) PROVE Moves
  BY <1>4, OtherMoves DEF TaskCompletes
<1>5. ASSUME NEW i \in Interjections, Interject(i) PROVE Moves
  BY SMTT(40), <1>5, OtherMoves DEF Interject
<1>6. ASSUME NEW n \in Notes, NEW next \in BOOLEAN, InjectNotification(n, next)
      PROVE  Moves
  <2> DEFINE old == IF active /\ next THEN buffer ELSE notes
  <2>1. /\ fate[n] = "unsent"
        /\ \E kept : fate' = [x \in Ids |->
                       IF x \in ToSet(Append(old, n)) \ kept THEN "capped"
                       ELSE IF x = n THEN "pending" ELSE fate[x]]
    BY <1>6 DEF InjectNotification
  <2>2. ToSet(Append(old, n)) = ToSet(old) \cup {n}
    BY <1>1, KindsAreIds, AppendElements
  <2>3. ToSet(old) \subseteq ToSet(notes) \cup ToSet(buffer)
    OBVIOUS
  <2> HIDE DEF old
  <2>4. \A x \in Ids : \/ fate'[x] = fate[x]
                       \/ fate[x] \in Beside /\ fate'[x] \in {"capped", "pending"}
    BY <2>1, <2>2, <2>3, FatesOfLists
  <2>5. QED
    BY <2>4 DEF Moves, Answered
<1>7. ASSUME NEW n \in Notes, DropMonitorNotifications(n) PROVE Moves
  BY <1>7, OtherMoves DEF DropMonitorNotifications
<1>8. ASSUME NEW p \in Users, NEW v, NEW who, RemoveQueuedPrompt(p, v, who) PROVE Moves
  BY <1>2, <1>8, QueuedMoves, FatesOfLists DEF RemoveQueuedPrompt, RowMatches
<1>9. ASSUME NEW who, ClearQueue(who) PROVE Moves
  <2>1. \E S \in SUBSET ToSet(queue) : Becomes(S, "removed")
    BY <1>9 DEF ClearQueue
  <2>2. QED
    BY <2>1, QueuedMoves, FatesOfLists
<1>10. ASSUME NEW p, NEW v, NEW who, NEW edited, NEW order, NEW mode,
              \/ InterjectQueuedPrompt(p, v, who, edited) \/ ReorderQueue(order)
              \/ EditQueuedPrompt(p) \/ Cancel(mode)
       PROVE  Moves
  BY <1>2, <1>10 DEF InterjectQueuedPrompt, ReorderQueue, EditQueuedPrompt, Cancel, seenVars
<1>11. QED
  BY <1>3, <1>4, <1>5, <1>6, <1>7, <1>8, <1>9, <1>10 DEF Commands

LEMMA ActorStepsMove ==
  ASSUME Ground, ActorSteps, ~CancelAnswers PROVE Moves
<1> USE DEF Beside, Answers
<1>1. queue \in Seq(Ids) /\ notes \in Seq(Ids) /\ buffer \in Seq(Ids)
  BY ListsOfIds DEF Ground
<1>2. CASE fate' = fate
  BY <1>2 DEF Moves
<1>3. CASE CancelSnapshot
  BY <1>3, OtherMoves, FatesOfLists DEF CancelSnapshot
<1>4. CASE CancelTeardown
  <2>1. ToSet(notes \o buffer) = ToSet(notes) \cup ToSet(buffer)
    BY <1>1, JoinElements
  <2>2. \E S \in SUBSET ToSet(notes \o buffer) : Becomes(S, "dropped")
    BY <1>4 DEF CancelTeardown
  <2>3. QED
    BY <2>1, <2>2, OtherMoves, FatesOfLists
<1>5. CASE HandleCompletion
  <2>1. PICK p : IF Owned(p) THEN Becomes({p}, "done") ELSE UNCHANGED fate
    BY <1>5 DEF HandleCompletion
  <2>2. CASE Owned(p)
    <3>1. p \in ToSet(queue)
      BY <1>1, <2>2, HeadAndTail DEF Owned
    <3>2. QED
      BY <2>1, <2>2, <3>1, QueuedMoves, FatesOfLists
  <2>3. QED
    BY <1>2, <2>1, <2>2
<1>6. CASE TurnEnd
  <2>1. \/ fate' = fate \/ \E g \in Goals : fate[g] = "unsent" /\ Becomes({g}, "queued")
    BY <1>6 DEF TurnEnd
  <2>2. ASSUME NEW g \in Goals, fate[g] = "unsent", Becomes({g}, "queued") PROVE Moves
    BY <2>2, OtherMoves
  <2>3. QED
    BY <1>2, <2>1, <2>2
<1>7. CASE RequeueStranded
  <2>1. PICK i : i = Last(stranded) /\ Becomes({i}, "queued")
    BY <1>7 DEF RequeueStranded
  <2>2. StrandedTyped
    BY DEF Ground, TypeOK, ActorTypes, StrandedTyped
  <2>3. i \in ToSet(stranded)
    BY <1>7, <2>1, <2>2, StrandedParts
  <2>4. i \in Ids => fate[i] = "buffered"
    BY <2>3 DEF Ground, Ledger, BufferLedger
  <2>5. QED
    BY <2>1, <2>4, OtherMoves
<1>8. CASE MaybeDrainNotifications
  <2> DEFINE all == notes \o buffer
             muted == IF goal = "off" THEN ToSet(all) \cap GoalTurnNotes ELSE ToSet(all)
             told == Without(all, muted)
  <2>1. CASE ~Idle
    BY <1>2, <1>8, <2>1 DEF MaybeDrainNotifications
  <2>2. CASE Idle
    <3>1. /\ queue' = SubSeq(told, 1, IF told = <<>> THEN 0 ELSE 1)
          /\ fate' = [x \in Ids |-> IF x \in muted THEN "muted"
                                     ELSE IF x \in ToSet(queue') THEN "queued"
                                     ELSE IF x \in ToSet(told) THEN "merged"
                                     ELSE fate[x]]
      BY <1>8, <2>2 DEF MaybeDrainNotifications
    <3>2. /\ all \in Seq(Ids) /\ ToSet(all) = ToSet(notes) \cup ToSet(buffer)
          /\ muted \subseteq ToSet(all)
      BY <1>1, JoinElements
    <3> HIDE DEF all, muted
    <3>3. told \in Seq(Ids) /\ ToSet(told) \subseteq ToSet(all)
      BY <3>2, WithoutElements
    <3> HIDE DEF told
    <3>4. ToSet(queue') \subseteq ToSet(told)
      BY <3>1, <3>3, FrontElements
    <3>5. \A x \in Ids : \/ fate'[x] = fate[x]
                         \/ fate[x] = "pending" /\ fate'[x] \in {"muted", "queued", "merged"}
      BY <3>1, <3>2, <3>3, <3>4, FatesOfLists
    <3>6. QED
      BY <3>5 DEF Moves, Answered
  <2>3. QED
    BY <2>1, <2>2
<1>9. CASE \/ Start \/ CancelUngates \/ CancelAbort \/ SweepMonitorBuffer
           \/ FlushStrandedInterjections
  BY <1>2, <1>9 DEF Start, untouchedByStart, CancelUngates, CancelAbort,
     SweepMonitorBuffer, FlushStrandedInterjections, seenVars
<1>10. QED
  BY <1>3, <1>4, <1>5, <1>6, <1>7, <1>8, <1>9 DEF ActorSteps

LEMMA TurnMoves ==
  ASSUME Ground, NEW t \in Ids, Turn(t) PROVE Moves
<1> USE DEF Beside, Answers
<1>1. queue \in Seq(Ids) /\ notes \in Seq(Ids) /\ buffer \in Seq(Ids)
  BY ListsOfIds DEF Ground
<1>2. CASE fate' = fate
  BY <1>2 DEF Moves
<1>3. CASE TurnMerges(t)
  BY <1>3, OtherMoves, FatesOfLists DEF TurnMerges
<1>4. CASE TurnInjects(t)
  BY <1>4, OtherMoves, FatesOfLists DEF TurnInjects
<1>5. ASSUME NEW x \in Wakes \cup Notes, TurnConsumes(t, x) PROVE Moves
  <2> DEFINE S == ToSet(queue \o notes) \ ToSet(queue' \o notes')
  <2>1. /\ x \in Wakes => x \in (ToSet(queue) \cap Wakes) \cup ToSet(notes)
        /\ queue' = IF x \in Wakes THEN Sweep(queue, running, {x}) ELSE queue
        /\ notes' = Without(notes, {x}) /\ Becomes(S, "consumed")
    BY <1>5 DEF TurnConsumes
  <2>2. /\ queue' \in Seq(Ids) /\ ToSet(queue) \ {x} \subseteq ToSet(queue')
        /\ x \notin Wakes => queue' = queue
    BY <1>1, <2>1, SweepElements
  <2>3. notes' \in Seq(Ids) /\ ToSet(notes') = ToSet(notes) \ {x}
    BY <1>1, <2>1, WithoutElements
  <2>4. /\ ToSet(queue \o notes) = ToSet(queue) \cup ToSet(notes)
        /\ ToSet(queue' \o notes') = ToSet(queue') \cup ToSet(notes')
    <3>1. ToSet(queue \o notes) = ToSet(queue) \cup ToSet(notes)
      BY <1>1, JoinElements
    <3>2. PICK a, b : a = queue' /\ b = notes'
      OBVIOUS
    <3>3. ToSet(a \o b) = ToSet(a) \cup ToSet(b)
      BY <2>2, <2>3, <3>2, JoinElements
    <3>4. QED
      BY <3>1, <3>2, <3>3
  <2>5. S \subseteq {x} /\ \A y \in S : y \in Ids
    BY <2>2, <2>3, <2>4, ListsOfIds DEF Ground
  <2>6. CASE x \in Wakes
    <3>1. x \notin Notes
      BY <2>6, KindsDiffer
    <3>2. x \in ToSet(queue) /\ x \in Ids /\ fate[x] = "queued"
      BY <2>1, <2>6, <3>1, FatesOfLists
    <3>3. \A y \in Ids : fate'[y] = fate[y] \/ (y = x /\ fate'[y] = "consumed")
      BY <2>1, <2>5 DEF Becomes
    <3>4. QED
      BY <2>6, <3>2, <3>3 DEF Moves, Answered
  <2>7. CASE x \notin Wakes
    <3>1. S \subseteq {x} \cap ToSet(notes)
      BY <2>2, <2>4, <2>5, <2>7
    <3>2. \A y \in Ids : \/ fate'[y] = fate[y]
                         \/ fate[y] = "pending" /\ y \notin Wakes /\ fate'[y] = "consumed"
      BY <2>1, <2>7, <3>1, FatesOfLists DEF Becomes
    <3>3. QED
      BY <3>2 DEF Moves, Answered
  <2>8. QED
    BY <2>6, <2>7
<1>6. \/ fate' = fate \/ TurnMerges(t) \/ TurnInjects(t)
      \/ \E x \in Wakes \cup Notes : TurnConsumes(t, x)
  BY DEF Turn, TurnBegins, TurnEmits, TurnRound, TurnSetsGoal, TurnReports,
     TurnParks, TurnUnparks, TurnTails, TurnUnscopes, TurnFinishes, TurnReaped
<1>7. QED
  BY <1>2, <1>3, <1>4, <1>5, <1>6

LEMMA OthersMove ==
  ASSUME Ground, OtherTasks PROVE Moves
<1> USE DEF Beside, Answers
<1>1. CASE fate' = fate
  BY <1>1 DEF Moves
<1>2. \/ fate' = fate \/ \E p \in Plans : fate[p] = "unsent" /\ Becomes({p}, "queued")
  BY DEF OtherTasks, StarterStarts, ResumeStarts, ResumeQueues, ZombieDrops, untouchedByStart
<1>3. ASSUME NEW p \in Plans, fate[p] = "unsent", Becomes({p}, "queued") PROVE Moves
  BY <1>3, OtherMoves
<1>4. QED
  BY <1>1, <1>2, <1>3

\* Ids come to the queue and leave it beside the running prompt.
LEMMA ImplementsAccept ==
  ASSUME Ground, Ground', Moves, KeepsEnds, running' = running, job'.closing = job.closing
  PROVE  Lifecycle!Next
<1> DEFINE new == ToSet(queue') \ ToSet(queue)
           withdrawn == ToSet(queue) \ ToSet(queue')
<1>1. /\ ToSet(queue) \subseteq Ids /\ Closing' = Closing /\ ToSet(job.closing) = Closing
      /\ ToSet(queue) \cap Closing = {} /\ ToSet(queue') \cap Closing = {}
      /\ running \in Ids \cup {None} /\ None \notin Ids
      /\ \A x \in Ids : fate[x] = "queued" <=> x \in ToSet(queue) \cup Closing
      /\ \A x \in Ids : fate'[x] = "queued" <=> x \in ToSet(queue') \cup Closing
  BY ListsOfIds, TasksOfIds DEF Ground, Ledger, QueueLedger, Closing
<1>2. ToSet(queue') \subseteq Ids
  <2>1. queue' \in Seq(Ids)
    BY DEF Ground, TypeOK, QueueTypes
  <2>2. QED
    BY <2>1 DEF ToSet
<1>3. running # None => running \in ToSet(queue) /\ running \in ToSet(queue')
  <2>1. ASSUME running # None PROVE running \in ToSet(queue')
    <3>1. queue' \in Seq(Ids) /\ queue' # <<>> /\ Head(queue') = running
      BY <2>1 DEF Ground, RunningIsFront, TypeOK, QueueTypes
    <3>2. QED
      BY <3>1, HeadAndTail
  <2>2. QED
    BY <2>1, RunningInQueue
<1>4. Answered \subseteq Ids /\ Answered' \subseteq Ids
  BY KindsAreIds DEF Answered
<1>5. \A x \in Answered : fate[x] \in Ended /\ x \in Answered' /\ fate'[x] # "queued"
  BY <1>4 DEF Answered, Answers, Ended, KeepsEnds
<1>6. Answered' = Answered \cup withdrawn
  <2>1. \A x \in withdrawn : x \in Ids /\ fate[x] = "queued" /\ fate'[x] # "queued"
    BY <1>1
  <2>2. \A x \in Answered' : x \in Answered \/ x \in withdrawn
    <3>1. ASSUME NEW x \in Answered', x \notin Answered PROVE x \in withdrawn
      <4>1. fate[x] = "queued" /\ fate'[x] # "queued"
        BY <1>4, <3>1 DEF Moves, Answered, Answers
      <4>2. QED
        BY <1>1, <1>4, <4>1
    <3>2. QED
      BY <3>1
  <2>3. QED
    BY <1>4, <1>5, <2>1, <2>2 DEF Moves
<1>7. new \subseteq Ids \ (ToSet(queue) \cup {running} \cup Closing \cup Answered)
  <2>1. \A x \in new : x \in Ids /\ fate'[x] = "queued"
    BY <1>1, <1>2
  <2>2. QED
    BY <1>1, <1>3, <1>5, <2>1
<1>8. /\ Standing' = (Standing \ withdrawn) \cup new
      /\ withdrawn \subseteq Standing
  <2>1. running \notin new /\ running \notin withdrawn
    BY <1>1, <1>3, <1>7
  <2>2. ToSet(queue') = (ToSet(queue) \ withdrawn) \cup new
    OBVIOUS
  <2>3. withdrawn \subseteq ToSet(queue)
    OBVIOUS
  <2> HIDE DEF new, withdrawn
  <2>4. QED
    BY <2>1, <2>2, <2>3 DEF Standing
<1> HIDE DEF new, withdrawn
<1>9. PICK came, left : came = new /\ left = withdrawn
  OBVIOUS
<1>10. Lifecycle!Accept(came, left)
  BY <1>1, <1>6, <1>7, <1>8, <1>9 DEF Lifecycle!Accept, Lifecycle!Known, Standing, Answered,
     Answers, Closing
<1>11. came \in SUBSET Ids /\ left \in SUBSET Standing
  BY <1>7, <1>8, <1>9
<1>12. QED
  BY <1>10, <1>11 DEF Lifecycle!Next, Standing

\* Whoever starts the front makes a prompt that waits live.
LEMMA ImplementsBegin ==
  ASSUME Ground, MaybeStartRunningTask, UNCHANGED <<queue, fate, job>>
  PROVE  [Lifecycle!Next]_(Lifecycle!lifecycle)
<1>1. Answered' = Answered
  BY DEF Answered
<1>2. CASE running = None /\ queue # <<>>
  <2>1. PICK p : p = Head(queue)
    OBVIOUS
  <2>2. running' = p
    BY <1>2, <2>1 DEF MaybeStartRunningTask
  <2>3. queue \in Seq(Ids) /\ p \in ToSet(queue) /\ ToSet(queue) \subseteq Ids /\ None \notin Ids
    BY <1>2, <2>1, ListsOfIds, TasksOfIds, HeadAndTail DEF Ground
  <2>4. p \in Standing /\ Standing' = Standing \ {p}
    BY <1>2, <2>2, <2>3 DEF Standing
  <2>5. Lifecycle!Begin(p)
    BY <1>1, <1>2, <2>2, <2>4 DEF Lifecycle!Begin, Standing, Answered, Answers
  <2>6. QED
    BY <2>4, <2>5 DEF Lifecycle!Next, Standing
<1>3. CASE ~(running = None /\ queue # <<>>)
  <2>1. running' = running
    BY <1>3 DEF MaybeStartRunningTask
  <2>2. QED
    BY <1>1, <2>1 DEF Lifecycle!lifecycle, Answered, Answers
<1>4. QED
  BY <1>2, <1>3

\* A completion that is owned ends the live prompt; a stale one changes nothing.
LEMMA ImplementsFinish ==
  ASSUME Ground, Life, HandleCompletion
  PROVE  [Lifecycle!Next]_(Lifecycle!lifecycle)
<1> PICK p : p = Head(completions)
  OBVIOUS
<1>1. /\ queue \in Seq(Ids) /\ None \notin Ids /\ completions \in Seq(Ids)
      /\ ToSet(queue) \subseteq Ids /\ running \in Ids \cup {None}
      /\ Begun /\ Tasks /\ IsInjective(queue) /\ RunningIsFront
  BY ListsOfIds, TasksOfIds DEF Ground, Ledger, Life, QueueLedger
<1>2. /\ completions # <<>>
      /\ queue' = IF Owned(p) THEN Tail(queue) ELSE queue
      /\ running' = RunningAfter(p)
      /\ IF Owned(p) THEN Becomes({p}, "done") ELSE UNCHANGED fate
      /\ job' = job
  BY DEF HandleCompletion
<1>3. p \in Ids /\ p \in started
  BY <1>1, <1>2, HeadAndTail DEF Tasks
<1>4. CASE Owned(p)
  <2>1. /\ queue # <<>> /\ Head(queue) = p /\ queue' = Tail(queue) /\ running' = None
        /\ fate' = [x \in Ids |-> IF x = p THEN "done" ELSE fate[x]]
    BY <1>2, <1>4 DEF Owned, RunningAfter, Becomes
  <2>2. p \in ToSet(queue) /\ ToSet(queue') = ToSet(queue) \ {p}
    BY <1>1, <2>1, HeadAndTail
  <2>3. running = p
    BY <1>1, <1>3, <2>2 DEF Begun
  <2>4. Standing' = Standing
    BY <1>1, <2>1, <2>2, <2>3 DEF Standing
  <2>5. fate[p] = "queued"
    BY <2>2, FatesOfLists
  <2>6. Answered' = Answered \cup {p}
    BY <1>3, <2>1, <2>5, KindsAreIds DEF Answered, Answers
  <2>7. Lifecycle!Finish
    BY <1>1, <1>2, <1>3, <2>1, <2>3, <2>4, <2>6
    DEF Lifecycle!Finish, Standing, Answered, Answers
  <2>8. QED
    BY <2>7 DEF Lifecycle!Next
<1>5. CASE ~Owned(p)
  <2>1. running # p
    BY <1>1, <1>3, <1>5 DEF RunningIsFront, Owned
  <2>2. UNCHANGED <<queue, running, fate, job>>
    BY <1>2, <1>5, <2>1 DEF RunningAfter
  <2>3. QED
    BY <2>2 DEF Lifecycle!lifecycle
<1>6. QED
  BY <1>4, <1>5

\* The locked section of a cancel closes the live prompt, and what it takes with it.
LEMMA ImplementsClose ==
  ASSUME Ground, CancelTeardown
  PROVE  Lifecycle!Next
<1>1. /\ ToSet(queue) = Closing' \cup ToSet(queue') /\ ToSet(queue') \cap Closing' = {}
      /\ running' = None
  BY TeardownParts DEF Ground, Ledger, QueueLedger, CancelTeardown
<1>2. running # None => running \in Closing'
  BY TeardownTakesRunning
<1>3. Closing = {} /\ ToSet(queue) \subseteq Ids /\ None \notin Ids
  <2>1. job.closing = <<>>
    BY DEF Ground, Ledger, JobLedger, CancelTeardown, Ending, Doing
  <2>2. QED
    BY <2>1, ShortLists, ListsOfIds, NoneIsNoId DEF Closing, Ground
<1>4. Answered' = Answered
  <2>1. queue \in Seq(Ids) /\ notes \in Seq(Ids) /\ buffer \in Seq(Ids)
    BY ListsOfIds DEF Ground
  <2>2. ToSet(notes \o buffer) = ToSet(notes) \cup ToSet(buffer)
    BY <2>1, JoinElements
  <2>3. \E S \in SUBSET ToSet(notes \o buffer) : Becomes(S, "dropped")
    BY DEF CancelTeardown
  <2>4. \A x \in Ids : fate'[x] = fate[x] \/ (fate[x] = "pending" /\ fate'[x] = "dropped")
    BY <2>2, <2>3, FatesOfLists DEF Becomes
  <2>5. QED
    BY <2>4, KindsAreIds DEF Answered, Answers
<1> DEFINE S == Closing' \ {running}
<1>5. /\ S \subseteq Standing /\ Standing' = Standing \ S
      /\ Closing' = S \cup ({running} \ {None})
  BY <1>1, <1>2, <1>3 DEF Standing
<1> HIDE DEF S
<1>6. Lifecycle!Close(S)
  BY <1>1, <1>3, <1>4, <1>5 DEF Lifecycle!Close, Standing, Answered, Answers, Closing
<1>7. QED
  BY <1>5, <1>6 DEF Lifecycle!Next, Standing

\* The rest of it answers what was closed.
LEMMA ImplementsAnswer ==
  ASSUME Ground, CancelAnswers
  PROVE  [Lifecycle!Next]_(Lifecycle!lifecycle)
<1>1. /\ job' = NoJob /\ UNCHANGED <<queue, running>>
      /\ \E what \in {"rewound", "cancelled"} : Becomes(Closing, what)
  BY DEF CancelAnswers, Closing
<1>2. NoJob.closing = <<>>
  BY DEF NoJob
<1>3. Closing' = {}
  BY <1>1, <1>2, ShortLists DEF Closing
<1>4. \A x \in Closing : x \in Ids /\ fate[x] = "queued"
  BY FatesOfLists
<1>5. Answered' = Answered \cup Closing
  BY <1>1, <1>4, KindsAreIds DEF Answered, Answers, Becomes
<1>6. Standing' = Standing
  BY <1>1 DEF Standing
<1>7. CASE Closing = {}
  BY <1>1, <1>3, <1>5, <1>6, <1>7 DEF Lifecycle!lifecycle, Standing, Answered, Answers, Closing
<1>8. CASE Closing # {}
  <2>1. Lifecycle!Answer
    BY <1>1, <1>3, <1>5, <1>6, <1>8 DEF Lifecycle!Answer, Standing, Answered, Answers, Closing
  <2>2. QED
    BY <2>1 DEF Lifecycle!Next
<1>9. QED
  BY <1>7, <1>8

LEMMA StepsImplement ==
  ASSUME Ground, Ground', Life, Next
  PROVE  [Lifecycle!Next]_(Lifecycle!lifecycle)
<1>1. CASE Commands
  <2>1. /\ running' = running
        /\ \/ job' = job
           \/ Ready /\ job' = NoJob
           \/ Ready /\ \E mode : job' = [NoJob EXCEPT !.mode = mode]
    BY <1>1, CommandKinds DEF Enqueues, Cuts, AsksToCancel, EditsRows, Notifies, OnlyMarks
  <2>2. Ready /\ job' # job => job'.closing = job.closing
    BY <2>1, JobLedgerReady DEF Ground, Ledger
  <2>3. job'.closing = job.closing
    BY <2>1, <2>2
  <2>4. QED
    BY <1>1, <2>1, <2>3, CommandsMove, CommandsKeepEnds, ImplementsAccept
<1>2. CASE ActorSteps
  <2>1. CASE Start
    BY <2>1, ImplementsBegin DEF Start, untouchedByStart
  <2>2. CASE CancelTeardown
    BY <2>2, ImplementsClose
  <2>3. CASE CancelAnswers
    BY <2>3, ImplementsAnswer
  <2>4. CASE HandleCompletion
    BY <2>4, ImplementsFinish
  <2>5. CASE \/ CancelSnapshot \/ CancelUngates \/ CancelAbort \/ SweepMonitorBuffer
             \/ TurnEnd \/ FlushStrandedInterjections \/ RequeueStranded
             \/ MaybeDrainNotifications
    <3>1. running' = running /\ job'.closing = job.closing
      BY <2>5 DEF CancelSnapshot, CancelUngates, CancelAbort, SweepMonitorBuffer, TurnEnd,
         FlushStrandedInterjections, RequeueStranded, MaybeDrainNotifications, lockVars,
         Ground, TypeOK, ActorTypes
    <3>2. CASE ~CancelAnswers
      BY <1>2, <3>1, <3>2, ActorStepsMove, ActorStepsKeepEnds, ImplementsAccept
    <3>3. QED
      BY <2>3, <3>2
  <2>6. QED
    BY <1>2, <2>1, <2>2, <2>3, <2>4, <2>5 DEF ActorSteps
<1>3. CASE OtherTasks
  <2>1. CASE StarterStarts \/ ResumeStarts
    BY <2>1, ImplementsBegin DEF StarterStarts, ResumeStarts, untouchedByStart, actorVars
  <2>2. CASE ZombieDrops \/ \E p \in Plans : ResumeQueues(p)
    <3>1. running' = running /\ job' = job
      BY <2>2 DEF ZombieDrops, ResumeQueues, turnOnly, actorVars
    <3>2. QED
      BY <1>3, <3>1, OthersMove, OthersKeepEnds, ImplementsAccept
  <2>3. QED
    BY <1>3, <2>1, <2>2 DEF OtherTasks
<1>4. ASSUME NEW t \in Ids, Turn(t) PROVE [Lifecycle!Next]_(Lifecycle!lifecycle)
  <2>1. running' = running /\ job' = job
    BY <1>4 DEF Turn, TurnBegins, TurnEmits, TurnMerges, TurnInjects, TurnRound, TurnSetsGoal,
       TurnReports, TurnConsumes, TurnParks, TurnUnparks, TurnTails, TurnUnscopes,
       TurnFinishes, TurnReaped, turnOnly, actorVars
  <2>2. QED
    BY <1>4, <2>1, TurnMoves, TurnKeepsEnds, ImplementsAccept
<1>5. QED
  BY <1>1, <1>2, <1>3, <1>4 DEF Next

\* The session implements PromptLifecycle: whatever the clients send and however the
\* tasks interleave, one prompt at most is live, none is live twice, and each that
\* leaves the queue, by its own end, a cancel, a sweep, a removal or a consumption, is
\* answered once.
THEOREM SessionImplementsLifecycle == Spec => ImplementsLifecycle
<1>1. Init => Lifecycle!Init
  <2> SUFFICES ASSUME Init PROVE Lifecycle!Init
    OBVIOUS
  <2>1. /\ queue = <<>> /\ running = None /\ job.closing = <<>>
        /\ \A x \in Ids : fate[x] = "unsent"
    BY DEF Init, NoJob
  <2>2. Answered = {}
    BY <2>1, KindsAreIds DEF Answered, Answers
  <2>3. QED
    BY <2>1, <2>2, ShortLists DEF Lifecycle!Init, Answered, Answers
<1>2. Ground /\ Life /\ Ground' /\ [Next]_vars => [Lifecycle!Next]_(Lifecycle!lifecycle)
  <2>1. CASE UNCHANGED vars
    BY <2>1 DEF vars, lockVars, actorVars, seenVars, Lifecycle!lifecycle
  <2>2. QED
    BY <2>1, StepsImplement
<1>3. QED
  BY <1>1, <1>2, LifeKept, PTL DEF Spec, ImplementsLifecycle, Lifecycle!Spec

-----------------------------------------------------------------------------
(* The rows the clients see.  Only the queue operations on rows, and the   *)
(* starts, broadcast; the others do not touch the rows that wait, but for  *)
(* the teardown of a session, which takes them all.                        *)

Rows(q, r) == Keep(q, Users \ {r})

Mirror == shown.rows = Rows(queue, running)

\* A cancel was asked for by a client, or by a send now.
ModesSent ==
  Doing("snapshot") \/ Doing("teardown") => job.mode \in CancelModes \cup {"send_now"}

\* Items that are no rows come and go unseen.
LEMMA NoRows ==
  ASSUME NEW q \in Seq(Ids), NEW r, ToSet(q) \cap Users = {}
  PROVE  Rows(q, r) = <<>>
BY KeepNothing DEF Rows

LEMMA JoinRows ==
  ASSUME NEW a \in Seq(Ids), NEW b \in Seq(Ids), NEW r
  PROVE  Rows(a \o b, r) = Rows(a, r) \o Rows(b, r)
BY KeepJoin DEF Rows

LEMMA RowsOfIds ==
  ASSUME NEW q \in Seq(Ids), NEW r
  PROVE  Rows(q, r) \in Seq(Ids)
BY KeepElements DEF Rows

LEMMA InsertRunNextRows ==
  ASSUME NEW q \in Seq(Ids), NEW r, NEW items \in Seq(Ids), ToSet(items) \cap Users = {}
  PROVE  Rows(InsertRunNext(q, r, items), r) = Rows(q, r)
<1>1. PICK at : at = FrontSlot(q, r)
  OBVIOUS
<1>2. PICK a, b : a = SubSeq(q, 1, at) /\ b = SubSeq(q, at + 1, Len(q))
  OBVIOUS
<1>3. at \in 0..Len(q)
  BY <1>1 DEF FrontSlot
<1>4. a \in Seq(Ids) /\ b \in Seq(Ids) /\ q = a \o b
  BY <1>2, <1>3, SplitList
<1>5. InsertRunNext(q, r, items) = a \o items \o b
  BY <1>1, <1>2 DEF InsertRunNext
<1>6. Rows(q, r) = Rows(a, r) \o Rows(b, r)
  <2>1. a \in Seq(Ids) /\ b \in Seq(Ids)
    BY <1>4
  <2>2. Rows(a \o b, r) = Rows(a, r) \o Rows(b, r)
    BY SMTT(40), <2>1, JoinRows
  <2>3. QED
    BY <1>4, <2>2
<1>7. PICK c : c = a \o items
  OBVIOUS
<1>8. c \in Seq(Ids) /\ Rows(c, r) = Rows(a, r) \o Rows(items, r)
  <2>1. a \in Seq(Ids)
    BY <1>4
  <2>2. a \o items \in Seq(Ids) /\ Rows(a \o items, r) = Rows(a, r) \o Rows(items, r)
    BY <2>1, JoinRows
  <2>3. QED
    BY <1>7, <2>2
<1>9. Rows(items, r) = <<>>
  BY NoRows
<1>10. Rows(a, r) \o Rows(items, r) = Rows(a, r)
  <2>1. PICK s : s = Rows(a, r)
    OBVIOUS
  <2>2. s \in Seq(Ids)
    BY <1>4, <2>1, RowsOfIds
  <2>3. QED
    BY <1>9, <2>1, <2>2
<1>11. Rows(c \o b, r) = Rows(c, r) \o Rows(b, r)
  <2>1. c \in Seq(Ids) /\ b \in Seq(Ids)
    BY <1>4, <1>8
  <2>2. QED
    BY <2>1, JoinRows
<1>12. QED
  BY <1>5, <1>6, <1>7, <1>8, <1>10, <1>11

LEMMA AppendRows ==
  ASSUME NEW q \in Seq(Ids), NEW r, NEW x \in Ids, x \notin Users
  PROVE  Rows(Append(q, x), r) = Rows(q, r)
<1>1. PICK t : t = <<x>>
  OBVIOUS
<1>2. t \in Seq(Ids) /\ Append(q, x) = q \o t /\ ToSet(t) \cap Users = {}
  BY <1>1, ShortLists
<1>3. Rows(q \o t, r) = Rows(q, r) \o Rows(t, r)
  <2>1. t \in Seq(Ids)
    BY <1>2
  <2>2. QED
    BY <2>1, JoinRows
<1>4. Rows(t, r) = <<>>
  BY <1>2, NoRows
<1>5. PICK s : s = Rows(q, r)
  OBVIOUS
<1>6. s \in Seq(Ids) /\ s \o <<>> = s
  BY <1>5, RowsOfIds
<1>7. QED
  BY <1>2, <1>3, <1>4, <1>5, <1>6

\* What is left of the queue without items that are no rows.
LEMMA WithoutRows ==
  ASSUME NEW q \in Seq(Ids), NEW r, NEW D, D \cap Users = {}
  PROVE  Rows(Without(q, D), r) = Rows(q, r)
<1>1. Keep(Keep(q, ToSet(q) \ D), Users \ {r}) = Keep(q, (ToSet(q) \ D) \cap (Users \ {r}))
  BY KeepTwice
<1>2. ToSet(q) \cap ((ToSet(q) \ D) \cap (Users \ {r})) = ToSet(q) \cap (Users \ {r})
  OBVIOUS
<1>3. Keep(q, (ToSet(q) \ D) \cap (Users \ {r})) = Keep(q, Users \ {r})
  BY <1>2, KeepAlike
<1>4. QED
  BY <1>1, <1>3 DEF Rows, Without

\* The rows do not change when the running prompt, or what is no row, leaves the front.
LEMMA TailRows ==
  ASSUME NEW q \in Seq(Ids), q # <<>>, IsInjective(q), NEW r,
         r = Head(q) \/ (Head(q) \notin Users /\ r \notin Ids)
  PROVE  Rows(q, r) = Rows(Tail(q), None)
<1>1. PICK h, t : h = <<Head(q)>> /\ t = Tail(q)
  OBVIOUS
<1>2. h \in Seq(Ids) /\ t \in Seq(Ids) /\ q = h \o t /\ ToSet(h) = {Head(q)}
  BY <1>1, ShortLists
<1>3. Head(q) \notin ToSet(t) /\ ToSet(t) \subseteq Ids
  <2>1. Head(q) \notin ToSet(t)
    BY <1>1, HeadAndTail
  <2>2. QED
    BY <1>2, <2>1 DEF ToSet
<1>4. Rows(h \o t, r) = Rows(h, r) \o Rows(t, r)
  <2>1. h \in Seq(Ids) /\ t \in Seq(Ids)
    BY <1>2
  <2>2. QED
    BY <2>1, JoinRows
<1>5. Rows(h, r) = <<>>
  <2>1. ToSet(h) \cap (Users \ {r}) = {}
    BY <1>2
  <2>2. QED
    BY <1>2, <2>1, KeepNothing DEF Rows
<1>6. Rows(t, r) = Rows(t, None)
  <2>1. ToSet(t) \cap (Users \ {r}) = ToSet(t) \cap (Users \ {None})
    BY <1>3, NoneIsNoId
  <2>2. QED
    BY <1>2, <2>1, KeepAlike DEF Rows
<1>7. PICK s : s = Rows(t, None)
  OBVIOUS
<1>8. s \in Seq(Ids) /\ <<>> \o s = s
  BY <1>2, <1>7, RowsOfIds
<1>9. QED
  BY <1>1, <1>2, <1>4, <1>5, <1>6, <1>7, <1>8

LEMMA ModesSentKept ==
  ASSUME Ground, ModesSent, Next
  PROVE  ModesSent'
<1> DEFINE Asked(a) == a # <<>> /\ Head(a) \in {"snapshot", "teardown"}
<1>1. /\ Asked(agenda) <=> Doing("snapshot") \/ Doing("teardown")
      /\ Asked(agenda') <=> Doing("snapshot")' \/ Doing("teardown")'
  BY DEF Doing
<1>2. /\ ~Asked(<<>>) /\ ~Asked(<<"start">>) /\ ~Asked(<<"drain">>)
      /\ ~Asked(<<"start", "drain">>) /\ ~Asked(<<"requeue", "start", "drain">>)
      /\ ~Asked(<<"flush", "start", "drain">>)
      /\ ~Asked(<<"turn_end", "flush", "start", "drain">>) /\ ~Asked(Completing)
      /\ ~Asked(<<"answer", "start">>) /\ ~Asked(<<"abort", "answer", "start">>)
      /\ ~Asked(<<"ungate", "abort", "answer", "start">>)
  BY DEF Completing
<1>3. <<"start">> \o <<>> = <<"start">>
  OBVIOUS
<1>4. \A m : [NoJob EXCEPT !.mode = m].mode = m
  BY DEF NoJob
<1> HIDE DEF Asked
<1>5. CASE Commands
  BY <1>1, <1>2, <1>4, <1>5, CommandKinds
  DEF ModesSent, Enqueues, Cuts, AsksToCancel, EditsRows, Notifies, OnlyMarks
<1>6. CASE ActorSteps
  <2>1. agenda \in Agendas
    BY DEF Ground, PinInv
  <2>2. CASE CancelSnapshot
    BY <1>1, <2>2 DEF CancelSnapshot, ModesSent, Ground, TypeOK, ActorTypes
  <2>3. CASE ~CancelSnapshot
    <3>1. CASE \/ Start \/ CancelTeardown \/ CancelUngates \/ CancelAbort \/ CancelAnswers
               \/ SweepMonitorBuffer \/ TurnEnd
      <4>1. agenda' = Tail(agenda)
        BY <3>1 DEF Start, CancelTeardown, CancelUngates, CancelAbort, CancelAnswers,
           SweepMonitorBuffer, TurnEnd
      <4>2. \/ Doing("start") \/ Doing("teardown") \/ Doing("ungate") \/ Doing("abort")
            \/ Doing("answer") \/ Doing("sweep") \/ Doing("turn_end")
        BY <3>1 DEF Start, CancelTeardown, CancelUngates, CancelAbort, CancelAnswers,
           SweepMonitorBuffer, TurnEnd
      <4>3. ~Asked(agenda')
        BY <1>2, <2>1, <4>1, <4>2, AgendaSteps
      <4>4. QED
        BY <1>1, <4>3 DEF ModesSent
    <3>2. CASE HandleCompletion
      BY <1>1, <1>2, <3>2 DEF HandleCompletion, ModesSent
    <3>3. CASE FlushStrandedInterjections \/ RequeueStranded
      BY <1>1, <1>2, <2>1, <3>3, FlushSteps DEF ModesSent
    <3>4. CASE MaybeDrainNotifications
      <4>1. Tail(agenda) = <<>>
        BY <2>1, <3>4, AgendaSteps DEF MaybeDrainNotifications
      <4>2. agenda' = Tail(agenda) \/ agenda' = <<"start">> \o Tail(agenda)
        BY <3>4 DEF MaybeDrainNotifications
      <4>3. ~Asked(agenda')
        BY <1>2, <1>3, <4>1, <4>2
      <4>4. QED
        BY <1>1, <4>3 DEF ModesSent
    <3>5. QED
      BY <1>6, <2>3, <3>1, <3>2, <3>3, <3>4 DEF ActorSteps
  <2>4. QED
    BY <2>2, <2>3
<1>7. CASE OtherTasks \/ \E t \in Ids : Turn(t)
  <2>1. job' = job /\ agenda' = agenda
    BY <1>7 DEF OtherTasks, StarterStarts, ResumeStarts, ResumeQueues, ZombieDrops, Turn,
       TurnBegins, TurnEmits, TurnMerges, TurnInjects, TurnRound, TurnSetsGoal, TurnReports,
       TurnConsumes, TurnParks, TurnUnparks, TurnTails, TurnUnscopes, TurnFinishes,
       TurnReaped, turnOnly, actorVars
  <2>2. QED
    BY <1>1, <2>1 DEF ModesSent
<1>8. QED
  BY <1>5, <1>6, <1>7 DEF Next

\* The rows stay as they are if nothing is broadcast, or are those broadcast.
LEMMA SameMirror ==
  ASSUME Mirror, UNCHANGED <<queue, running, shown>> PROVE Mirror'
BY DEF Mirror, Rows

LEMMA BroadcastMirrors ==
  ASSUME Broadcast(queue', running') PROVE Mirror'
BY DEF Broadcast, Mirror, Rows

LEMMA CommandsKeepMirror ==
  ASSUME Ground, Mirror, Commands PROVE Mirror'
<1>1. running' = running /\ queue \in Seq(Ids)
  BY CommandKinds, ListsOfIds DEF Ground
<1>2. ASSUME NEW i \in Interjections, Interject(i) PROVE Mirror'
  <2>1. CASE queue' = queue
    BY <1>1, <1>2, <2>1, SameMirror DEF Interject
  <2>2. CASE queue' = InsertRunNext(queue, running, <<i>>)
    <3>1. PICK items : items = <<i>>
      OBVIOUS
    <3>2. items \in Seq(Ids) /\ ToSet(items) \cap Users = {}
      BY <3>1, KindsDiffer, KindsAreIds, ShortLists
    <3>3. Rows(queue', running) = Rows(queue, running)
      BY <1>1, <2>2, <3>1, <3>2, InsertRunNextRows
    <3>4. shown' = shown
      BY <1>2 DEF Interject
    <3>5. QED
      BY <1>1, <3>3, <3>4 DEF Mirror, Rows
  <2>3. QED
    BY <1>2, <2>1, <2>2 DEF Interject
<1>3. ASSUME UNCHANGED <<queue, shown>> PROVE Mirror'
  BY <1>1, <1>3, SameMirror
<1>4. ASSUME shown' = [rows |-> Keep(queue', Users \ {running}), running |-> running]
      PROVE  Mirror'
  BY <1>1, <1>4 DEF Mirror, Rows
<1>5. ASSUME NEW p \in Users \cup Wakes \cup Crons, NEW now \in BOOLEAN, Prompt(p, now)
      PROVE  Mirror'
  BY <1>4, <1>5 DEF Prompt, Broadcast
<1>6. ASSUME NEW p \in Users, NEW v, NEW who, RemoveQueuedPrompt(p, v, who) PROVE Mirror'
  BY <1>4, <1>6 DEF RemoveQueuedPrompt, Broadcast
<1>7. ASSUME NEW who, ClearQueue(who) PROVE Mirror'
  BY <1>4, <1>7 DEF ClearQueue, Broadcast
<1>8. ASSUME NEW p, NEW v, NEW who, NEW edited, NEW order,
             InterjectQueuedPrompt(p, v, who, edited) \/ ReorderQueue(order)
      PROVE  Mirror'
  BY <1>4, <1>8 DEF InterjectQueuedPrompt, ReorderQueue, Broadcast
<1>9. ASSUME NEW p, EditQueuedPrompt(p) PROVE Mirror'
  BY <1>4, <1>9 DEF EditQueuedPrompt, Broadcast
<1>10. ASSUME NEW w \in Wakes, TaskCompletes(w) PROVE Mirror'
  BY <1>3, <1>10 DEF TaskCompletes, lockVars
<1>11. ASSUME NEW n \in Notes, NEW next \in BOOLEAN, InjectNotification(n, next) PROVE Mirror'
  BY <1>3, <1>11 DEF InjectNotification
<1>12. ASSUME NEW n, NEW mode, DropMonitorNotifications(n) \/ Cancel(mode) PROVE Mirror'
  BY <1>3, <1>12 DEF DropMonitorNotifications, Cancel, lockVars, seenVars
<1>13. QED
  BY <1>2, <1>5, <1>6, <1>7, <1>8, <1>9, <1>10, <1>11, <1>12 DEF Commands

LEMMA StartMirrors ==
  ASSUME Mirror, MaybeStartRunningTask, queue' = queue PROVE Mirror'
<1>1. CASE running = None /\ queue # <<>>
  <2>1. \E p : running' = p /\ shown' = [rows |-> Keep(queue, Users \ {p}), running |-> p]
    BY <1>1 DEF MaybeStartRunningTask, Broadcast
  <2>2. QED
    BY <2>1 DEF Mirror, Rows
<1>2. CASE ~(running = None /\ queue # <<>>)
  BY <1>2, SameMirror DEF MaybeStartRunningTask
<1>3. QED
  BY <1>1, <1>2

LEMMA CompletionMirrors ==
  ASSUME Ground, Life, Mirror, HandleCompletion PROVE Mirror'
<1> PICK p : p = Head(completions)
  OBVIOUS
<1>1. /\ queue \in Seq(Ids) /\ completions \in Seq(Ids) /\ IsInjective(queue)
      /\ Begun /\ Tasks /\ RunningIsFront
  BY ListsOfIds, TasksOfIds DEF Ground, Ledger, Life, QueueLedger
<1>2. /\ completions # <<>>
      /\ queue' = IF Owned(p) THEN Tail(queue) ELSE queue
      /\ running' = RunningAfter(p)
      /\ IF Owned(p) /\ p \in Users THEN Broadcast(queue', running') ELSE UNCHANGED shown
  BY DEF HandleCompletion
<1>3. p \in Ids /\ p \in started
  BY <1>1, <1>2, HeadAndTail DEF Tasks
<1>4. CASE Owned(p) /\ p \in Users
  BY <1>2, <1>4, BroadcastMirrors
<1>5. CASE Owned(p) /\ p \notin Users
  <2>1. /\ queue # <<>> /\ Head(queue) = p /\ queue' = Tail(queue) /\ running' = None
        /\ shown' = shown
    BY <1>2, <1>5 DEF Owned, RunningAfter
  <2>2. running = p
    BY <1>1, <1>3, <2>1, HeadAndTail DEF Begun
  <2>3. Rows(queue, running) = Rows(Tail(queue), None)
    BY <1>1, <2>1, <2>2, TailRows
  <2>4. QED
    BY <2>1, <2>3 DEF Mirror, Rows
<1>6. CASE ~Owned(p)
  <2>1. running # p
    BY <1>1, <1>3, <1>6, NoneIsNoId DEF RunningIsFront, Owned
  <2>2. UNCHANGED <<queue, running, shown>>
    BY <1>2, <1>6, <2>1 DEF RunningAfter
  <2>3. QED
    BY <2>2, SameMirror
<1>7. QED
  BY <1>4, <1>5, <1>6

\* A cancel takes what runs, or a prompt that is no row.
LEMMA TeardownMirrors ==
  ASSUME Ground, Waits, Mirror, job.mode # "teardown", CancelTeardown PROVE Mirror'
<1>1. /\ queue \in Seq(Ids) /\ IsInjective(queue) /\ RunningIsFront
  BY ListsOfIds DEF Ground, Ledger, QueueLedger
<1> PICK closing : closing = CancelTakes(job.mode)
  OBVIOUS
<1>2. /\ queue' = SubSeq(queue, Len(closing) + 1, Len(queue))
      /\ running' = None /\ shown' = shown /\ Doing("teardown")
  BY DEF CancelTeardown
<1>3. closing = SubSeq(queue, 1, IF queue = <<>> THEN 0 ELSE 1)
  BY DEF CancelTakes
<1>4. CASE queue = <<>>
  <2>1. queue' = <<>> /\ running = None
    BY <1>1, <1>2, <1>3, <1>4 DEF RunningIsFront
  <2>2. QED
    BY <1>2, <1>4, <2>1, SameMirror
<1>5. CASE queue # <<>>
  <2>1. queue' = Tail(queue)
    BY <1>1, <1>2, <1>3, <1>5
  <2>2. running = Head(queue) \/ (Head(queue) \notin Users /\ running \notin Ids)
    <3>1. CASE running # None
      BY <1>1, <3>1 DEF RunningIsFront
    <3>2. CASE running = None
      <4>1. agenda \in Settled
        BY <1>2 DEF Ground, PinInv, Agendas, Doing, Completing, Cancelling, Settled
      <4>2. ToSet(queue) \subseteq Plans
        BY <3>2, <4>1 DEF Waits, OnlyPlansWait
      <4>3. QED
        BY <1>1, <1>5, <3>2, <4>2, HeadAndTail, KindsDiffer, NoneIsNoId
    <3>3. QED
      BY <3>1, <3>2
  <2>3. Rows(queue, running) = Rows(Tail(queue), None)
    BY <1>1, <1>5, <2>2, TailRows
  <2>4. QED
    BY <1>2, <2>1, <2>3 DEF Mirror, Rows
<1>6. QED
  BY <1>4, <1>5

LEMMA DrainMirrors ==
  ASSUME Ground, Mirror, MaybeDrainNotifications PROVE Mirror'
<1>1. running' = running /\ shown' = shown
  BY DEF MaybeDrainNotifications
<1>2. CASE ~Idle
  BY <1>1, <1>2, SameMirror DEF MaybeDrainNotifications
<1>3. CASE Idle
  <2>1. queue = <<>>
    BY <1>3 DEF Idle
  <2>2. queue' \in Seq(Ids) /\ ToSet(queue') \cap Users = {}
    <3> DEFINE all == notes \o buffer
               muted == IF goal = "off" THEN ToSet(all) \cap GoalTurnNotes ELSE ToSet(all)
               told == Without(all, muted)
    <3>1. queue' = SubSeq(told, 1, IF told = <<>> THEN 0 ELSE 1)
      BY <1>3 DEF MaybeDrainNotifications
    <3>2. all \in Seq(Notes)
      BY DEF Ground, TypeOK, QueueTypes
    <3> HIDE DEF all, muted
    <3>3. told \in Seq(Notes)
      BY <3>2, WithoutElements
    <3> HIDE DEF told
    <3>4. queue' \in Seq(Notes)
      BY <3>1, <3>3
    <3>5. ToSet(queue') \subseteq Notes
      BY <3>4 DEF ToSet
    <3>6. QED
      BY <3>4, <3>5, KindsDiffer, KindsAreIds DEF Synthetic
  <2>3. PICK q : q = queue'
    OBVIOUS
  <2>4. Rows(q, running) = <<>>
    BY <2>2, <2>3, NoRows
  <2>5. Rows(<<>>, running) = <<>>
    <3>1. PICK e : e = <<>>
      OBVIOUS
    <3>2. e \in Seq(Ids) /\ ToSet(e) \cap Users = {}
      BY <3>1, ShortLists
    <3>3. QED
      BY <3>1, <3>2, NoRows
  <2>6. QED
    BY <1>1, <2>1, <2>3, <2>4, <2>5 DEF Mirror, Rows
<1>4. QED
  BY <1>2, <1>3

LEMMA ActorStepsKeepMirror ==
  ASSUME Ground, Life, Waits, Mirror, ActorSteps,
         Doing("teardown") => job.mode # "teardown" PROVE Mirror'
<1>1. queue \in Seq(Ids) /\ StrandedTyped
  BY ListsOfIds DEF Ground, TypeOK, ActorTypes, StrandedTyped
<1>2. CASE Start
  BY <1>2, StartMirrors DEF Start, untouchedByStart
<1>3. CASE \/ CancelSnapshot \/ CancelUngates \/ CancelAbort \/ CancelAnswers
           \/ SweepMonitorBuffer \/ FlushStrandedInterjections
  BY <1>3, SameMirror DEF CancelSnapshot, CancelUngates, CancelAbort, CancelAnswers,
     SweepMonitorBuffer, FlushStrandedInterjections, lockVars, seenVars
<1>4. CASE TurnEnd
  <2>1. UNCHANGED <<running, shown>> /\ \/ queue' = queue
                                        \/ \E g \in Goals : queue' = Append(queue, g)
    BY <1>4 DEF TurnEnd
  <2>2. ASSUME NEW g \in Goals, queue' = Append(queue, g) PROVE Mirror'
    <3>1. g \in Ids /\ g \notin Users
      BY KindsDiffer, KindsAreIds DEF Synthetic
    <3>2. Rows(Append(queue, g), running) = Rows(queue, running)
      BY <1>1, <3>1, AppendRows
    <3>3. QED
      BY <2>1, <2>2, <3>2 DEF Mirror, Rows
  <2>3. QED
    BY <2>1, <2>2, SameMirror
<1>5. CASE RequeueStranded
  <2>1. PICK items : /\ items = <<Last(stranded)>>
                     /\ queue' = InsertRunNext(queue, running, items)
    BY <1>5 DEF RequeueStranded
  <2>2. items \in Seq(Ids) /\ ToSet(items) \cap Users = {}
    BY <1>1, <1>5, <2>1, StrandedParts, KindsDiffer, KindsAreIds, ShortLists
  <2>3. Rows(queue', running) = Rows(queue, running)
    BY <1>1, <2>1, <2>2, InsertRunNextRows
  <2>4. UNCHANGED <<running, shown>>
    BY <1>5 DEF RequeueStranded
  <2>5. QED
    BY <2>3, <2>4 DEF Mirror, Rows
<1>6. QED
  BY <1>2, <1>3, <1>4, <1>5, CompletionMirrors, TeardownMirrors, DrainMirrors
  DEF ActorSteps, CancelTeardown

LEMMA TurnKeepsMirror ==
  ASSUME Ground, Mirror, NEW t \in Ids, Turn(t) PROVE Mirror'
<1>1. /\ UNCHANGED <<running, shown>>
      /\ queue' = queue \/ \E w \in Wakes : queue' = Sweep(queue, running, {w})
  BY DEF Turn, TurnBegins, TurnEmits, TurnMerges, TurnInjects, TurnRound, TurnSetsGoal,
     TurnReports, TurnConsumes, TurnParks, TurnUnparks, TurnTails, TurnUnscopes,
     TurnFinishes, TurnReaped, turnOnly
<1>2. ASSUME NEW w \in Wakes, queue' = Sweep(queue, running, {w}) PROVE Mirror'
  <2>1. PICK D : D = {w} \ {running}
    OBVIOUS
  <2>2. queue \in Seq(Ids) /\ D \cap Users = {} /\ queue' = Without(queue, D)
    BY <1>2, <2>1, KindsDiffer, ListsOfIds DEF Ground, Sweep, Synthetic
  <2>3. Rows(Without(queue, D), running) = Rows(queue, running)
    BY <2>2, WithoutRows
  <2>4. QED
    BY <1>1, <2>2, <2>3 DEF Mirror, Rows
<1>3. QED
  BY <1>1, <1>2, SameMirror

LEMMA OthersKeepMirror ==
  ASSUME Mirror, OtherTasks PROVE Mirror'
<1>1. CASE StarterStarts \/ ResumeStarts
  BY <1>1, StartMirrors DEF StarterStarts, ResumeStarts, untouchedByStart
<1>2. CASE ZombieDrops
  BY <1>2, SameMirror DEF ZombieDrops, turnOnly
<1>3. ASSUME NEW p \in Plans, ResumeQueues(p) PROVE Mirror'
  BY <1>3, BroadcastMirrors DEF ResumeQueues
<1>4. QED
  BY <1>1, <1>2, <1>3 DEF OtherTasks

\* As long as the session is not torn down, the clients see the rows that wait, in
\* their order: the steps that touch the queue without a broadcast, and the cancels,
\* which take what is no waiting row, leave the last one true.
THEOREM RowsAreMirrored ==
  ASSUME "teardown" \notin CancelModes
  PROVE  Spec => []MirrorRows
<1>1. Init => Mirror /\ ModesSent
  <2> SUFFICES ASSUME Init PROVE Mirror /\ ModesSent
    OBVIOUS
  <2>1. PICK e : e = <<>>
    OBVIOUS
  <2>2. e \in Seq(Ids) /\ ToSet(e) \cap Users = {}
    BY <2>1, ShortLists
  <2>3. queue = e /\ shown.rows = e /\ agenda = <<>>
    BY <2>1 DEF Init
  <2>4. QED
    BY <2>1, <2>2, <2>3, NoRows DEF Mirror, ModesSent, Doing
<1>2. Ground /\ Life /\ Waits /\ Mirror /\ ModesSent /\ [Next]_vars => (Mirror /\ ModesSent)'
  <2> SUFFICES ASSUME Ground, Life, Waits, Mirror, ModesSent, [Next]_vars
               PROVE  Mirror' /\ ModesSent'
    OBVIOUS
  <2>1. Doing("teardown") => job.mode # "teardown"
    BY DEF ModesSent
  <2>2. CASE UNCHANGED vars
    BY <2>2, SameMirror DEF vars, lockVars, actorVars, seenVars, ModesSent, Doing
  <2>3. CASE Next
    BY <2>1, <2>3, ModesSentKept, CommandsKeepMirror, ActorStepsKeepMirror, TurnKeepsMirror,
       OthersKeepMirror DEF Next
  <2>4. QED
    BY <2>2, <2>3
<1>3. Mirror => MirrorRows
  BY DEF Mirror, MirrorRows, Rows
<1>4. QED
  BY <1>1, <1>2, <1>3, LifeKept, WaitsKept, PTL DEF Spec

-----------------------------------------------------------------------------
(* The sends now.  None stands behind a prompt that is neither sent now    *)
(* nor the running one, so the next goes behind them all.                  *)

\* No user prompt stands before one that was sent earlier, unless it runs.
Sent(q, s, r) ==
  \A k, l \in 1..Len(s) : k < l /\ s[l] \in Users /\ s[l] # r => ~Before(q, s[l], s[k])

Stacked(q, s, N, r) ==
  \A b \in ToSet(s), a \in Ids : a # r /\ Before(q, a, b) => a \in N

\* A send is queued, or was.
SendsSeen ==
  /\ IsInjective(sends) /\ ToSet(sends) \subseteq sendNow
  /\ \A x \in ToSet(sends) : fate[x] \in Seen

Fifo ==
  Sent(queue, sends, running) /\ Stacked(queue, sends, sendNow, running) /\ SendsSeen

\* What a filter leaves stands as it stood.
LEMMA BeforeKept ==
  ASSUME NEW T, NEW q \in Seq(T), NEW D, NEW a, NEW b, Before(Without(q, D), a, b)
  PROVE  Before(q, a, b)
<1> DEFINE s == Without(q, D)
<1>1. Follows(s, q, Len(q))
  BY KeepOrder DEF Without
<1> HIDE DEF s
<1>2. PICK i \in 1..Len(s), j \in 1..Len(s) : i < j /\ s[i] = a /\ s[j] = b
  BY DEF Before, s
<1>3. PICK c \in 1..Len(q), d \in 1..Len(q) : c < d /\ s[i] = q[c] /\ s[j] = q[d]
  BY <1>1, <1>2 DEF Follows
<1>4. QED
  BY <1>2, <1>3 DEF Before

\* The running prompt, if it is in the queue, is its front.
RunsInFront(q, r) == r \in ToSet(q) => FrontIs(q, r)

\* Before the place of a send there are only sends and the running prompt, and what
\* stands at the place is neither.
LEMMA SendNowPlaces ==
  ASSUME NEW q \in Seq(Ids), NEW r, NEW N, NEW at, at = SendNowPlace(q, r, N)
  PROVE  /\ at \in 0..Len(q) /\ FrontSlot(q, r) <= at
         /\ \A j \in 1..at : q[j] = r \/ q[j] \in N
         /\ \A a \in ToSet(SubSeq(q, 1, at)) : a = r \/ a \in N
         /\ at < Len(q) => q[at + 1] \notin N
<1>1. /\ at \in SendNowSlots(q, r, N) /\ at \in 0..Len(q) /\ FrontSlot(q, r) <= at
      /\ \A j \in SendNowSlots(q, r, N) : at <= j
  BY SendNowIsPlaced
<1>2. FrontSlot(q, r) \in 0..1 /\ (FrontSlot(q, r) = 1 => q[1] = r)
  BY DEF FrontSlot
<1>3. ASSUME NEW j \in 1..at PROVE q[j] = r \/ q[j] \in N
  <2>1. CASE j <= FrontSlot(q, r)
    BY <1>2, <1>3, <2>1
  <2>2. CASE j > FrontSlot(q, r)
    <3>1. j - 1 \in FrontSlot(q, r)..Len(q) /\ j - 1 < at /\ (j - 1) + 1 = j /\ j - 1 # Len(q)
      BY <1>1, <1>2, <1>3, <2>2
    <3>2. j - 1 \notin SendNowSlots(q, r, N)
      BY <1>1, <3>1
    <3>3. QED
      BY <3>1, <3>2 DEF SendNowSlots
  <2>3. QED
    BY <1>1, <1>2, <2>1, <2>2
<1>4. \A a \in ToSet(SubSeq(q, 1, at)) : a = r \/ a \in N
  <2>1. SubSeq(q, 1, at) = [j \in 1..at |-> q[j]]
    BY <1>1
  <2>2. QED
    BY ZenonT(60), <1>3, <2>1 DEF ToSet
<1>5. at < Len(q) => q[at + 1] \notin N
  BY <1>1 DEF SendNowSlots
<1>6. QED
  BY <1>1, <1>3, <1>4, <1>5

\* A prompt sent now is put in once and the queue is otherwise as it was: at the one
\* place with only sends and the running prompt in front of it and no send right
\* behind it, so the running prompt keeps its slot at the front.
THEOREM InsertSendNowProperties ==
  ASSUME NEW q \in Seq(Ids), NEW r, NEW N, NEW p \in Ids
  PROVE  LET s == InsertSendNow(q, r, N, p)
         IN  /\ s \in Seq(Ids) /\ Len(s) = Len(q) + 1
             /\ FrontIs(q, r) => FrontIs(s, r)
             /\ \E at \in 0..Len(q) :
                  /\ s[at + 1] = p
                  /\ \A k \in 1..at : s[k] = q[k] /\ (q[k] = r \/ q[k] \in N)
                  /\ \A k \in (at + 1)..Len(q) : s[k + 1] = q[k]
                  /\ at < Len(q) => q[at + 1] \notin N
<1>1. PICK at : at = SendNowPlace(q, r, N)
  OBVIOUS
<1>2. PICK s : s = InsertSendNow(q, r, N, p)
  OBVIOUS
<1>3. /\ at \in 0..Len(q)
      /\ \A j \in 1..at : q[j] = r \/ q[j] \in N
      /\ at < Len(q) => q[at + 1] \notin N
  BY <1>1, SendNowPlaces
<1>4. s = SubSeq(q, 1, at) \o <<p>> \o SubSeq(q, at + 1, Len(q))
  BY <1>1, <1>2, SendNowIsPlaced
<1>5. /\ Len(s) = Len(q) + 1 /\ s[at + 1] = p
      /\ \A k \in 1..at : s[k] = q[k]
      /\ \A k \in (at + 1)..Len(q) : s[k + 1] = q[k]
  <2>1. PICK a, one, b : /\ a = SubSeq(q, 1, at) /\ one = <<p>>
                         /\ b = SubSeq(q, at + 1, Len(q))
    OBVIOUS
  <2>2. /\ a \in Seq(Ids) /\ Len(a) = at /\ \A k \in 1..at : a[k] = q[k]
        /\ b \in Seq(Ids) /\ Len(b) = Len(q) - at
        /\ \A k \in 1..(Len(q) - at) : b[k] = q[at + k]
        /\ one \in Seq(Ids) /\ Len(one) = 1 /\ one[1] = p
    BY <1>3, <2>1
  <2>3. s = a \o one \o b
    BY <1>4, <2>1
  <2>4. PICK ao : ao = a \o one
    OBVIOUS
  <2>5. /\ ao \in Seq(Ids) /\ Len(ao) = at + 1 /\ ao[at + 1] = p
        /\ \A k \in 1..at : ao[k] = q[k]
    <3>1. /\ ao \in Seq(Ids) /\ Len(ao) = Len(a) + Len(one)
          /\ \A k \in 1..Len(a) : ao[k] = a[k]
          /\ \A k \in 1..Len(one) : ao[Len(a) + k] = one[k]
      <4>1. a \in Seq(Ids) /\ one \in Seq(Ids)
        BY <2>2
      <4>2. QED
        BY <2>4, <4>1, JoinPlaces
    <3>2. QED
      BY <1>3, <2>2, <3>1
  <2>6. /\ Len(s) = Len(q) + 1 /\ \A k \in 1..(at + 1) : s[k] = ao[k]
        /\ \A k \in 1..(Len(q) - at) : s[(at + 1) + k] = b[k]
    <3>1. /\ Len(s) = Len(ao) + Len(b)
          /\ \A k \in 1..Len(ao) : s[k] = ao[k]
          /\ \A k \in 1..Len(b) : s[Len(ao) + k] = b[k]
      <4>1. ao \in Seq(Ids) /\ b \in Seq(Ids) /\ s = ao \o b
        BY <2>2, <2>3, <2>4, <2>5
      <4>2. QED
        BY <4>1, JoinPlaces
    <3>2. QED
      BY <1>3, <2>2, <2>5, <3>1
  <2>7. ASSUME NEW k \in (at + 1)..Len(q) PROVE s[k + 1] = q[k]
    <3>1. PICK j \in 1..(Len(q) - at) : k = at + j
      <4>1. k - at \in 1..(Len(q) - at) /\ k = at + (k - at)
        BY <1>3
      <4>2. QED
        BY <4>1
    <3>2. (at + 1) + j = k + 1
      BY <1>3, <3>1
    <3>3. QED
      BY <2>2, <2>6, <3>1, <3>2
  <2>8. QED
    BY <1>3, <2>5, <2>6, <2>7
<1>6. s \in Seq(Ids) /\ (FrontIs(q, r) => FrontIs(s, r))
  BY <1>2, InsertSendNowFront
<1>7. QED
  BY <1>2, <1>3, <1>5, <1>6

\* Nothing that was sent stands behind the place of the next send.
LEMMA NothingSentBehind ==
  ASSUME NEW q \in Seq(Ids), NEW s, NEW N, NEW r, NEW at, at = SendNowPlace(q, r, N),
         IsInjective(q), RunsInFront(q, r), Stacked(q, s, N, r), ToSet(s) \subseteq N
  PROVE  ToSet(SubSeq(q, at + 1, Len(q))) \cap ToSet(s) = {}
<1>1. /\ at \in 0..Len(q) /\ FrontSlot(q, r) <= at
      /\ at < Len(q) => q[at + 1] \notin N
  BY SendNowPlaces
<1>2. SUFFICES ASSUME NEW b \in ToSet(SubSeq(q, at + 1, Len(q))), b \in ToSet(s)
               PROVE  FALSE
  OBVIOUS
<1>3. PICK j \in 1..Len(q) : at + 1 <= j /\ b = q[j]
  <2>1. SubSeq(q, at + 1, Len(q)) = [i \in 1..(Len(q) - at) |-> q[at + i]]
    BY <1>1
  <2>2. PICK i \in 1..(Len(q) - at) : b = q[at + i]
    BY <1>2, <2>1 DEF ToSet
  <2>3. at + i \in 1..Len(q) /\ at + 1 <= at + i
    BY <1>1
  <2>4. QED
    BY <2>2, <2>3
<1>4. at < Len(q) /\ at + 1 \in 1..Len(q) /\ q[at + 1] \in Ids /\ q[at + 1] \notin N
  BY <1>1, <1>3
<1>5. q[at + 1] # r
  <2> SUFFICES ASSUME q[at + 1] = r PROVE FALSE
    OBVIOUS
  <2>1. r \in ToSet(q)
    BY <1>4 DEF ToSet
  <2>2. q[1] = r /\ 1 \in 1..Len(q) /\ FrontSlot(q, r) = 1
    BY <2>1 DEF RunsInFront, FrontIs, FrontSlot
  <2>3. at + 1 = 1
    BY <1>4, <2>2 DEF IsInjective
  <2>4. QED
    BY <1>1, <2>2, <2>3
<1>6. CASE j = at + 1
  BY <1>2, <1>3, <1>4, <1>6
<1>7. CASE j # at + 1
  <2>1. Before(q, q[at + 1], b)
    BY <1>1, <1>3, <1>4, <1>7 DEF Before
  <2>2. QED
    BY <1>2, <1>4, <1>5, <2>1 DEF Stacked
<1>8. QED
  BY <1>6, <1>7

\* One sent now more.
LEMMA InsertSendNowKeepsOrder ==
  ASSUME NEW q \in Seq(Ids), NEW s \in Seq(Ids), NEW N, NEW r, NEW p \in Ids,
         IsInjective(q), RunsInFront(q, r), p \notin ToSet(q), p \notin ToSet(s),
         Sent(q, s, r), Stacked(q, s, N, r), ToSet(s) \subseteq N
  PROVE  /\ Sent(InsertSendNow(q, r, N, p), Append(s, p), r)
         /\ Stacked(InsertSendNow(q, r, N, p), Append(s, p), N \cup {p}, r)
<1>1. PICK at : at = SendNowPlace(q, r, N)
  OBVIOUS
<1> DEFINE Q == InsertSendNow(q, r, N, p)
           z == Append(s, p)
<1>2. /\ at \in 0..Len(q)
      /\ \A a \in ToSet(SubSeq(q, 1, at)) : a = r \/ a \in N
      /\ ToSet(SubSeq(q, at + 1, Len(q))) \cap ToSet(s) = {}
  BY <1>1, SendNowPlaces, NothingSentBehind
<1>3. Q = SubSeq(q, 1, at) \o <<p>> \o SubSeq(q, at + 1, Len(q))
  BY <1>1, SendNowIsPlaced
<1>4. <<p>> \in Seq(Ids) /\ ToSet(<<p>>) = {p}
  BY ShortLists
<1>5. ToSet(SubSeq(q, 1, at)) \subseteq ToSet(q)
  <2> SUFFICES ASSUME NEW a \in ToSet(SubSeq(q, 1, at)) PROVE a \in ToSet(q)
    OBVIOUS
  <2>1. SubSeq(q, 1, at) = [j \in 1..at |-> q[j]]
    BY <1>2
  <2>2. PICK j \in 1..at : a = q[j]
    BY <2>1 DEF ToSet
  <2>3. j \in DOMAIN q
    BY <1>2
  <2>4. QED
    BY <2>2, <2>3 DEF ToSet
<1>6. ASSUME NEW a, NEW b, Before(Q, a, b)
      PROVE  \/ Before(q, a, b) /\ a # p /\ b # p
             \/ a = p /\ b \notin ToSet(s)
             \/ b = p /\ (a = r \/ a \in N) /\ a # p
  <2>1. \/ Before(q, a, b)
        \/ a = p /\ b \in {p} \cup ToSet(SubSeq(q, at + 1, Len(q)))
        \/ a \in ToSet(SubSeq(q, 1, at)) /\ b = p
    <3>1. PICK one : one = <<p>>
      OBVIOUS
    <3>2. /\ one \in Seq(Ids) /\ ToSet(one) = {p}
          /\ Before(SubSeq(q, 1, at) \o one \o SubSeq(q, at + 1, Len(q)), a, b)
      BY <1>3, <1>4, <1>6, <3>1
    <3> HIDE DEF Q
    <3>3. \/ Before(q, a, b)
          \/ a \in ToSet(one) /\ b \in ToSet(one) \cup ToSet(SubSeq(q, at + 1, Len(q)))
          \/ a \in ToSet(SubSeq(q, 1, at)) /\ b \in ToSet(one)
      BY <1>2, <3>2, BeforeInsert
    <3>4. QED
      BY <3>2, <3>3
  <2>2. Before(q, a, b) => a # p /\ b # p
    BY BeforeIn
  <2>3. QED
    BY <1>2, <1>5, <2>1, <2>2
<1> HIDE DEF Q
<1>7. /\ Len(z) = Len(s) + 1 /\ Len(s) \in Nat /\ z[Len(s) + 1] = p
      /\ \A k \in 1..Len(s) : z[k] = s[k] /\ s[k] \in ToSet(s)
  BY DEF ToSet
<1>8. ToSet(z) = ToSet(s) \cup {p}
  BY AppendElements
<1> HIDE DEF z
<1>9. ASSUME NEW k \in 1..Len(z), NEW l \in 1..Len(z), k < l, z[l] \in Users, z[l] # r
      PROVE  ~Before(Q, z[l], z[k])
  <2>1. k \in 1..Len(s) /\ z[k] = s[k] /\ s[k] \in ToSet(s)
    BY <1>7, <1>9
  <2>2. CASE l = Len(s) + 1
    BY <1>6, <1>7, <2>1, <2>2
  <2>3. CASE l # Len(s) + 1
    <3>1. l \in 1..Len(s) /\ z[l] = s[l] /\ s[l] \in ToSet(s)
      BY <1>7, <1>9, <2>3
    <3>2. ~Before(q, s[l], s[k])
      BY <1>9, <2>1, <3>1 DEF Sent
    <3>3. QED
      BY <1>6, <2>1, <3>1, <3>2
  <2>4. QED
    BY <2>2, <2>3
<1>10. ASSUME NEW b \in ToSet(z), NEW a \in Ids, a # r, Before(Q, a, b)
       PROVE  a \in N \cup {p}
  BY <1>6, <1>8, <1>10 DEF Stacked
<1>11. QED
  BY <1>9, <1>10 DEF Sent, Stacked, Q, z

\* Interjections that run next.
LEMMA InsertRunNextKeepsOrder ==
  ASSUME NEW q \in Seq(Ids), NEW s \in Seq(Ids), NEW N, NEW r, NEW items \in Seq(Ids),
         ToSet(items) \cap (Users \cup ToSet(q) \cup ToSet(s)) = {},
         Sent(q, s, r), Stacked(q, s, N, r)
  PROVE  /\ Sent(InsertRunNext(q, r, items), s \o items, r)
         /\ Stacked(InsertRunNext(q, r, items), s \o items, N \cup ToSet(items), r)
<1>1. PICK at : at = FrontSlot(q, r)
  OBVIOUS
<1> DEFINE Q == InsertRunNext(q, r, items)
           z == s \o items
<1>2. /\ at \in 0..Len(q)
      /\ Q = SubSeq(q, 1, at) \o items \o SubSeq(q, at + 1, Len(q))
  BY <1>1 DEF InsertRunNext, FrontSlot
<1>3. \A a \in ToSet(SubSeq(q, 1, at)) : a = r
  <2>1. \A j \in 1..at : q[j] = r
    BY <1>1 DEF FrontSlot
  <2>2. SubSeq(q, 1, at) = [j \in 1..at |-> q[j]]
    BY <1>2
  <2>3. QED
    BY <2>1, <2>2 DEF ToSet
<1>4. ASSUME NEW a, NEW b, Before(Q, a, b)
      PROVE  \/ Before(q, a, b) /\ a \notin ToSet(items) /\ b \notin ToSet(items)
             \/ a \in ToSet(items)
             \/ a = r /\ b \in ToSet(items)
  <2>1. \/ Before(q, a, b)
        \/ a \in ToSet(items) /\ b \in ToSet(items) \cup ToSet(SubSeq(q, at + 1, Len(q)))
        \/ a \in ToSet(SubSeq(q, 1, at)) /\ b \in ToSet(items)
    <3>1. Before(SubSeq(q, 1, at) \o items \o SubSeq(q, at + 1, Len(q)), a, b)
      BY <1>2, <1>4
    <3> HIDE DEF Q
    <3>2. QED
      BY <1>2, <3>1, BeforeInsert
  <2>2. Before(q, a, b) => a \notin ToSet(items) /\ b \notin ToSet(items)
    BY BeforeIn
  <2>3. QED
    BY <1>3, <2>1, <2>2
<1> HIDE DEF Q
<1>5. /\ Len(z) = Len(s) + Len(items) /\ Len(s) \in Nat /\ Len(items) \in Nat
      /\ \A k \in 1..Len(s) : z[k] = s[k]
      /\ \A k \in 1..Len(items) : z[Len(s) + k] = items[k]
  BY JoinPlaces
<1>6. ToSet(z) = ToSet(s) \cup ToSet(items)
  BY JoinElements
<1> HIDE DEF z
<1>7. \A k \in 1..Len(s) : s[k] \in ToSet(s)
  BY DEF ToSet
<1>8. ASSUME NEW k \in 1..Len(z), NEW l \in 1..Len(z), k < l, z[l] \in Users, z[l] # r
      PROVE  ~Before(Q, z[l], z[k])
  <2>1. CASE l \in 1..Len(s)
    <3>1. k \in 1..Len(s) /\ z[k] = s[k] /\ z[l] = s[l]
      BY <1>5, <1>8, <2>1
    <3>2. ~Before(q, s[l], s[k])
      BY <1>8, <2>1, <3>1 DEF Sent
    <3>3. QED
      BY <1>4, <1>7, <1>8, <2>1, <3>1, <3>2
  <2>2. CASE l \notin 1..Len(s)
    <3>1. l - Len(s) \in 1..Len(items) /\ Len(s) + (l - Len(s)) = l
      BY <1>5, <2>2
    <3>2. z[l] \in ToSet(items)
      <4>1. PICK m \in 1..Len(items) : Len(s) + m = l
        BY <3>1
      <4>2. z[l] = items[m] /\ m \in DOMAIN items
        BY <1>5, <4>1
      <4>3. QED
        BY <4>2 DEF ToSet
    <3>3. QED
      BY <1>8, <3>2
  <2>3. QED
    BY <2>1, <2>2
<1>9. ASSUME NEW b \in ToSet(z), NEW a \in Ids, a # r, Before(Q, a, b)
      PROVE  a \in N \cup ToSet(items)
  BY <1>4, <1>6, <1>9 DEF Stacked
<1>10. QED
  BY <1>8, <1>9 DEF Sent, Stacked, Q, z

\* A prompt that was not sent now goes last.
LEMMA AppendKeepsOrder ==
  ASSUME NEW q \in Seq(Ids), NEW s \in Seq(Ids), NEW N, NEW r, NEW p \in Ids,
         p \notin ToSet(s), Sent(q, s, r), Stacked(q, s, N, r)
  PROVE  Sent(Append(q, p), s, r) /\ Stacked(Append(q, p), s, N, r)
<1>1. \A a, b : Before(Append(q, p), a, b) => Before(q, a, b) \/ b = p
  BY BeforeAppend
<1>2. \A k \in 1..Len(s) : s[k] \in ToSet(s)
  BY DEF ToSet
<1>3. QED
  BY <1>1, <1>2 DEF Sent, Stacked

\* Prompts leave the queue, and the running one changes only at its front.
LEMMA FewerKeepOrder ==
  ASSUME NEW q, NEW s \in Seq(Ids), NEW N, NEW r, NEW Q, NEW R,
         \A a \in Ids : \A b : Before(Q, a, b) /\ a # R => Before(q, a, b) /\ a # r,
         Sent(q, s, r), Stacked(q, s, N, r)
  PROVE  Sent(Q, s, R) /\ Stacked(Q, s, N, R)
<1>1. \A k \in 1..Len(s) : s[k] \in Ids
  OBVIOUS
<1>2. QED
  BY <1>1 DEF Sent, Stacked

\* Sends are forgotten.
LEMMA LessSent ==
  ASSUME NEW q, NEW s \in Seq(Ids), NEW N, NEW r, NEW D, Sent(q, s, r), Stacked(q, s, N, r)
  PROVE  Sent(q, Without(s, D), r) /\ Stacked(q, Without(s, D), N, r)
<1> DEFINE z == Without(s, D)
<1>1. z \in Seq(Ids) /\ Follows(z, s, Len(s)) /\ ToSet(z) \subseteq ToSet(s)
  BY KeepOrder, WithoutElements DEF Without
<1> HIDE DEF z
<1>2. ASSUME NEW k \in 1..Len(z), NEW l \in 1..Len(z), k < l, z[l] \in Users, z[l] # r
      PROVE  ~Before(q, z[l], z[k])
  <2>1. PICK c \in 1..Len(s), d \in 1..Len(s) : c < d /\ z[k] = s[c] /\ z[l] = s[d]
    BY <1>1, <1>2 DEF Follows
  <2>2. QED
    BY <1>2, <2>1 DEF Sent
<1>3. QED
  BY <1>1, <1>2 DEF Sent, Stacked, z

SeenStays == \A x \in Ids : fate[x] \in Seen => fate'[x] \in Seen

LEMMA SeenStaysSeen == ASSUME Moves, KeepsEnds PROVE SeenStays
<1>1. \A x \in Ids : x \in Answered' => fate'[x] \in Seen
  BY DEF Answered, Answers, Seen, Ended
<1>2. QED
  BY <1>1 DEF Moves, KeepsEnds, SeenStays, Seen

\* What the proofs below need of the queue and of the sends.
LEMMA SendFacts ==
  ASSUME Ground, Fifo
  PROVE  /\ queue \in Seq(Ids) /\ sends \in Seq(Ids) /\ ToSet(sends) \subseteq Ids
         /\ IsInjective(queue) /\ RunsInFront(queue, running)
         /\ \A x \in Ids : fate[x] \notin Seen => x \notin ToSet(sends)
         /\ \A x \in Ids : fate[x] \in {"unsent", "sent", "buffered"} =>
              x \notin ToSet(queue) /\ x \notin ToSet(sends)
         /\ None \notin Ids /\ ToSet(queue) \subseteq Ids
<1>1. sends \in Seq(UserOrigin) /\ UserOrigin \subseteq Ids
  BY DEF Ground, TypeOK, RowTypes, Ids
<1>2. sends \in Seq(Ids)
  BY <1>1
<1>3. ToSet(sends) \subseteq Ids
  BY <1>2 DEF ToSet
<1>4. queue \in Seq(Ids) /\ ToSet(queue) \subseteq Ids /\ IsInjective(queue)
  BY ListsOfIds DEF Ground, Ledger, QueueLedger
<1>5. RunsInFront(queue, running)
  BY <1>4, NoneIsNoId DEF Ground, RunningIsFront, RunsInFront, FrontIs
<1>6. \A x \in Ids : fate[x] \notin Seen => x \notin ToSet(sends)
  BY DEF Fifo, SendsSeen
<1>7. \A x \in Ids : fate[x] \in {"unsent", "sent", "buffered"} => x \notin ToSet(queue)
  BY DEF Ground, Ledger, QueueLedger
<1>8. QED
  BY <1>2, <1>3, <1>4, <1>5, <1>6, <1>7, UnseenFates, NoneIsNoId

\* No send, and prompts leave the queue or start.
LEMMA SendsKept ==
  ASSUME Ground, Fifo, SeenStays, UNCHANGED <<sends, sendNow>>,
         \A a \in Ids : \A b : Before(queue', a, b) /\ a # running'
                                 => Before(queue, a, b) /\ a # running
  PROVE  Fifo'
<1>1. Sent(queue', sends, running') /\ Stacked(queue', sends, sendNow, running')
  <2>1. PICK Q, R : Q = queue' /\ R = running'
    OBVIOUS
  <2>2. \A a \in Ids : \A b : Before(Q, a, b) /\ a # R => Before(queue, a, b) /\ a # running
    BY <2>1
  <2>3. Sent(Q, sends, R) /\ Stacked(Q, sends, sendNow, R)
    BY <2>2, SendFacts, FewerKeepOrder DEF Fifo
  <2>4. QED
    BY <2>1, <2>3
<1>2. SendsSeen'
  BY SendFacts DEF Fifo, SendsSeen, SeenStays
<1>3. QED
  BY <1>1, <1>2 DEF Fifo

\* No send, and a prompt that was none goes last.
LEMMA SendsKeptByAppend ==
  ASSUME Ground, Fifo, SeenStays, UNCHANGED <<sends, sendNow, running>>,
         NEW p \in Ids, fate[p] \in {"unsent", "sent"}, queue' = Append(queue, p)
  PROVE  Fifo'
<1>1. Sent(Append(queue, p), sends, running) /\ Stacked(Append(queue, p), sends, sendNow, running)
  BY SendFacts, AppendKeepsOrder DEF Fifo
<1>2. SendsSeen'
  BY SendFacts DEF Fifo, SendsSeen, SeenStays
<1>3. QED
  BY <1>1, <1>2 DEF Fifo

\* Without some prompts, the order is the same.
LEMMA SendsKeptBySweep ==
  ASSUME Ground, Fifo, SeenStays, UNCHANGED <<sends, sendNow, running>>,
         queue' = queue \/ \E D : queue' = Without(queue, D)
  PROVE  Fifo'
<1>1. CASE queue' = queue
  BY <1>1, SendsKept
<1>2. ASSUME NEW D, queue' = Without(queue, D) PROVE Fifo'
  <2>1. \A a, b : Before(Without(queue, D), a, b) => Before(queue, a, b)
    BY SendFacts, BeforeKept
  <2>2. QED
    BY <1>2, <2>1, SendsKept
<1>3. QED
  BY <1>1, <1>2

\* One sent now, from a queue in which it does not stand.
LEMMA SendsKeptBySend ==
  ASSUME Ground, Fifo, SeenStays, running' = running, NEW p \in Ids, fate'[p] \in Seen,
         NEW q \in Seq(Ids), NEW s \in Seq(Ids), IsInjective(q), IsInjective(s),
         RunsInFront(q, running), p \notin ToSet(q), p \notin ToSet(s),
         Sent(q, s, running), Stacked(q, s, sendNow, running),
         ToSet(s) \subseteq ToSet(sends),
         queue' = InsertSendNow(q, running, sendNow, p),
         sends' = Append(s, p), sendNow' = sendNow \cup {p}
  PROVE  Fifo'
<1>1. ToSet(s) \subseteq sendNow
  BY DEF Fifo, SendsSeen
<1>2. /\ Sent(InsertSendNow(q, running, sendNow, p), Append(s, p), running)
      /\ Stacked(InsertSendNow(q, running, sendNow, p), Append(s, p), sendNow \cup {p}, running)
  BY <1>1, InsertSendNowKeepsOrder
<1>3. IsInjective(Append(s, p)) /\ ToSet(Append(s, p)) = ToSet(s) \cup {p}
  BY AppendOnce, AppendElements
<1>4. \A x \in ToSet(s) : x \in Ids /\ fate[x] \in Seen
  BY SendFacts DEF Fifo, SendsSeen
<1>5. SendsSeen'
  BY <1>1, <1>3, <1>4 DEF SendsSeen, SeenStays
<1>6. QED
  BY <1>2, <1>5 DEF Fifo

LEMMA PromptKeepsSends ==
  ASSUME Ground, Fifo, SeenStays, NEW p \in Users \cup Wakes \cup Crons,
         NEW asksNow \in BOOLEAN, Prompt(p, asksNow)
  PROVE  Fifo'
<1> DEFINE armed == p \in Users /\ \E w \in Wakes : w \in ToSet(queue) /\ w # running
           swept == IF armed THEN (ToSet(queue) \cap Synthetic) \ {running} ELSE {}
<1>1. PICK q : q = Sweep(queue, running, swept)
  OBVIOUS
<1>2. /\ fate[p] \in {"sent", "unsent"} /\ p \in Ids /\ running' = running
      /\ \/ /\ queue' = InsertSendNow(q, running, sendNow, p)
            /\ sends' = Append(sends, p) /\ sendNow' = sendNow \cup {p}
         \/ queue' = Append(q, p) /\ UNCHANGED <<sends, sendNow>>
      /\ fate' = [x \in Ids |-> IF x \in swept THEN "swept"
                                ELSE IF x = p THEN "queued" ELSE fate[x]]
  BY <1>1, KindsAreIds DEF Prompt
<1>3. fate'[p] \in Seen
  BY <1>2 DEF Seen, Ended
<1> HIDE DEF swept
<1>4. /\ q \in Seq(Ids) /\ ToSet(q) \subseteq ToSet(queue) /\ IsInjective(q)
      /\ FrontIs(queue, running) => FrontIs(q, running)
  BY <1>1, SendFacts, SweepElements, SweepProperties
<1>5. \A a, b : Before(q, a, b) => Before(queue, a, b)
  BY <1>1, SendFacts, BeforeKept DEF Sweep
<1>6. RunsInFront(q, running)
  BY <1>4, SendFacts DEF RunsInFront
<1>7. Sent(q, sends, running) /\ Stacked(q, sends, sendNow, running)
  BY <1>5, SendFacts, FewerKeepOrder DEF Fifo
<1>8. p \notin ToSet(q) /\ p \notin ToSet(sends)
  BY <1>2, <1>4, SendFacts
<1>9. CASE /\ queue' = InsertSendNow(q, running, sendNow, p)
           /\ sends' = Append(sends, p) /\ sendNow' = sendNow \cup {p}
  <2>1. sends \in Seq(Ids) /\ IsInjective(sends)
    BY SendFacts DEF Fifo, SendsSeen
  <2>2. QED
    BY <1>2, <1>3, <1>4, <1>6, <1>7, <1>8, <1>9, <2>1, SendsKeptBySend
<1>10. CASE queue' = Append(q, p) /\ UNCHANGED <<sends, sendNow>>
  <2>1. Sent(Append(q, p), sends, running) /\ Stacked(Append(q, p), sends, sendNow, running)
    BY <1>2, <1>4, <1>7, <1>8, SendFacts, AppendKeepsOrder
  <2>2. SendsSeen'
    BY <1>10, SendFacts DEF Fifo, SendsSeen, SeenStays
  <2>3. QED
    BY <1>2, <1>10, <2>1, <2>2 DEF Fifo
<1>11. QED
  BY <1>2, <1>9, <1>10

\* Interjections that run next were never sent before.
LEMMA SendsKeptByFlush ==
  ASSUME Ground, Fifo, SeenStays, running' = running, NEW items \in Seq(Ids),
         IsInjective(items), ToSet(items) \subseteq Interjections,
         \A x \in ToSet(items) : fate[x] \in {"unsent", "buffered"} /\ fate'[x] \in Seen,
         queue' = InsertRunNext(queue, running, items),
         sends' = sends \o items, sendNow' = sendNow \cup ToSet(items)
  PROVE  Fifo'
<1>1. ToSet(items) \cap (Users \cup ToSet(queue) \cup ToSet(sends)) = {}
  BY SendFacts, KindsDiffer, KindsAreIds
<1>2. /\ Sent(InsertRunNext(queue, running, items), sends \o items, running)
      /\ Stacked(InsertRunNext(queue, running, items), sends \o items,
                 sendNow \cup ToSet(items), running)
  BY <1>1, SendFacts, InsertRunNextKeepsOrder DEF Fifo
<1>3. IsInjective(sends \o items) /\ ToSet(sends \o items) = ToSet(sends) \cup ToSet(items)
  BY <1>1, SendFacts, JoinElements DEF Fifo, SendsSeen
<1>4. SendsSeen'
  BY <1>3, SendFacts DEF Fifo, SendsSeen, SeenStays
<1>5. QED
  BY <1>2, <1>4 DEF Fifo

LEMMA InterjectedRowKeepsSends ==
  ASSUME Ground, Fifo, SeenStays, NEW p \in Users, NEW v, NEW who, NEW edited,
         InterjectQueuedPrompt(p, v, who, edited)
  PROVE  Fifo'
<1>1. running' = running /\ p \in Ids /\ fate' = fate
  BY KindsAreIds DEF InterjectQueuedPrompt, untouchedByRows
<1>2. CASE ~RowMatches(p, v, who)
  <2>1. UNCHANGED <<queue, sends, sendNow>>
    BY <1>2 DEF InterjectQueuedPrompt
  <2>2. QED
    BY <1>1, <2>1, SendsKeptBySweep
<1>3. CASE RowMatches(p, v, who)
  <2>1. /\ p \in ToSet(queue) /\ p # running
        /\ queue' = InsertSendNow(Without(queue, {p}), running, sendNow, p)
        /\ sendNow' = sendNow \cup {p} /\ sends' = Append(Without(sends, {p}), p)
    BY <1>3 DEF InterjectQueuedPrompt, RowMatches
  <2>2. PICK q, s : q = Without(queue, {p}) /\ s = Without(sends, {p})
    OBVIOUS
  <2>3. /\ q \in Seq(Ids) /\ ToSet(q) = ToSet(queue) \ {p} /\ IsInjective(q)
        /\ FrontIs(queue, running) => FrontIs(q, running)
    BY <2>1, <2>2, SendFacts, WithoutElements, WithoutProperties
  <2>4. s \in Seq(Ids) /\ ToSet(s) = ToSet(sends) \ {p} /\ IsInjective(s)
    BY <2>2, SendFacts, WithoutElements DEF Fifo, SendsSeen
  <2>5. RunsInFront(q, running)
    BY <2>3, SendFacts DEF RunsInFront
  <2>6. \A a, b : Before(q, a, b) => Before(queue, a, b)
    BY <2>2, SendFacts, BeforeKept
  <2>7. Sent(queue, s, running) /\ Stacked(queue, s, sendNow, running)
    BY <2>2, SendFacts, LessSent DEF Fifo
  <2>8. Sent(q, s, running) /\ Stacked(q, s, sendNow, running)
    BY <2>4, <2>6, <2>7, FewerKeepOrder
  <2>9. fate'[p] \in Seen
    BY <1>1, <2>1 DEF Ground, Ledger, QueueLedger, Seen
  <2>10. QED
    BY <1>1, <2>1, <2>2, <2>3, <2>4, <2>5, <2>8, <2>9, SendsKeptBySend
<1>4. QED
  BY <1>2, <1>3

LEMMA CommandsKeepSends ==
  ASSUME Ground, Fifo, Commands PROVE Fifo'
<1>1. running' = running /\ SeenStays
  BY CommandKinds, CommandsMove, CommandsKeepEnds, SeenStaysSeen
<1>2. ASSUME NEW i \in Interjections, Interject(i) PROVE Fifo'
  <2>1. CASE UNCHANGED <<queue, sends, sendNow>>
    BY <1>1, <2>1, SendsKeptBySweep
  <2>2. CASE ~UNCHANGED <<queue, sends, sendNow>>
    <3>1. PICK items : items = <<i>>
      OBVIOUS
    <3>2. /\ fate[i] = "unsent" /\ queue' = InsertRunNext(queue, running, items)
          /\ sends' = Append(sends, i) /\ sendNow' = sendNow \cup {i}
          /\ Becomes({i}, "queued")
      BY <1>2, <2>2, <3>1 DEF Interject
    <3>3. /\ i \in Ids /\ items \in Seq(Ids) /\ ToSet(items) = {i} /\ IsInjective(items)
      BY <3>1, KindsAreIds, ShortLists
    <3>4. sends' = sends \o items
      BY <3>1, <3>2, <3>3, SendFacts
    <3>5. fate'[i] \in Seen
      BY <3>2, <3>3 DEF Becomes, Seen
    <3>6. QED
      BY <1>1, <3>2, <3>3, <3>4, <3>5, SendsKeptByFlush
  <2>3. QED
    BY <2>1, <2>2
<1>3. ASSUME NEW order, ReorderQueue(order) PROVE Fifo'
  <2>1. PICK e : e = <<>>
    OBVIOUS
  <2>2. sends' = e /\ ToSet(e) = {} /\ Len(e) = 0 /\ IsInjective(e)
    BY <1>3, <2>1, ShortLists DEF ReorderQueue
  <2>3. QED
    BY <2>2 DEF Fifo, Sent, Stacked, SendsSeen
<1>4. ASSUME NEW p \in Users, NEW v, NEW who, RemoveQueuedPrompt(p, v, who) PROVE Fifo'
  <2>1. /\ UNCHANGED <<sends, sendNow>>
        /\ queue' = queue \/ \E D : queue' = Without(queue, D)
    BY <1>4 DEF RemoveQueuedPrompt
  <2>2. QED
    BY <1>1, <2>1, SendsKeptBySweep
<1>5. ASSUME NEW who, ClearQueue(who) PROVE Fifo'
  <2>1. UNCHANGED <<sends, sendNow>> /\ \E D : queue' = Without(queue, D)
    BY <1>5 DEF ClearQueue
  <2>2. QED
    BY <1>1, <2>1, SendsKeptBySweep
<1>6. ASSUME UNCHANGED <<queue, sends, sendNow>> PROVE Fifo'
  BY <1>1, <1>6, SendsKeptBySweep
<1>7. ASSUME NEW p, EditQueuedPrompt(p) PROVE Fifo'
  BY <1>6, <1>7 DEF EditQueuedPrompt
<1>8. ASSUME NEW w \in Wakes, TaskCompletes(w) PROVE Fifo'
  BY <1>6, <1>8 DEF TaskCompletes, lockVars
<1>9. ASSUME NEW n \in Notes, NEW next \in BOOLEAN, InjectNotification(n, next) PROVE Fifo'
  BY <1>6, <1>9 DEF InjectNotification
<1>10. ASSUME NEW n, NEW mode, DropMonitorNotifications(n) \/ Cancel(mode) PROVE Fifo'
  BY <1>6, <1>10 DEF DropMonitorNotifications, Cancel, lockVars, seenVars
<1>11. ASSUME NEW p \in Users, NEW v, NEW who, NEW edited,
              InterjectQueuedPrompt(p, v, who, edited)
       PROVE  Fifo'
  BY <1>1, <1>11, InterjectedRowKeepsSends
<1>12. QED
  BY <1>1, <1>2, <1>3, <1>4, <1>5, <1>7, <1>8, <1>9, <1>10, <1>11, PromptKeepsSends
  DEF Commands

LEMMA StartKeepsSends ==
  ASSUME Ground, Fifo, SeenStays, MaybeStartRunningTask, UNCHANGED <<queue, sends, sendNow>>
  PROVE  Fifo'
<1>1. running' = running \/ running = None
  BY DEF MaybeStartRunningTask
<1>2. QED
  BY <1>1, SendFacts, SendsKept

\* What runs is not in the queue that a completion leaves, if it does not run on.
LEMMA CompletionKeepsSends ==
  ASSUME Ground, Fifo, SeenStays, HandleCompletion PROVE Fifo'
<1>1. PICK p : p = Head(completions)
  OBVIOUS
<1>2. /\ UNCHANGED <<sends, sendNow>> /\ running' = RunningAfter(p)
      /\ queue' = IF Owned(p) THEN Tail(queue) ELSE queue
  BY <1>1 DEF HandleCompletion
<1>3. CASE Owned(p)
  <2>1. queue # <<>> /\ running' = None /\ queue' = Tail(queue)
    BY <1>2, <1>3 DEF Owned, RunningAfter
  <2>2. /\ Head(queue) \in Ids /\ Tail(queue) \in Seq(Ids)
        /\ Head(queue) \notin ToSet(Tail(queue))
    BY <2>1, SendFacts, HeadAndTail
  <2>3. queue = <<Head(queue)>> \o Tail(queue) /\ <<Head(queue)>> \in Seq(Ids)
    BY <2>1, <2>2, SendFacts
  <2>4. ASSUME NEW a, NEW b, Before(Tail(queue), a, b)
        PROVE  Before(queue, a, b) /\ a # Head(queue) /\ a \in ToSet(queue)
    <3>1. PICK h, t : h = <<Head(queue)>> /\ t = Tail(queue)
      OBVIOUS
    <3>2. h \in Seq(Ids) /\ t \in Seq(Ids) /\ Before(t, a, b) /\ queue = h \o t
      BY <2>2, <2>3, <2>4, <3>1
    <3>3. Before(h \o t, a, b)
      BY <3>2, BeforeJoin
    <3>4. Before(queue, a, b)
      BY <3>2, <3>3
    <3>5. a \in ToSet(t)
      BY <3>2, BeforeIn
    <3>6. a \in ToSet(queue)
      BY <3>4, SendFacts, BeforeIn
    <3>7. QED
      BY <2>2, <3>1, <3>4, <3>5, <3>6
  <2>5. \A a \in ToSet(queue) : a = running => a = Head(queue)
    BY SendFacts DEF RunsInFront, FrontIs
  <2>6. QED
    BY <1>2, <2>1, <2>4, <2>5, SendsKept
<1>4. CASE ~Owned(p)
  <2>1. queue' = queue
    BY <1>2, <1>4
  <2>2. running' = running
    BY <1>2, <1>4 DEF Owned, RunningAfter, Ground, RunningIsFront
  <2>3. QED
    BY <1>2, <2>1, <2>2, SendsKept
<1>5. QED
  BY <1>3, <1>4

LEMMA TeardownKeepsSends ==
  ASSUME Ground, Fifo, SeenStays, CancelTeardown PROVE Fifo'
<1>1. UNCHANGED <<sends, sendNow>> /\ running' = None
  BY DEF CancelTeardown
<1>2. PICK c, q : c = CancelTakes(job.mode) /\ q = queue'
  OBVIOUS
<1>3. /\ c \in Seq(Ids) /\ q \in Seq(Ids) /\ c \o q = queue
      /\ Closing' \cap ToSet(q) = {}
  BY <1>2, SendFacts, TeardownParts DEF Ground
<1>4. running # None => running \in Closing'
  BY TeardownTakesRunning
<1>5. ASSUME NEW a \in Ids, NEW b, Before(q, a, b)
      PROVE  Before(queue, a, b) /\ a # running
  <2>1. Before(c \o q, a, b)
    <3>1. c \in Seq(Ids) /\ q \in Seq(Ids)
      BY <1>3
    <3>2. QED
      BY <1>5, <3>1, BeforeJoin
  <2>2. Before(queue, a, b)
    BY <1>3, <2>1
  <2>3. a \in ToSet(q)
    BY <1>3, <1>5, BeforeIn
  <2>4. QED
    BY <1>3, <1>4, <2>2, <2>3, SendFacts
<1>6. QED
  BY <1>1, <1>2, <1>5, SendsKept

LEMMA ActorStepsKeepSends ==
  ASSUME Ground, Fifo, ActorSteps PROVE Fifo'
<1>1. SeenStays
  <2>1. CASE CancelAnswers
    BY <2>1 DEF CancelAnswers, Becomes, SeenStays, Seen, Ended
  <2>2. QED
    BY <2>1, ActorStepsMove, ActorStepsKeepEnds, SeenStaysSeen
<1>2. CASE Start
  BY <1>1, <1>2, StartKeepsSends DEF Start, untouchedByStart
<1>3. CASE \/ CancelSnapshot \/ CancelUngates \/ CancelAbort \/ CancelAnswers
           \/ SweepMonitorBuffer \/ FlushStrandedInterjections
  <2>1. UNCHANGED <<queue, running, sends, sendNow>>
    BY <1>3 DEF CancelSnapshot, CancelUngates, CancelAbort, CancelAnswers,
       SweepMonitorBuffer, FlushStrandedInterjections, lockVars, seenVars
  <2>2. QED
    BY <1>1, <2>1, SendsKeptBySweep
<1>4. CASE TurnEnd
  <2>1. /\ UNCHANGED <<running, sends, sendNow>>
        /\ \/ queue' = queue
           \/ \E g \in Goals : fate[g] = "unsent" /\ queue' = Append(queue, g)
    BY <1>4 DEF TurnEnd
  <2>2. ASSUME NEW g \in Goals, fate[g] = "unsent", queue' = Append(queue, g) PROVE Fifo'
    BY <1>1, <2>1, <2>2, KindsAreIds, SendsKeptByAppend
  <2>3. QED
    BY <1>1, <2>1, <2>2, SendsKeptBySweep
<1>5. CASE RequeueStranded
  <2>1. PICK i, items : i = Last(stranded) /\ items = <<i>>
    OBVIOUS
  <2>2. /\ running' = running /\ queue' = InsertRunNext(queue, running, items)
        /\ sendNow' = sendNow \cup {i} /\ sends' = Append(sends, i)
        /\ Becomes({i}, "queued")
    BY <1>5, <2>1 DEF RequeueStranded
  <2>3. i \in Interjections /\ i \in Ids /\ fate[i] = "buffered"
    <3>1. StrandedTyped
      BY DEF Ground, TypeOK, ActorTypes, StrandedTyped
    <3>2. i \in Interjections /\ i \in ToSet(stranded)
      BY <1>5, <2>1, <3>1, StrandedParts
    <3>3. QED
      BY <3>2, KindsAreIds DEF Ground, Ledger, BufferLedger
  <2>4. items \in Seq(Ids) /\ ToSet(items) = {i} /\ IsInjective(items)
    BY <2>1, <2>3, ShortLists
  <2>5. fate'[i] \in Seen
    BY <2>2, <2>3 DEF Becomes, Seen
  <2>6. Append(sends, i) = sends \o items
    BY <2>1, <2>3, SendFacts
  <2>7. QED
    BY <1>1, <2>2, <2>3, <2>4, <2>5, <2>6, SendsKeptByFlush
<1>6. CASE MaybeDrainNotifications
  <2>1. UNCHANGED <<running, sends, sendNow>>
    BY <1>6 DEF MaybeDrainNotifications
  <2>2. CASE ~Idle
    BY <1>1, <1>6, <2>1, <2>2, SendsKeptBySweep DEF MaybeDrainNotifications
  <2>3. CASE Idle
    <3> DEFINE all == notes \o buffer
               muted == IF goal = "off" THEN ToSet(all) \cap GoalTurnNotes ELSE ToSet(all)
    <3>1. PICK told : told = Without(all, muted)
      OBVIOUS
    <3>2. queue' = SubSeq(told, 1, IF told = <<>> THEN 0 ELSE 1)
      BY <1>6, <2>3, <3>1 DEF MaybeDrainNotifications
    <3>3. notes \in Seq(Notes) /\ buffer \in Seq(Notes)
      BY DEF Ground, TypeOK, QueueTypes
    <3>4. all \in Seq(Notes)
      BY <3>3
    <3> HIDE DEF all, muted
    <3>5. told \in Seq(Notes)
      BY <3>1, <3>4, WithoutElements
    <3>6. Len(SubSeq(told, 1, IF told = <<>> THEN 0 ELSE 1)) \in 0..1
      BY <3>5
    <3>7. \A a, b : ~Before(queue', a, b)
      BY <3>2, <3>6, BeforeNothing
    <3>8. QED
      BY <1>1, <2>1, <3>7, SendsKept
  <2>4. QED
    BY <2>2, <2>3
<1>7. QED
  BY <1>1, <1>2, <1>3, <1>4, <1>5, <1>6, CompletionKeepsSends, TeardownKeepsSends
  DEF ActorSteps

LEMMA TurnKeepsSends ==
  ASSUME Ground, Fifo, NEW t \in Ids, Turn(t) PROVE Fifo'
<1>1. SeenStays
  BY TurnMoves, TurnKeepsEnds, SeenStaysSeen
<1>2. /\ UNCHANGED <<running, sends, sendNow>>
      /\ queue' = queue \/ \E w \in Wakes : queue' = Sweep(queue, running, {w})
  BY DEF Turn, TurnBegins, TurnEmits, TurnMerges, TurnInjects, TurnRound, TurnSetsGoal,
     TurnReports, TurnConsumes, TurnParks, TurnUnparks, TurnTails, TurnUnscopes,
     TurnFinishes, TurnReaped, turnOnly
<1>3. queue' = queue \/ \E D : queue' = Without(queue, D)
  BY <1>2 DEF Sweep
<1>4. QED
  BY <1>1, <1>2, <1>3, SendsKeptBySweep

LEMMA OthersKeepSends ==
  ASSUME Ground, Fifo, OtherTasks PROVE Fifo'
<1>1. SeenStays
  BY OthersMove, OthersKeepEnds, SeenStaysSeen
<1>2. CASE StarterStarts \/ ResumeStarts
  BY <1>1, <1>2, StartKeepsSends DEF StarterStarts, ResumeStarts, untouchedByStart
<1>3. CASE ZombieDrops
  BY <1>1, <1>3, SendsKeptBySweep DEF ZombieDrops, turnOnly
<1>4. ASSUME NEW p \in Plans, ResumeQueues(p) PROVE Fifo'
  BY <1>1, <1>4, KindsAreIds, SendsKeptByAppend DEF ResumeQueues
<1>5. QED
  BY <1>2, <1>3, <1>4 DEF OtherTasks

\* The prompts sent now run in the order of the sends, whatever is inserted, swept,
\* removed, cancelled or flushed between them: each stands in front of all those that
\* were sent after it, until a client reorders the rows.
THEOREM SendsRunInOrder == Spec => []SendsAreFifo
<1>1. Init => Fifo
  <2> SUFFICES ASSUME Init PROVE Fifo
    OBVIOUS
  <2>1. PICK e : e = <<>>
    OBVIOUS
  <2>2. sends = e /\ ToSet(e) = {} /\ Len(e) = 0 /\ IsInjective(e)
    BY <2>1, ShortLists DEF Init
  <2>3. QED
    BY <2>2 DEF Fifo, Sent, Stacked, SendsSeen
<1>2. Ground /\ Fifo /\ [Next]_vars => Fifo'
  <2> SUFFICES ASSUME Ground, Fifo, [Next]_vars PROVE Fifo'
    OBVIOUS
  <2>1. CASE Next
    BY <2>1, CommandsKeepSends, ActorStepsKeepSends, TurnKeepsSends, OthersKeepSends DEF Next
  <2>2. CASE UNCHANGED vars
    <3>1. UNCHANGED <<queue, running, sends, sendNow, fate>>
      BY <2>2 DEF vars, lockVars, seenVars
    <3>2. QED
      BY <3>1 DEF Fifo, SendsSeen
  <2>3. QED
    BY <2>1, <2>2
<1>3. Ground /\ Fifo => SendsAreFifo
  <2> SUFFICES ASSUME Ground, Fifo, NEW k \in DOMAIN sends, NEW l \in DOMAIN sends, k < l,
                      sends[l] \in Users, {sends[k], sends[l]} \subseteq ToSet(queue) \ {running}
               PROVE  IndexIn(sends[k], queue) < IndexIn(sends[l], queue)
    BY DEF SendsAreFifo
  <2>1. PICK a, b : a = sends[k] /\ b = sends[l]
    OBVIOUS
  <2>2. /\ DOMAIN sends = 1..Len(sends) /\ DOMAIN queue = 1..Len(queue) /\ a # b
    BY <2>1, SendFacts DEF Fifo, SendsSeen, IsInjective
  <2>3. ~Before(queue, b, a)
    BY <2>1, <2>2 DEF Fifo, Sent
  <2>4. \A x \in ToSet(queue) : IndexIn(x, queue) \in DOMAIN queue /\ queue[IndexIn(x, queue)] = x
    BY DEF ToSet, IndexIn
  <2>5. PICK i \in 1..Len(queue), j \in 1..Len(queue) :
          i = IndexIn(a, queue) /\ j = IndexIn(b, queue) /\ queue[i] = a /\ queue[j] = b
    BY <2>1, <2>2, <2>4
  <2>6. i < j
    BY <2>2, <2>3, <2>5 DEF Before
  <2>7. QED
    BY <2>1, <2>5, <2>6
<1>4. QED
  BY <1>1, <1>2, <1>3, LedgerKept, PTL DEF Spec

=============================================================================
