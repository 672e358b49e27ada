------------------------ MODULE CircuitBreakerProofs ------------------------
(***************************************************************************)
(* What the breaker guarantees for every configuration and every set of    *)
(* callers.  When its calls do not overlap, the mirror agrees with the     *)
(* state, and half-open admits at most half_open_max_probes requests per   *)
(* lease; also when they do, the window counts its failing samples.        *)
(***************************************************************************)
EXTENDS CircuitBreaker, ListTheorems, FiniteSetTheorems

Busy(t) == pc[t] \notin Resting
Alone == \A t, u \in Callers : Busy(t) /\ Busy(u) => t = u

\* In half-open the counter is at least the number of probes admitted within
\* the lease of one another, and the claim the code stores is the last of them.
SlotsHeld ==
    /\ streak <= probes /\ probes <= MaxProbes
    /\ probes > 0 => streak > 0
    /\ streak > 0 => claimed = lastGrant

AtRest ==
    /\ fast = (state = "Open")
    /\ state # "HalfOpen" => probes = 0
    /\ state = "HalfOpen" => SlotsHeld

Probing == {"probe", "add", "claim", "sub", "lease", "takeover"}
Overflowed == IF MaxProbes + 1 = Word THEN 0 ELSE MaxProbes + 1

\* What holds while caller t is in the middle of a call.
Midway(t) ==
    /\ pc[t] # "lost"
    /\ pc[t] \in {"open", "cas", "log"} =>
          state = "Open" /\ fast = TRUE /\ probes = 0
    /\ pc[t] = "push" => state = "Closed" /\ fast = FALSE /\ probes = 0
    /\ pc[t] = "mirror" => state = "HalfOpen" /\ probes = 0 /\ streak = 0
    /\ pc[t] \in Probing => state = "HalfOpen" /\ fast = FALSE
    /\ pc[t] \in {"probe", "add", "lease", "takeover"} => SlotsHeld
    /\ pc[t] = "claim" =>
          /\ streak < probes /\ probes <= MaxProbes
          /\ streak > 0 => claimed = lastGrant
    /\ pc[t] = "sub" =>
          /\ probes = Overflowed
          /\ streak > 0 /\ claimed = lastGrant
    /\ pc[t] \in {"lease", "takeover"} => probes = MaxProbes
    /\ pc[t] = "takeover" => Elapsed(lastGrant, now[t]) >= OpenFor
    /\ pc[t] \in {"tripTime", "tripProbes", "tripMirror"} => state = "Open"
    /\ pc[t] \in {"closeWindow", "closeProbes", "closeMirror"} =>
          state = "Closed"
    /\ pc[t] \in {"tripMirror", "closeMirror"} => probes = 0

Serial ==
    /\ Alone
    /\ streak <= MaxProbes
    /\ Quiet => AtRest
    /\ \A t \in Callers : Midway(t)

Types ==
    /\ parallel \in BOOLEAN /\ state \in States /\ fast \in BOOLEAN
    /\ opened \in 0 .. OpenFor
    /\ claimed \in 0 .. ClaimLimit /\ lastGrant \in 0 .. ClaimLimit
    /\ probes \in 0 .. Word - 1
    /\ pc \in [Callers -> Resting \cup Steps]
    /\ now \in [Callers -> 0 .. MaxPause]
    /\ seen \in [Callers -> 0 .. ClaimLimit]
    /\ bad \in [Callers -> BOOLEAN]
    /\ streak \in 0 .. MaxProbes + 1

\* The inductive invariant.
IInv == Types /\ (parallel = FALSE => Serial)
-----------------------------------------------------------------------------
USE DEF Resting, Steps, States

\* The counter of `half_open_probes` around a rejected claim: the word wraps at
\* most at its own limit, and the subtraction undoes the addition.
LEMMA AddWraps ==
    ASSUME NEW n \in Nat, n <= MaxProbes
    PROVE  (n + 1) % Word = IF n + 1 = Word THEN 0 ELSE n + 1
<1>1. n + 1 \in Nat /\ n + 1 <= Word /\ Word \in Nat /\ Word > 0
  BY LimitAssumption
<1>2. CASE n + 1 = Word  BY <1>1, <1>2
<1>3. CASE n + 1 # Word  BY <1>1, <1>3
<1> QED  BY <1>2, <1>3

\* See AddWraps.
LEMMA SubUndoes == (Overflowed - 1) % Word = MaxProbes
<1>1. MaxProbes \in Nat /\ Word \in Nat /\ MaxProbes < Word /\ MaxProbes > 0
  BY LimitAssumption
<1>2. CASE MaxProbes + 1 = Word
  <2>1. Overflowed - 1 = -1  BY <1>2 DEF Overflowed
  <2>2. (-1) % Word = Word - 1  BY <1>1
  <2> QED  BY <1>1, <1>2, <2>1, <2>2
<1>3. CASE MaxProbes + 1 # Word
  BY <1>1, <1>3 DEF Overflowed
<1> QED  BY <1>2, <1>3

\* Nothing is claimed of a caller that rests.
LEMMA RestingMidway ==
    ASSUME NEW t \in Callers, pc[t] \in Resting
    PROVE  Midway(t)
BY DEF Midway, Probing

\* When calls do not overlap, a step of caller t has to be looked at only where
\* t is: everyone else rests.
LEMMA Focus ==
    ASSUME Types, Alone, NEW t \in Callers, Busy(t) \/ Quiet,
           NEW label \in Resting \cup Steps, Goto(t, label),
           streak' <= MaxProbes, Midway(t)',
           label \in Resting => AtRest'
    PROVE  Serial'
<1>1. \A u \in Callers : u # t => pc[u] \in Resting
  BY DEF Alone, Busy, Quiet
<1>2. pc'[t] = label /\ \A u \in Callers : u # t => pc'[u] = pc[u]
  BY DEF Goto, Types
<1>3. Alone'  BY <1>1, <1>2 DEF Alone, Busy
<1>4. Quiet' => AtRest'  BY <1>2 DEF Quiet
<1>5. ASSUME NEW u \in Callers PROVE Midway(u)'
  <2>1. CASE u = t  BY <2>1
  <2>2. CASE u # t
    <3>1. pc'[u] \in Resting  BY <1>1, <1>2, <2>2
    <3> QED  BY <3>1 DEF Midway, Probing
  <2> QED  BY <2>1, <2>2
<1> QED  BY <1>3, <1>4, <1>5 DEF Serial

\* A new breaker satisfies the invariant.
LEMMA InitIInv == Init => IInv
<1> SUFFICES ASSUME Init PROVE IInv
  OBVIOUS
<1>1. Types
  <2>1. /\ 0 \in 0 .. OpenFor /\ 0 \in 0 .. ClaimLimit /\ 0 \in 0 .. Word - 1
        /\ 0 \in 0 .. MaxPause /\ 0 \in 0 .. MaxProbes + 1
    BY DurationAssumption, LimitAssumption DEF ClaimLimit
  <2>2. /\ pc \in [Callers -> Resting \cup Steps] /\ bad \in [Callers -> BOOLEAN]
        /\ now \in [Callers -> 0 .. MaxPause] /\ seen \in [Callers -> 0 .. ClaimLimit]
    BY <2>1 DEF Init
  <2>3. parallel \in BOOLEAN /\ fast \in BOOLEAN /\ state \in States
    BY DEF Init
  <2> QED  BY <2>1, <2>2, <2>3 DEF Init, Types
<1>2. \A t \in Callers : pc[t] = "idle"  BY DEF Init
<1>3. \A t \in Callers : Midway(t)  BY <1>2, RestingMidway
<1>4. AtRest
  <2>1. fast = (state = "Open")  BY DEF Init
  <2> QED  BY <2>1 DEF Init, AtRest
<1>5. streak <= MaxProbes  BY LimitAssumption DEF Init
<1> QED  BY <1>1, <1>2, <1>3, <1>4, <1>5 DEF IInv, Serial, Alone, Busy

\* The counter of `half_open_probes` stays inside its word.
LEMMA InWord ==
    ASSUME NEW n \in Int
    PROVE  n % Word \in 0 .. Word - 1
<1>1. Word \in Nat /\ Word > 0  BY LimitAssumption
<1> QED  BY <1>1

\* Every step keeps the types.
LEMMA TypesStep ==
    ASSUME Types, [Next]_vars
    PROVE  Types'
<1>w. /\ (probes + 1) % Word \in 0 .. Word - 1
      /\ (probes - 1) % Word \in 0 .. Word - 1
  <2>1. probes + 1 \in Int /\ probes - 1 \in Int
    BY LimitAssumption DEF Types
  <2> QED  BY <2>1, InWord
<1>c. ClaimLimit \in Nat /\ MaxPause \in 0 .. ClaimLimit /\ OpenFor \in 0 .. ClaimLimit
  BY DurationAssumption DEF ClaimLimit
<1> USE DurationAssumption, LimitAssumption DEF Types
<1>l. ASSUME NEW t \in Callers, NEW label \in Resting \cup Steps, Leave(t, label)
      PROVE  /\ pc' \in [Callers -> Resting \cup Steps]
             /\ now' \in [Callers -> 0 .. MaxPause]
             /\ seen' \in [Callers -> 0 .. ClaimLimit]
             /\ bad' \in [Callers -> BOOLEAN]
  BY <1>l, <1>c DEF Leave, Goto
<1>g. ASSUME NEW t \in Callers, Grant(t)
      PROVE  streak' \in 0 .. MaxProbes + 1 /\ lastGrant' \in 0 .. ClaimLimit
  <2>1. now[t] \in 0 .. ClaimLimit  BY <1>c
  <2> QED  BY <1>g, <2>1 DEF Grant
<1>1. CASE UNCHANGED vars  BY <1>1 DEF vars
<1>2. CASE Tick
  <2>1. /\ opened' \in 0 .. OpenFor /\ claimed' \in 0 .. ClaimLimit
        /\ lastGrant' \in 0 .. ClaimLimit
    BY <1>2 DEF Tick, Older, ClaimLimit
  <2>2. now' \in [Callers -> 0 .. MaxPause]  BY <1>2 DEF Tick
  <2>3. seen' \in [Callers -> 0 .. ClaimLimit]
    BY <1>2 DEF Tick, Older, ClaimLimit
  <2> QED  BY <1>2, <2>1, <2>2, <2>3 DEF Tick
<1>3. CASE ErrorRate  BY <1>3 DEF ErrorRate, locals, history
<1>4. ASSUME NEW t \in Callers, Check(t) PROVE Types'
  BY <1>4 DEF Check, Goto, shared, locals, history
<1>5. ASSUME NEW t \in Callers, CheckSteps(t) PROVE Types'
  <2>1. CASE LoadOpened(t)
    BY <2>1 DEF LoadOpened, Goto, shared, history, ClaimLimit
  <2>2. CASE CasHalfOpen(t)
    <3>1. CASE Leave(t, "idle")
      BY <2>2, <3>1, <1>l DEF CasHalfOpen, history
    <3>2. CASE ~Leave(t, "idle")
      BY <2>2, <3>2, <1>c DEF CasHalfOpen, Goto, history
    <3> QED  BY <3>1, <3>2
  <2>3. CASE MirrorHalfOpen(t)
    BY <2>3 DEF MirrorHalfOpen, MirrorOfHalfOpen, Goto, locals, history
  <2>4. CASE LostCas(t)
    <3>1. CASE Leave(t, "idle") \/ Leave(t, "request")
      BY <2>4, <3>1, <1>l DEF LostCas, shared, history
    <3>2. CASE Goto(t, "probe") /\ UNCHANGED locals
      BY <2>4, <3>2 DEF LostCas, Goto, shared, locals, history
    <3> QED  BY <2>4, <3>1, <3>2 DEF LostCas
  <2>5. CASE ReadClock(t)  BY <2>5 DEF ReadClock, Goto, shared, history
  <2>6. CASE AddProbe(t)
    BY <2>6, <1>w DEF AddProbe, Goto, locals, history
  <2>7. CASE ClaimSlot(t)
    <3>1. Grant(t) /\ Leave(t, "request") /\ claimed' \in 0 .. ClaimLimit
      BY <2>7, <1>c DEF ClaimSlot
    <3> QED  BY <2>7, <3>1, <1>l, <1>g DEF ClaimSlot
  <2>8. CASE SubProbe(t)
    BY <2>8, <1>w DEF SubProbe, Goto, locals, history
  <2>9. CASE LoadClaim(t)
    <3>1. CASE Leave(t, "idle")
      BY <2>9, <3>1, <1>l DEF LoadClaim, shared, history
    <3>2. CASE ~Leave(t, "idle")
      BY <2>9, <3>2, <1>c DEF LoadClaim, Goto, shared, history
    <3> QED  BY <3>1, <3>2
  <2>10. CASE TakeOver(t)
    <3>1. CASE claimed' = now[t] /\ Grant(t) /\ Leave(t, "request")
      <4>1. claimed' \in 0 .. ClaimLimit  BY <3>1, <1>c
      <4> QED  BY <2>10, <3>1, <4>1, <1>l, <1>g DEF TakeOver
    <3>2. CASE Leave(t, "idle") /\ UNCHANGED <<claimed, history>>
      BY <2>10, <3>2, <1>l DEF TakeOver, history
    <3> QED  BY <2>10, <3>1, <3>2 DEF TakeOver
  <2> QED
    BY <1>5, <2>1, <2>2, <2>3, <2>4, <2>5, <2>6, <2>7, <2>8, <2>9, <2>10
       DEF CheckSteps
<1>6. ASSUME NEW t \in Callers, RequestEnds(t) PROVE Types'
  <2>1. CASE Drop(t)  BY <2>1 DEF Drop, Goto, shared, locals, history
  <2>2. ASSUME NEW failure \in BOOLEAN, Record(t, failure) PROVE Types'
    BY <2>2 DEF Record, Goto, shared, history
  <2> QED  BY <1>6, <2>1, <2>2 DEF RequestEnds
<1>7. ASSUME NEW t \in Callers, RecordSteps(t) PROVE Types'
  <2>1. CASE PushSample(t)
    <3>1. Leave(t, "idle") \/ Leave(t, "trip")  BY <2>1 DEF PushSample
    <3> QED  BY <2>1, <3>1, <1>l DEF PushSample, history
  <2>2. CASE Trip(t)  BY <2>2 DEF Trip, Goto, locals, history
  <2>3. CASE TripTime(t)  BY <2>3 DEF TripTime, Goto, locals, history
  <2>4. CASE ResetProbes(t)
    BY <2>4 DEF ResetProbes, Goto, locals, history
  <2>5. CASE MirrorState(t)
    BY <2>5, <1>l DEF MirrorState, history
  <2>6. CASE Close(t)  BY <2>6 DEF Close, Goto, locals, history
  <2>7. CASE ClearWindow(t)  BY <2>7 DEF ClearWindow, Goto, locals, history
  <2> QED  BY <1>7, <2>1, <2>2, <2>3, <2>4, <2>5, <2>6, <2>7
           DEF RecordSteps
<1> QED  BY <1>1, <1>2, <1>3, <1>4, <1>5, <1>6, <1>7 DEF Next

-----------------------------------------------------------------------------
\* The steps of `check`, when calls do not overlap.
LEMMA CheckStepsSerial ==
    ASSUME Types, Types', Serial, parallel = FALSE,
           NEW t \in Callers, Check(t) \/ CheckSteps(t)
    PROVE  Serial'
<1> USE DurationAssumption, LimitAssumption DEF Types
<1>0. Alone /\ streak <= MaxProbes /\ Midway(t) /\ (Quiet => AtRest)
  BY DEF Serial
<1>f. ASSUME NEW label \in Resting \cup Steps, Goto(t, label),
             Busy(t) \/ Quiet, streak' <= MaxProbes, Midway(t)',
             label \in Resting => AtRest'
      PROVE  Serial'
  BY <1>0, <1>f, Focus
<1>1. CASE Check(t)
  <2> DEFINE label == CASE state = "Closed"   -> "request"
                        [] state = "Open"     -> "open"
                        [] state = "HalfOpen" -> "probe"
  <2>1. Quiet /\ AtRest  BY <1>0, <1>1 DEF Check, MayCall
  <2>2. Goto(t, label) /\ label \in Resting \cup Steps
        /\ pc'[t] = label
    BY <1>1 DEF Check, Goto
  <2>3. AtRest' /\ streak' <= MaxProbes /\ UNCHANGED <<state, fast, probes>>
    BY <1>0, <1>1, <2>1
       DEF Check, AtRest, SlotsHeld, shared, history, locals
  <2>4. Midway(t)'
    BY <2>1, <2>2, <2>3 DEF Midway, Probing, AtRest
  <2> QED  BY <1>f, <2>1, <2>2, <2>3, <2>4
<1>2. CASE LoadOpened(t)
  <2>1. Midway(t)' /\ Goto(t, "cas") /\ Busy(t) /\ streak' <= MaxProbes
    BY <1>0, <1>2
       DEF LoadOpened, Goto, Busy, Midway, Probing, shared, history
  <2> QED  BY <1>f, <2>1
<1>3. CASE CasHalfOpen(t)
  <2>1. pc[t] = "cas" /\ Busy(t) /\ state = "Open" /\ fast = TRUE /\ probes = 0
    BY <1>0, <1>3 DEF CasHalfOpen, Midway, Busy
  <2>2. CASE seen[t] < OpenFor /\ Leave(t, "idle") /\ UNCHANGED <<state, history>>
    <3>1. Goto(t, "idle") /\ pc'[t] = "idle"  BY <2>2 DEF Leave, Goto
    <3>2. AtRest' /\ streak' <= MaxProbes
      BY <1>0, <1>3, <2>1, <2>2 DEF CasHalfOpen, AtRest, history
    <3>3. Midway(t)'  BY <3>1 DEF Midway, Probing
    <3> QED  BY <1>f, <2>1, <3>1, <3>2, <3>3
  <2>3. CASE /\ state' = "HalfOpen"
             /\ streak' = 0 /\ lastGrant' = 0
             /\ Goto(t, "mirror")
    <3>1. pc'[t] = "mirror" /\ probes' = 0
      BY <1>3, <2>1, <2>3 DEF CasHalfOpen, Goto
    <3>2. Midway(t)'  BY <2>3, <3>1 DEF Midway, Probing
    <3> QED  BY <1>f, <2>1, <2>3, <3>2
  <2> QED  BY <1>3, <2>1, <2>2, <2>3 DEF CasHalfOpen
<1>4. CASE MirrorHalfOpen(t)
  <2>1. pc[t] = "mirror" /\ Busy(t) /\ pc'[t] = "probe" /\ Goto(t, "probe")
    BY <1>4 DEF MirrorHalfOpen, MirrorOfHalfOpen, Busy, Goto
  <2>2. state' = "HalfOpen" /\ fast' = FALSE /\ probes' = 0 /\ streak' = 0
    BY <1>0, <1>4, <2>1
       DEF MirrorHalfOpen, MirrorOfHalfOpen, Midway, history
  <2>3. Midway(t)'  BY <2>1, <2>2 DEF Midway, Probing, SlotsHeld
  <2> QED  BY <1>f, <2>1, <2>2, <2>3
<1>5. CASE LostCas(t)  BY <1>0, <1>5 DEF LostCas, Midway
<1>6. CASE ReadClock(t)
  <2>1. pc[t] = "probe" /\ Busy(t) /\ pc'[t] = "add" /\ Goto(t, "add")
    BY <1>6 DEF ReadClock, Busy, Goto
  <2>2. Midway(t)' /\ streak' <= MaxProbes
    BY <1>0, <1>6, <2>1 DEF ReadClock, Midway, Probing, SlotsHeld, shared, history
  <2> QED  BY <1>f, <2>1, <2>2
<1>7. CASE AddProbe(t)
  <2>1. pc[t] = "add" /\ Busy(t) /\ SlotsHeld /\ state = "HalfOpen"
        /\ fast = FALSE
    BY <1>0, <1>7 DEF AddProbe, Busy, Midway, Probing
  <2>2. UNCHANGED <<state, fast, claimed, streak, lastGrant>>
        /\ streak' <= MaxProbes
    BY <1>0, <1>7 DEF AddProbe, history
  <2>3. probes' = IF probes + 1 = Word THEN 0 ELSE probes + 1
    BY <1>7, <2>1, AddWraps DEF AddProbe, SlotsHeld
  <2>4. CASE probes < MaxProbes
    <3>1. Goto(t, "claim") /\ pc'[t] = "claim"
      BY <1>7, <2>4 DEF AddProbe, SlotFree, Goto
    <3>2. Midway(t)'
      BY <2>1, <2>2, <2>3, <2>4, <3>1 DEF Midway, Probing, SlotsHeld
    <3> QED  BY <1>f, <2>1, <2>2, <3>1, <3>2
  <2>5. CASE ~(probes < MaxProbes)
    <3>1. Goto(t, "sub") /\ pc'[t] = "sub"
      BY <1>7, <2>5 DEF AddProbe, SlotFree, Goto
    <3>2. Midway(t)'
      BY <2>1, <2>2, <2>3, <2>5, <3>1
         DEF Midway, Probing, SlotsHeld, Overflowed
    <3> QED  BY <1>f, <2>1, <2>2, <3>1, <3>2
  <2> QED  BY <2>4, <2>5
<1>8. CASE ClaimSlot(t)
  <2>1. /\ pc[t] = "claim" /\ Busy(t) /\ state = "HalfOpen" /\ fast = FALSE
        /\ streak < probes /\ probes <= MaxProbes
    BY <1>0, <1>8 DEF ClaimSlot, Busy, Midway, Probing
  <2>2. Goto(t, "request") /\ pc'[t] = "request"
    BY <1>8 DEF ClaimSlot, Leave, Goto
  <2>3. streak' <= probes /\ streak' > 0 /\ streak' <= MaxProbes
        /\ claimed' = lastGrant' /\ UNCHANGED <<state, fast, probes>>
    BY <1>8, <2>1 DEF ClaimSlot, Grant
  <2>4. AtRest'
    <3>1. fast' = (state' = "Open")  BY <2>1, <2>3
    <3> QED  BY <2>1, <2>3, <3>1 DEF AtRest, SlotsHeld
  <2>5. Midway(t)'  BY <2>2 DEF Midway, Probing
  <2> QED  BY <1>f, <2>1, <2>2, <2>3, <2>4, <2>5
<1>9. CASE SubProbe(t)
  <2>1. /\ pc[t] = "sub" /\ Busy(t) /\ state = "HalfOpen" /\ fast = FALSE
        /\ probes = Overflowed /\ streak > 0 /\ claimed = lastGrant
    BY <1>0, <1>9 DEF SubProbe, Busy, Midway, Probing
  <2>2. Goto(t, "lease") /\ pc'[t] = "lease"  BY <1>9 DEF SubProbe, Goto
  <2>3. probes' = MaxProbes  BY <1>9, <2>1, SubUndoes DEF SubProbe
  <2>4. UNCHANGED <<state, fast, claimed, streak, lastGrant>>
    BY <1>9 DEF SubProbe, history
  <2>5. Midway(t)'
    BY <1>0, <2>1, <2>2, <2>3, <2>4 DEF Midway, Probing, SlotsHeld
  <2> QED  BY <1>f, <1>0, <2>1, <2>2, <2>4, <2>5
<1>10. CASE LoadClaim(t)
  <2>1. /\ pc[t] = "lease" /\ Busy(t) /\ state = "HalfOpen" /\ fast = FALSE
        /\ probes = MaxProbes /\ SlotsHeld
    BY <1>0, <1>10 DEF LoadClaim, Busy, Midway, Probing
  <2>2. UNCHANGED <<state, fast, probes, claimed, streak, lastGrant>>
    BY <1>10 DEF LoadClaim, shared, history
  <2>3. CASE /\ Elapsed(claimed, now[t]) >= OpenFor
             /\ Goto(t, "takeover") /\ UNCHANGED now
    <3>1. pc'[t] = "takeover"  BY <2>3 DEF Goto
    <3>2. claimed = lastGrant  BY <2>1 DEF SlotsHeld
    <3>3. Midway(t)'
      BY <2>1, <2>2, <2>3, <3>1, <3>2 DEF Midway, Probing, SlotsHeld, Elapsed
    <3> QED  BY <1>f, <1>0, <2>1, <2>2, <2>3, <3>3
  <2>4. CASE Leave(t, "idle")
    <3>1. Goto(t, "idle") /\ pc'[t] = "idle"  BY <2>4 DEF Leave, Goto
    <3>2. fast' = (state' = "Open")  BY <2>1, <2>2
    <3>3. AtRest'  BY <2>1, <2>2, <3>2 DEF AtRest, SlotsHeld
    <3>4. Midway(t)'  BY <3>1 DEF Midway, Probing
    <3> QED  BY <1>f, <1>0, <2>1, <2>2, <3>1, <3>3, <3>4
  <2> QED  BY <1>10, <2>3, <2>4 DEF LoadClaim, LeaseOver
<1>11. CASE TakeOver(t)
  <2>1. /\ pc[t] = "takeover" /\ Busy(t) /\ state = "HalfOpen" /\ fast = FALSE
        /\ probes = MaxProbes /\ SlotsHeld
        /\ Elapsed(lastGrant, now[t]) >= OpenFor
    BY <1>0, <1>11 DEF TakeOver, Busy, Midway, Probing
  <2>2. UNCHANGED <<state, fast, probes>>  BY <1>11 DEF TakeOver
  <2>3. fast' = (state' = "Open")  BY <2>1, <2>2
  <2>4. CASE claimed' = now[t] /\ Grant(t) /\ Leave(t, "request")
    <3>1. Goto(t, "request") /\ pc'[t] = "request"  BY <2>4 DEF Leave, Goto
    <3>2. streak > 0  BY <2>1 DEF SlotsHeld
    <3>3. streak' = 1 /\ claimed' = lastGrant'
      BY <2>1, <2>4, <3>2 DEF Grant
    <3>4. AtRest'  BY <2>1, <2>2, <2>3, <3>3 DEF AtRest, SlotsHeld
    <3>5. Midway(t)'  BY <3>1 DEF Midway, Probing
    <3> QED  BY <1>f, <2>1, <3>1, <3>3, <3>4, <3>5
  <2>5. CASE Leave(t, "idle") /\ UNCHANGED <<claimed, history>>
    <3>1. Goto(t, "idle") /\ pc'[t] = "idle"  BY <2>5 DEF Leave, Goto
    <3>2. AtRest' /\ streak' <= MaxProbes
      BY <1>0, <2>1, <2>2, <2>3, <2>5 DEF AtRest, SlotsHeld, history
    <3>3. Midway(t)'  BY <3>1 DEF Midway, Probing
    <3> QED  BY <1>f, <2>1, <3>1, <3>2, <3>3
  <2> QED  BY <1>11, <2>4, <2>5 DEF TakeOver
<1> QED  BY <1>1, <1>2, <1>3, <1>4, <1>5, <1>6, <1>7, <1>8, <1>9, <1>10, <1>11
         DEF CheckSteps

\* The end of a request and the steps of `record`, when calls do not overlap.
LEMMA RecordStepsSerial ==
    ASSUME Types, Types', Serial, parallel = FALSE,
           NEW t \in Callers, RequestEnds(t) \/ RecordSteps(t)
    PROVE  Serial'
<1> USE DurationAssumption, LimitAssumption DEF Types
<1>0. Alone /\ streak <= MaxProbes /\ Midway(t) /\ (Quiet => AtRest)
  BY DEF Serial
<1>f. ASSUME NEW label \in Resting \cup Steps, Goto(t, label),
             Busy(t) \/ Quiet, streak' <= MaxProbes, Midway(t)',
             label \in Resting => AtRest'
      PROVE  Serial'
  BY <1>0, <1>f, Focus
<1>1. CASE Drop(t)
  <2>1. /\ pc[t] = "request" /\ pc' = [pc EXCEPT ![t] = "idle"]
        /\ UNCHANGED <<state, fast, probes, claimed, streak, lastGrant, now>>
    BY <1>1 DEF Drop, Goto, shared, locals, history
  <2>2. \A u \in Callers : pc'[u] = pc[u] \/ (u = t /\ pc'[u] = "idle")
    BY <2>1
  <2>3. Alone' /\ streak' <= MaxProbes
    BY <1>0, <2>1, <2>2 DEF Alone, Busy
  <2>4. Quiet' => AtRest'
    <3>1. Quiet' => Quiet  BY <2>1, <2>2 DEF Quiet
    <3>2. AtRest => AtRest'  BY <2>1 DEF AtRest, SlotsHeld
    <3> QED  BY <1>0, <3>1, <3>2
  <2>5. ASSUME NEW u \in Callers PROVE Midway(u)'
    <3>1. CASE pc'[u] = pc[u]
      <4>1. Midway(u)  BY DEF Serial
      <4> QED  BY <2>1, <3>1, <4>1 DEF Midway, Probing, SlotsHeld, Elapsed
    <3>2. CASE pc'[u] = "idle"  BY <3>2 DEF Midway, Probing
    <3> QED  BY <2>2, <3>1, <3>2
  <2> QED  BY <2>3, <2>4, <2>5 DEF Serial
<1>2. ASSUME NEW failure \in BOOLEAN, Record(t, failure) PROVE Serial'
  <2> DEFINE label == CASE state = "Closed"               -> "push"
                        [] state = "Open"                 -> "log"
                        [] state = "HalfOpen" /\ failure  -> "trip"
                        [] state = "HalfOpen" /\ ~failure -> "close"
  <2>1. Quiet /\ AtRest  BY <1>0, <1>2 DEF Record, MayCall
  <2>2. Goto(t, label) /\ label \in Steps /\ pc'[t] = label
    BY <1>2 DEF Record, Goto
  <2>3. streak' <= MaxProbes /\ UNCHANGED <<state, fast, probes>>
    BY <1>0, <1>2 DEF Record, shared, history
  <2>4. Midway(t)'  BY <2>1, <2>2, <2>3 DEF Midway, Probing, AtRest
  <2> QED  BY <1>f, <2>1, <2>2, <2>3, <2>4
<1>3. CASE PushSample(t)
  <2>1. pc[t] \in {"push", "log"} /\ Busy(t)  BY <1>3 DEF PushSample, Busy
  <2>2. UNCHANGED <<state, fast, probes, streak>> /\ streak' <= MaxProbes
    BY <1>0, <1>3 DEF PushSample, history
  <2>3. AtRest'
    <3>1. fast' = (state' = "Open") /\ state' # "HalfOpen" /\ probes' = 0
      BY <1>0, <2>1, <2>2 DEF Midway
    <3> QED  BY <3>1 DEF AtRest
  <2>4. PICK label \in {"trip", "idle"} : Goto(t, label)
    BY <1>3 DEF PushSample, Leave
  <2>5. pc'[t] = label  BY <2>4 DEF Goto
  <2>6. Midway(t)'  BY <2>5 DEF Midway, Probing
  <2> QED  BY <1>f, <2>1, <2>2, <2>3, <2>4, <2>6
<1>4. CASE Trip(t)
  <2>1. Busy(t) /\ Goto(t, "tripTime") /\ pc'[t] = "tripTime" /\ state' = "Open"
        /\ streak' <= MaxProbes
    BY <1>0, <1>4 DEF Trip, Busy, Goto, history
  <2>2. Midway(t)'  BY <2>1 DEF Midway, Probing
  <2> QED  BY <1>f, <2>1, <2>2
<1>5. CASE TripTime(t)
  <2>1. Busy(t) /\ Goto(t, "tripProbes") /\ pc'[t] = "tripProbes"
        /\ state' = "Open" /\ streak' <= MaxProbes
    BY <1>0, <1>5 DEF TripTime, Busy, Goto, history, Midway
  <2>2. Midway(t)'  BY <2>1 DEF Midway, Probing
  <2> QED  BY <1>f, <2>1, <2>2
<1>6. CASE ResetProbes(t)
  <2>1. Busy(t) /\ probes' = 0 /\ streak' <= MaxProbes /\ state' = state
    BY <1>0, <1>6 DEF ResetProbes, Busy, history
  <2>2. CASE pc[t] = "tripProbes"
    <3>1. Goto(t, "tripMirror") /\ pc'[t] = "tripMirror" /\ state = "Open"
      BY <1>0, <1>6, <2>2 DEF ResetProbes, Goto, Midway
    <3>2. Midway(t)'  BY <2>1, <3>1 DEF Midway, Probing
    <3> QED  BY <1>f, <2>1, <3>1, <3>2
  <2>3. CASE pc[t] = "closeProbes"
    <3>1. Goto(t, "closeMirror") /\ pc'[t] = "closeMirror" /\ state = "Closed"
      BY <1>0, <1>6, <2>3 DEF ResetProbes, Goto, Midway
    <3>2. Midway(t)'  BY <2>1, <3>1 DEF Midway, Probing
    <3> QED  BY <1>f, <2>1, <3>1, <3>2
  <2> QED  BY <1>6, <2>2, <2>3 DEF ResetProbes
<1>7. CASE MirrorState(t)
  <2>1. Busy(t) /\ Goto(t, "idle") /\ pc'[t] = "idle" /\ streak' <= MaxProbes
        /\ UNCHANGED <<state, probes>>
    BY <1>0, <1>7 DEF MirrorState, Busy, Leave, Goto, history
  <2>2. fast' = (state' = "Open") /\ state' # "HalfOpen" /\ probes' = 0
    <3>1. CASE pc[t] = "tripMirror"
      BY <1>0, <1>7, <2>1, <3>1 DEF MirrorState, Midway
    <3>2. CASE pc[t] = "closeMirror"
      BY <1>0, <1>7, <2>1, <3>2 DEF MirrorState, Midway
    <3> QED  BY <1>7, <3>1, <3>2 DEF MirrorState
  <2>3. AtRest' /\ Midway(t)'  BY <2>1, <2>2 DEF AtRest, Midway, Probing
  <2> QED  BY <1>f, <2>1, <2>3
<1>8. CASE Close(t)
  <2>1. Busy(t) /\ Goto(t, "closeWindow") /\ pc'[t] = "closeWindow"
        /\ state' = "Closed" /\ streak' <= MaxProbes
    BY <1>0, <1>8 DEF Close, Busy, Goto, history
  <2>2. Midway(t)'  BY <2>1 DEF Midway, Probing
  <2> QED  BY <1>f, <2>1, <2>2
<1>9. CASE ClearWindow(t)
  <2>1. Busy(t) /\ Goto(t, "closeProbes") /\ pc'[t] = "closeProbes"
        /\ state' = "Closed" /\ streak' <= MaxProbes
    BY <1>0, <1>9 DEF ClearWindow, Busy, Goto, history, Midway
  <2>2. Midway(t)'  BY <2>1 DEF Midway, Probing
  <2> QED  BY <1>f, <2>1, <2>2
<1> QED  BY <1>1, <1>2, <1>3, <1>4, <1>5, <1>6, <1>7, <1>8, <1>9
         DEF RequestEnds, RecordSteps

\* Time passes in the middle of a call too: a lease that had run out stays so,
\* because a reading in use is never older than MaxPause.
LEMMA TickSerial ==
    ASSUME Types, Serial, Tick
    PROVE  Serial'
<1> USE DurationAssumption, LimitAssumption DEF Types
<1>1. UNCHANGED <<state, fast, probes, streak, pc>>  BY DEF Tick
<1>2. streak > 0 /\ claimed = lastGrant => claimed' = lastGrant'  BY DEF Tick
<1>3. Alone' /\ streak' <= MaxProbes
  BY <1>1 DEF Serial, Alone, Busy
<1>4. Quiet' => AtRest'
  <2>1. Quiet' => Quiet  BY <1>1 DEF Quiet
  <2>2. AtRest => AtRest'  BY <1>1, <1>2 DEF AtRest, SlotsHeld
  <2> QED  BY <2>1, <2>2 DEF Serial
<1>5. ASSUME NEW t \in Callers PROVE Midway(t)'
  <2>1. Midway(t)  BY DEF Serial
  <2>2. pc[t] \in {"probe", "add", "lease", "takeover"} => SlotsHeld'
    BY <1>1, <1>2, <2>1 DEF Midway, SlotsHeld
  <2>3. pc[t] = "takeover" => Elapsed(lastGrant, now[t])' >= OpenFor
    <3> SUFFICES ASSUME pc[t] = "takeover"
                 PROVE  Elapsed(lastGrant, now[t])' >= OpenFor
      OBVIOUS
    <3>1. Elapsed(lastGrant, now[t]) >= OpenFor /\ streak > 0
      BY <2>1 DEF Midway, SlotsHeld
    <3>2. now[t] < MaxPause /\ now'[t] = now[t] + 1  BY DEF Tick, UsesNow
    <3>3. lastGrant' = Older(lastGrant, ClaimLimit)  BY <3>1 DEF Tick
    <3>4. lastGrant' = lastGrant + 1 \/ lastGrant' = ClaimLimit
      BY <3>3 DEF Older, ClaimLimit
    <3> QED  BY <3>1, <3>2, <3>4 DEF Elapsed, ClaimLimit
  <2> QED  BY <1>1, <1>2, <2>1, <2>2, <2>3 DEF Midway, Probing
<1> QED  BY <1>3, <1>4, <1>5 DEF Serial

\* Every step keeps the invariant.
LEMMA IInvStep ==
    ASSUME IInv, [Next]_vars
    PROVE  IInv'
<1>1. Types'  BY TypesStep DEF IInv
<1>2. Types /\ parallel' = parallel
  BY DEF IInv, Next, vars, Tick, ErrorRate, Check, CheckSteps, RequestEnds,
         RecordSteps, LoadOpened, CasHalfOpen, MirrorHalfOpen, LostCas,
         ReadClock, AddProbe, ClaimSlot, SubProbe, LoadClaim, TakeOver, Drop,
         Record, PushSample, Trip, TripTime, ResetProbes, MirrorState, Close,
         ClearWindow, shared
<1>3. ASSUME parallel = FALSE PROVE Serial'
  <2>1. Serial  BY <1>3 DEF IInv
  <2>2. CASE UNCHANGED vars
    BY <2>1, <2>2 DEF vars, Serial, Alone, Busy, Quiet, AtRest, SlotsHeld,
                      Midway, Probing, Elapsed
  <2>3. CASE Tick  BY <1>2, <2>1, <2>3, TickSerial
  <2>4. CASE ErrorRate
    BY <2>1, <2>4 DEF ErrorRate, locals, history, Serial, Alone, Busy, Quiet,
                      AtRest, SlotsHeld, Midway, Probing, Elapsed
  <2>5. ASSUME NEW t \in Callers, Check(t) \/ CheckSteps(t) PROVE Serial'
    BY <1>1, <1>2, <1>3, <2>1, <2>5, CheckStepsSerial
  <2>6. ASSUME NEW t \in Callers, RequestEnds(t) \/ RecordSteps(t) PROVE Serial'
    BY <1>1, <1>2, <1>3, <2>1, <2>6, RecordStepsSerial
  <2> QED  BY <2>2, <2>3, <2>4, <2>5, <2>6 DEF Next
<1> QED  BY <1>1, <1>2, <1>3 DEF IInv

\* IInv holds in every reachable state.
THEOREM Invariance == Spec => []IInv
<1>1. Init => IInv  BY InitIInv
<1>2. IInv /\ [Next]_vars => IInv'  BY IInvStep
<1> QED  BY <1>1, <1>2, PTL DEF Spec

\* When calls of the breaker do not overlap, is_open() (breaker.rs:155) is
\* state() = Open whenever none is in progress, for every configuration.
THEOREM MirrorNeverLies == Spec => []MirrorAgrees
<1>1. IInv => MirrorAgrees
  <2> SUFFICES ASSUME IInv, parallel = FALSE, Quiet
               PROVE  fast <=> state = "Open"
    BY DEF IInv, Types, MirrorAgrees
  <2> QED  BY DEF IInv, Serial, AtRest
<1> QED  BY <1>1, Invariance, PTL

\* When calls do not overlap, half-open admits at most half_open_max_probes
\* requests within the lease of one another, for every configuration and however
\* late requests of earlier periods report (breaker.rs:277-320).
THEOREM ProbesBounded == Spec => []SerialProbesWithinSlots
<1>1. IInv => SerialProbesWithinSlots
  BY DEF IInv, Types, Serial, SerialProbesWithinSlots
<1> QED  BY <1>1, Invariance, PTL
-----------------------------------------------------------------------------
(* The count of failing samples.  A sample is appended behind the others,  *)
(* and what is dropped is a prefix.                                        *)

\* The failing samples among the first n are finitely many.
LEMMA FailingIsFinite ==
    ASSUME NEW q, NEW n \in Nat
    PROVE  /\ IsFiniteSet(Failing(q, n)) /\ Cardinality(Failing(q, n)) \in Nat
           /\ Failing(q, n) \subseteq 1 .. n
<1>1. IsFiniteSet(1 .. n)  BY FS_Interval
<1>2. Failing(q, n) \in SUBSET (1 .. n)  BY DEF Failing
<1>3. IsFiniteSet(Failing(q, n))  BY <1>1, <1>2, FS_Subset
<1> QED  BY <1>2, <1>3, FS_CardinalityType

\* A sample at the end counts if it is a failure.
LEMMA AppendCounts ==
    ASSUME NEW q \in Seq(Entries), NEW e \in Entries
    PROVE  /\ Append(q, e) \in Seq(Entries) /\ Len(Append(q, e)) = Len(q) + 1
           /\ Cardinality(Failing(Append(q, e), Len(q) + 1)) =
                Cardinality(Failing(q, Len(q))) + (IF e.bad THEN 1 ELSE 0)
<1> DEFINE s == Append(q, e)
           n == Len(q)
<1>1. /\ s \in Seq(Entries) /\ Len(s) = n + 1 /\ n \in Nat
      /\ \A i \in 1 .. n : s[i] = q[i]
      /\ s[n + 1] = e
  BY AppendProperties
<1>2. IsFiniteSet(Failing(q, n)) /\ n + 1 \notin Failing(q, n)
      /\ Cardinality(Failing(q, n)) \in Nat
  BY <1>1, FailingIsFinite
<1> HIDE DEF s, n
<1>3. e.bad => Failing(s, n + 1) = Failing(q, n) \cup {n + 1}
  BY <1>1 DEF Failing
<1>4. ~e.bad => Failing(s, n + 1) = Failing(q, n)
  BY <1>1 DEF Failing
<1>5. Cardinality(Failing(q, n) \cup {n + 1}) = Cardinality(Failing(q, n)) + 1
  BY <1>2, FS_AddElement
<1>6. Cardinality(Failing(s, n + 1)) =
        Cardinality(Failing(q, n)) + (IF e.bad THEN 1 ELSE 0)
  <2>1. CASE e.bad  BY <1>3, <1>5, <2>1
  <2>2. CASE ~e.bad  BY <1>2, <1>4, <2>2
  <2> QED  BY <2>1, <2>2
<1> QED  BY <1>1, <1>6 DEF s, n

\* What follows the first m samples has the failures that are not among them.
LEMMA DropCounts ==
    ASSUME NEW q \in Seq(Entries), NEW m \in 0 .. Len(q)
    PROVE  LET s == SubSeq(q, m + 1, Len(q))
           IN  /\ s \in Seq(Entries) /\ Len(s) = Len(q) - m
               /\ Cardinality(Failing(s, Len(s))) =
                    Cardinality(Failing(q, Len(q))) - Cardinality(Failing(q, m))
<1> DEFINE s == SubSeq(q, m + 1, Len(q))
           n == Len(q)
           late == Failing(q, n) \ Failing(q, m)
           shift == [i \in late |-> i - m]
<1>1. n \in Nat /\ m \in Nat /\ m <= n /\ \A i \in 1 .. n : q[i] \in Entries
  OBVIOUS
<1>2. /\ s \in Seq(Entries) /\ Len(s) = n - m
      /\ \A i \in 1 .. n - m : s[i] = q[m + i]
  <2>1. \A i \in m + 1 .. n : q[i] \in Entries  BY <1>1
  <2>2. m + 1 \in Int /\ n \in Int  BY <1>1
  <2>3. /\ s \in Seq(Entries)
        /\ Len(s) = IF m + 1 <= n THEN n - (m + 1) + 1 ELSE 0
        /\ \A i \in 1 .. n - (m + 1) + 1 : s[i] = q[m + 1 + i - 1]
    BY <2>1, <2>2, SubSeqProperties
  <2> HIDE DEF s, n
  <2>4. Len(s) = n - m  BY <1>1, <2>3
  <2>5. n - (m + 1) + 1 = n - m /\ \A i \in 1 .. n - m : m + 1 + i - 1 = m + i
    BY <1>1
  <2>6. \A i \in 1 .. n - m : s[i] = q[m + i]  BY <2>3, <2>5
  <2> QED  BY <2>3, <2>4, <2>6
<1> HIDE DEF s, n
<1>3. late = {i \in m + 1 .. n : q[i].bad}
  BY <1>1 DEF Failing
<1>4. Failing(s, n - m) = {i \in 1 .. n - m : q[m + i].bad}
  BY <1>1, <1>2 DEF Failing
<1>5. shift \in Bijection(late, Failing(s, n - m))
  <2> HIDE DEF late
  <2>1. \A i \in late : i - m \in Failing(s, n - m) /\ i \in Int
    BY <1>1, <1>3, <1>4
  <2>2. shift \in [late -> Failing(s, n - m)]  BY <2>1
  <2>3. \A a, b \in late : shift[a] = shift[b] => a = b  BY <1>1, <2>1
  <2>4. \A j \in Failing(s, n - m) : \E i \in late : shift[i] = j
    <3> TAKE j \in Failing(s, n - m)
    <3>1. m + j \in late /\ (m + j) - m = j  BY <1>1, <1>3, <1>4
    <3> QED  BY <3>1
  <2> HIDE DEF shift
  <2> QED  BY <2>2, <2>3, <2>4 DEF Bijection, Injection, Surjection, IsInjective
<1>6. IsFiniteSet(Failing(q, n)) /\ IsFiniteSet(Failing(q, m))
  BY <1>1, FailingIsFinite
<1>7. IsFiniteSet(late)
      /\ Cardinality(late) =
           Cardinality(Failing(q, n)) - Cardinality(Failing(q, n) \cap Failing(q, m))
  BY <1>6, FS_Difference
<1>8. Failing(q, n) \cap Failing(q, m) = Failing(q, m)
  BY <1>1 DEF Failing
<1>9. Cardinality(Failing(s, n - m)) = Cardinality(late)
  <2> HIDE DEF late, shift
  <2>1. ExistsBijection(late, Failing(s, n - m))  BY <1>5 DEF ExistsBijection
  <2> QED  BY <1>7, <2>1, FS_Bijection
<1> HIDE DEF late, shift
<1>10. Cardinality(Failing(s, Len(s))) =
         Cardinality(Failing(q, n)) - Cardinality(Failing(q, m))
  BY <1>2, <1>7, <1>8, <1>9
<1> QED  BY <1>2, <1>10 DEF s, n

\* The window holds samples, at most MAX_WINDOW_ENTRIES of them, and counts the
\* failing ones.
Counted(w) ==
    /\ w \in [entries : Seq(Entries), failures : Nat]
    /\ w.failures = Cardinality(Failing(w.entries, Len(w.entries)))
Windowed == Counted(window) /\ Len(window.entries) <= MaxEntries

\* The window of a new or a closed breaker.
LEMMA EmptyCounts == Counted(EmptyWindow) /\ Len(EmptyWindow.entries) <= MaxEntries
<1>1. Failing(<<>>, 0) = {} /\ Len(<<>>) = 0 /\ <<>> \in Seq(Entries)
  BY DEF Failing
<1> QED  BY <1>1, FS_EmptySet, LimitAssumption DEF Counted, EmptyWindow

\* A push keeps the count, whether or not the cap pushes a sample out.
LEMMA PushCounts ==
    ASSUME NEW w, Counted(w), Len(w.entries) <= MaxEntries,
           NEW failure \in BOOLEAN, NEW age \in 0 .. SampleLimit
    PROVE  Counted(Push(w, failure, age))
           /\ Len(Push(w, failure, age).entries) <= MaxEntries
<1> DEFINE q == w.entries
           e == [age |-> age, bad |-> failure]
           kept == IF Full(w) THEN Tail(q) ELSE q
<1>1. q \in Seq(Entries) /\ Len(q) \in Nat /\ Len(q) <= MaxEntries
      /\ e \in Entries /\ e.bad = failure /\ MaxEntries \in Nat \ {0}
      /\ w.failures = Cardinality(Failing(q, Len(q)))
  BY LimitAssumption DEF Counted, Entries
<1>2. /\ kept \in Seq(Entries) /\ Len(kept) < MaxEntries
      /\ Cardinality(Failing(kept, Len(kept))) = w.failures - Lost(w)
  <2>1. CASE Full(w)
    <3>1. q # <<>> /\ 1 \in 0 .. Len(q) /\ Len(q) = MaxEntries
      BY <1>1, <2>1 DEF Full
    <3>2. kept = SubSeq(q, 1 + 1, Len(q))
      BY <1>1, <2>1, <3>1, TailIsSubSeq
    <3> HIDE DEF q, kept
    <3>3. /\ kept \in Seq(Entries) /\ Len(kept) = Len(q) - 1
          /\ Cardinality(Failing(kept, Len(kept))) =
               w.failures - Cardinality(Failing(q, 1))
      BY <1>1, <3>1, <3>2, DropCounts
    <3>4. Cardinality(Failing(q, 1)) = Lost(w)
      <4>1. CASE q[1].bad
        <5>1. Failing(q, 1) = 1 .. 1  BY <4>1 DEF Failing
        <5>2. Cardinality(1 .. 1) = 1
          <6>1. 1 .. 1 = {1}  OBVIOUS
          <6>2. Cardinality({1}) = 1  BY FS_Singleton, Zenon
          <6> QED  BY <6>1, <6>2, Zenon
        <5>3. Lost(w) = 1  BY <2>1, <4>1 DEF Lost, q
        <5> QED  BY <5>1, <5>2, <5>3
      <4>2. CASE ~q[1].bad
        <5>1. Failing(q, 1) = {}  BY <4>2 DEF Failing
        <5>2. Lost(w) = 0  BY <4>2 DEF Lost, q
        <5> QED  BY <5>1, <5>2, FS_EmptySet
      <4> QED  BY <4>1, <4>2
    <3> QED  BY <1>1, <3>1, <3>3, <3>4
  <2>2. CASE ~Full(w)
    <3>1. kept = q /\ Lost(w) = 0 /\ Len(q) < MaxEntries
      BY <1>1, <2>2 DEF Full, Lost
    <3> HIDE DEF q, kept
    <3>2. w.failures \in Nat  BY <1>1, FailingIsFinite
    <3> QED  BY <1>1, <3>1, <3>2
  <2> QED  BY <2>1, <2>2
<1>3. Push(w, failure, age) =
        [entries  |-> Append(kept, e),
         failures |-> w.failures - Lost(w) + (IF failure THEN 1 ELSE 0)]
  BY DEF Push
<1> HIDE DEF q, e, kept
<1>4. /\ Append(kept, e) \in Seq(Entries)
      /\ Len(Append(kept, e)) = Len(kept) + 1
      /\ Cardinality(Failing(Append(kept, e), Len(kept) + 1)) =
           w.failures - Lost(w) + (IF failure THEN 1 ELSE 0)
  BY <1>1, <1>2, AppendCounts
<1>5. Len(Append(kept, e)) \in Nat /\ Len(Append(kept, e)) <= MaxEntries
  BY <1>1, <1>2, <1>4
<1>6. Cardinality(Failing(Append(kept, e), Len(Append(kept, e)))) \in Nat
  BY <1>5, FailingIsFinite
<1> QED  BY <1>3, <1>4, <1>5, <1>6 DEF Counted

\* An eviction keeps the count.
LEMMA EvictCounts ==
    ASSUME NEW w, Counted(w), NEW reading \in Nat
    PROVE  /\ Counted(Evict(w, reading))
           /\ Len(Evict(w, reading).entries) <= Len(w.entries)
<1> DEFINE q == w.entries
           n == Len(q)
           live == {i \in 1 .. n : Elapsed(q[i].age, reading) <= WindowFor}
           first == IF live = {} THEN n + 1
                    ELSE CHOOSE i \in live : \A j \in live : i <= j
           s == SubSeq(q, first, n)
<1>1. q \in Seq(Entries) /\ n \in Nat
      /\ w.failures = Cardinality(Failing(q, n))
  BY DEF Counted
<1>2. first \in 1 .. n + 1
  <2> HIDE DEF q, n
  <2>1. CASE live = {}
    <3>1. first = n + 1  BY <2>1
    <3> QED  BY <1>1, <3>1
  <2>2. CASE live # {}
    <3>1. live \subseteq Nat /\ live \subseteq 1 .. n  BY <1>1
    <3> HIDE DEF live
    <3>2. \E i \in live : \A j \in live : i <= j  BY <2>2, <3>1, LeastNatural
    <3>3. first \in live  BY <2>2, <3>2
    <3> HIDE DEF first
    <3> QED  BY <1>1, <3>1, <3>3
  <2> HIDE DEF live, first
  <2> QED  BY <2>1, <2>2
<1>3. Evict(w, reading) =
        [entries |-> s, failures |-> w.failures - Cardinality(Failing(q, first - 1))]
  BY DEF Evict
<1> HIDE DEF q, n, first, s
<1>4. first - 1 \in 0 .. n /\ (first - 1) + 1 = first  BY <1>1, <1>2
<1>5. /\ s \in Seq(Entries) /\ Len(s) = n - (first - 1)
      /\ Cardinality(Failing(s, Len(s))) =
           w.failures - Cardinality(Failing(q, first - 1))
  BY <1>1, <1>4, DropCounts DEF s, n
<1>6. Len(s) \in Nat /\ Len(s) <= n  BY <1>1, <1>4, <1>5
<1>7. Cardinality(Failing(s, Len(s))) \in Nat  BY <1>6, FailingIsFinite
<1> QED  BY <1>3, <1>5, <1>6, <1>7 DEF Counted, n, q


\* Time makes samples older, and counts none of them out.
LEMMA TickCounts ==
    ASSUME Windowed, Tick
    PROVE  Windowed'
<1> DEFINE q == window.entries
           r == [i \in DOMAIN q |-> Aged(q[i])]
           n == Len(q)
<1>1. window' = [entries |-> r, failures |-> window.failures]
  <2>1. window \in [entries : Seq(Entries), failures : Nat]
    BY DEF Windowed, Counted
  <2>2. window' = [window EXCEPT !.entries = r]  BY DEF Tick
  <2> HIDE DEF r
  <2> QED  BY <2>1, <2>2
<1>2. q \in Seq(Entries) /\ n \in Nat /\ DOMAIN q = 1 .. n /\ n <= MaxEntries
      /\ window.failures \in Nat
      /\ window.failures = Cardinality(Failing(q, n))
  BY DEF Windowed, Counted
<1>3. SampleLimit \in Nat  BY DurationAssumption DEF SampleLimit
<1>4. ASSUME NEW i \in 1 .. n PROVE r[i] \in Entries /\ r[i].bad = q[i].bad
  <2>1. q[i] \in Entries /\ i \in DOMAIN q  BY <1>2
  <2> QED  BY <1>3, <2>1 DEF Entries, Aged, Older
<1>5. r \in Seq(Entries) /\ Len(r) = n
  <2>1. r \in [1 .. n -> Entries]  BY <1>2, <1>4
  <2> HIDE DEF r, n
  <2> QED  BY <1>2, <2>1
<1> HIDE DEF r, n, q
<1>6. Failing(r, n) = Failing(q, n)  BY <1>4 DEF Failing
<1> QED  BY <1>1, <1>2, <1>5, <1>6 DEF Windowed, Counted

\* Every step keeps the window's count.
LEMMA WindowedStep ==
    ASSUME Types, Windowed, [Next]_vars
    PROVE  Windowed'
<1>1. CASE window' = window  BY <1>1 DEF Windowed
<1>2. CASE Tick  BY <1>2, TickCounts
<1>3. CASE ErrorRate
  <2>1. window' = Evict(window, 0) /\ 0 \in Nat  BY <1>3 DEF ErrorRate
  <2> QED  BY <2>1, EvictCounts, LimitAssumption DEF Windowed, Counted
<1>4. ASSUME NEW t \in Callers, PushSample(t) PROVE Windowed'
  <2>1. bad[t] \in BOOLEAN /\ now[t] \in 0 .. SampleLimit /\ now[t] \in Nat
    BY DurationAssumption DEF Types, SampleLimit
  <2>2. PICK w : w = Push(window, bad[t], now[t])  OBVIOUS
  <2>3. Counted(w) /\ Len(w.entries) <= MaxEntries
    BY <2>1, <2>2, PushCounts DEF Windowed
  <2>4. PICK v : v = Evict(w, now[t])  OBVIOUS
  <2>5. Counted(v) /\ Len(v.entries) <= Len(w.entries)
    BY <2>1, <2>3, <2>4, EvictCounts
  <2>6. window' = v  BY <1>4, <2>2, <2>4 DEF PushSample
  <2>7. Len(v.entries) <= MaxEntries
    BY <2>3, <2>5, LimitAssumption DEF Counted
  <2> QED  BY <2>5, <2>6, <2>7 DEF Windowed
<1>5. ASSUME NEW t \in Callers, ClearWindow(t) PROVE Windowed'
  <2>1. window' = EmptyWindow  BY <1>5 DEF ClearWindow
  <2> QED  BY <2>1, EmptyCounts DEF Windowed
<1>6. window' = window \/ Tick \/ ErrorRate
      \/ \E t \in Callers : PushSample(t) \/ ClearWindow(t)
  BY DEF Next, vars, Check, CheckSteps, RequestEnds, RecordSteps, LoadOpened,
         CasHalfOpen, MirrorHalfOpen, LostCas, ReadClock, AddProbe, ClaimSlot,
         SubProbe, LoadClaim, TakeOver, Drop, Record, Trip, TripTime,
         ResetProbes, MirrorState, Close, shared
<1> QED  BY <1>1, <1>2, <1>3, <1>4, <1>5, <1>6

\* The incremental count of failures (window.rs:13-17) is the number of failing
\* samples, for every cap, every window and any number of callers, with calls
\* that overlap.
THEOREM CountIsExact == Spec => []FailuresCounted
<1>1. Init => Types /\ Windowed
  <2> SUFFICES ASSUME Init PROVE Types /\ Windowed
    OBVIOUS
  <2>1. Types  BY InitIInv DEF IInv
  <2>2. Windowed  BY EmptyCounts DEF Init, Windowed
  <2> QED  BY <2>1, <2>2
<1>2. Types /\ Windowed /\ [Next]_vars => Types' /\ Windowed'
  BY TypesStep, WindowedStep
<1>3. Types /\ Windowed => FailuresCounted
  BY DEF Types, Windowed, Counted, FailuresCounted, TypeOK
<1> QED  BY <1>1, <1>2, <1>3, PTL DEF Spec
=============================================================================
