-------------------------- MODULE AuthRefreshProofs --------------------------
(***************************************************************************)
(* For any number of processes and calls, any spread of the one over the   *)
(* other, and any bounds: a refresh token is spent again only with a       *)
(* reason, a sticky verdict goes back to a double spend of its own login,  *)
(* and no exchange is on the wire after the machine was told that none is. *)
(*                                                                         *)
(* The invariant has three layers, each inductive given the ones before:   *)
(* who trusts its file lock, and holds the live one (Basics); where the    *)
(* successor of a spent token is (Settles); why the provider refuses a     *)
(* token it has not rotated (Refused).                                     *)
(***************************************************************************)
EXTENDS AuthRefresh, TLAPS

USE TaskAssumption, ProcAssumption, JobAssumption, BoundAssumption

-----------------------------------------------------------------------------
(* Who trusts its lock.                                                    *)

\* What a call, its process's memory and the lock may hold; M is what the
\* provider has issued so far, and 0.
CallTypes(M) ==
    /\ LockTypeOK
    /\ inner \in [Proc -> M]
    /\ mutex \in [Proc -> Task \cup {NoTask}]
    /\ pc \in [Task -> Points]
    /\ reason \in [Task -> {"PreRequest", "ServerRejected"}]
    /\ goal \in [Task -> {"none", "refresh", "again", "flow", "reload", "enrich",
                          "exposed"}]
    /\ snap \in [Task -> M] /\ kept \in [Task -> M] /\ cred \in [Task -> M]
    /\ reply \in [Task -> [kind : {"none"} \cup Answers \cup Outcomes, cred : M]]

WorldTypes(M) ==
    /\ home \in [Task -> Proc]
    /\ issued \in Cred /\ family \in [Cred -> MaybeCred]
    /\ dead \subseteq M \ {0} /\ stale \subseteq Cred
    /\ disk \in M
    /\ verdict \in [Proc -> [key : M, sticky : BOOLEAN]]
    /\ blips \in [Proc -> [key : M, count : 0..(MaxBlips - 1)]]
    /\ enrich \subseteq Proc \X (M \ {0})
    /\ gate \in [Proc -> BOOLEAN]
    /\ power \in [Proc -> {"awake", "holding", "drained", "overdue"}]
    /\ faults \in 0..MaxFaults
    /\ spent \subseteq M \ {0} /\ respent \subseteq spent /\ forfeit \subseteq M \ {0}

Typed == CallTypes(0..issued) /\ WorldTypes(0..issued)

\* The reply of t brings a credential that nobody else has.
Carries(t) ==
    \/ pc[t] \in {"reply", "rereply"} /\ reply[t].kind = "ok"
    \/ pc[t] = "apply" /\ reply[t].kind = "Success"

\* A call that names a credential has one.
CallOK(t) ==
    /\ pc[t] \in OnTheWire => cred[t] # 0
    /\ Carries(t) => reply[t].cred # 0
    /\ goal[t] = "enrich" \/ pc[t] = "write" => snap[t] # 0

\* t will not look at its lock again before the exchange, and has been told
\* nothing else than that it is live.
Trusting(t) ==
    \/ pc[t] \in {"claim", "apply"} \cup Claimed
    \/ pc[t] = "lock" /\ goal[t] = "again" /\ want[t] = "in"

\* Two of them that were not exposed would both hold the live lock.
Backed(t) == Trusting(t) /\ goal[t] # "exposed" => StillLive(t)

Dry(t) == power[home[t]] = "drained" => pc[t] \notin {"read"} \cup OnTheWire

Local(t) == CallOK(t) /\ Backed(t) /\ Dry(t)

Gates == \A p \in Proc : ~gate[p] => power[p] = "awake"

Basics == Typed /\ Gates /\ \A t \in Task : Local(t)

-----------------------------------------------------------------------------
(* A step of one call.                                                     *)

\* Nothing of another call changes, and a live lock that is not t's stays.
Others(t) ==
    /\ \A u \in Task \ {t} :
        /\ pc'[u] = pc[u] /\ goal'[u] = goal[u] /\ cred'[u] = cred[u]
        /\ reply'[u] = reply[u] /\ snap'[u] = snap[u] /\ want'[u] = want[u]
    /\ live \in Task \ {t} => live' = live

Moves(t, M) == CallTypes(M)' /\ Others(t) /\ Local(t)'

\* t is not at an exchange, before the step or after it.
AtExchange == OnTheWire \cup {"apply"}
Plain(t) == pc[t] \notin AtExchange /\ pc'[t] \notin AtExchange

\* What is left when t is over.
LEMMA LeaveMoves ==
    ASSUME NEW M, 0 \in M, CallTypes(M), home \in [Task -> Proc],
           NEW t \in Task, NEW mem \in M, NEW failed \in BOOLEAN, Leave(t, mem, failed)
    PROVE  Moves(t, M) /\ pc'[t] = "idle"
<1>1. PICK p \in Proc : p = home[t]
  OBVIOUS
<1>2. PICK m \in M : inner' = [inner EXCEPT ![p] = m]
  BY <1>1 DEF Leave, CallTypes
<1>3. CallTypes(M)'
  <2>1. LockTypeOK'
    BY DEF Leave, DropAll, Released, LockTypeOK, CallTypes, Wants
  <2>2. inner' \in [Proc -> M]
    BY <1>2 DEF CallTypes
  <2>3. mutex' \in [Proc -> Task \cup {NoTask}]
    <3>1. Unlocked(t) \in Task \cup {NoTask}
      BY DEF Unlocked, CallTypes
    <3>2. QED
      BY <3>1 DEF Leave, CallTypes
  <2>4. /\ pc' \in [Task -> Points] /\ reason' \in [Task -> {"PreRequest", "ServerRejected"}]
        /\ goal' \in [Task -> {"none", "refresh", "again", "flow", "reload", "enrich",
                               "exposed"}]
    BY DEF Leave, CallTypes, Goto, Points
  <2>5. snap' \in [Task -> M] /\ kept' \in [Task -> M] /\ cred' \in [Task -> M]
    BY DEF Leave, CallTypes
  <2>6. reply' \in [Task -> [kind : {"none"} \cup Answers \cup Outcomes, cred : M]]
    BY DEF Leave, CallTypes, NoReply
  <2>7. QED
    BY <2>1, <2>2, <2>3, <2>4, <2>5, <2>6 DEF CallTypes
<1>4. Others(t)
  BY DEF Others, Leave, Goto, DropAll, Released, CallTypes, LockTypeOK
<1>5. pc'[t] = "idle" /\ goal'[t] = "none"
  BY DEF Leave, Goto, CallTypes
<1>6. Local(t)'
  BY <1>5 DEF Local, CallOK, Backed, Dry, Carries, Trusting, OnTheWire, Claimed
<1>7. QED
  BY <1>3, <1>4, <1>5, <1>6 DEF Moves

\* A call that enters the chain waits for the mutex, or is over at once.
LEMMA EnterChainMoves ==
    ASSUME NEW M, 0 \in M, CallTypes(M), home \in [Task -> Proc], disk \in M,
           NEW t \in Task, NEW why \in {"PreRequest", "ServerRejected"}, NEW base \in M,
           EnterChain(t, why, base)
    PROVE  Moves(t, M) /\ pc'[t] \in {"idle", "mutex"}
<1>1. inner[home[t]] \in M /\ Current(home[t]) \in M
  BY DEF CallTypes, Current
<1>2. CASE Adopt(t) \/ Done(t)
  BY <1>1, <1>2, LeaveMoves DEF Adopt, Done
<1>3. CASE ~(Adopt(t) \/ Done(t))
  <2>1. /\ Goto(t, "mutex")
        /\ reason' = [reason EXCEPT ![t] = why]
        /\ snap' = [snap EXCEPT ![t] = Current(home[t])]
        /\ kept' = [kept EXCEPT ![t] = base]
        /\ KeepGuard(t) \/ DropAll({t})
        /\ goal' = [goal EXCEPT ![t] = "none"]
        /\ UNCHANGED <<inner, mutex, cred, reply>>
    BY <1>3 DEF EnterChain
  <2>2. LockTypeOK' /\ (live \in Task \ {t} => live' = live)
        /\ \A u \in Task \ {t} : want'[u] = want[u]
    <3>1. live \in Task \cup {NoTask} /\ want \in [Task -> Wants]
      BY DEF CallTypes, LockTypeOK
    <3>2. CASE KeepGuard(t)
      BY <3>1, <3>2 DEF LockTypeOK, KeepGuard, Wants
    <3>3. CASE DropAll({t})
      BY <3>1, <3>3 DEF LockTypeOK, DropAll, Released, Wants
    <3>4. QED
      BY <2>1, <3>2, <3>3
  <2>3. CallTypes(M)'
    <3>1. /\ pc' \in [Task -> Points] /\ reason' \in [Task -> {"PreRequest", "ServerRejected"}]
          /\ goal' \in [Task -> {"none", "refresh", "again", "flow", "reload", "enrich",
                                 "exposed"}]
      BY <2>1 DEF CallTypes, Goto, Points
    <3>2. snap' \in [Task -> M] /\ kept' \in [Task -> M]
      BY <1>1, <2>1 DEF CallTypes
    <3>3. QED
      BY <2>1, <2>2, <3>1, <3>2 DEF CallTypes
  <2>4. Others(t)
    BY <2>1, <2>2 DEF Others, Goto, CallTypes
  <2>5. pc'[t] = "mutex" /\ goal'[t] = "none"
    BY <2>1 DEF Goto, CallTypes
  <2>6. Local(t)'
    BY <2>5 DEF Local, CallOK, Backed, Dry, Carries, Trusting, OnTheWire, Claimed
  <2>7. QED
    BY <2>3, <2>4, <2>5, <2>6 DEF Moves
<1>4. QED
  BY <1>2, <1>3

\* A call that asks for the file lock waits for it.
LEMMA RequestMoves ==
    ASSUME NEW M, CallTypes(M), NEW t \in Task, NEW keeping \in BOOLEAN, NEW s \in M,
           NEW what \in {"refresh", "again", "flow", "reload", "enrich"},
           what = "enrich" => s # 0,
           Request(t, keeping), Goto(t, "lock"), goal' = [goal EXCEPT ![t] = what],
           snap' = [snap EXCEPT ![t] = s], mutex' \in [Proc -> Task \cup {NoTask}],
           UNCHANGED <<reason, kept, cred, reply, inner>>
    PROVE  Moves(t, M) /\ pc'[t] = "lock"
<1>1. CallTypes(M)'
  <2>1. LockTypeOK'
    BY DEF CallTypes, LockTypeOK, Request, Released, Wants
  <2>2. pc' \in [Task -> Points]
    BY DEF CallTypes, Goto, Points
  <2>3. goal' \in [Task -> {"none", "refresh", "again", "flow", "reload", "enrich",
                            "exposed"}]
    BY DEF CallTypes
  <2>4. snap' \in [Task -> M]
    BY DEF CallTypes
  <2>5. QED
    BY <2>1, <2>2, <2>3, <2>4 DEF CallTypes
<1>2. Others(t)
  BY DEF Others, CallTypes, LockTypeOK, Request, Released, Goto
<1>3. pc'[t] = "lock" /\ goal'[t] = what /\ want'[t] = "wait" /\ snap'[t] = s
  BY DEF CallTypes, LockTypeOK, Goto, Request
<1>4. Local(t)'
  BY <1>3 DEF Local, CallOK, Backed, Dry, Carries, Trusting, OnTheWire, Claimed
<1>5. QED
  BY <1>1, <1>2, <1>3, <1>4 DEF Moves

\* A call that only goes on keeps what it has.
LEMMA GoMoves ==
    ASSUME NEW M, CallTypes(M), NEW t \in Task, NEW where \in Points,
           Goto(t, where), UNCHANGED <<lockVars, inner, mutex, call>>
    PROVE  /\ CallTypes(M)' /\ Others(t) /\ pc'[t] = where
           /\ Local(t)' => Moves(t, M)
<1>1. CallTypes(M)'
  BY DEF CallTypes, LockTypeOK, lockVars, call, Goto
<1>2. Others(t)
  BY DEF CallTypes, Others, lockVars, call, Goto
<1>3. pc'[t] = where
  BY DEF CallTypes, Goto
<1>4. QED
  BY <1>1, <1>2, <1>3 DEF Moves

\* The start of a call.
LEMMA StartsMove ==
    ASSUME NEW M, 0 \in M, CallTypes(M), WorldTypes(M), NEW t \in Task, Starts(t)
    PROVE  Moves(t, M) /\ Plain(t)
<1> USE DEF Plain, AtExchange, OnTheWire
<1>1. home \in [Task -> Proc] /\ disk \in M /\ inner[home[t]] \in M
  BY DEF CallTypes, WorldTypes
<1>2. CASE StartAuth(t)
  BY <1>1, <1>2, EnterChainMoves DEF StartAuth
<1>3. CASE StartRecover(t)
  <2>1. mutex' \in [Proc -> Task \cup {NoTask}]
    BY <1>3 DEF StartRecover, CallTypes
  <2>2. QED
    BY <1>1, <1>3, <2>1, RequestMoves DEF StartRecover, LockFor
<1>4. CASE StartFlow(t)
  <2>1. mutex' \in [Proc -> Task \cup {NoTask}]
    BY <1>4 DEF StartFlow, CallTypes
  <2>2. snap[t] \in M /\ snap' = [snap EXCEPT ![t] = snap[t]]
    BY <1>4 DEF StartFlow, CallTypes
  <2>3. QED
    BY <1>1, <1>4, <2>1, <2>2, RequestMoves DEF StartFlow, LockFor
<1>5. CASE StartEnrich(t)
  <2>1. mutex' \in [Proc -> Task \cup {NoTask}]
    BY <1>5 DEF StartEnrich, CallTypes
  <2>2. PICK g \in M \ {0} : snap' = [snap EXCEPT ![t] = g]
    BY <1>5 DEF StartEnrich, WorldTypes
  <2>3. QED
    BY <1>1, <1>5, <2>1, <2>2, RequestMoves DEF StartEnrich, LockFor
<1>6. QED
  BY <1>2, <1>3, <1>4, <1>5 DEF Starts

\* A call that waited for the file lock or the mutex.
LEMMA WaitersMove ==
    ASSUME NEW M, 0 \in M, CallTypes(M), WorldTypes(M), NEW t \in Task, Local(t),
           \/ Recover(t) \/ FlowRead(t) \/ Merge(t) \/ NoLock(t) \/ Held(t)
           \/ Relocked(t) \/ TakeMutex(t) \/ LockStep(t)
    PROVE  Moves(t, M) /\ Plain(t)
<1> USE DEF Plain, AtExchange, OnTheWire
<1>1. home \in [Task -> Proc] /\ disk \in M /\ inner[home[t]] \in M
  BY DEF CallTypes, WorldTypes
<1>2. ASSUME Adopt(t) \/ Fails(t) \/ Done(t)
      PROVE  Moves(t, M) /\ pc'[t] = "idle"
  BY <1>1, <1>2, LeaveMoves DEF Adopt, Fails, Done
<1>3. CASE Recover(t)
  BY <1>1, <1>2, <1>3, EnterChainMoves DEF Recover
<1>4. CASE FlowRead(t)
  BY <1>1, <1>2, <1>4, EnterChainMoves DEF FlowRead
<1>5. CASE Merge(t)
  <2>1. CASE Done(t)
    BY <1>2, <1>5, <2>1 DEF Merge
  <2>2. CASE Goto(t, "write") /\ UNCHANGED <<lockVars, inner, mutex, call>>
    <3>1. CallTypes(M)' /\ pc'[t] = "write" /\ (Local(t)' => Moves(t, M))
      BY <2>2, GoMoves DEF Points
    <3>2. snap'[t] # 0
      BY <1>5, <2>2 DEF Merge, Local, CallOK, call
    <3>3. Local(t)'
      BY <3>1, <3>2 DEF Local, CallOK, Backed, Dry, Carries, Trusting, Claimed
    <3>4. QED
      BY <1>5, <3>1, <3>3 DEF Merge
  <2>3. QED
    BY <1>5, <2>1, <2>2 DEF Merge
<1>6. CASE NoLock(t)
  BY <1>2, <1>6 DEF NoLock
<1>7. CASE Held(t)
  <2>1. CASE Adopt(t) \/ Fails(t)
    BY <1>2, <1>7, <2>1 DEF Held
  <2>2. CASE Goto(t, "revalidate") /\ UNCHANGED <<lockVars, inner, mutex, call>>
    <3>1. CallTypes(M)' /\ pc'[t] = "revalidate" /\ (Local(t)' => Moves(t, M))
      BY <2>2, GoMoves DEF Points
    <3>2. goal'[t] = "refresh"
      BY <1>7, <2>2 DEF Held, call
    <3>3. Local(t)'
      BY <3>1, <3>2 DEF Local, CallOK, Backed, Dry, Carries, Trusting, Claimed
    <3>4. QED
      BY <1>7, <3>1, <3>3 DEF Held
  <2>3. QED
    BY <1>7, <2>1, <2>2 DEF Held
<1>8. CASE Relocked(t)
  <2>1. CASE Adopt(t)
    BY <1>2, <1>8, <2>1 DEF Relocked
  <2>2. CASE Goto(t, "claim") /\ UNCHANGED <<lockVars, inner, mutex, call>>
    <3>1. CallTypes(M)' /\ pc'[t] = "claim" /\ (Local(t)' => Moves(t, M))
      BY <2>2, GoMoves DEF Points
    <3>2. goal'[t] \in {"again", "exposed"} /\ (goal'[t] # "exposed" => StillLive(t)')
      BY <1>8, <2>2 DEF Relocked, call, lockVars, Local, Backed, Trusting, StillLive
    <3>3. Local(t)'
      BY <3>1, <3>2 DEF Local, CallOK, Backed, Dry, Carries, Trusting, Claimed
    <3>4. QED
      BY <1>8, <3>1, <3>3 DEF Relocked
  <2>3. QED
    BY <1>8, <2>1, <2>2 DEF Relocked
<1>9. CASE TakeMutex(t)
  <2>1. CASE Done(t)
    BY <1>2, <1>9, <2>1 DEF TakeMutex
  <2>2. CASE ~Done(t)
    <3>1. mutex' \in [Proc -> Task \cup {NoTask}]
      BY <1>9, <2>2 DEF TakeMutex, CallTypes
    <3>2. QED
      BY <1>1, <1>9, <2>2, <3>1, RequestMoves DEF TakeMutex, LockFor
  <2>3. QED
    BY <2>1, <2>2
<1>10. CASE LockStep(t)
  <2>1. /\ pc[t] = "lock" /\ want[t] = "wait"
        /\ UNCHANGED <<home, files, mutex, sleep, pc, call>>
        /\ \/ want' = [want EXCEPT ![t] = "in"] /\ live = NoTask /\ live' = t
           \/ want' = [want EXCEPT ![t] = "failed"] /\ live' = live
    BY <1>10 DEF LockStep, Grant, Timeout
  <2>2. LockTypeOK /\ LockTypeOK'
    BY <2>1 DEF CallTypes, LockTypeOK, Wants
  <2>3. CallTypes(M)'
    BY <2>1, <2>2 DEF CallTypes, files, call
  <2>4. Others(t)
    BY <2>1, <2>2 DEF Others, call, LockTypeOK
  <2>5. Backed(t)'
    BY <2>1, <2>2 DEF LockTypeOK, Backed, Trusting, StillLive, call, Claimed
  <2>6. CallOK(t)' /\ Dry(t)'
    BY <2>1 DEF Local, CallOK, Dry, Carries, call, sleep
  <2>7. QED
    BY <2>1, <2>3, <2>4, <2>5, <2>6 DEF Moves, Local
<1>11. QED
  BY <1>3, <1>4, <1>5, <1>6, <1>7, <1>8, <1>9, <1>10

\* A call on its way to the request.
LEMMA ClaimsMove ==
    ASSUME NEW M, 0 \in M, CallTypes(M), WorldTypes(M), Gates, NEW t \in Task, Local(t),
           Revalidate(t) \/ Claim(t) \/ GateCheck(t)
    PROVE  Moves(t, M) /\ Plain(t)
<1> USE DEF Plain, AtExchange, OnTheWire
<1>1. home \in [Task -> Proc] /\ inner[home[t]] \in M /\ home[t] \in Proc
  BY DEF CallTypes, WorldTypes
<1>2. CASE Revalidate(t)
  <2>1. CASE StillLive(t) /\ Goto(t, "claim") /\ UNCHANGED <<lockVars, goal>>
    <3>1. UNCHANGED <<lockVars, inner, mutex, call>>
      BY <1>2, <2>1 DEF Revalidate, call
    <3>2. CallTypes(M)' /\ pc'[t] = "claim" /\ (Local(t)' => Moves(t, M))
      BY <2>1, <3>1, GoMoves DEF Points
    <3>3. goal'[t] = goal[t] /\ StillLive(t)' /\ (goal[t] = "enrich" => snap'[t] # 0)
      BY <2>1, <3>1 DEF StillLive, lockVars, call, Local, CallOK
    <3>4. Local(t)'
      BY <3>2, <3>3 DEF Local, CallOK, Backed, Dry, Carries, Trusting, Claimed
    <3>5. QED
      BY <1>2, <3>2, <3>4 DEF Revalidate
  <2>2. CASE ~(StillLive(t) /\ Goto(t, "claim") /\ UNCHANGED <<lockVars, goal>>)
    <3>1. PICK keeping \in BOOLEAN : keeping = (kept[t] # 0)
      OBVIOUS
    <3>2. Request(t, keeping) /\ Goto(t, "lock") /\ goal' = [goal EXCEPT ![t] = "again"]
      BY <1>2, <2>2, <3>1 DEF Revalidate, MayProceed
    <3>3. snap[t] \in M /\ snap' = [snap EXCEPT ![t] = snap[t]]
      BY <1>2 DEF Revalidate, CallTypes
    <3>4. mutex' \in [Proc -> Task \cup {NoTask}]
      BY <1>2 DEF Revalidate, CallTypes
    <3>5. QED
      BY ZenonT(60), <1>2, <3>2, <3>3, <3>4, RequestMoves DEF Revalidate
  <2>3. QED
    BY <2>1, <2>2
<1>3. CASE Claim(t)
  <2>1. pc[t] = "claim" /\ Goto(t, "gated") /\ UNCHANGED <<lockVars, inner, mutex, call>>
    BY <1>3 DEF Claim
  <2>2. CallTypes(M)' /\ pc'[t] = "gated" /\ (Local(t)' => Moves(t, M))
    BY <2>1, GoMoves DEF Points, Claimed
  <2>3. Local(t)'
    BY <2>1, <2>2 DEF Local, CallOK, Backed, Dry, Carries, Trusting, Claimed, StillLive,
                      lockVars, call
  <2>4. QED
    BY <2>1, <2>2, <2>3
<1>4. CASE GateCheck(t)
  <2>1. CASE Fails(t)
    BY <1>1, <1>4, <2>1, LeaveMoves DEF GateCheck, Fails
  <2>2. CASE ~Fails(t)
    <3>1. /\ pc[t] = "gated" /\ ~gate[home[t]] /\ Goto(t, "read")
          /\ UNCHANGED <<lockVars, inner, mutex, call>> /\ UNCHANGED <<home, sleep>>
      BY <1>4, <2>2 DEF GateCheck, Quiet
    <3>2. CallTypes(M)' /\ pc'[t] = "read" /\ (Local(t)' => Moves(t, M))
      BY <3>1, GoMoves DEF Points, Claimed
    <3>3. power'[home'[t]] = "awake"
      BY <1>1, <3>1 DEF Gates, sleep
    <3>4. CallOK(t)' /\ Backed(t)'
      BY <3>1, <3>2 DEF Local, CallOK, Backed, Carries, Trusting, Claimed, StillLive,
                        lockVars, call
    <3>5. QED
      BY <3>1, <3>2, <3>3, <3>4 DEF Local, Dry
  <2>3. QED
    BY <2>1, <2>2
<1>5. QED
  BY <1>2, <1>3, <1>4

-----------------------------------------------------------------------------
(* The exchange and what comes of it.                                      *)

\* t is at its request, and gets an answer.
Answered(t, kind, n) ==
    /\ pc[t] \in {"send", "resend"}
    /\ pc' = [pc EXCEPT ![t] = IF pc[t] = "send" THEN "reply" ELSE "rereply"]
    /\ reply' = [reply EXCEPT ![t] = [kind |-> kind, cred |-> n]]
    /\ UNCHANGED <<lockVars, home, stale, files, mind, mutex, sleep, reason, goal,
                   snap, kept, cred>>

\* The three things the provider may make of a request.
Unheard(t) ==
    /\ \E kind \in {"failed", "client"} : Answered(t, kind, 0)
    /\ UNCHANGED <<idp, faults, history>>

Refuses(t) ==
    /\ cred[t] \in dead
    /\ dead' = dead \cup {h \in 1..issued : family[h] = family[cred[t]]}
    /\ respent' = respent \cup ({cred[t]} \cap spent)
    /\ forfeit' = forfeit \cup (IF goal[t] = "exposed" THEN {cred[t]} ELSE {})
    /\ Answered(t, "rejected", 0)
    /\ UNCHANGED <<issued, family, faults, spent>>

Rotates(t, n) ==
    /\ cred[t] \notin dead /\ issued < MaxCred
    /\ n = issued + 1 /\ issued' = n
    /\ family' = [family EXCEPT ![n] = family[cred[t]]]
    /\ dead' = dead \cup {cred[t]} /\ spent' = spent \cup {cred[t]}
    /\ \/ /\ Answered(t, "ok", n)
          /\ forfeit' = forfeit \cup (IF goal[t] = "exposed" THEN {cred[t]} ELSE {})
          /\ faults' = faults
       \/ /\ Answered(t, "failed", 0)
          /\ forfeit' = forfeit \cup {cred[t]}
          /\ Fault
    /\ respent' = respent

LEMMA ExchangeIsOne ==
    ASSUME NEW t \in Task, Exchange(t)
    PROVE  Unheard(t) \/ Refuses(t) \/ \E n \in {issued + 1} : Rotates(t, n)
<1>1. CASE /\ cred[t] \in dead
           /\ dead' = dead \cup {h \in 1..issued : family[h] = family[cred[t]]}
  BY <1>1 DEF Exchange, Goto, Answered, Refuses, Unheard
<1>2. CASE UNCHANGED <<idp, faults, history>>
  BY <1>2 DEF Exchange, Goto, Answered, Unheard, Refuses, idp, history
<1>3. CASE /\ cred[t] \notin dead /\ issued < MaxCred /\ issued' = issued + 1
           /\ family' = [family EXCEPT ![issued'] = family[cred[t]]]
           /\ dead' = dead \cup {cred[t]} /\ spent' = spent \cup {cred[t]}
           /\ respent' = respent
  <2>1. PICK n \in {issued + 1} : n = issued'
    BY <1>3
  <2>2. CASE UNCHANGED <<idp, faults, history>>
    BY <1>2, <2>2
  <2>3. CASE ~UNCHANGED <<idp, faults, history>>
    <3>1. \/ /\ Answered(t, "ok", n)
             /\ forfeit' = forfeit \cup (IF goal[t] = "exposed" THEN {cred[t]} ELSE {})
             /\ faults' = faults
          \/ /\ Answered(t, "failed", 0)
             /\ forfeit' = forfeit \cup {cred[t]}
             /\ Fault
      BY <1>3, <2>1, <2>3 DEF Exchange, Goto, Answered
    <3>2. QED
      BY <1>3, <2>1, <3>1 DEF Rotates
  <2>4. QED
    BY <2>2, <2>3
<1>4. QED
  BY <1>1, <1>2, <1>3 DEF Exchange

LEMMA AnsweredMoves ==
    ASSUME NEW M, 0 \in M, CallTypes(M), WorldTypes(M), NEW t \in Task, Local(t),
           NEW kind \in Answers, NEW n \in M, kind = "ok" => n # 0, Answered(t, kind, n)
    PROVE  Moves(t, M)
<1>1. CallTypes(M)'
  <2>1. pc' \in [Task -> Points]
    BY DEF CallTypes, Answered, Points, Claimed, OnTheWire
  <2>2. reply' \in [Task -> [kind : {"none"} \cup Answers \cup Outcomes, cred : M]]
    BY DEF CallTypes, Answered
  <2>3. QED
    BY <2>1, <2>2 DEF CallTypes, LockTypeOK, Answered, lockVars, files
<1>2. Others(t)
  BY DEF Others, CallTypes, Answered, lockVars
<1>3. pc'[t] \in {"reply", "rereply"} /\ reply'[t] = [kind |-> kind, cred |-> n]
  BY DEF CallTypes, Answered
<1>4. CallOK(t)'
  BY <1>3 DEF Local, CallOK, Carries, Answered, OnTheWire
<1>5. Backed(t)' /\ Dry(t)'
  BY <1>3 DEF Local, Backed, Dry, Trusting, StillLive, Answered, OnTheWire, Claimed,
              lockVars, sleep
<1>6. QED
  BY <1>1, <1>2, <1>4, <1>5 DEF Moves, Local

\* What the types say stays true when more has been issued.
LEMMA TypesGrow ==
    ASSUME NEW M, NEW N, M \subseteq N, CallTypes(M), WorldTypes(M)
    PROVE  CallTypes(N) /\ WorldTypes(N)
<1>1. CallTypes(N)
  <2>1. /\ inner \in [Proc -> N] /\ snap \in [Task -> N] /\ kept \in [Task -> N]
        /\ cred \in [Task -> N]
    BY DEF CallTypes
  <2>2. reply \in [Task -> [kind : {"none"} \cup Answers \cup Outcomes, cred : N]]
    BY DEF CallTypes
  <2>3. QED
    BY <2>1, <2>2 DEF CallTypes
<1>2. WorldTypes(N)
  <2>1. /\ dead \subseteq N \ {0} /\ disk \in N /\ enrich \subseteq Proc \X (N \ {0})
        /\ spent \subseteq N \ {0} /\ forfeit \subseteq N \ {0}
    BY DEF WorldTypes
  <2>2. verdict \in [Proc -> [key : N, sticky : BOOLEAN]]
    BY Zenon DEF WorldTypes
  <2>3. blips \in [Proc -> [key : N, count : 0..(MaxBlips - 1)]]
    BY DEF WorldTypes
  <2>4. QED
    BY <2>1, <2>2, <2>3 DEF WorldTypes
<1>3. QED
  BY <1>1, <1>2

\* What the refresher makes of an answer: an outcome, or a second request.
Concludes(t, kind, g) ==
    /\ pc' = [pc EXCEPT ![t] = "apply"]
    /\ reply' = [reply EXCEPT ![t] = [kind |-> kind, cred |-> g]]
    /\ cred' = cred
    /\ \/ kind = "Success" /\ reply[t].kind = "ok" /\ g = reply[t].cred
       \/ kind = "Success" /\ reply[t].kind = "rejected" /\ g = disk /\ disk # 0
       \/ kind = "Sticky" /\ reply[t].kind = "rejected" /\ g = cred[t]
       \/ kind \in {"Lapsing", "Transient"} /\ reply[t].kind \in {"client", "failed"}
          /\ g = cred[t]

Resends(t) ==
    /\ reply[t].kind = "rejected" /\ disk # 0
    /\ pc' = [pc EXCEPT ![t] = "resend"]
    /\ cred' = [cred EXCEPT ![t] = disk]
    /\ reply' = [reply EXCEPT ![t] = NoReply]

LEMMA RefreshedIsOne ==
    ASSUME NEW t \in Task, Refreshed(t)
    PROVE  \/ \E kind \in Outcomes, g \in {cred[t], reply[t].cred, disk} :
                  Concludes(t, kind, g)
           \/ Resends(t)
<1>1. CASE reply[t].kind = "ok"
  BY <1>1 DEF Refreshed, Outcome, Goto, Concludes, Outcomes
<1>2. CASE reply[t].kind = "rejected"
  BY <1>2 DEF Refreshed, Outcome, Goto, Concludes, Outcomes, Resends, Fresh
<1>3. CASE reply[t].kind = "client"
  BY <1>3 DEF Refreshed, Outcome, Goto, Concludes, Outcomes
<1>4. CASE reply[t].kind = "failed"
  <2>1. PICK kind \in {"Lapsing", "Transient"} : Outcome(t, kind, cred[t]) /\ cred' = cred
    BY <1>4 DEF Refreshed
  <2>2. QED
    BY <1>4, <2>1 DEF Outcome, Goto, Concludes, Outcomes
<1>5. QED
  BY <1>1, <1>2, <1>3, <1>4 DEF Refreshed

LEMMA RefreshedMoves ==
    ASSUME NEW M, 0 \in M, CallTypes(M), WorldTypes(M), NEW t \in Task, Local(t),
           Refreshed(t)
    PROVE  Moves(t, M) /\ WorldTypes(M)'
<1>1. /\ pc[t] \in {"reply", "rereply"}
      /\ UNCHANGED <<lockVars, home, idp, stale, files, verdict, mutex, sleep, reason,
                     goal, snap, kept, faults, history>>
  BY DEF Refreshed
<1>2. PICK where \in {"apply", "resend"}, n \in M, k \in {"none"} \cup Outcomes, c \in M :
        /\ pc' = [pc EXCEPT ![t] = where]
        /\ reply' = [reply EXCEPT ![t] = [kind |-> k, cred |-> c]]
        /\ cred' = [cred EXCEPT ![t] = n]
        /\ where = "resend" => n # 0 /\ k = "none"
        /\ k = "Success" => c # 0
        /\ where = "apply" => k # "none"
  <2>1. CASE Resends(t)
    BY <2>1 DEF Resends, NoReply, WorldTypes
  <2>2. ASSUME NEW kind \in Outcomes, NEW g \in {cred[t], reply[t].cred, disk},
               Concludes(t, kind, g)
        PROVE  \E where \in {"apply", "resend"}, n \in M, k \in {"none"} \cup Outcomes,
                  c \in M :
                 /\ pc' = [pc EXCEPT ![t] = where]
                 /\ reply' = [reply EXCEPT ![t] = [kind |-> k, cred |-> c]]
                 /\ cred' = [cred EXCEPT ![t] = n]
                 /\ where = "resend" => n # 0 /\ k = "none"
                 /\ k = "Success" => c # 0
                 /\ where = "apply" => k # "none"
    <3>1. g \in M /\ cred[t] \in M /\ cred' = [cred EXCEPT ![t] = cred[t]]
      BY <2>2 DEF Concludes, CallTypes, WorldTypes
    <3>2. kind = "Success" => g # 0
      BY <1>1, <2>2 DEF Concludes, Local, CallOK, Carries
    <3>3. kind # "none"
      BY DEF Outcomes
    <3>4. QED
      BY <2>2, <3>1, <3>2, <3>3 DEF Concludes
  <2>3. QED
    BY <2>1, <2>2, RefreshedIsOne
<1>3. CallTypes(M)'
  <2>1. pc' \in [Task -> Points]
    BY <1>2 DEF CallTypes, Points, Claimed, OnTheWire
  <2>2. reply' \in [Task -> [kind : {"none"} \cup Answers \cup Outcomes, cred : M]]
    BY <1>2 DEF CallTypes
  <2>3. cred' \in [Task -> M]
    BY <1>2 DEF CallTypes
  <2>4. QED
    BY <1>1, <2>1, <2>2, <2>3 DEF CallTypes, LockTypeOK, lockVars, files
<1>4. Others(t)
  BY <1>1, <1>2 DEF Others, CallTypes, lockVars
<1>5. pc'[t] = where /\ reply'[t] = [kind |-> k, cred |-> c] /\ cred'[t] = n
  BY <1>2 DEF CallTypes
<1>6. CallOK(t)'
  BY <1>1, <1>2, <1>5 DEF Local, CallOK, Carries, OnTheWire
<1>7. Backed(t)' /\ Dry(t)'
  BY <1>1, <1>2, <1>5
  DEF Local, Backed, Dry, Trusting, StillLive, OnTheWire, Claimed, lockVars, sleep
<1>8. blips' \in [Proc -> [key : M, count : 0..(MaxBlips - 1)]]
  <2>1. 0 \in 0..(MaxBlips - 1)
    OBVIOUS
  <2>2. \A p \in Proc : blips[p].count \in 0..(MaxBlips - 1)
    BY DEF WorldTypes
  <2>3. home[t] \in Proc /\ cred[t] \in M
    BY DEF CallTypes, WorldTypes
  <2>4. PICK n0 \in Nat : n0 = Blipped(home[t], cred[t])
    BY <2>2, <2>3 DEF Blipped
  <2>5. CASE UNCHANGED blips
    BY <2>5 DEF WorldTypes
  <2>6. CASE ~UNCHANGED blips
    <3>1. PICK b : /\ blips' = [blips EXCEPT ![home[t]] = b]
                   /\ b = NoBlips \/ (b = [key |-> cred[t], count |-> n0] /\ ~Escalates(n0))
      BY <2>4, <2>6 DEF Refreshed
    <3>2. b \in [key : M, count : 0..(MaxBlips - 1)]
      BY <2>1, <2>3, <2>4, <3>1 DEF NoBlips, Escalates
    <3>3. QED
      BY <3>1, <3>2 DEF WorldTypes
  <2>7. QED
    BY <2>5, <2>6
<1>9. WorldTypes(M)'
  BY <1>1, <1>8 DEF WorldTypes, idp, files, sleep, history
<1>10. QED
  BY <1>3, <1>4, <1>6, <1>7, <1>9 DEF Moves, Local

\* What the refresher sends: the entry of auth.json, else one in memory.
LEMMA ResolveIsOne ==
    ASSUME NEW M, 0 \in M, CallTypes(M), disk \in M, NEW p \in Proc, NEW why
    PROVE  /\ Resolve(p, why) \in M
           /\ disk # 0 => Resolve(p, why) = disk
<1>1. ExpiredAuth(p) \in M /\ Current(p) \in M
  BY DEF ExpiredAuth, Current, CallTypes
<1>2. QED
  BY <1>1 DEF Resolve

\* The refresher finds a sibling's token, has something to send, or nothing.
LEMMA PrepareMoves ==
    ASSUME NEW M, 0 \in M, CallTypes(M), WorldTypes(M), NEW t \in Task, Local(t),
           Prepare(t)
    PROVE  Moves(t, M) /\ WorldTypes(M)'
<1>1. /\ pc[t] = "read" /\ home[t] \in Proc /\ disk \in M /\ home \in [Task -> Proc]
      /\ inner[home[t]] \in M
      /\ UNCHANGED <<home, idp, stale, verdict, sleep, faults, history, disk, enrich>>
  BY DEF Prepare, CallTypes, WorldTypes
<1>2. WorldTypes(M)'
  <2>1. blips' \in [Proc -> [key : M, count : 0..(MaxBlips - 1)]]
    <3>1. NoBlips \in [key : M, count : 0..(MaxBlips - 1)]
      BY DEF NoBlips
    <3>2. blips' = blips \/ blips' = [blips EXCEPT ![home[t]] = NoBlips]
      BY DEF Prepare
    <3>3. QED
      BY <3>1, <3>2 DEF WorldTypes
  <2>2. QED
    BY <1>1, <2>1 DEF WorldTypes, idp, sleep, history
<1>3. CASE Fails(t)
  BY <1>1, <1>2, <1>3, LeaveMoves DEF Fails
<1>4. CASE ~Fails(t)
  <2>1. PICK where \in {"apply", "send"}, n \in M, k \in {"none"} \cup Answers \cup Outcomes,
            c \in M :
          /\ pc' = [pc EXCEPT ![t] = where]
          /\ reply' = [reply EXCEPT ![t] = [kind |-> k, cred |-> c]]
          /\ cred' = [cred EXCEPT ![t] = n]
          /\ where = "send" => n # 0
          /\ where = "apply" => c # 0
          /\ UNCHANGED <<lockVars, inner, mutex, reason, goal, snap, kept>>
    <3>1. cred[t] \in M /\ cred = [cred EXCEPT ![t] = cred[t]]
      BY DEF CallTypes
    <3>2. PICK r \in [kind : {"none"} \cup Answers \cup Outcomes, cred : M] : r = reply[t]
      BY DEF CallTypes
    <3>3. /\ r.kind \in {"none"} \cup Answers \cup Outcomes /\ r.cred \in M
          /\ reply = [reply EXCEPT ![t] = [kind |-> r.kind, cred |-> r.cred]]
      <4>1. r = [kind |-> r.kind, cred |-> r.cred]
        BY <3>2
      <4>2. QED
        BY <3>2, <4>1 DEF CallTypes
    <3>4. PICK g \in M : g = Resolve(home[t], reason[t])
      BY <1>1, ResolveIsOne
    <3>5. CASE Outcome(t, "Success", disk)
      <4>1. disk # 0 /\ UNCHANGED <<lockVars, inner, mutex, reason, goal, snap, kept, cred>>
        BY <1>4, <3>5 DEF Prepare, Outcome, Goto, Fresh, CallTypes, Points, Claimed, OnTheWire
      <4>2. "Success" \in Outcomes
        BY DEF Outcomes
      <4>3. QED
        BY <1>1, <3>1, <3>5, <4>1, <4>2 DEF Outcome, Goto
    <3>6. CASE ~Outcome(t, "Success", disk)
      <4>1. /\ g # 0 /\ Goto(t, "send") /\ cred' = [cred EXCEPT ![t] = g]
            /\ UNCHANGED <<lockVars, inner, mutex, reason, goal, snap, kept, reply>>
        BY <1>4, <3>4, <3>6 DEF Prepare
      <4>2. QED
        BY <3>3, <4>1 DEF Goto
    <3>7. QED
      BY <3>5, <3>6
  <2>2. CallTypes(M)'
    <3>1. pc' \in [Task -> Points]
      BY <2>1 DEF CallTypes, Points, Claimed, OnTheWire
    <3>2. reply' \in [Task -> [kind : {"none"} \cup Answers \cup Outcomes, cred : M]]
      BY <2>1 DEF CallTypes
    <3>3. cred' \in [Task -> M]
      BY <2>1 DEF CallTypes
    <3>4. QED
      BY <2>1, <3>1, <3>2, <3>3 DEF CallTypes, LockTypeOK, lockVars
  <2>3. Others(t)
    BY <2>1 DEF Others, CallTypes, lockVars
  <2>4. pc'[t] = where /\ reply'[t] = [kind |-> k, cred |-> c] /\ cred'[t] = n
    BY <2>1 DEF CallTypes
  <2>5. CallOK(t)'
    BY <1>1, <2>1, <2>4 DEF Local, CallOK, Carries, OnTheWire
  <2>6. Backed(t)' /\ Dry(t)'
    BY <1>1, <2>1, <2>4
    DEF Local, Backed, Dry, Trusting, StillLive, OnTheWire, Claimed, lockVars, sleep
  <2>7. QED
    BY <1>2, <2>2, <2>3, <2>5, <2>6 DEF Moves, Local
<1>5. QED
  BY <1>3, <1>4

\* The provider answers; it may issue one more credential.
LEMMA ExchangeMoves ==
    ASSUME Typed, NEW t \in Task, Local(t), Exchange(t), NEW i, i = issued'
    PROVE  Moves(t, 0..i) /\ WorldTypes(0..i)'
<1>1. issued \in Cred /\ cred[t] \in 0..issued /\ cred[t] # 0
  <2>1. cred[t] # 0
    BY DEF Local, CallOK, Exchange, OnTheWire
  <2>2. QED
    BY <2>1 DEF Typed, CallTypes, WorldTypes
<1>2. CASE Unheard(t)
  <2>1. i \in Cred /\ i = issued
    BY <1>1, <1>2 DEF Unheard, idp
  <2>2. Moves(t, 0..i)
    BY <1>2, <2>1, AnsweredMoves DEF Unheard, Typed, Answers, Cred
  <2>3. WorldTypes(0..i)'
    BY <1>2, <2>1 DEF Unheard, Answered, Typed, WorldTypes, idp, files, mind, sleep, history
  <2>4. QED
    BY <2>1, <2>2, <2>3
<1>3. CASE Refuses(t)
  <2>1. i \in Cred /\ i = issued
    BY <1>1, <1>3 DEF Refuses
  <2>2. Moves(t, 0..i)
    BY <1>3, <2>1, AnsweredMoves DEF Refuses, Typed, Answers, Cred
  <2>3. /\ dead' \subseteq (0..i) \ {0} /\ forfeit' \subseteq (0..i) \ {0}
        /\ respent' \subseteq spent'
    <3>1. 1..i \subseteq (0..i) \ {0} /\ cred[t] \in (0..i) \ {0}
      BY <1>1, <2>1 DEF Cred
    <3>2. dead \subseteq (0..i) \ {0} /\ forfeit \subseteq (0..i) \ {0} /\ respent \subseteq spent
      BY <2>1 DEF Typed, WorldTypes
    <3>3. QED
      BY <1>3, <2>1, <3>1, <3>2 DEF Refuses
  <2>4. WorldTypes(0..i)'
    BY <1>3, <2>1, <2>3 DEF Refuses, Answered, Typed, WorldTypes, files, mind, sleep
  <2>5. QED
    BY <2>1, <2>2, <2>4
<1>4. ASSUME NEW n, Rotates(t, n)
      PROVE  Moves(t, 0..i) /\ WorldTypes(0..i)'
  <2>1. n \in Cred /\ i = n /\ 0..issued \subseteq 0..n /\ n \in 0..n /\ n # 0
    BY <1>1, <1>4 DEF Rotates, Cred
  <2>2. CallTypes(0..n) /\ WorldTypes(0..n)
    BY <2>1, TypesGrow DEF Typed
  <2>3. Moves(t, 0..n)
    BY <1>4, <2>1, <2>2, AnsweredMoves DEF Rotates, Answers
  <2>4. /\ dead' \subseteq (0..n) \ {0} /\ forfeit' \subseteq (0..n) \ {0}
        /\ spent' \subseteq (0..n) \ {0} /\ respent' \subseteq spent'
    <3>1. cred[t] \in (0..n) \ {0}
      BY <1>1, <2>1
    <3>2. QED
      BY <1>4, <2>2, <3>1 DEF Rotates, WorldTypes
  <2>5. family' \in [Cred -> MaybeCred]
    <3>1. cred[t] \in Cred
      BY <1>1 DEF Cred
    <3>2. QED
      BY <1>4, <2>1, <2>2, <3>1 DEF Rotates, WorldTypes
  <2>6. faults' \in 0..MaxFaults
    <3>1. faults \in 0..MaxFaults
      BY <2>2 DEF WorldTypes
    <3>2. QED
      BY <1>4, <3>1 DEF Rotates, Fault
  <2>7. UNCHANGED <<home, stale, files, mind, sleep>>
    BY <1>4 DEF Rotates, Answered
  <2>8. WorldTypes(0..n)'
    BY <2>1, <2>2, <2>4, <2>5, <2>6, <2>7 DEF WorldTypes, files, mind, sleep
  <2>9. QED
    BY <2>1, <2>3, <2>8
<1>5. QED
  BY <1>2, <1>3, <1>4, ExchangeIsOne

\* What came back is written, or handed to the caller.
LEMMA PersistMoves ==
    ASSUME NEW M, 0 \in M, CallTypes(M), WorldTypes(M), NEW t \in Task, Local(t),
           Persist(t)
    PROVE  Moves(t, M) /\ WorldTypes(M)'
<1>1. PICK g \in M \ {0} : g = reply[t].cred
  BY DEF Persist, Local, CallOK, Carries, CallTypes
<1>2. PICK failed \in BOOLEAN : Leave(t, g, failed)
  BY <1>1 DEF Persist
<1>3. home \in [Task -> Proc] /\ home[t] \in Proc /\ cred[t] \in M
  BY DEF CallTypes, WorldTypes
<1>4. Moves(t, M)
  BY <1>2, <1>3, LeaveMoves
<1>5. disk' \in M /\ enrich' \subseteq Proc \X (M \ {0})
  <2>1. Update(home[t], g, TRUE) \/ Update(home[t], g, FALSE)
    BY <1>1 DEF Persist
  <2>2. disk' \in {g, disk} /\ enrich' \subseteq enrich \cup {<<home[t], g>>}
    BY <2>1 DEF Update
  <2>3. <<home[t], g>> \in Proc \X (M \ {0}) /\ disk \in M /\ enrich \subseteq Proc \X (M \ {0})
    BY <1>1, <1>3 DEF WorldTypes
  <2>4. QED
    BY <1>1, <2>2, <2>3
<1>6. forfeit' \subseteq M \ {0}
  BY <1>1, <1>3 DEF Persist, WorldTypes
<1>7. faults' \in 0..MaxFaults
  <2>1. faults \in 0..MaxFaults
    BY DEF WorldTypes
  <2>2. faults' = faults \/ Fault
    BY DEF Persist
  <2>3. QED
    BY <2>1, <2>2 DEF Fault
<1>8. UNCHANGED <<home, idp, stale, mind, sleep, spent, respent>>
  BY DEF Persist
<1>9. QED
  BY <1>4, <1>5, <1>6, <1>7, <1>8 DEF WorldTypes, idp, mind, sleep

LEMMA RejectMoves ==
    ASSUME NEW M, 0 \in M, CallTypes(M), WorldTypes(M), NEW t \in Task, Reject(t)
    PROVE  /\ Moves(t, M) /\ WorldTypes(M)' /\ pc'[t] = "idle"
           /\ \/ UNCHANGED verdict
              \/ \E b \in BOOLEAN :
                    /\ b = (reply[t].kind = "Sticky")
                    /\ verdict' = [verdict EXCEPT ![home[t]] =
                                      [key |-> reply[t].cred, sticky |-> b]]
<1>1. /\ home \in [Task -> Proc] /\ home[t] \in Proc /\ disk \in M /\ inner[home[t]] \in M
      /\ reply[t].cred \in M
  BY DEF CallTypes, WorldTypes
<1>2. Moves(t, M) /\ pc'[t] = "idle"
  BY <1>1, LeaveMoves DEF Reject, Adopt, Fails, Done
<1>3. PICK b \in BOOLEAN : b = (reply[t].kind = "Sticky")
  OBVIOUS
<1>4. \/ UNCHANGED verdict
      \/ verdict' = [verdict EXCEPT ![home[t]] = [key |-> reply[t].cred, sticky |-> b]]
  BY <1>3 DEF Reject, VerdictKey
<1>5. verdict' \in [Proc -> [key : M, sticky : BOOLEAN]]
  <2>1. PICK v : v = [key |-> reply[t].cred, sticky |-> b]
    OBVIOUS
  <2>2. v \in [key : M, sticky : BOOLEAN]
    BY <1>1, <2>1
  <2>3. verdict \in [Proc -> [key : M, sticky : BOOLEAN]]
    BY DEF WorldTypes
  <2>4. verdict' = verdict \/ verdict' = [verdict EXCEPT ![home[t]] = v]
    BY <1>4, <2>1
  <2>5. QED
    BY <2>2, <2>3, <2>4
<1>6. UNCHANGED <<home, idp, stale, blips, sleep, faults, history, disk, enrich>>
  BY DEF Reject
<1>7. WorldTypes(M)'
  BY <1>5, <1>6 DEF WorldTypes, idp, sleep, history
<1>8. QED
  BY <1>2, <1>3, <1>4, <1>7

\* The merge of the profile puts back the entry it had read.
LEMMA EnrichWriteMoves ==
    ASSUME NEW M, 0 \in M, CallTypes(M), WorldTypes(M), NEW t \in Task, Local(t),
           EnrichWrite(t)
    PROVE  Moves(t, M) /\ WorldTypes(M)' /\ pc'[t] = "idle"
<1>1. PICK g \in M \ {0} : g = snap[t]
  BY DEF EnrichWrite, Local, CallOK, CallTypes
<1>2. home \in [Task -> Proc]
  BY DEF WorldTypes
<1>3. Leave(t, g, FALSE)
  BY <1>1 DEF EnrichWrite
<1>4. Moves(t, M) /\ pc'[t] = "idle"
  BY <1>2, <1>3, LeaveMoves
<1>5. /\ disk' = g /\ forfeit' \subseteq forfeit \cup {g}
      /\ UNCHANGED <<home, idp, stale, mind, sleep, faults, spent, respent, enrich>>
  BY <1>1 DEF EnrichWrite
<1>6. WorldTypes(M)'
  BY <1>5 DEF WorldTypes, idp, mind, sleep
<1>7. QED
  BY <1>4, <1>6

\* Every step of one call keeps the first layer.
LEMMA CallKeepsBasics ==
    ASSUME Basics, NEW t \in Task, Starts(t) \/ TakeMutex(t) \/ LockStep(t) \/ Steps(t)
    PROVE  Basics' /\ Others(t)
<1>1. issued \in Cred /\ 0 \in 0..issued /\ UNCHANGED <<home, sleep>>
  <2>1. issued \in Cred
    BY DEF Basics, Typed, WorldTypes
  <2>2. UNCHANGED <<home, sleep>>
    BY DEF Starts, StartAuth, StartRecover, StartFlow, StartEnrich, TakeMutex, LockStep,
           Steps, Recover, FlowRead, Merge, EnrichWrite, NoLock, Held, Revalidate, Relocked,
           Claim, GateCheck, Prepare, Exchange, Refreshed, Persist, Reject, Quiet
  <2>3. QED
    BY <2>1, <2>2 DEF Cred
<1>2. /\ CallTypes(0..issued) /\ WorldTypes(0..issued) /\ Local(t) /\ Gates
  BY DEF Basics, Typed
<1>3. PICK i : i = issued'
  OBVIOUS
<1>4. Moves(t, 0..i) /\ WorldTypes(0..i)'
  <2>1. CASE Exchange(t)
    BY <1>2, <1>3, <2>1, ExchangeMoves DEF Basics
  <2>2. CASE Refreshed(t)
    <3>1. i = issued
      BY <1>3, <2>2 DEF Refreshed, idp
    <3>2. QED
      BY <1>1, <1>2, <2>2, <3>1, RefreshedMoves
  <2>3. CASE Prepare(t)
    <3>1. i = issued
      BY <1>3, <2>3 DEF Prepare, idp
    <3>2. QED
      BY <1>1, <1>2, <2>3, <3>1, PrepareMoves
  <2>4. CASE Persist(t) \/ Reject(t) \/ EnrichWrite(t)
    <3>1. i = issued
      BY <1>3, <2>4 DEF Persist, Reject, EnrichWrite, idp
    <3>2. QED
      BY <1>1, <1>2, <2>4, <3>1, PersistMoves, RejectMoves, EnrichWriteMoves
  <2>5. CASE StartEnrich(t)
    <3>1. /\ i = issued /\ enrich' \subseteq enrich
          /\ UNCHANGED <<home, idp, stale, mind, sleep, faults, history, disk>>
      BY <1>3, <2>5 DEF StartEnrich, idp
    <3>2. WorldTypes(0..i)'
      BY <1>2, <3>1 DEF WorldTypes, idp, mind, sleep, history
    <3>3. QED
      BY <1>1, <1>2, <2>5, <3>1, <3>2, StartsMove DEF Starts
  <2>6. CASE \/ StartAuth(t) \/ StartRecover(t) \/ StartFlow(t)
             \/ Recover(t) \/ FlowRead(t) \/ Merge(t) \/ NoLock(t) \/ Held(t)
             \/ Relocked(t) \/ TakeMutex(t) \/ LockStep(t)
             \/ Revalidate(t) \/ Claim(t) \/ GateCheck(t)
    <3>1. UNCHANGED <<home, idp, stale, mind, sleep, faults, history, disk, enrich>>
      BY <2>6 DEF StartAuth, StartRecover, StartFlow, TakeMutex, LockStep, files,
           Recover, FlowRead, Merge, NoLock, Held, Revalidate, Relocked,
           Claim, GateCheck, Quiet
    <3>2. i = issued
      BY <1>3, <3>1 DEF idp
    <3>3. WorldTypes(0..i)'
      BY <1>2, <3>1, <3>2 DEF WorldTypes, idp, mind, sleep, history
    <3>4. Moves(t, 0..i)
      BY <1>1, <1>2, <2>6, <3>2, StartsMove, WaitersMove, ClaimsMove DEF Starts
    <3>5. QED
      BY <3>3, <3>4
  <2>7. QED
    BY <2>1, <2>2, <2>3, <2>4, <2>5, <2>6 DEF Starts, Steps
<1>5. Typed'
  BY <1>3, <1>4 DEF Moves, Typed
<1>6. Others(t) /\ Local(t)'
  BY <1>4 DEF Moves
<1>7. ASSUME NEW u \in Task, u # t
      PROVE  Local(u)'
  <2>1. /\ pc'[u] = pc[u] /\ goal'[u] = goal[u] /\ cred'[u] = cred[u]
        /\ reply'[u] = reply[u] /\ snap'[u] = snap[u] /\ want'[u] = want[u]
        /\ live = u => live' = live
    BY <1>6, <1>7 DEF Others
  <2>2. Local(u) /\ home' = home /\ power' = power
    BY <1>1 DEF Basics, sleep
  <2>3. QED
    BY <2>1, <2>2 DEF Local, CallOK, Carries, Backed, Dry, Trusting, StillLive
<1>8. Gates'
  BY <1>1, <1>2 DEF Gates, sleep
<1>9. QED
  BY <1>5, <1>6, <1>7, <1>8 DEF Basics

-----------------------------------------------------------------------------
(* The rest of the system.                                                 *)

\* The calls and the lock are left as they were.
Bystand == UNCHANGED <<lockVars, home, mutex, pc, call>>

LEMMA BystandersKeepCalls ==
    ASSUME NEW M, NEW N, CallTypes(M), CallTypes(N), inner' \in [Proc -> N], Bystand
    PROVE  CallTypes(N)'
BY DEF Bystand, CallTypes, LockTypeOK, lockVars, call

\* A call that is left as it was, in a process that sleeps no more than before.
LEMMA StillLocal ==
    ASSUME NEW t \in Task, Local(t), home' = home, power' = power,
           pc'[t] = pc[t], goal'[t] = goal[t], cred'[t] = cred[t], reply'[t] = reply[t],
           snap'[t] = snap[t], want'[t] = want[t], live = t => live' = t
    PROVE  Local(t)'
BY DEF Local, CallOK, Carries, Backed, Dry, Trusting, StillLive

\* Logins, logouts, reloads, expiries: what changes is not a call's.
LEMMA FilesKeepBasics ==
    ASSUME Basics,
           \/ \E p \in Proc :
                Login(p) \/ Logout(p) \/ Reload(p) \/ PickUpSibling(p) \/ VerdictAges(p)
           \/ \E g \in Cred : Expire(g)
    PROVE  Basics' /\ Bystand /\ UNCHANGED sleep
<1>1. Bystand /\ UNCHANGED sleep
  BY DEF Bystand, Login, Logout, Reload, PickUpSibling, VerdictAges, Expire, Bystanders
<1>2. issued \in Cred /\ CallTypes(0..issued) /\ WorldTypes(0..issued)
  BY DEF Basics, Typed, WorldTypes
<1>3. PICK i : i = issued'
  OBVIOUS
<1>4. CallTypes(0..i)' /\ WorldTypes(0..i)'
  <2>1. ASSUME NEW p \in Proc, Login(p)
        PROVE  CallTypes(0..i)' /\ WorldTypes(0..i)'
    <3>1. /\ i \in Cred /\ i \in 0..i /\ i # 0 /\ 0..issued \subseteq 0..i /\ i = issued + 1
          /\ Fault /\ issued' = i /\ family' = [family EXCEPT ![i] = i]
          /\ disk' = i /\ inner' = [inner EXCEPT ![p] = i]
          /\ enrich' \subseteq enrich \cup {<<p, i>>}
          /\ UNCHANGED <<home, dead, stale, mind, sleep, history>>
      BY <1>2, <1>3, <2>1 DEF Login, Update, Cred
    <3>2. CallTypes(0..i) /\ WorldTypes(0..i)
      BY <1>2, <3>1, TypesGrow
    <3>3. inner' \in [Proc -> 0..i]
      BY <3>1, <3>2 DEF CallTypes
    <3>4. family' \in [Cred -> MaybeCred]
      BY <3>1, <3>2 DEF WorldTypes, Cred, MaybeCred
    <3>5. enrich' \subseteq Proc \X ((0..i) \ {0})
      <4>1. <<p, i>> \in Proc \X ((0..i) \ {0}) /\ enrich \subseteq Proc \X ((0..i) \ {0})
        BY <3>1, <3>2 DEF WorldTypes
      <4>2. QED
        BY <3>1, <4>1
    <3>6. faults' \in 0..MaxFaults
      BY <3>1, <3>2 DEF WorldTypes, Fault
    <3>7. WorldTypes(0..i)'
      BY <3>1, <3>2, <3>4, <3>5, <3>6 DEF WorldTypes, mind, sleep, history
    <3>8. QED
      BY <1>1, <3>2, <3>3, <3>7, BystandersKeepCalls
  <2>2. ASSUME NEW p \in Proc, Logout(p) \/ Reload(p) \/ PickUpSibling(p)
        PROVE  CallTypes(0..i)' /\ WorldTypes(0..i)'
    <3>1. i = issued /\ Bystanders
      BY <1>3, <2>2 DEF Logout, Reload, PickUpSibling, Bystanders, idp
    <3>2. /\ disk \in 0..i /\ 0 \in 0..i /\ inner \in [Proc -> 0..i]
          /\ spent \subseteq (0..i) \ {0} /\ forfeit \subseteq (0..i) \ {0}
          /\ faults \in 0..MaxFaults
      <4>1. CallTypes(0..i) /\ WorldTypes(0..i) /\ i \in Nat
        <5>1. CallTypes(0..issued) /\ WorldTypes(0..issued) /\ issued \in Nat
          BY <1>2 DEF Cred
        <5>2. QED
          BY <3>1, <5>1
      <4>2. 0 \in 0..i
        BY <4>1
      <4>3. QED
        BY <4>1, <4>2 DEF CallTypes, WorldTypes
    <3>3. inner' \in [Proc -> 0..i]
      BY <2>2, <3>2 DEF Logout, Reload, PickUpSibling
    <3>4. disk' \in 0..i /\ forfeit' \subseteq (0..i) \ {0} /\ faults' \in 0..MaxFaults
      <4>1. disk' \in {0, disk} /\ forfeit' \subseteq forfeit \cup spent
        BY <2>2 DEF Logout, Reload, PickUpSibling
      <4>2. faults' = faults \/ Fault
        BY <2>2 DEF Logout, Reload, PickUpSibling
      <4>3. faults' \in 0..MaxFaults
        BY <3>2, <4>2 DEF Fault
      <4>4. QED
        BY <3>2, <4>1, <4>3
    <3>5. WorldTypes(0..i)'
      BY <1>2, <3>1, <3>4 DEF WorldTypes, Bystanders, idp, mind, sleep
    <3>6. QED
      BY <1>1, <1>2, <3>1, <3>3, <3>5, BystandersKeepCalls
  <2>3. ASSUME NEW p \in Proc, VerdictAges(p)
        PROVE  CallTypes(0..i)' /\ WorldTypes(0..i)'
    <3>1. i = issued /\ 0 \in 0..i
      BY <1>2, <1>3, <2>3 DEF VerdictAges, idp, Cred
    <3>2. verdict' \in [Proc -> [key : 0..i, sticky : BOOLEAN]]
      <4>1. NoVerdict \in [key : 0..i, sticky : BOOLEAN]
        BY <3>1 DEF NoVerdict
      <4>2. QED
        BY <1>2, <2>3, <3>1, <4>1 DEF VerdictAges, WorldTypes
    <3>3. WorldTypes(0..i)'
      BY <1>2, <2>3, <3>1, <3>2 DEF VerdictAges, WorldTypes, idp, files, sleep, history
    <3>4. inner' \in [Proc -> 0..i]
      BY <1>2, <2>3, <3>1 DEF VerdictAges, files, CallTypes
    <3>5. QED
      BY <1>1, <1>2, <3>1, <3>3, <3>4, BystandersKeepCalls
  <2>4. ASSUME NEW g \in Cred, Expire(g)
        PROVE  CallTypes(0..i)' /\ WorldTypes(0..i)'
    <3>1. i = issued
      BY <1>3, <2>4 DEF Expire, idp
    <3>2. WorldTypes(0..i)'
      BY <1>2, <2>4, <3>1 DEF Expire, WorldTypes, idp, files, mind, sleep, history
    <3>3. inner' \in [Proc -> 0..i]
      BY <1>2, <2>4, <3>1 DEF Expire, files, CallTypes
    <3>4. QED
      BY <1>1, <1>2, <3>1, <3>2, <3>3, BystandersKeepCalls
  <2>5. QED
    BY <2>1, <2>2, <2>3, <2>4
<1>5. Typed'
  BY <1>3, <1>4 DEF Typed
<1>6. ASSUME NEW t \in Task PROVE Local(t)'
  BY <1>1, StillLocal DEF Basics, Bystand, lockVars, call, sleep
<1>7. Gates'
  BY <1>1 DEF Basics, Gates, sleep
<1>8. QED
  BY <1>1, <1>5, <1>6, <1>7 DEF Basics

\* The machine goes to sleep and wakes; told that no refresh is in flight, it
\* finds none.
LEMMA SleepKeepsBasics ==
    ASSUME Basics, NEW p \in Proc,
           WillSleep(p) \/ AckDrained(p) \/ AckTimeout(p) \/ Wake(p)
    PROVE  Basics' /\ Bystand /\ UNCHANGED <<idp, stale, files, mind, faults, history>>
<1>1. PICK to \in {"awake", "holding", "drained", "overdue"}, gated \in BOOLEAN :
        /\ power' = [power EXCEPT ![p] = to]
        /\ gate' = [gate EXCEPT ![p] = gated]
        /\ gated = FALSE => to = "awake"
        /\ to = "drained" => InFlight(p) = {}
        /\ UNCHANGED <<lockVars, home, idp, stale, files, mind, mutex, pc, call, faults,
                       history>>
  <2>1. CASE WillSleep(p)
    BY <2>1 DEF WillSleep, Power
  <2>2. CASE AckDrained(p)
    BY <2>2 DEF AckDrained, Power
  <2>3. CASE AckTimeout(p)
    BY <2>3 DEF AckTimeout, Power
  <2>4. CASE Wake(p)
    BY <2>4 DEF Wake, Power
  <2>5. QED
    BY <2>1, <2>2, <2>3, <2>4
<1>2. /\ gate \in [Proc -> BOOLEAN] /\ home \in [Task -> Proc]
      /\ power \in [Proc -> {"awake", "holding", "drained", "overdue"}]
  BY DEF Basics, Typed, WorldTypes
<1>3. Typed'
  <2>1. issued' = issued
    BY <1>1 DEF idp
  <2>2. CallTypes(0..issued)'
    BY <1>1 DEF Basics, Typed, CallTypes, LockTypeOK, lockVars, call, files, idp
  <2>3. WorldTypes(0..issued)'
    <3>1. /\ gate' \in [Proc -> BOOLEAN]
          /\ power' \in [Proc -> {"awake", "holding", "drained", "overdue"}]
      BY <1>1, <1>2
    <3>2. QED
      BY <1>1, <2>1, <3>1 DEF Basics, Typed, WorldTypes, files, mind, idp, history
  <2>4. QED
    BY <2>1, <2>2, <2>3 DEF Typed
<1>4. Gates'
  BY <1>1, <1>2 DEF Basics, Gates
<1>5. ASSUME NEW t \in Task PROVE Local(t)'
  <2>1. CallOK(t)' /\ Backed(t)'
    BY <1>1 DEF Basics, Local, CallOK, Carries, Backed, Trusting, StillLive, lockVars, call
  <2>2. Dry(t)'
    <3>1. CASE home[t] = p /\ to = "drained"
      <4>1. pc[t] \notin Claimed
        BY <1>1, <3>1 DEF InFlight
      <4>2. QED
        BY <1>1, <4>1 DEF Dry, Claimed
    <3>2. CASE home[t] = p /\ to # "drained"
      BY <1>1, <1>2, <3>2 DEF Dry
    <3>3. CASE home[t] # p
      BY <1>1, <1>2, <3>3 DEF Basics, Local, Dry
    <3>4. QED
      BY <3>1, <3>2, <3>3
  <2>3. QED
    BY <2>1, <2>2 DEF Local
<1>6. QED
  BY <1>1, <1>3, <1>4, <1>5 DEF Basics, Bystand

\* A process dies, with the calls that ran in it.
LEMMA CrashKeepsBasics ==
    ASSUME Basics, NEW p \in Proc, Crash(p)
    PROVE  /\ Basics'
           /\ \A t \in Task : home[t] = p => pc'[t] = "idle"
           /\ \A t \in Task : home[t] # p =>
                /\ pc'[t] = pc[t] /\ goal'[t] = goal[t] /\ cred'[t] = cred[t]
                /\ reply'[t] = reply[t] /\ snap'[t] = snap[t] /\ want'[t] = want[t]
                /\ live = t => live' = t
<1>1. PICK T : T = {t \in Task : home[t] = p}
  OBVIOUS
<1>2. PICK i \in Cred : i = issued
  BY DEF Basics, Typed, WorldTypes
<1>3. CallTypes(0..i) /\ WorldTypes(0..i) /\ 0 \in 0..i
  BY <1>2 DEF Basics, Typed, Cred
<1>4. \A t \in Task : home[t] = p =>
         pc'[t] = "idle" /\ goal'[t] = "none"
  BY DEF Crash
<1>5. \A t \in Task : home[t] # p =>
         /\ pc'[t] = pc[t] /\ goal'[t] = goal[t] /\ cred'[t] = cred[t]
         /\ reply'[t] = reply[t] /\ snap'[t] = snap[t] /\ want'[t] = want[t]
         /\ live = t => live' = t
  BY DEF Crash, DropAll, Released
<1>6. CallTypes(0..i)'
  <2>1. LockTypeOK'
    <3>1. DropAll(T) /\ T \subseteq Task
      BY <1>1 DEF Crash
    <3>2. QED
      BY <1>3, <3>1 DEF CallTypes, LockTypeOK, DropAll, Released, Wants
  <2>2. inner' \in [Proc -> 0..i]
    BY <1>3 DEF Crash, CallTypes, WorldTypes
  <2>3. mutex' \in [Proc -> Task \cup {NoTask}]
    BY <1>3 DEF Crash, CallTypes
  <2>4. pc' \in [Task -> Points] /\ reason' \in [Task -> {"PreRequest", "ServerRejected"}]
    BY <1>3 DEF Crash, CallTypes, Points
  <2>5. goal' \in [Task -> {"none", "refresh", "again", "flow", "reload", "enrich",
                            "exposed"}]
    BY <1>3 DEF Crash, CallTypes
  <2>6. snap' \in [Task -> 0..i] /\ kept' \in [Task -> 0..i] /\ cred' \in [Task -> 0..i]
    BY <1>3 DEF Crash, CallTypes
  <2>7. reply' \in [Task -> [kind : {"none"} \cup Answers \cup Outcomes, cred : 0..i]]
    <3>1. NoReply \in [kind : {"none"} \cup Answers \cup Outcomes, cred : 0..i]
      BY <1>3 DEF NoReply
    <3>2. QED
      BY <1>3, <3>1 DEF Crash, CallTypes
  <2>8. QED
    BY <2>1, <2>2, <2>3, <2>4, <2>5, <2>6, <2>7 DEF CallTypes
<1>7. WorldTypes(0..i)'
  <2>1. verdict' \in [Proc -> [key : 0..i, sticky : BOOLEAN]]
    <3>1. NoVerdict \in [key : 0..i, sticky : BOOLEAN]
      BY <1>3 DEF NoVerdict
    <3>2. QED
      BY <1>3, <3>1 DEF Crash, WorldTypes
  <2>2. blips' \in [Proc -> [key : 0..i, count : 0..(MaxBlips - 1)]]
    <3>1. NoBlips \in [key : 0..i, count : 0..(MaxBlips - 1)]
      BY <1>3 DEF NoBlips
    <3>2. QED
      BY <1>3, <3>1 DEF Crash, WorldTypes
  <2>3. /\ gate' \in [Proc -> BOOLEAN]
        /\ power' \in [Proc -> {"awake", "holding", "drained", "overdue"}]
    BY <1>3 DEF Crash, WorldTypes
  <2>4. forfeit' \subseteq (0..i) \ {0} /\ enrich' \subseteq enrich
    <3>1. {cred[t] : t \in {u \in T : pc[u] \in Unsettled}} \subseteq 0..i
      BY <1>1, <1>3 DEF CallTypes
    <3>2. /\ enrich' \subseteq enrich
          /\ forfeit' = forfeit \cup ({cred[t] : t \in {u \in T : pc[u] \in Unsettled}} \ {0})
      BY <1>1 DEF Crash
    <3>3. forfeit \subseteq (0..i) \ {0}
      BY <1>3 DEF WorldTypes
    <3>4. QED
      BY <3>1, <3>2, <3>3
  <2>5. faults' \in 0..MaxFaults
    BY <1>3 DEF Crash, WorldTypes, Fault
  <2>6. UNCHANGED <<home, idp, stale, disk, spent, respent>>
    BY DEF Crash
  <2>7. QED
    BY <1>3, <2>1, <2>2, <2>3, <2>4, <2>5, <2>6 DEF WorldTypes, idp
<1>8. Typed'
  <2>1. i = issued'
    BY <1>2 DEF Crash, idp
  <2>2. QED
    BY <1>6, <1>7, <2>1 DEF Typed
<1>9. Gates'
  BY <1>3 DEF Basics, Gates, Crash, WorldTypes
<1>10. ASSUME NEW t \in Task PROVE Local(t)'
  <2>1. CASE home[t] = p
    BY <1>4, <2>1 DEF Local, CallOK, Backed, Dry, Carries, Trusting, OnTheWire, Claimed
  <2>2. CASE home[t] # p
    <3>1. home' = home /\ power'[home[t]] = power[home[t]]
      BY <1>3, <2>2 DEF Crash, WorldTypes
    <3>2. Local(t)
      BY DEF Basics
    <3>3. QED
      BY <1>5, <2>2, <3>1, <3>2
      DEF Local, CallOK, Carries, Backed, Dry, Trusting, StillLive
  <2>3. QED
    BY <2>1, <2>2
<1>11. QED
  BY <1>4, <1>5, <1>8, <1>9, <1>10 DEF Basics

\* Whoever trusted the lock that breaks is exposed.
LEMMA LockBreaksKeepsBasics ==
    ASSUME Basics, LockBreaks
    PROVE  /\ Basics'
           /\ \A t \in Task : /\ goal'[t] \in {goal[t], "exposed"}
                              /\ Trusting(t) => goal'[t] = "exposed"
           /\ \A t \in Task : Trusting(t) /\ goal[t] # "exposed" /\ cred[t] # 0
                              => cred[t] \in forfeit'
<1>1. PICK losers \in SUBSET Task :
        /\ losers = {t \in Task : StillLive(t) /\ Trusts(t)}
        /\ goal' = [t \in Task |-> IF t \in losers THEN "exposed" ELSE goal[t]]
        /\ forfeit' = forfeit \cup ({cred[t] : t \in losers} \ {0})
  BY DEF LockBreaks
<1>2. /\ Fault /\ live' = NoTask /\ want' = want
      /\ UNCHANGED <<home, idp, stale, files, mind, mutex, sleep, pc, reason, snap,
                     kept, cred, reply, spent, respent>>
  BY DEF LockBreaks, Break
<1>3. \A t \in Task : Trusting(t) /\ goal[t] # "exposed" => t \in losers
  BY <1>1 DEF Basics, Local, Backed, Trusting, Trusts, StillLive
<1>4. \A t \in Task : /\ goal'[t] \in {goal[t], "exposed"}
                      /\ Trusting(t) => goal'[t] = "exposed"
  BY <1>1, <1>3
<1>5. \A t \in Task : Trusting(t) /\ goal[t] # "exposed" /\ cred[t] # 0
                     => cred[t] \in forfeit'
  BY <1>1, <1>3
<1>6. PICK i \in Cred : i = issued /\ i = issued'
  BY <1>2 DEF Basics, Typed, WorldTypes, idp
<1>7. CallTypes(0..i) /\ WorldTypes(0..i)
  BY <1>6 DEF Basics, Typed
<1>8. CallTypes(0..i)'
  <2>1. goal' \in [Task -> {"none", "refresh", "again", "flow", "reload", "enrich",
                            "exposed"}]
    BY <1>1, <1>7 DEF CallTypes
  <2>2. QED
    BY <1>2, <1>7, <2>1 DEF CallTypes, LockTypeOK, files
<1>9. WorldTypes(0..i)'
  <2>1. forfeit' \subseteq (0..i) \ {0}
    <3>1. {cred[t] : t \in losers} \subseteq 0..i
      BY <1>7 DEF CallTypes
    <3>2. forfeit \subseteq (0..i) \ {0}
      BY <1>7 DEF WorldTypes
    <3>3. QED
      BY <1>1, <3>1, <3>2
  <2>2. faults' \in 0..MaxFaults
    BY <1>2, <1>7 DEF Fault, WorldTypes
  <2>3. QED
    BY <1>2, <1>7, <2>1, <2>2 DEF WorldTypes, idp, files, mind, sleep
<1>10. ASSUME NEW t \in Task PROVE Local(t)'
  <2>1. Trusting(t)' => goal'[t] = "exposed"
    BY <1>2, <1>4 DEF Trusting
  <2>2. CallOK(t)' /\ Dry(t)'
    BY <1>2, <1>4 DEF Basics, Local, CallOK, Carries, Dry, sleep
  <2>3. QED
    BY <2>1, <2>2 DEF Local, Backed
<1>11. Gates'
  BY <1>2 DEF Basics, Gates, sleep
<1>12. QED
  BY <1>4, <1>5, <1>6, <1>8, <1>9, <1>10, <1>11 DEF Basics, Typed

-----------------------------------------------------------------------------
(* The first layer is an invariant.                                        *)

LEMMA InitBasics == Init => Basics
<1> SUFFICES ASSUME Init PROVE Basics
  OBVIOUS
<1>1. CallTypes(0..issued)
  <2>1. NoReply \in [kind : {"none"} \cup Answers \cup Outcomes, cred : 0..1]
    BY DEF NoReply
  <2>2. QED
    BY <2>1 DEF Init, CallTypes, LockInit, LockTypeOK, Wants, Points
<1>2. WorldTypes(0..issued)
  <2>1. NoVerdict \in [key : 0..1, sticky : BOOLEAN]
    BY DEF NoVerdict
  <2>2. NoBlips \in [key : 0..1, count : 0..(MaxBlips - 1)]
    BY DEF NoBlips
  <2>3. home \in [Task -> Proc] /\ family \in [Cred -> MaybeCred]
    BY DEF Init, Cred, MaybeCred
  <2>4. verdict \in [Proc -> [key : 0..1, sticky : BOOLEAN]]
    BY <2>1 DEF Init
  <2>5. blips \in [Proc -> [key : 0..1, count : 0..(MaxBlips - 1)]]
    BY <2>2 DEF Init
  <2>6. /\ issued = 1 /\ issued \in Cred /\ disk \in 0..1 /\ faults \in 0..MaxFaults
        /\ dead = {} /\ stale = {} /\ enrich = {}
        /\ spent = {} /\ respent = {} /\ forfeit = {}
    BY DEF Init, Cred
  <2>7. /\ gate \in [Proc -> BOOLEAN]
        /\ power \in [Proc -> {"awake", "holding", "drained", "overdue"}]
    BY DEF Init
  <2>8. QED
    BY <2>3, <2>4, <2>5, <2>6, <2>7 DEF WorldTypes
<1>3. Gates /\ \A t \in Task : Local(t)
  BY DEF Init, Gates, Local, CallOK, Backed, Dry, Carries, Trusting, OnTheWire, Claimed
<1>4. QED
  BY <1>1, <1>2, <1>3 DEF Basics, Typed

LEMMA StepBasics ==
    ASSUME Basics, [Next]_vars
    PROVE  Basics'
<1>1. ASSUME NEW t \in Task, Starts(t) \/ TakeMutex(t) \/ LockStep(t) \/ Steps(t)
      PROVE  Basics'
  BY <1>1, CallKeepsBasics
<1>2. ASSUME NEW p \in Proc, Environment(p)
      PROVE  Basics'
  BY <1>2, CrashKeepsBasics, FilesKeepBasics, SleepKeepsBasics DEF Environment
<1>3. ASSUME NEW g \in Cred, Expire(g)
      PROVE  Basics'
  BY <1>3, FilesKeepBasics
<1>4. CASE LockBreaks
  BY <1>4, LockBreaksKeepsBasics
<1>5. CASE UNCHANGED vars
  BY <1>5
  DEF vars, lockVars, idp, files, mind, sleep, call, history, Basics, Typed, CallTypes,
      WorldTypes, LockTypeOK, Gates, Local, CallOK, Carries, Backed, Dry, Trusting, StillLive
<1>6. QED
  BY <1>1, <1>2, <1>3, <1>4, <1>5 DEF Next

-----------------------------------------------------------------------------
(* Where the successor of a spent token is.                                *)

\* The tokens that were rotated, and that nothing excuses to be sent again.
Unpaid == spent \ forfeit

\* auth.json has another one by now, or the call that has its successor is yet
\* to write it.
Settled ==
    \A g \in Unpaid :
        \/ disk \notin {0, g}
        \/ \E t \in Task : Carries(t) /\ goal[t] # "exposed" /\ cred[t] = g

\* Nobody sends one of them or is about to write it, but a call that lost its
\* lock unawares.
Sends == \A t \in Task :
    pc[t] \in {"send", "resend"} /\ cred[t] \in Unpaid => goal[t] = "exposed"
Brings == \A t \in Task :
    Carries(t) /\ reply[t].cred \in Unpaid => goal[t] = "exposed"

Settles == SpentOnce /\ Settled /\ Sends /\ Brings

\* Two calls that trust their lock are one, or one of them is exposed.
LEMMA OneTrusts ==
    ASSUME Basics, NEW t \in Task, NEW u \in Task, Trusting(t), Trusting(u),
           goal[t] # "exposed", goal[u] # "exposed"
    PROVE  t = u
BY DEF Basics, Local, Backed, StillLive

LEMMA CarriersTrust ==
    ASSUME NEW t \in Task
    PROVE  /\ Carries(t) => Trusting(t)
           /\ pc[t] \in {"read"} \cup OnTheWire => Trusting(t)
BY DEF Carries, Trusting, Claimed, OnTheWire

\* The entry of auth.json is an unpaid token only while a call that trusts its
\* lock carries the successor; any other such call is exposed.
LEMMA DiskIsPaid ==
    ASSUME Basics, Settles, NEW t \in Task, Trusting(t), goal[t] # "exposed", ~Carries(t)
    PROVE  disk \notin Unpaid /\ (disk = 0 => Unpaid = {})
BY OneTrusts, CarriersTrust DEF Settles, Settled

\* u is where it was, or its lock broke; or it is over with the exchange.
Fades(u) ==
    \/ /\ pc'[u] = pc[u] /\ cred'[u] = cred[u] /\ reply'[u] = reply[u]
       /\ goal'[u] \in {goal[u], "exposed"}
       /\ Carries(u) /\ goal[u] # "exposed" /\ goal'[u] = "exposed"
          => cred[u] \in forfeit' \cup {0}
    \/ /\ pc'[u] \notin AtExchange
       /\ Carries(u) /\ goal[u] # "exposed" => cred[u] \in forfeit' \cup {0}

\* A step that spends nothing, sends nothing and brings nothing.
LEMMA FadingKeeps ==
    ASSUME Basics, Settles, UNCHANGED <<spent, respent>>, forfeit \subseteq forfeit',
           \A u \in Task : Fades(u),
           disk' = disk \/ \A g \in Unpaid' : disk' \notin {0, g}
    PROVE  Settles'
<1>1. Unpaid' \subseteq Unpaid /\ 0 \notin Unpaid
  BY DEF Unpaid, Basics, Typed, WorldTypes
<1>2. SpentOnce'
  BY DEF Settles, SpentOnce
<1>3. ASSUME NEW u \in Task
      PROVE  \/ /\ pc'[u] = pc[u] /\ cred'[u] = cred[u] /\ reply'[u] = reply[u]
                /\ goal[u] = "exposed" => goal'[u] = "exposed"
             \/ pc'[u] \notin OnTheWire /\ ~Carries(u)'
  BY DEF Fades, AtExchange, Carries, OnTheWire
<1>4. Sends'
  BY <1>1, <1>3 DEF Sends, Settles, OnTheWire
<1>5. Brings'
  <2>1. ASSUME NEW u \in Task, Carries(u)', reply'[u].cred \in Unpaid'
        PROVE  goal'[u] = "exposed"
    <3>1. /\ pc'[u] = pc[u] /\ cred'[u] = cred[u] /\ reply'[u] = reply[u]
          /\ goal[u] = "exposed" => goal'[u] = "exposed"
      BY <1>3, <2>1
    <3>2. Carries(u) /\ reply[u].cred \in Unpaid
      BY <1>1, <2>1, <3>1 DEF Carries
    <3>3. QED
      BY <3>1, <3>2 DEF Settles, Brings
  <2>2. QED
    BY <2>1 DEF Brings
<1>6. ASSUME NEW g \in Unpaid'
      PROVE  \/ disk' \notin {0, g}
             \/ \E t \in Task : Carries(t)' /\ goal'[t] # "exposed" /\ cred'[t] = g
  <2>1. CASE disk \notin {0, g} \/ disk' # disk
    BY <1>6, <2>1
  <2>2. CASE disk \in {0, g} /\ disk' = disk
    <3>1. PICK t \in Task : Carries(t) /\ goal[t] # "exposed" /\ cred[t] = g
      BY <1>1, <2>2 DEF Settles, Settled
    <3>2. cred[t] \notin forfeit' \cup {0}
      BY <1>1, <1>6, <3>1 DEF Unpaid
    <3>3. pc'[t] = pc[t] /\ cred'[t] = cred[t] /\ reply'[t] = reply[t] /\ goal'[t] = goal[t]
      BY <3>1, <3>2 DEF Fades
    <3>4. QED
      BY <3>1, <3>3 DEF Carries
  <2>3. QED
    BY <2>1, <2>2
<1>7. QED
  BY <1>2, <1>4, <1>5, <1>6 DEF Settles, Settled

\* The steps of a call away from the exchange.
LEMMA PlainKeepsSettles ==
    ASSUME Basics, Settles, NEW t \in Task,
           \/ Starts(t) \/ TakeMutex(t) \/ LockStep(t) \/ Revalidate(t) \/ Claim(t)
           \/ GateCheck(t) \/ Recover(t) \/ FlowRead(t) \/ Merge(t) \/ NoLock(t)
           \/ Held(t) \/ Relocked(t)
    PROVE  Settles'
<1>1. CallTypes(0..issued) /\ WorldTypes(0..issued) /\ Local(t) /\ Gates /\ 0 \in 0..issued
  BY SMTT(40) DEF Basics, Typed, WorldTypes, Cred
<1>2. Others(t) /\ Plain(t)
  BY <1>1, StartsMove, WaitersMove, ClaimsMove DEF Moves
<1>3. UNCHANGED <<history, disk>>
  BY DEF Starts, StartAuth, StartRecover, StartFlow, StartEnrich, TakeMutex, LockStep,
         Recover, FlowRead, Merge, NoLock, Held, Revalidate, Relocked, Claim, GateCheck,
         Quiet, files
<1>4. ASSUME NEW u \in Task PROVE Fades(u)
  BY <1>2 DEF Fades, Others, Plain, Carries, AtExchange, OnTheWire
<1>5. QED
  BY <1>3, <1>4, FadingKeeps DEF history

\* A call that writes auth.json, or gives up.
LEMMA WritersKeepSettles ==
    ASSUME Basics, Settles, NEW t \in Task, EnrichWrite(t) \/ Persist(t) \/ Reject(t)
    PROVE  Settles'
<1>1. /\ CallTypes(0..issued) /\ WorldTypes(0..issued) /\ Local(t) /\ 0 \in 0..issued
      /\ issued \in Cred
  BY SMTT(40) DEF Basics, Typed, WorldTypes, Cred
<1>2. Others(t) /\ pc'[t] = "idle"
  <2>1. Others(t)
    BY CallKeepsBasics DEF Steps
  <2>2. pc'[t] = "idle"
    BY <1>1 DEF EnrichWrite, Persist, Reject, Adopt, Fails, Done, Leave, Goto, CallTypes
  <2>3. QED
    BY <2>1, <2>2
<1>3. ASSUME NEW u \in Task, u # t PROVE Fades(u)
  BY <1>2, <1>3 DEF Fades, Others
<1>4. (Carries(t) /\ goal[t] # "exposed" => cred[t] \in forfeit' \cup {0}) => Fades(t)
  BY <1>2 DEF Fades, AtExchange, OnTheWire
<1>5. CASE Reject(t)
  <2>1. UNCHANGED <<disk, history>> /\ ~Carries(t)
    BY <1>5 DEF Reject, Carries
  <2>2. QED
    BY <1>3, <1>4, <2>1, FadingKeeps DEF history
<1>6. CASE EnrichWrite(t)
  <2>1. /\ ~Carries(t) /\ snap[t] # 0 /\ disk' = snap[t] /\ UNCHANGED <<spent, respent>>
        /\ forfeit' = IF disk = snap[t] THEN forfeit ELSE forfeit \cup {snap[t]}
    BY <1>1, <1>6 DEF EnrichWrite, Carries, Local, CallOK
  <2>2. disk' = disk \/ \A g \in Unpaid' : disk' \notin {0, g}
    BY <2>1 DEF Unpaid
  <2>3. QED
    BY <1>3, <1>4, <2>1, <2>2, FadingKeeps
<1>7. CASE Persist(t)
  <2>1. Carries(t) /\ reply[t].cred # 0 /\ UNCHANGED <<spent, respent>>
    BY <1>1, <1>7 DEF Persist, Carries, Local, CallOK
  <2>2. CASE /\ Update(home[t], reply[t].cred, TRUE)
             /\ forfeit' = IF goal[t] = "exposed" THEN forfeit \cup ({reply[t].cred} \cap spent)
                           ELSE forfeit
    <3>1. disk' = reply[t].cred /\ forfeit \subseteq forfeit'
      BY <2>2 DEF Update
    <3>2. reply[t].cred \notin Unpaid'
      BY <2>1, <2>2 DEF Settles, Brings, Unpaid
    <3>3. \A g \in Unpaid' : disk' \notin {0, g}
      BY <2>1, <3>1, <3>2
    <3>4. Unpaid' \subseteq Unpaid
      BY <2>1, <3>1 DEF Unpaid
    <3>5. Sends' /\ Brings'
      <4>1. \A u \in Task : u # t =>
              /\ pc'[u] = pc[u] /\ cred'[u] = cred[u] /\ reply'[u] = reply[u]
              /\ goal'[u] = goal[u]
        BY <1>2 DEF Others
      <4>2. QED
        BY <1>2, <3>4, <4>1 DEF Settles, Sends, Brings, Carries
    <3>6. SpentOnce'
      BY <2>1, <3>1 DEF Settles, SpentOnce
    <3>7. QED
      BY <3>3, <3>5, <3>6 DEF Settles, Settled
  <2>3. CASE /\ Update(home[t], reply[t].cred, FALSE)
             /\ forfeit' = forfeit \cup ({cred[t]} \ {0})
    <3>1. disk' = disk /\ forfeit \subseteq forfeit' /\ cred[t] \in forfeit' \cup {0}
      BY <2>3 DEF Update
    <3>2. QED
      BY <1>3, <1>4, <2>1, <3>1, FadingKeeps
  <2>4. QED
    BY <1>7, <2>2, <2>3 DEF Persist
<1>8. QED
  BY <1>5, <1>6, <1>7

\* What the refresher is about to send, or finds on disk, is paid for.
LEMMA PrepareKeepsSettles ==
    ASSUME Basics, Settles, NEW t \in Task, Prepare(t)
    PROVE  Settles'
<1>1. /\ CallTypes(0..issued) /\ disk \in 0..issued /\ 0 \in 0..issued
      /\ home[t] \in Proc /\ issued \in Cred
  BY SMTT(40) DEF Basics, Typed, CallTypes, WorldTypes, Cred
<1>2. /\ pc[t] = "read" /\ ~Carries(t) /\ Trusting(t) /\ UNCHANGED <<disk, history>>
  BY CarriersTrust DEF Prepare, Carries
<1>3. Others(t)
  BY CallKeepsBasics DEF Steps
<1>4. CASE Fails(t)
  <2>1. pc'[t] \notin AtExchange
    BY <1>1, <1>4 DEF Fails, Leave, Goto, CallTypes, AtExchange, OnTheWire
  <2>2. ASSUME NEW u \in Task PROVE Fades(u)
    BY <1>2, <1>3, <2>1 DEF Fades, Others
  <2>3. QED
    BY <1>2, <2>2, FadingKeeps DEF history
<1>5. CASE ~Fails(t)
  <2>1. goal' = goal
    BY <1>5 DEF Prepare
  <2>2. \/ pc'[t] = "apply" /\ reply'[t].cred = disk /\ disk # 0
        \/ pc'[t] = "send" /\ cred'[t] = Resolve(home[t], reason[t]) /\ cred'[t] # 0
    BY <1>1, <1>5 DEF Prepare, Outcome, Goto, Fresh, CallTypes
  <2>3. goal[t] # "exposed" => disk \notin Unpaid /\ Resolve(home[t], reason[t]) \notin Unpaid
    <3>1. disk # 0 => Resolve(home[t], reason[t]) = disk
      BY <1>1, ResolveIsOne
    <3>2. QED
      BY <1>2, <3>1, DiskIsPaid
  <2>4. Unpaid' = Unpaid
    BY <1>2 DEF Unpaid, history
  <2>5. \A u \in Task : u # t => /\ pc'[u] = pc[u] /\ cred'[u] = cred[u]
                                 /\ reply'[u] = reply[u] /\ goal'[u] = goal[u]
    BY <1>3 DEF Others
  <2>6. Sends' /\ Brings'
    BY <2>1, <2>2, <2>3, <2>4, <2>5 DEF Settles, Sends, Brings, Carries
  <2>7. Settled'
    BY <1>2, <2>4, <2>5 DEF Settles, Settled, Carries
  <2>8. SpentOnce'
    BY <1>2 DEF Settles, SpentOnce, history
  <2>9. QED
    BY <2>6, <2>7, <2>8 DEF Settles
<1>6. QED
  BY <1>4, <1>5

\* The call that sends a token has the only claim to it, and keeps it.
LEMMA ExchangeKeepsSettles ==
    ASSUME Basics, Settles, NEW t \in Task, Exchange(t)
    PROVE  Settles'
<1>1. /\ CallTypes(0..issued) /\ WorldTypes(0..issued) /\ issued \in Cred
      /\ cred[t] \in (0..issued) \ {0}
  BY DEF Basics, Typed, CallTypes, WorldTypes, Local, CallOK, Exchange, OnTheWire
<1>2. pc[t] \in {"send", "resend"} /\ ~Carries(t) /\ Trusting(t)
  BY CarriersTrust DEF Exchange, Carries, OnTheWire
<1>3. UNCHANGED <<disk, goal, cred>>
  BY DEF Exchange, files
<1>4. \A u \in Task : u # t => /\ pc'[u] = pc[u] /\ cred'[u] = cred[u]
                               /\ reply'[u] = reply[u] /\ goal'[u] = goal[u]
  BY CallKeepsBasics DEF Steps, Others
<1>5. PICK kind \in Answers, n \in {0, issued + 1} : Answered(t, kind, n)
  BY ExchangeIsOne DEF Unheard, Refuses, Rotates, Answers
<1>6. pc'[t] \in {"reply", "rereply"} /\ reply'[t] = [kind |-> kind, cred |-> n]
  BY <1>1, <1>5 DEF Answered, CallTypes
<1>7. cred[t] \in Unpaid => goal[t] = "exposed"
  BY <1>2 DEF Settles, Sends
<1>8. ASSUME kind # "ok", Unpaid' \subseteq Unpaid, SpentOnce'
      PROVE  Settles'
  <2>1. ~Carries(t)'
    BY <1>6, <1>8 DEF Carries
  <2>2. Sends' /\ Brings'
    BY <1>4, <1>6, <1>8, <2>1 DEF Settles, Sends, Brings, Carries
  <2>3. Settled'
    BY <1>2, <1>3, <1>4, <1>8 DEF Settles, Settled, Carries
  <2>4. QED
    BY <1>8, <2>2, <2>3 DEF Settles
<1>9. CASE Unheard(t)
  <2>1. kind # "ok" /\ UNCHANGED history
    <3>1. reply'[t].kind \in {"failed", "client"}
      BY <1>1, <1>9 DEF Unheard, Answered, CallTypes
    <3>2. QED
      BY <1>6, <1>9, <3>1 DEF Unheard
  <2>2. QED
    BY <1>8, <2>1 DEF Settles, SpentOnce, Unpaid, history
<1>10. CASE Refuses(t)
  <2>1. kind # "ok"
    <3>1. reply'[t].kind = "rejected"
      BY <1>1, <1>10 DEF Refuses, Answered, CallTypes
    <3>2. QED
      BY <1>6, <3>1
  <2>2. Unpaid' \subseteq Unpaid
    BY <1>10 DEF Refuses, Unpaid
  <2>3. SpentOnce'
    BY <1>7, <1>10 DEF Refuses, Settles, SpentOnce, Unpaid
  <2>4. QED
    BY <1>8, <2>1, <2>2, <2>3
<1>11. ASSUME NEW m, Rotates(t, m)
       PROVE  Settles'
  <2>1. SpentOnce'
    BY <1>11 DEF Rotates, Settles, SpentOnce
  <2>2. CASE /\ Answered(t, "failed", 0)
             /\ forfeit' = forfeit \cup {cred[t]}
    <3>1. kind # "ok"
      BY <1>1, <1>6, <2>2 DEF Answered, CallTypes
    <3>2. Unpaid' \subseteq Unpaid
      BY <1>11, <2>2 DEF Rotates, Unpaid
    <3>3. QED
      BY <1>8, <2>1, <3>1, <3>2
  <2>3. CASE /\ Answered(t, "ok", m)
             /\ forfeit' = forfeit \cup (IF goal[t] = "exposed" THEN {cred[t]} ELSE {})
    <3>1. reply'[t] = [kind |-> "ok", cred |-> m] /\ Carries(t)'
      BY <1>1, <1>6, <2>3 DEF Answered, CallTypes, Carries
    <3>2. m \notin spent'
      <4>1. m = issued + 1 /\ spent' = spent \cup {cred[t]} /\ spent \subseteq (0..issued) \ {0}
        BY <1>1, <1>11 DEF Rotates, WorldTypes
      <4>2. QED
        BY <1>1, <4>1 DEF Cred
    <3>3. Unpaid' \subseteq Unpaid \cup {cred[t]}
      BY <1>11, <2>3 DEF Rotates, Unpaid
    <3>4. cred[t] \in Unpaid' => goal[t] # "exposed"
      BY <2>3 DEF Unpaid
    <3>5. \A u \in Task : u # t /\ cred[t] \in Unpaid' /\ Trusting(u) => goal[u] = "exposed"
      BY <1>2, <3>4, OneTrusts
    <3>6. Sends'
      <4>1. ASSUME NEW u \in Task, pc'[u] \in {"send", "resend"}, cred'[u] \in Unpaid'
            PROVE  goal'[u] = "exposed"
        <5>1. u # t /\ pc[u] \in {"send", "resend"} /\ cred[u] \in Unpaid' /\ Trusting(u)
          BY <1>4, <1>6, <4>1, CarriersTrust DEF OnTheWire
        <5>2. QED
          BY <1>4, <3>3, <3>5, <5>1 DEF Settles, Sends
      <4>2. QED
        BY <4>1 DEF Sends
    <3>7. Brings'
      <4>1. ASSUME NEW u \in Task, Carries(u)', reply'[u].cred \in Unpaid'
            PROVE  goal'[u] = "exposed"
        <5>1. u # t
          BY <3>1, <3>2, <4>1 DEF Unpaid
        <5>2. Carries(u) /\ reply[u].cred \in Unpaid' /\ Trusting(u)
          BY <1>4, <4>1, <5>1, CarriersTrust DEF Carries
        <5>3. QED
          BY <1>4, <3>3, <3>5, <5>1, <5>2 DEF Settles, Brings
      <4>2. QED
        BY <4>1 DEF Brings
    <3>8. ASSUME NEW g \in Unpaid'
          PROVE  \/ disk' \notin {0, g}
                 \/ \E u \in Task : Carries(u)' /\ goal'[u] # "exposed" /\ cred'[u] = g
      <4>1. CASE g = cred[t]
        BY <1>3, <3>1, <3>4, <3>8, <4>1
      <4>2. CASE g \in Unpaid
        BY <1>2, <1>3, <1>4, <4>2 DEF Settles, Settled, Carries
      <4>3. QED
        BY <3>3, <3>8, <4>1, <4>2
    <3>9. QED
      BY <2>1, <3>6, <3>7, <3>8 DEF Settles, Settled
  <2>4. QED
    BY <1>11, <2>2, <2>3 DEF Rotates
<1>12. QED
  BY <1>9, <1>10, <1>11, ExchangeIsOne

\* After a refusal the entry of auth.json is taken, or sent, and is paid for.
LEMMA RefreshedKeepsSettles ==
    ASSUME Basics, Settles, NEW t \in Task, Refreshed(t)
    PROVE  Settles'
<1>1. CallTypes(0..issued)
  BY DEF Basics, Typed
<1>2. /\ pc[t] \in {"reply", "rereply"} /\ Trusting(t)
      /\ UNCHANGED <<disk, goal, history>>
  BY CarriersTrust DEF Refreshed, files, OnTheWire
<1>3. \A u \in Task : u # t => /\ pc'[u] = pc[u] /\ cred'[u] = cred[u]
                               /\ reply'[u] = reply[u] /\ goal'[u] = goal[u]
  BY CallKeepsBasics DEF Steps, Others
<1>4. Unpaid' = Unpaid /\ SpentOnce'
  BY <1>2 DEF Unpaid, Settles, SpentOnce, history
<1>5. ~Carries(t) /\ goal[t] # "exposed" => disk \notin Unpaid
  BY <1>2, DiskIsPaid
<1>6. CASE Resends(t)
  <2>1. ~Carries(t) /\ pc'[t] = "resend" /\ cred'[t] = disk
    BY <1>1, <1>2, <1>6 DEF Resends, Carries, CallTypes
  <2>2. Sends' /\ Brings'
    BY <1>2, <1>3, <1>4, <1>5, <2>1 DEF Settles, Sends, Brings, Carries
  <2>3. Settled'
    BY <1>2, <1>3, <1>4, <2>1 DEF Settles, Settled, Carries
  <2>4. QED
    BY <1>4, <2>2, <2>3 DEF Settles
<1>7. ASSUME NEW kind, NEW g, Concludes(t, kind, g)
      PROVE  Settles'
  <2>1. pc'[t] = "apply" /\ reply'[t] = [kind |-> kind, cred |-> g] /\ cred' = cred
    BY <1>1, <1>7 DEF Concludes, CallTypes
  <2>2. Carries(t) => kind = "Success" /\ g = reply[t].cred
    BY <1>2, <1>7 DEF Concludes, Carries
  <2>3. kind = "Success" => \/ Carries(t) /\ g = reply[t].cred
                            \/ ~Carries(t) /\ g = disk
    BY <1>2, <1>7 DEF Concludes, Carries
  <2>4. Sends'
    BY <1>2, <1>3, <1>4, <2>1 DEF Settles, Sends
  <2>5. Brings'
    <3>1. kind = "Success" /\ g \in Unpaid => goal[t] = "exposed"
      BY <1>5, <2>3 DEF Settles, Brings
    <3>2. Carries(t)' => kind = "Success"
      BY <2>1 DEF Carries
    <3>3. QED
      BY <1>2, <1>3, <1>4, <2>1, <3>1, <3>2 DEF Settles, Brings, Carries
  <2>6. Settled'
    <3>1. Carries(t) => Carries(t)'
      BY <2>1, <2>2 DEF Carries
    <3>2. \A u \in Task : Carries(u) => Carries(u)' /\ cred'[u] = cred[u]
      BY <1>3, <2>1, <3>1 DEF Carries
    <3>3. QED
      BY <1>2, <1>4, <3>2 DEF Settles, Settled
  <2>7. QED
    BY <1>4, <2>4, <2>5, <2>6 DEF Settles
<1>8. QED
  BY <1>6, <1>7, RefreshedIsOne

\* A login, a logout, a crash or a broken lock gives every token that it leaves
\* without a successor a reason.
LEMMA FaultsKeepSettles ==
    ASSUME Basics, Settles,
           (\E p \in Proc : Environment(p)) \/ LockBreaks \/ \E g \in Cred : Expire(g)
    PROVE  Settles'
<1>1. CASE LockBreaks
  <2>1. /\ UNCHANGED <<files, pc, cred, reply, spent, respent>> /\ forfeit \subseteq forfeit'
    BY <1>1 DEF LockBreaks
  <2>2. ASSUME NEW u \in Task PROVE Fades(u)
    BY <1>1, <2>1, LockBreaksKeepsBasics, CarriersTrust DEF Fades
  <2>3. QED
    BY <2>1, <2>2, FadingKeeps DEF files
<1>2. ASSUME NEW p \in Proc, Crash(p)
      PROVE  Settles'
  <2>1. /\ UNCHANGED <<disk, spent, respent>> /\ forfeit \subseteq forfeit'
        /\ \A u \in Task : home[u] = p /\ pc[u] \in Unsettled => cred[u] \in forfeit' \cup {0}
    BY <1>2 DEF Crash
  <2>2. ASSUME NEW u \in Task PROVE Fades(u)
    <3>1. CASE home[u] = p
      BY <1>2, <2>1, <3>1, CrashKeepsBasics DEF Fades, AtExchange, OnTheWire, Carries, Unsettled
    <3>2. CASE home[u] # p
      BY <1>2, <3>2, CrashKeepsBasics DEF Fades
    <3>3. QED
      BY <3>1, <3>2
  <2>3. QED
    BY <2>1, <2>2, FadingKeeps
<1>3. ASSUME Bystand
      PROVE  \A u \in Task : Fades(u)
  BY <1>3 DEF Bystand, Fades, call
<1>4. ASSUME NEW p \in Proc,
             Login(p) \/ Logout(p) \/ Reload(p) \/ PickUpSibling(p) \/ VerdictAges(p)
      PROVE  Settles'
  <2>1. Bystand
    BY <1>4, FilesKeepBasics
  <2>2. UNCHANGED <<spent, respent>> /\ forfeit \subseteq forfeit'
    BY <1>4 DEF Login, Logout, Reload, PickUpSibling, VerdictAges, Bystanders, history
  <2>3. disk' = disk \/ \A g \in Unpaid' : disk' \notin {0, g}
    <3>1. CASE Login(p)
      <4>1. /\ disk' = issued + 1 /\ spent' = spent /\ issued \in Cred
            /\ spent \subseteq (0..issued) \ {0}
        BY <3>1 DEF Login, Update, history, Basics, Typed, WorldTypes
      <4>2. disk' \notin spent' /\ disk' # 0
        BY <4>1 DEF Cred
      <4>3. QED
        BY <4>2 DEF Unpaid
    <3>2. CASE Logout(p)
      <4>1. disk' = disk \/ forfeit' = forfeit \cup spent
        BY <3>2 DEF Logout
      <4>2. QED
        BY <2>2, <4>1 DEF Unpaid
    <3>3. CASE Reload(p) \/ PickUpSibling(p) \/ VerdictAges(p)
      BY <3>3 DEF Reload, PickUpSibling, VerdictAges, files
    <3>4. QED
      BY <1>4, <3>1, <3>2, <3>3
  <2>4. QED
    BY <1>3, <2>1, <2>2, <2>3, FadingKeeps
<1>5. ASSUME NEW p \in Proc, WillSleep(p) \/ AckDrained(p) \/ AckTimeout(p) \/ Wake(p)
      PROVE  Settles'
  BY <1>3, <1>5, SleepKeepsBasics, FadingKeeps DEF files, history
<1>6. ASSUME NEW g \in Cred, Expire(g)
      PROVE  Settles'
  <2>1. Bystand /\ UNCHANGED <<files, history>>
    BY <1>6 DEF Expire, Bystand
  <2>2. QED
    BY <1>3, <2>1, FadingKeeps DEF files, history
<1>7. QED
  BY <1>1, <1>2, <1>4, <1>5, <1>6 DEF Environment

LEMMA InitSettles == Init => Settles
BY DEF Init, Settles, SpentOnce, Settled, Sends, Brings, Unpaid, Carries

LEMMA StepSettles ==
    ASSUME Basics, Settles, [Next]_vars
    PROVE  Settles'
<1>1. ASSUME NEW t \in Task, Starts(t) \/ TakeMutex(t) \/ LockStep(t) \/ Steps(t)
      PROVE  Settles'
  BY <1>1, PlainKeepsSettles, WritersKeepSettles, PrepareKeepsSettles,
     ExchangeKeepsSettles, RefreshedKeepsSettles DEF Steps
<1>2. CASE UNCHANGED vars
  <2>1. Bystand /\ UNCHANGED <<files, history>>
    BY <1>2 DEF vars, Bystand
  <2>2. \A u \in Task : Fades(u)
    BY <2>1 DEF Bystand, Fades, call
  <2>3. QED
    BY <2>1, <2>2, FadingKeeps DEF files, history
<1>3. QED
  BY <1>1, <1>2, FaultsKeepSettles DEF Next

-----------------------------------------------------------------------------
(* Why a token is refused.                                                 *)

\* The provider refuses g since a token of its login came in a second time.
Caused(g) == g \in dead /\ \E h \in respent : family[h] = family[g]

\* t has been told that g is refused, and so has the owner of the verdict of p.
Blames(t, g) ==
    \/ pc[t] \in {"reply", "rereply"} /\ reply[t].kind = "rejected" /\ cred[t] = g
    \/ pc[t] = "apply" /\ reply[t].kind = "Sticky" /\ reply[t].cred = g
Condemns(p, g) == verdict[p].sticky /\ verdict[p].key = g

Refused ==
    /\ \A g \in dead \ spent : Caused(g)
    /\ \A t \in Task, g \in MaybeCred : Blames(t, g) => Caused(g)
    /\ \A p \in Proc, g \in MaybeCred : Condemns(p, g) => Caused(g)

\* Who blames a token after a step blamed it before, or is right.
LEMMA BlamesKeep ==
    ASSUME Basics, Refused,
           dead \subseteq dead', respent \subseteq respent',
           \A h \in 1..issued : family'[h] = family[h],
           \A g \in dead' \ spent' : g \in dead \ spent \/ Caused(g)',
           \A t \in Task, g \in MaybeCred : Blames(t, g)' => Blames(t, g) \/ Caused(g)',
           \A p \in Proc, g \in MaybeCred :
              Condemns(p, g)' => Condemns(p, g) \/ \E t \in Task : Blames(t, g)
    PROVE  Refused'
<1>1. dead \subseteq 1..issued /\ respent \subseteq 1..issued
  <2>1. /\ dead \subseteq (0..issued) \ {0} /\ respent \subseteq (0..issued) \ {0}
        /\ issued \in Cred
    BY DEF Basics, Typed, WorldTypes
  <2>2. (0..issued) \ {0} \subseteq 1..issued
    BY <2>1 DEF Cred
  <2>3. QED
    BY <2>1, <2>2
<1>2. ASSUME NEW g, Caused(g)
      PROVE  Caused(g)'
  BY <1>1, <1>2 DEF Caused
<1>3. QED
  BY <1>2 DEF Refused

\* The provider has no other reason to refuse a token than a second spend.
LEMMA ExchangeKeepsRefused ==
    ASSUME Basics, Settles, Refused, NEW t \in Task, Exchange(t)
    PROVE  Refused'
<1>1. /\ CallTypes(0..issued) /\ WorldTypes(0..issued) /\ issued \in Cred
      /\ cred[t] \in (0..issued) \ {0}
  BY DEF Basics, Typed, CallTypes, WorldTypes, Local, CallOK, Exchange, OnTheWire
<1>2. \A u \in Task : u # t => /\ pc'[u] = pc[u] /\ cred'[u] = cred[u]
                               /\ reply'[u] = reply[u]
  BY CallKeepsBasics DEF Steps, Others
<1>3. PICK kind \in Answers, n \in {0, issued + 1} : Answered(t, kind, n)
  BY ExchangeIsOne DEF Unheard, Refuses, Rotates, Answers
<1>4. /\ pc'[t] \in {"reply", "rereply"} /\ reply'[t] = [kind |-> kind, cred |-> n]
      /\ cred' = cred /\ verdict' = verdict
  BY <1>1, <1>3 DEF Answered, CallTypes, mind
<1>5. \A u \in Task, g \in MaybeCred :
         Blames(u, g)' => \/ Blames(u, g)
                          \/ u = t /\ g = cred[t] /\ kind = "rejected"
  BY <1>2, <1>4 DEF Blames
<1>6. \A p \in Proc, g \in MaybeCred : Condemns(p, g)' => Condemns(p, g)
  BY <1>4 DEF Condemns
<1>7. CASE Unheard(t)
  <2>1. kind # "rejected"
    BY <1>1, <1>4, <1>7 DEF Unheard, Answered, CallTypes
  <2>2. UNCHANGED <<family, dead, spent, respent>>
    BY <1>7 DEF Unheard, idp, history
  <2>3. QED
    BY <1>5, <1>6, <2>1, <2>2, BlamesKeep
<1>8. CASE Refuses(t)
  <2>1. /\ dead' = dead \cup {h \in 1..issued : family[h] = family[cred[t]]}
        /\ respent' = respent \cup ({cred[t]} \cap spent) /\ cred[t] \in dead
        /\ UNCHANGED <<family, spent>>
    BY <1>8 DEF Refuses
  <2>2. PICK h \in respent' : family[h] = family[cred[t]]
    <3>1. CASE cred[t] \in spent
      BY <2>1, <3>1
    <3>2. CASE cred[t] \notin spent
      BY <2>1, <3>2 DEF Refused, Caused
    <3>3. QED
      BY <3>1, <3>2
  <2>3. \A g \in dead' : family[g] = family[cred[t]] => Caused(g)'
    BY <2>1, <2>2 DEF Caused
  <2>4. \A g \in dead' \ spent' : g \in dead \ spent \/ Caused(g)'
    BY <2>1, <2>3
  <2>5. Caused(cred[t])'
    <3>1. PICK g : g = cred[t]
      OBVIOUS
    <3>2. Caused(g)'
      BY <2>1, <2>3, <3>1
    <3>3. QED
      BY <1>4, <3>1, <3>2
  <2>6. \A u \in Task, g \in MaybeCred : Blames(u, g)' => Blames(u, g) \/ Caused(g)'
    BY <1>5, <2>1, <2>3
  <2>7. QED
    BY <1>6, <2>1, <2>4, <2>6, BlamesKeep
<1>9. ASSUME NEW m, Rotates(t, m)
      PROVE  Refused'
  <2>1. kind # "rejected"
    BY <1>1, <1>4, <1>9 DEF Rotates, Answered, CallTypes
  <2>2. \A h \in 1..issued : family'[h] = family[h]
    BY <1>1, <1>9 DEF Rotates, WorldTypes, Cred
  <2>3. QED
    BY <1>5, <1>6, <1>9, <2>1, <2>2, BlamesKeep DEF Rotates
<1>10. QED
  BY <1>7, <1>8, <1>9, ExchangeIsOne

\* A verdict is recorded on the credential that was refused.
LEMMA CallKeepsRefused ==
    ASSUME Basics, Settles, Refused, NEW t \in Task,
           Starts(t) \/ TakeMutex(t) \/ LockStep(t) \/ Steps(t)
    PROVE  Refused'
<1>1. /\ CallTypes(0..issued) /\ WorldTypes(0..issued) /\ Local(t) /\ Gates /\ 0 \in 0..issued
      /\ issued \in Cred
  BY SMTT(40) DEF Basics, Typed, WorldTypes, Cred
<1>2. \A u \in Task : u # t => /\ pc'[u] = pc[u] /\ cred'[u] = cred[u]
                               /\ reply'[u] = reply[u]
  BY CallKeepsBasics DEF Others
<1>3. ~Exchange(t) => UNCHANGED <<family, dead, spent, respent>>
  BY DEF Starts, StartAuth, StartRecover, StartFlow, StartEnrich, TakeMutex, LockStep,
         Steps, Recover, FlowRead, Merge, EnrichWrite, NoLock, Held, Revalidate, Relocked,
         Claim, GateCheck, Prepare, Refreshed, Persist, Reject, Quiet, idp, history
<1>4. ~Exchange(t) /\ ~Reject(t) => UNCHANGED verdict
  BY DEF Starts, StartAuth, StartRecover, StartFlow, StartEnrich, TakeMutex, LockStep,
         Steps, Recover, FlowRead, Merge, EnrichWrite, NoLock, Held, Revalidate, Relocked,
         Claim, GateCheck, Prepare, Refreshed, Persist, Quiet, mind
<1>5. ASSUME ~Exchange(t), ~Reject(t),
             \A g \in MaybeCred : Blames(t, g)' => Blames(t, g)
      PROVE  Refused'
  <2>1. \A u \in Task, g \in MaybeCred : Blames(u, g)' => Blames(u, g)
    BY <1>2, <1>5 DEF Blames
  <2>2. \A p \in Proc, g \in MaybeCred : Condemns(p, g)' => Condemns(p, g)
    BY <1>4, <1>5 DEF Condemns
  <2>3. QED
    BY <1>3, <1>5, <2>1, <2>2, BlamesKeep
<1>6. CASE Exchange(t)
  BY <1>6, ExchangeKeepsRefused
<1>7. CASE Reject(t)
  <2>1. ~Exchange(t) /\ pc[t] = "apply" /\ pc'[t] = "idle"
    BY <1>1, <1>7, RejectMoves DEF Reject, Exchange
  <2>2. \A u \in Task, g \in MaybeCred : Blames(u, g)' => Blames(u, g)
    BY <1>2, <2>1 DEF Blames
  <2>3. \A p \in Proc, g \in MaybeCred :
           Condemns(p, g)' => Condemns(p, g) \/ \E u \in Task : Blames(u, g)
    <3>1. CASE UNCHANGED verdict
      BY <3>1 DEF Condemns
    <3>2. ASSUME NEW b \in BOOLEAN, b = (reply[t].kind = "Sticky"),
                 verdict' = [verdict EXCEPT ![home[t]] = [key |-> reply[t].cred, sticky |-> b]]
          PROVE  \A p \in Proc, g \in MaybeCred :
                    Condemns(p, g)' => Condemns(p, g) \/ Blames(t, g)
      <4>1. \A p \in Proc : p # home[t] => verdict'[p] = verdict[p]
        BY <1>1, <3>2 DEF WorldTypes
      <4>2. verdict'[home[t]].key = reply[t].cred /\ (verdict'[home[t]].sticky <=> b)
        BY <1>1, <3>2 DEF WorldTypes
      <4>3. \A g \in MaybeCred : Condemns(home[t], g)' => Blames(t, g)
        <5>1. home' = home
          BY <1>7 DEF Reject
        <5>2. QED
          BY <2>1, <3>2, <4>2, <5>1 DEF Condemns, Blames
      <4>4. \A p \in Proc, g \in MaybeCred : p # home[t] => (Condemns(p, g)' => Condemns(p, g))
        BY <4>1 DEF Condemns
      <4>5. home' = home
        BY <1>7 DEF Reject
      <4>6. QED
        BY <4>3, <4>4, <4>5 DEF Condemns
    <3>3. QED
      BY <1>1, <1>7, <3>1, <3>2, RejectMoves
  <2>4. QED
    BY <1>3, <2>1, <2>2, <2>3, BlamesKeep
<1>8. CASE Refreshed(t)
  <2>1. /\ pc[t] \in {"reply", "rereply"} /\ ~Exchange(t) /\ ~Reject(t)
    BY <1>8 DEF Refreshed, Exchange, Reject
  <2>2. ASSUME NEW kind, NEW c, Concludes(t, kind, c), NEW g \in MaybeCred, Blames(t, g)'
        PROVE  Blames(t, g)
    <3>1. pc'[t] = "apply" /\ reply'[t] = [kind |-> kind, cred |-> c]
      BY <1>1, <2>2 DEF Concludes, CallTypes
    <3>2. kind = "Sticky" /\ g = c
      BY <2>2, <3>1 DEF Blames
    <3>3. QED
      BY <2>1, <2>2, <3>2 DEF Blames, Concludes
  <2>3. Resends(t) => pc'[t] = "resend"
    BY <1>1 DEF Resends, CallTypes
  <2>4. \A g \in MaybeCred : Blames(t, g)' => Blames(t, g)
    BY <1>8, <2>2, <2>3, RefreshedIsOne DEF Blames
  <2>5. QED
    BY <1>5, <2>1, <2>4
<1>9. CASE Prepare(t)
  <2>1. ~Exchange(t) /\ ~Reject(t)
    BY <1>9 DEF Prepare, Exchange, Reject
  <2>2. \/ pc'[t] \in {"idle", "send"}
        \/ pc'[t] = "apply" /\ reply'[t].kind = "Success"
    BY <1>1, <1>9 DEF Prepare, Outcome, Fails, Leave, Goto, CallTypes
  <2>3. QED
    BY <1>5, <2>1, <2>2 DEF Blames
<1>10. CASE EnrichWrite(t) \/ Persist(t)
  <2>1. ~Exchange(t) /\ ~Reject(t)
    BY <1>10 DEF EnrichWrite, Persist, Exchange, Reject
  <2>2. pc'[t] = "idle"
    BY <1>1, <1>10 DEF EnrichWrite, Persist, Leave, Goto, CallTypes
  <2>3. QED
    BY <1>5, <2>1, <2>2 DEF Blames
<1>11. CASE \/ Starts(t) \/ TakeMutex(t) \/ LockStep(t) \/ Revalidate(t) \/ Claim(t)
            \/ GateCheck(t) \/ Recover(t) \/ FlowRead(t) \/ Merge(t) \/ NoLock(t)
            \/ Held(t) \/ Relocked(t)
  <2>1. Plain(t)
    BY <1>1, <1>11, StartsMove, WaitersMove, ClaimsMove
  <2>2. ~Exchange(t) /\ ~Reject(t)
    BY <2>1 DEF Plain, AtExchange, OnTheWire, Exchange, Reject
  <2>3. QED
    BY <1>5, <2>1, <2>2 DEF Plain, AtExchange, OnTheWire, Blames
<1>12. QED
  BY <1>6, <1>7, <1>8, <1>9, <1>10, <1>11 DEF Steps

\* Nothing but an exchange makes the provider refuse a token.
LEMMA FaultsKeepRefused ==
    ASSUME Basics, Settles, Refused,
           (\E p \in Proc : Environment(p)) \/ LockBreaks \/ \E g \in Cred : Expire(g)
    PROVE  Refused'
<1>1. issued \in Cred /\ WorldTypes(0..issued)
  BY DEF Basics, Typed, WorldTypes
<1>2. ASSUME UNCHANGED <<family, dead, spent, respent>>,
             \A t \in Task, g \in MaybeCred : Blames(t, g)' => Blames(t, g),
             \A p \in Proc, g \in MaybeCred : Condemns(p, g)' => Condemns(p, g)
      PROVE  Refused'
  BY <1>2, BlamesKeep
<1>3. CASE LockBreaks
  <2>1. UNCHANGED <<idp, mind, pc, cred, reply, spent, respent>>
    BY <1>3 DEF LockBreaks
  <2>2. QED
    BY <1>2, <2>1 DEF Blames, Condemns, idp, mind
<1>4. ASSUME NEW p \in Proc, Crash(p)
      PROVE  Refused'
  <2>1. UNCHANGED <<idp, spent, respent>>
    BY <1>4 DEF Crash
  <2>2. \A t \in Task, g \in MaybeCred : Blames(t, g)' => Blames(t, g)
    BY <1>4, CrashKeepsBasics DEF Blames
  <2>3. verdict' = [verdict EXCEPT ![p] = [key |-> 0, sticky |-> FALSE]]
    BY <1>4 DEF Crash, NoVerdict
  <2>4. \A q \in Proc, g \in MaybeCred : Condemns(q, g)' => Condemns(q, g)
    BY <1>1, <2>3 DEF Condemns, WorldTypes
  <2>5. QED
    BY <1>2, <2>1, <2>2, <2>4 DEF idp
<1>5. ASSUME NEW p \in Proc, VerdictAges(p)
      PROVE  Refused'
  <2>1. UNCHANGED <<idp, pc, call, history>>
    BY <1>5 DEF VerdictAges
  <2>2. verdict' = [verdict EXCEPT ![p] = [key |-> 0, sticky |-> FALSE]]
    BY <1>5 DEF VerdictAges, NoVerdict
  <2>3. \A q \in Proc, g \in MaybeCred : Condemns(q, g)' => Condemns(q, g)
    BY <1>1, <2>2 DEF Condemns, WorldTypes
  <2>4. QED
    BY <1>2, <2>1, <2>3 DEF Blames, idp, call, history
<1>6. ASSUME NEW p \in Proc, Login(p)
      PROVE  Refused'
  <2>1. UNCHANGED <<dead, mind, pc, call, history>>
    BY <1>6 DEF Login
  <2>2. \A h \in 1..issued : family'[h] = family[h]
    BY <1>1, <1>6 DEF Login, WorldTypes, Cred
  <2>3. QED
    BY <2>1, <2>2, BlamesKeep DEF Blames, Condemns, mind, call, history
<1>7. ASSUME NEW p \in Proc, Logout(p) \/ Reload(p) \/ PickUpSibling(p)
      PROVE  Refused'
  <2>1. UNCHANGED <<idp, mind, pc, call, spent, respent>>
    BY <1>7 DEF Logout, Reload, PickUpSibling, Bystanders
  <2>2. QED
    BY <1>2, <2>1 DEF Blames, Condemns, idp, mind, call
<1>8. ASSUME NEW p \in Proc, WillSleep(p) \/ AckDrained(p) \/ AckTimeout(p) \/ Wake(p)
      PROVE  Refused'
  <2>1. UNCHANGED <<idp, mind, history>> /\ Bystand
    BY <1>8, SleepKeepsBasics
  <2>2. QED
    BY <1>2, <2>1 DEF Blames, Condemns, idp, mind, call, history, Bystand
<1>9. ASSUME NEW g \in Cred, Expire(g)
      PROVE  Refused'
  <2>1. UNCHANGED <<idp, mind, pc, call, history>>
    BY <1>9 DEF Expire
  <2>2. QED
    BY <1>2, <2>1 DEF Blames, Condemns, idp, mind, call, history
<1>10. QED
  BY <1>3, <1>4, <1>5, <1>6, <1>7, <1>8, <1>9 DEF Environment

LEMMA InitRefused == Init => Refused
BY DEF Init, Refused, Blames, Condemns, NoVerdict

LEMMA StepRefused ==
    ASSUME Basics, Settles, Refused, [Next]_vars
    PROVE  Refused'
<1>1. CASE UNCHANGED vars
  <2>1. UNCHANGED <<idp, mind, pc, call, history>>
    BY <1>1 DEF vars
  <2>2. QED
    BY <2>1, BlamesKeep DEF Blames, Condemns, idp, mind, call, history
<1>2. QED
  BY <1>1, CallKeepsRefused, FaultsKeepRefused DEF Next

-----------------------------------------------------------------------------
(* What follows for every instance.                                        *)

IInv == Basics /\ Settles /\ Refused

LEMMA Invariance == Spec => []IInv
<1>1. Init => IInv
  BY InitBasics, InitSettles, InitRefused DEF IInv
<1>2. IInv /\ [Next]_vars => IInv'
  BY StepBasics, StepSettles, StepRefused DEF IInv
<1>3. QED
  BY <1>1, <1>2, PTL DEF Spec

\* What the types bound by the newest credential is bounded by MaxCred.
LEMMA TypedIsTypeOK == Typed => TypeOK
<1> SUFFICES ASSUME Typed PROVE TypeOK
  OBVIOUS
<1>1. PICK i \in Cred : i = issued
  BY DEF Typed, WorldTypes
<1>2. CallTypes(0..MaxCred) /\ WorldTypes(0..MaxCred)
  <2>1. 0..i \subseteq 0..MaxCred
    BY DEF Cred
  <2>2. QED
    BY <1>1, <2>1, TypesGrow DEF Typed
<1>3. (0..MaxCred) \ {0} \subseteq Cred
  BY DEF Cred
<1>4. QED
  BY <1>2, <1>3 DEF CallTypes, WorldTypes, TypeOK, MaybeCred

\* Once the machine was told that no refresh is in flight, no exchange is on the
\* wire until it wakes.  (manager/sleep_gate.rs hold_sleep_ack_until_refresh_drains,
\* manager.rs refresh_chain)
THEOREM NothingStraddles == Spec => []NoStraddle
<1>1. IInv => NoStraddle
  BY TypedIsTypeOK DEF IInv, Basics, Local, Dry, NoStraddle
<1>2. QED
  BY <1>1, Invariance, PTL

\* A refresh token is spent a second time only when the lock was broken under its
\* holder, its successor was lost, or auth.json was written or removed without
\* the lock.  (manager.rs refresh_chain, revalidate_lock_or_reacquire)
THEOREM TokensAreSpentOnce == Spec => []SpentOnce
<1>1. IInv => SpentOnce
  BY DEF IInv, Settles
<1>2. QED
  BY <1>1, Invariance, PTL

\* A sticky verdict is about a credential the provider refuses, and a token of
\* the same login was spent twice.  (manager.rs apply_refresh_outcome)
THEOREM LockoutsHaveCause == Spec => []LockoutHasCause
<1>1. ASSUME IInv, NEW p \in Proc, verdict[p].sticky
      PROVE  /\ verdict[p].key \in dead
             /\ \E g \in respent : family[g] = family[verdict[p].key]
  <2>1. verdict[p].key \in MaybeCred
    BY <1>1, TypedIsTypeOK DEF IInv, Basics, TypeOK
  <2>2. QED
    BY <1>1, <2>1 DEF IInv, Refused, Condemns, Caused
<1>2. IInv => LockoutHasCause
  BY <1>1 DEF LockoutHasCause
<1>3. QED
  BY <1>2, Invariance, PTL
=============================================================================
