----------------------------- MODULE AuthFileLock -----------------------------
(***************************************************************************)
(* What the lock of auth.json promises its users (AuthFileLock): at most   *)
(* one call holds the live lock, a request is granted only when nobody     *)
(* does, and it may time out.  It does NOT promise that a holder keeps the *)
(* live lock: a waiter that takes it for abandoned breaks it.              *)
(***************************************************************************)
EXTENDS FiniteSets

CONSTANTS
    Task,      \* the asynchronous calls that take the lock, in any process
    NoTask

ASSUME TaskAssumption == IsFiniteSet(Task) /\ NoTask \notin Task

VARIABLES
    live,   \* who holds the flock of the file the path leads to
    want    \* what has come of the last request of a call

lockVars == <<live, want>>

Wants == {"out", "wait", "in", "failed"}

LockInit ==
    /\ live = NoTask
    /\ want = [t \in Task |-> "out"]

LockTypeOK ==
    /\ live \in Task \cup {NoTask}
    /\ want \in [Task -> Wants]

\* AuthFileLock::still_live
StillLive(t) == live = t /\ want[t] = "in"

\* What is left of `live` when the guards of the calls in T are dropped.
Released(T) == IF live \in T THEN NoTask ELSE live

\* try_lock_auth_file_async is called; a guard from before is kept, or not.
Request(t, keeping) ==
    /\ live' = IF keeping THEN live ELSE Released({t})
    /\ want' = [want EXCEPT ![t] = "wait"]

Grant(t) ==
    /\ want[t] = "wait"
    /\ live = NoTask
    /\ live' = t
    /\ want' = [want EXCEPT ![t] = "in"]

Timeout(t) ==
    /\ want[t] = "wait"
    /\ want' = [want EXCEPT ![t] = "failed"]
    /\ UNCHANGED live

\* The holder is taken for dead or stuck.  It is not told.
Break ==
    /\ live # NoTask
    /\ live' = NoTask
    /\ UNCHANGED want

\* The guards of the calls in T go out of scope.
DropAll(T) ==
    /\ live' = Released(T)
    /\ want' = [t \in Task |-> IF t \in T THEN "out" ELSE want[t]]

\* The call goes on with its guard in scope.
KeepGuard(t) ==
    /\ want' = [want EXCEPT ![t] = "out"]
    /\ UNCHANGED live

LockNext ==
    \/ \E t \in Task :
        \/ \E keeping \in BOOLEAN : Request(t, keeping)
        \/ Grant(t) \/ Timeout(t) \/ KeepGuard(t)
    \/ \E T \in SUBSET Task : DropAll(T)
    \/ Break

LockSpec == LockInit /\ [][LockNext]_lockVars
=============================================================================
