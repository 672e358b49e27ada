----------------------------- MODULE AuthRefresh -----------------------------
(***************************************************************************)
(* Token refresh (auth/manager.rs, auth/refresh, auth/recovery.rs): the    *)
(* processes of one user share auth.json, each with a copy of the          *)
(* credential in memory, and spend its refresh token at the identity       *)
(* provider.  The provider rotates the refresh token at every exchange and *)
(* takes a second use of one as a theft: it revokes the whole family.      *)
(*                                                                         *)
(* A credential is a number in the order the provider issued them; it      *)
(* stands for the access token (GrokAuth::key) and the refresh token that  *)
(* came with it.  0 is no credential.  A stretch of code without an await  *)
(* is a step, cut where it reads or writes something another process       *)
(* changes; what a call returns to its caller is left out.                 *)
(***************************************************************************)
EXTENDS Integers, AuthFileLock

CONSTANTS
    Proc,       \* the processes
    Homes,      \* the ways the calls may be spread over the processes
    Jobs,       \* what each call may be started for
    MaxCred,    \* bound: the credentials the provider issues
    MaxBlips,   \* MAX_CONSECUTIVE_TRANSIENT_FAILURES
    MaxFaults,  \* bound: crashes, lost replies, failed writes of auth.json,
                \* broken locks, logins and logouts
    Listening   \* the processes with a power listener

ASSUME ProcAssumption ==
    IsFiniteSet(Proc) /\ Homes \subseteq [Task -> Proc] /\ Listening \subseteq Proc
ASSUME JobAssumption ==
    Jobs \in [Task -> SUBSET {"auth", "recover", "flow", "enrich"}]
ASSUME BoundAssumption ==
    MaxCred \in Nat \ {0} /\ MaxBlips \in Nat \ {0} /\ MaxFaults \in Nat

VARIABLES
    home,      \* the process a call runs in
    issued,    \* the newest credential of the provider
    family,    \* the login a credential descends from
    dead,      \* the credentials whose refresh token the provider refuses
    stale,     \* the credentials past the early-invalidation buffer
    disk,      \* the entry of auth.json
    inner,     \* AuthManager::inner
    verdict,   \* AuthManager::permanent_failure: key, and whether it is sticky
    blips,     \* OidcRefresher::transient_budget
    mutex,     \* AuthManager::refresh_lock
    enrich,    \* the /user enrichments that update() has spawned
    gate,      \* AuthManager::sleep_gate is raised
    power,     \* what the sleep transition of a process has come to
    pc,        \* where a call is
    reason,    \* its RefreshReason
    goal,      \* what it takes the file lock for; "exposed" (history) when it
               \* lost the live lock after its last look at it
    snap,      \* the credential it compares with, or enriches
    kept,      \* disk_auth of run_auth_flow, used again when auth() fails
    cred,      \* the credential it sends to the provider
    reply,     \* what came back, then the RefreshOutcome
    faults,    \* bound: what has gone wrong or come in between so far
    spent,     \* history: the refresh tokens the provider has rotated
    respent,   \* history: those it has received once more after that
    forfeit    \* history: those with a reason to be spent again

idp == <<issued, family, dead>>
files == <<disk, inner, enrich>>
mind == <<verdict, blips>>
sleep == <<gate, power>>
call == <<reason, goal, snap, kept, cred, reply>>
history == <<spent, respent, forfeit>>
vars == <<lockVars, home, idp, stale, files, mind, mutex, sleep, pc, call,
          faults, history>>

Cred == 1..MaxCred
MaybeCred == 0..MaxCred
Answers == {"ok", "rejected", "client", "failed"}
Outcomes == {"Success", "Sticky", "Lapsing", "Transient"}
OnTheWire == {"send", "reply", "resend", "rereply"}
Unsettled == {"reply", "rereply", "apply"}
Claimed == {"gated", "read"} \cup OnTheWire
Points ==
    {"idle", "mutex", "lock", "revalidate", "claim", "apply", "write"} \cup Claimed

TypeOK ==
    /\ LockTypeOK
    /\ home \in [Task -> Proc]
    /\ issued \in Cred /\ family \in [Cred -> MaybeCred]
    /\ dead \subseteq Cred /\ stale \subseteq Cred
    /\ disk \in MaybeCred /\ inner \in [Proc -> MaybeCred]
    /\ verdict \in [Proc -> [key : MaybeCred, sticky : BOOLEAN]]
    /\ blips \in [Proc -> [key : MaybeCred, count : 0..(MaxBlips - 1)]]
    /\ mutex \in [Proc -> Task \cup {NoTask}]
    /\ enrich \subseteq Proc \X Cred
    /\ gate \in [Proc -> BOOLEAN]
    /\ power \in [Proc -> {"awake", "holding", "drained", "overdue"}]
    /\ pc \in [Task -> Points]
    /\ reason \in [Task -> {"PreRequest", "ServerRejected"}]
    /\ goal \in [Task -> {"none", "refresh", "again", "flow", "reload", "enrich",
                         "exposed"}]
    /\ snap \in [Task -> MaybeCred] /\ kept \in [Task -> MaybeCred]
    /\ cred \in [Task -> MaybeCred]
    /\ reply \in [Task -> [kind : {"none"} \cup Answers \cup Outcomes, cred : MaybeCred]]
    /\ faults \in 0..MaxFaults
    /\ spent \subseteq Cred /\ respent \subseteq spent /\ forfeit \subseteq Cred

NoVerdict == [key |-> 0, sticky |-> FALSE]
NoBlips == [key |-> 0, count |-> 0]
NoReply == [kind |-> "none", cred |-> 0]

\* One login on disk, every process started after it.
Init ==
    /\ LockInit
    /\ home \in Homes
    /\ issued = 1 /\ family = [g \in Cred |-> IF g = 1 THEN 1 ELSE 0]
    /\ dead = {} /\ stale = {}
    /\ disk = 1 /\ inner = [p \in Proc |-> 1]
    /\ verdict = [p \in Proc |-> NoVerdict]
    /\ blips = [p \in Proc |-> NoBlips]
    /\ mutex = [p \in Proc |-> NoTask]
    /\ enrich = {}
    /\ gate = [p \in Proc |-> FALSE] /\ power = [p \in Proc |-> "awake"]
    /\ pc = [t \in Task |-> "idle"]
    /\ reason = [t \in Task |-> "PreRequest"]
    /\ goal = [t \in Task |-> "none"]
    /\ snap = [t \in Task |-> 0] /\ kept = [t \in Task |-> 0]
    /\ cred = [t \in Task |-> 0]
    /\ reply = [t \in Task |-> NoReply]
    /\ faults = 0
    /\ spent = {} /\ respent = {} /\ forfeit = {}

-----------------------------------------------------------------------------
(* What the code reads. *)

\* AuthManager::current and AuthManager::expired_auth
Fresh(g) == g # 0 /\ g \notin stale
Current(p) == IF Fresh(inner[p]) THEN inner[p] ELSE 0
ExpiredAuth(p) == IF Fresh(inner[p]) THEN 0 ELSE inner[p]

\* resolve_refresh_credential
Resolve(p, why) ==
    CASE disk # 0                -> disk
      [] disk = 0 /\ ExpiredAuth(p) # 0 -> ExpiredAuth(p)
      [] OTHER                   -> IF why = "ServerRejected" THEN Current(p) ELSE 0

\* AuthManager::permanent_failure
PermanentFailure(p) ==
    verdict[p].key # 0 /\ Resolve(p, "ServerRejected") = verdict[p].key

\* try_use_disk_token: the entry of auth.json is adopted.
Adoptable(p, why) ==
    Fresh(disk) /\ (why = "ServerRejected" => disk # inner[p])

\* sibling_has_different_refresh_token
SiblingRotated(p) == Fresh(disk) /\ disk # ExpiredAuth(p)

\* Faulty form: the slot is claimed when the request goes out, after the gate
\* has been looked at.
InFlightLate(p) == {t \in Task : home[t] = p /\ pc[t] \in OnTheWire}

\* refresh_in_flight counts from InFlightGuard::new until the refresher returns.
InFlight(p) == {t \in Task : home[t] = p /\ pc[t] \in Claimed}
-----------------------------------------------------------------------------
(* What a call does to its own state. *)

Goto(t, where) == pc' = [pc EXCEPT ![t] = where]

LockFor(t, what) ==
    /\ Request(t, TRUE)
    /\ Goto(t, "lock")
    /\ goal' = [goal EXCEPT ![t] = what]

\* Faulty form: the guard of refresh_lock is leaked.
StaysLocked(t) == mutex[home[t]]

\* refresh_lock of t's process once t is over
Unlocked(t) == IF mutex[home[t]] = t THEN NoTask ELSE mutex[home[t]]

\* The call is over and everything it holds goes out of scope.  When auth()
\* fails for now, run_auth_flow goes on with the credential it had read.
Leave(t, mem, failed) ==
    LET p == home[t]
        m == IF failed /\ kept[t] # 0 THEN kept[t] ELSE mem IN
    /\ DropAll({t})
    /\ mutex' = [mutex EXCEPT ![p] = Unlocked(t)]
    /\ inner' = [inner EXCEPT ![p] = m]
    /\ Goto(t, "idle")
    /\ reason' = [reason EXCEPT ![t] = "PreRequest"]
    /\ goal' = [goal EXCEPT ![t] = "none"]
    /\ snap' = [snap EXCEPT ![t] = 0] /\ kept' = [kept EXCEPT ![t] = 0]
    /\ cred' = [cred EXCEPT ![t] = 0]
    /\ reply' = [reply EXCEPT ![t] = NoReply]

\* try_adopt_disk_token succeeds.
Adopt(t) == Leave(t, disk, FALSE)
Fails(t) == Leave(t, inner[home[t]], TRUE)
Done(t) == Leave(t, inner[home[t]], FALSE)

\* refresh_chain up to refresh_lock.lock().await, and what auth() tests before
\* it with nothing in between.  `base` is what run_auth_flow has read; it keeps
\* its guard of the file lock while auth() runs, recovery has dropped its own.
EnterChain(t, why, base) ==
    LET p == home[t] IN
    \/ /\ PermanentFailure(p)
       /\ IF Adoptable(p, why) THEN Adopt(t) ELSE Done(t)
    \/ /\ ~PermanentFailure(p)
       /\ Goto(t, "mutex")
       /\ reason' = [reason EXCEPT ![t] = why]
       /\ snap' = [snap EXCEPT ![t] = Current(p)]
       /\ kept' = [kept EXCEPT ![t] = base]
       /\ IF goal[t] = "flow" THEN KeepGuard(t) ELSE DropAll({t})
       /\ goal' = [goal EXCEPT ![t] = "none"]
       /\ UNCHANGED <<inner, mutex, cred, reply>>

\* Something goes wrong, or comes in between.
Fault == faults < MaxFaults /\ faults' = faults + 1

\* The parts of the state that only few actions change.
Quiet == UNCHANGED <<home, idp, stale, mind, sleep, faults, history, disk, enrich>>
-----------------------------------------------------------------------------
(* Calls: auth(), the 401 recovery, run_auth_flow, and the enrichment. *)

\* auth() with a token past the buffer; the fast path returns without a step.
StartAuth(t) ==
    /\ pc[t] = "idle" /\ "auth" \in Jobs[t]
    /\ inner[home[t]] \in stale
    /\ EnterChain(t, "PreRequest", 0)
    /\ Quiet

\* A 401 for the token in memory: try_reload_from_disk takes the file lock.
StartRecover(t) ==
    /\ pc[t] = "idle" /\ "recover" \in Jobs[t]
    /\ inner[home[t]] # 0
    /\ snap' = [snap EXCEPT ![t] = inner[home[t]]]
    /\ LockFor(t, "reload")
    /\ UNCHANGED <<reason, kept, cred, reply, inner, mutex>> /\ Quiet

\* With or without the lock: another token on disk is accepted; else the
\* fresh-mint guard may return the live token, or refresh_chain runs.
Recover(t) ==
    LET p == home[t] IN
    /\ pc[t] = "lock" /\ goal[t] = "reload" /\ want[t] \in {"in", "failed"}
    /\ \/ /\ Fresh(disk) /\ disk # snap[t]
          /\ Adopt(t)
       \/ /\ ~(Fresh(disk) /\ disk # snap[t])
          /\ \/ inner[p] = 0 /\ Done(t)
             \/ Current(p) # 0 /\ Done(t)
             \/ inner[p] # 0 /\ EnterChain(t, "ServerRejected", 0)
    /\ Quiet

\* run_auth_flow at startup, with an expired token
StartFlow(t) ==
    /\ pc[t] = "idle" /\ "flow" \in Jobs[t]
    /\ inner[home[t]] \in stale
    /\ LockFor(t, "flow")
    /\ UNCHANGED <<reason, snap, kept, cred, reply, inner, mutex>> /\ Quiet

FlowRead(t) ==
    LET p == home[t] IN
    /\ pc[t] = "lock" /\ goal[t] = "flow" /\ want[t] \in {"in", "failed"}
    /\ \/ Fresh(disk) /\ Adopt(t)
       \/ ~Fresh(disk) /\ inner[p] \notin stale /\ Done(t)
       \/ ~Fresh(disk) /\ inner[p] \in stale /\ EnterChain(t, "PreRequest", disk)
    /\ Quiet

\* run_user_info_enrichment after its /user fetch
StartEnrich(t) ==
    LET p == home[t] IN
    /\ pc[t] = "idle" /\ "enrich" \in Jobs[t]
    /\ \E g \in Cred :
        /\ <<p, g>> \in enrich
        /\ enrich' = enrich \ {<<p, g>>}
        /\ snap' = [snap EXCEPT ![t] = g]
    /\ LockFor(t, "enrich")
    /\ UNCHANGED <<home, idp, stale, mind, sleep, faults, history, disk,
                   reason, kept, cred, reply, inner, mutex>>

\* The sibling-stomp guard; on a timeout the merge goes on without the lock.
SiblingStomp(t) == disk # snap[t]

Merge(t) ==
    /\ pc[t] = "lock" /\ goal[t] = "enrich" /\ want[t] \in {"in", "failed"}
    /\ \/ SiblingStomp(t) /\ Done(t)
       \/ /\ ~SiblingStomp(t)
          /\ Goto(t, "write")
          /\ UNCHANGED <<lockVars, inner, mutex, call>>
    /\ Quiet

\* write_auth_json puts back the entry that was read, whatever is there now.
EnrichWrite(t) ==
    /\ pc[t] = "write"
    /\ disk' = snap[t]
    /\ Leave(t, snap[t], FALSE)
    /\ forfeit' = IF disk = snap[t] THEN forfeit ELSE forfeit \cup {snap[t]}
    /\ UNCHANGED <<home, idp, stale, mind, sleep, faults, spent, respent, enrich>>
-----------------------------------------------------------------------------
(* refresh_chain from refresh_lock on. *)

\* The double-check: somebody refreshed meanwhile, and for ServerRejected the
\* token is another one than before the wait.
RefreshedMeanwhile(t) ==
    LET c == Current(home[t]) IN
    c # 0 /\ (reason[t] = "ServerRejected" => c # snap[t])

TakeMutex(t) ==
    LET p == home[t] IN
    /\ pc[t] = "mutex" /\ mutex[p] = NoTask
    /\ \/ (RefreshedMeanwhile(t) \/ PermanentFailure(p)) /\ Done(t)
       \/ /\ ~RefreshedMeanwhile(t) /\ ~PermanentFailure(p)
          /\ mutex' = [mutex EXCEPT ![p] = t]
          /\ LockFor(t, "refresh")
          /\ snap' = [snap EXCEPT ![t] = 0]
          /\ UNCHANGED <<reason, kept, cred, reply, inner>>
    /\ Quiet

\* No lock: after LOCK_TIMEOUT_WAIT a token of the holder is adopted.  When it
\* is the lock lost before the exchange, nothing more is tried.
NoLock(t) ==
    /\ pc[t] = "lock" /\ goal[t] \in {"refresh", "again"} /\ want[t] = "failed"
    /\ IF goal[t] = "refresh" /\ Adoptable(home[t], reason[t])
       THEN Adopt(t) ELSE Fails(t)
    /\ Quiet

\* With the lock: adopt, else check_refresh_deferral (a dark wake may defer
\* whatever the gate says), else go on.
Held(t) ==
    LET p == home[t] IN
    /\ pc[t] = "lock" /\ goal[t] = "refresh" /\ want[t] = "in"
    /\ \/ Adoptable(p, reason[t]) /\ Adopt(t)
       \/ ~Adoptable(p, reason[t]) /\ Fails(t)
       \/ /\ ~Adoptable(p, reason[t]) /\ ~gate[p]
          /\ Goto(t, "revalidate")
          /\ UNCHANGED <<lockVars, inner, mutex, call>>
    /\ Quiet

\* Faulty form: the lock is not looked at again before the exchange.
ProceedAnyway(t) == TRUE

\* revalidate_lock_or_reacquire
MayProceed(t) == StillLive(t)

Revalidate(t) ==
    /\ pc[t] = "revalidate"
    /\ \/ /\ MayProceed(t)
          /\ Goto(t, "claim")
          /\ UNCHANGED <<lockVars, goal>>
       \/ /\ ~MayProceed(t)
          /\ Request(t, kept[t] # 0)
          /\ Goto(t, "lock")
          /\ goal' = [goal EXCEPT ![t] = "again"]
    /\ UNCHANGED <<inner, mutex, reason, snap, kept, cred, reply>> /\ Quiet

Relocked(t) ==
    /\ pc[t] = "lock" /\ goal[t] \in {"again", "exposed"} /\ want[t] = "in"
    /\ \/ Adoptable(home[t], reason[t]) /\ Adopt(t)
       \/ /\ ~Adoptable(home[t], reason[t])
          /\ Goto(t, "claim")
          /\ UNCHANGED <<lockVars, inner, mutex, call>>
    /\ Quiet

\* InFlightGuard::new
Claim(t) ==
    /\ pc[t] = "claim"
    /\ Goto(t, "gated")
    /\ UNCHANGED <<lockVars, inner, mutex, call>> /\ Quiet

\* The refresher returns, which drops the InFlightGuard; nothing has been
\* applied yet.
Outcome(t, kind, g) ==
    /\ Goto(t, "apply")
    /\ reply' = [reply EXCEPT ![t] = [kind |-> kind, cred |-> g]]

\* The second look at the gate, now that the slot is claimed
GateCheck(t) ==
    /\ pc[t] = "gated"
    /\ \/ gate[home[t]] /\ Fails(t)
       \/ /\ ~gate[home[t]]
          /\ Goto(t, "read")
          /\ UNCHANGED <<lockVars, inner, mutex, call>>
    /\ Quiet

\* OidcRefresher::refresh up to its request: a fresh entry a sibling wrote
\* needs no exchange.
Prepare(t) ==
    LET p == home[t]
        sibling == Fresh(disk) /\ Current(p) # disk
        g == Resolve(p, reason[t]) IN
    /\ pc[t] = "read"
    /\ \/ ~sibling /\ g = 0 /\ Fails(t) /\ UNCHANGED blips
       \/ /\ sibling
          /\ Outcome(t, "Success", disk)
          /\ blips' = [blips EXCEPT ![p] = NoBlips]
          /\ UNCHANGED <<lockVars, inner, mutex, reason, goal, snap, kept, cred>>
       \/ /\ ~sibling /\ g # 0
          /\ Goto(t, "send")
          /\ cred' = [cred EXCEPT ![t] = g]
          /\ UNCHANGED <<lockVars, inner, mutex, blips, reason, goal, snap, kept, reply>>
    /\ UNCHANGED <<home, idp, stale, verdict, sleep, faults, history, disk, enrich>>

\* The provider answers a request for g, or the request never gets there.  It
\* rotates a live token; one that it has rotated before costs the family.
Exchange(t) ==
    LET g == cred[t]
        back(kind, n) ==
            /\ Goto(t, IF pc[t] = "send" THEN "reply" ELSE "rereply")
            /\ reply' = [reply EXCEPT ![t] = [kind |-> kind, cred |-> n]]
        exposed == IF goal[t] = "exposed" THEN {g} ELSE {} IN
    /\ pc[t] \in {"send", "resend"}
    /\ \/ /\ \E kind \in {"failed", "client"} : back(kind, 0)
          /\ UNCHANGED <<idp, faults, history>>
       \/ /\ g \in dead
          /\ dead' = dead \cup {h \in 1..issued : family[h] = family[g]}
          /\ respent' = respent \cup ({g} \cap spent)
          /\ forfeit' = forfeit \cup exposed
          /\ back("rejected", 0)
          /\ UNCHANGED <<issued, family, faults, spent>>
       \/ /\ g \notin dead /\ issued < MaxCred
          /\ issued' = issued + 1
          /\ family' = [family EXCEPT ![issued'] = family[g]]
          /\ dead' = dead \cup {g}
          /\ spent' = spent \cup {g}
          /\ \/ /\ back("ok", issued')
                /\ forfeit' = forfeit \cup exposed
                /\ UNCHANGED faults
             \/ /\ Fault
                /\ back("failed", 0)
                /\ forfeit' = forfeit \cup {g}
          /\ UNCHANGED respent
    /\ UNCHANGED <<lockVars, home, stale, files, mind, mutex, sleep, reason, goal,
                   snap, kept, cred>>

\* record_transient_failure: the count after one more failure of g.  The key
\* that stays behind with a count of 0 makes no difference.
Blipped(p, g) == IF blips[p].key = g THEN blips[p].count + 1 ELSE 1

Escalates(n) == n >= MaxBlips

\* OidcRefresher::refresh from the reply on, retry_with_fresh_disk_token included
Refreshed(t) ==
    LET p == home[t]
        g == cred[t]
        kind == reply[t].kind
        first == pc[t] = "reply"
        adopted == Fresh(disk) /\ disk # g IN
    /\ pc[t] \in {"reply", "rereply"}
    /\ \/ /\ kind = "ok"
          /\ Outcome(t, "Success", reply[t].cred)
          /\ blips' = [blips EXCEPT ![p] = NoBlips]
          /\ UNCHANGED cred
       \/ /\ kind = "rejected" /\ first /\ adopted
          /\ Outcome(t, "Success", disk)
          /\ blips' = [blips EXCEPT ![p] = NoBlips]
          /\ UNCHANGED cred
       \/ /\ kind = "rejected" /\ first /\ ~adopted /\ disk \notin {0, g}
          /\ Goto(t, "resend")
          /\ cred' = [cred EXCEPT ![t] = disk]
          /\ reply' = [reply EXCEPT ![t] = NoReply]
          /\ UNCHANGED blips
       \/ /\ kind = "rejected" /\ (first => disk \in {0, g})
          /\ Outcome(t, "Sticky", g)
          /\ UNCHANGED <<cred, blips>>
       \/ /\ kind = "client"
          /\ Outcome(t, "Lapsing", g)
          /\ UNCHANGED <<cred, blips>>
       \/ /\ kind = "failed" /\ first
          /\ LET n == Blipped(p, g) IN
             /\ Outcome(t, IF Escalates(n) THEN "Lapsing" ELSE "Transient", g)
             /\ blips' = [blips EXCEPT ![p] = IF Escalates(n) THEN NoBlips
                                             ELSE [key |-> g, count |-> n]]
          /\ UNCHANGED cred
       \/ /\ kind = "failed" /\ ~first
          /\ Outcome(t, "Transient", g)
          /\ UNCHANGED <<cred, blips>>
    /\ UNCHANGED <<lockVars, home, idp, stale, files, verdict, mutex, sleep, reason,
                   goal, snap, kept, faults, history>>

\* AuthManager::update: disk, then memory, then the enrichment is spawned.
\* `saved` is FALSE when auth.json could not be read or written.
Update(p, g, saved) ==
    /\ disk' = IF saved THEN g ELSE disk
    /\ enrich' = IF \E t \in Task : home[t] = p /\ "enrich" \in Jobs[t]
                 THEN enrich \cup {<<p, g>>} ELSE enrich

\* apply_refresh_outcome, the success arm
Persist(t) ==
    LET g == reply[t].cred IN
    /\ pc[t] = "apply" /\ reply[t].kind = "Success"
    /\ \/ /\ Update(home[t], g, TRUE)
          /\ Leave(t, g, FALSE)
          /\ forfeit' = IF goal[t] = "exposed" THEN forfeit \cup ({g} \cap spent) ELSE forfeit
          /\ UNCHANGED faults
       \/ /\ Fault
          /\ Update(home[t], g, FALSE)
          /\ \E unwritable \in BOOLEAN : Leave(t, g, unwritable)
          /\ forfeit' = forfeit \cup ({cred[t]} \ {0})
    /\ UNCHANGED <<home, idp, stale, mind, sleep, spent, respent>>

\* Faulty form: the verdict is recorded on the credential in memory.
MemoryKey(t) == inner[home[t]]

\* ScopedRefreshFailure is keyed on the credential that was sent (tried_key).
VerdictKey(t) == reply[t].cred

\* apply_refresh_outcome, the failure arms
Reject(t) ==
    LET p == home[t] IN
    /\ pc[t] = "apply" /\ reply[t].kind # "Success"
    /\ \/ reply[t].kind = "Transient" /\ Fails(t) /\ UNCHANGED verdict
       \/ /\ reply[t].kind # "Transient"
          /\ \/ Adoptable(p, reason[t]) /\ Adopt(t) /\ UNCHANGED verdict
             \/ /\ ~Adoptable(p, reason[t]) /\ SiblingRotated(p)
                /\ Fails(t) /\ UNCHANGED verdict
             \/ /\ ~Adoptable(p, reason[t]) /\ ~SiblingRotated(p)
                /\ verdict' = [verdict EXCEPT ![p] =
                      [key |-> VerdictKey(t), sticky |-> reply[t].kind = "Sticky"]]
                /\ Done(t)
    /\ UNCHANGED <<home, idp, stale, blips, sleep, faults, history, disk, enrich>>
-----------------------------------------------------------------------------
(* The file lock of a call, and who else touches the shared state. *)

LockStep(t) ==
    /\ pc[t] = "lock"
    /\ Grant(t) \/ Timeout(t)
    /\ UNCHANGED <<home, idp, stale, files, mind, mutex, sleep, pc, call, faults,
                   history>>

\* t has looked at its lock for the last time: still_live said yes, or it is the
\* second lock, which is not looked at again.
Trusts(t) ==
    \/ pc[t] \in {"claim", "apply"} \cup Claimed
    \/ pc[t] = "lock" /\ goal[t] = "again"

\* Whoever loses the live lock from here on no longer keeps the others from
\* spending the same token.
LockBreaks ==
    LET losers == {t \in Task : StillLive(t) /\ Trusts(t)} IN
    /\ Fault
    /\ Break
    /\ goal' = [t \in Task |-> IF t \in losers THEN "exposed" ELSE goal[t]]
    /\ forfeit' = forfeit \cup ({cred[t] : t \in losers} \ {0})
    /\ UNCHANGED <<home, idp, stale, files, mind, mutex, sleep, pc, reason, snap,
                   kept, cred, reply, spent, respent>>

\* A process dies and is started again: AuthManager::new reads auth.json.
Crash(p) ==
    LET T == {t \in Task : home[t] = p}
        lost == {cred[t] : t \in {u \in T : pc[u] \in Unsettled}}
        reset(f, v) == [t \in Task |-> IF t \in T THEN v ELSE f[t]] IN
    /\ Fault
    /\ DropAll(T)
    /\ inner' = [inner EXCEPT ![p] = disk]
    /\ verdict' = [verdict EXCEPT ![p] = NoVerdict]
    /\ blips' = [blips EXCEPT ![p] = NoBlips]
    /\ mutex' = [mutex EXCEPT ![p] = NoTask]
    /\ enrich' = {e \in enrich : e[1] # p}
    /\ gate' = [gate EXCEPT ![p] = FALSE] /\ power' = [power EXCEPT ![p] = "awake"]
    /\ pc' = reset(pc, "idle") /\ reason' = reset(reason, "PreRequest")
    /\ goal' = reset(goal, "none") /\ snap' = reset(snap, 0) /\ kept' = reset(kept, 0)
    /\ cred' = reset(cred, 0) /\ reply' = reset(reply, NoReply)
    /\ forfeit' = forfeit \cup (lost \ {0})
    /\ UNCHANGED <<home, idp, stale, disk, spent, respent>>

\* What the environment leaves alone when it changes files or memory.
Bystanders ==
    UNCHANGED <<lockVars, home, idp, stale, mind, mutex, sleep, pc, call, enrich,
                spent, respent>>

\* A login, interactive or by device code, calls update() without the lock.
Login(p) ==
    /\ Fault
    /\ issued < MaxCred
    /\ issued' = issued + 1
    /\ family' = [family EXCEPT ![issued'] = issued']
    /\ Update(p, issued', TRUE)
    /\ inner' = [inner EXCEPT ![p] = issued']
    /\ UNCHANGED <<lockVars, home, dead, stale, mind, mutex, sleep, pc, call,
                   history>>

\* clear(): the entry on disk stays when somebody holds the lock.  A process
\* that has not noticed may later fall back on a token spent before.
Logout(p) ==
    /\ Fault
    /\ inner[p] # 0
    /\ \E done \in BOOLEAN :
        /\ disk' = IF done THEN 0 ELSE disk
        /\ forfeit' = IF done THEN forfeit \cup spent ELSE forfeit
    /\ inner' = [inner EXCEPT ![p] = 0]
    /\ Bystanders

\* force_reload_from_disk, pick_up_sibling_token
Reload(p) ==
    /\ \/ disk # 0 /\ inner' = [inner EXCEPT ![p] = disk]
       \/ disk = 0 /\ PermanentFailure(p) /\ inner' = [inner EXCEPT ![p] = 0]
    /\ UNCHANGED <<disk, faults, forfeit>> /\ Bystanders

PickUpSibling(p) ==
    /\ Fresh(disk) /\ disk # inner[p]
    /\ inner' = [inner EXCEPT ![p] = disk]
    /\ UNCHANGED <<disk, faults, forfeit>> /\ Bystanders

Expire(g) ==
    /\ g <= issued
    /\ stale' = stale \cup {g}
    /\ UNCHANGED <<lockVars, home, idp, files, mind, mutex, sleep, pc, call, faults,
                   history>>

\* A verdict that is not sticky runs out after PERMANENT_FAILURE_TTL.
VerdictAges(p) ==
    /\ verdict[p].key # 0 /\ ~verdict[p].sticky
    /\ verdict' = [verdict EXCEPT ![p] = NoVerdict]
    /\ UNCHANGED <<lockVars, home, idp, stale, files, blips, mutex, sleep, pc, call,
                   faults, history>>
-----------------------------------------------------------------------------
(* set_system_sleep_imminent. *)

Power(p, from, to, gated) ==
    /\ power[p] \in from
    /\ power' = [power EXCEPT ![p] = to]
    /\ gate' = [gate EXCEPT ![p] = gated]
    /\ UNCHANGED <<lockVars, home, idp, stale, files, mind, mutex, pc, call, faults,
                   history>>

WillSleep(p) == p \in Listening /\ Power(p, {"awake"}, "holding", TRUE)
\* hold_sleep_ack_until_refresh_drains lets the machine sleep when no refresh
\* is in flight, and after SLEEP_ACK_MAX_WAIT in any case.
AckDrained(p) == InFlight(p) = {} /\ Power(p, {"holding"}, "drained", TRUE)
AckTimeout(p) == InFlight(p) # {} /\ Power(p, {"holding"}, "overdue", TRUE)
\* A wake event, or a missed one and the gate expires (SLEEP_GATE_MAX).
Wake(p) == Power(p, {"drained", "overdue"}, "awake", FALSE)
-----------------------------------------------------------------------------
Starts(t) == StartAuth(t) \/ StartRecover(t) \/ StartFlow(t) \/ StartEnrich(t)

Steps(t) ==
    \/ Recover(t) \/ FlowRead(t) \/ Merge(t) \/ EnrichWrite(t)
    \/ NoLock(t) \/ Held(t) \/ Revalidate(t) \/ Relocked(t)
    \/ Claim(t) \/ GateCheck(t) \/ Prepare(t) \/ Exchange(t) \/ Refreshed(t)
    \/ Persist(t) \/ Reject(t)

Environment(p) ==
    \/ Crash(p) \/ Login(p) \/ Logout(p) \/ Reload(p) \/ PickUpSibling(p)
    \/ VerdictAges(p) \/ WillSleep(p) \/ AckDrained(p) \/ AckTimeout(p) \/ Wake(p)

Next ==
    \/ \E t \in Task : Starts(t) \/ TakeMutex(t) \/ LockStep(t) \/ Steps(t)
    \/ \E p \in Proc : Environment(p)
    \/ \E g \in Cred : Expire(g)
    \/ LockBreaks

\* A request has a timeout, the lock has one, and tokio's Mutex is fair.
Fairness ==
    \A t \in Task : WF_vars(LockStep(t) \/ Steps(t)) /\ SF_vars(TakeMutex(t))

Spec == Init /\ [][Next]_vars /\ Fairness

-----------------------------------------------------------------------------
\* "only one participant ever spends a given refresh token" (refresh_chain step
\* 2): a token is spent again only when the lock was broken under its holder,
\* its successor was lost, or somebody wrote or removed it without the lock.
SpentOnce == respent \subseteq forfeit

\* The verdict that sends the user back to `grok login` (ScopedRefreshFailure,
\* sticky) is about a credential the provider really refuses, and goes back to
\* a double spend of its own login, never of another one.
LockoutHasCause ==
    \A p \in Proc : verdict[p].sticky =>
        /\ verdict[p].key \in dead
        /\ \E g \in respent : family[g] = family[verdict[p].key]

\* sleep_gate.rs: once the OS has its acknowledgment because no refresh was in
\* flight, no exchange is on the wire until the machine wakes.  The types of the
\* variables come with it.
NoStraddle ==
    /\ TypeOK
    /\ \A t \in Task : power[home[t]] = "drained" => pc[t] \notin OnTheWire

\* Every auth(), recovery, startup flow and enrichment returns, however the lock,
\* the mutex, the provider and the sleep gate treat it.
CallsReturn == \A t \in Task : pc[t] # "idle" ~> pc[t] = "idle"
=============================================================================
