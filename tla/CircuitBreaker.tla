--------------------------- MODULE CircuitBreaker ---------------------------
(***************************************************************************)
(* The circuit breaker of xai-circuit-breaker: `check` before a request,   *)
(* `record` after it.  Its state is five atomics and one mutex-protected   *)
(* window, and every load, store or read-modify-write of an atomic is a    *)
(* step of its own; a section under the mutex is one step.                 *)
(*                                                                         *)
(* Instants are kept as ages, the time passed since them, each up to the   *)
(* age at which nothing changes any more: all the code does with an        *)
(* instant is to compare its distance from a clock reading with a          *)
(* duration, and in one compare-and-swap to tell two claims apart.         *)
(***************************************************************************)
EXTENDS Integers, Sequences, FiniteSets

CONSTANTS
    Callers,      \* the tasks that send requests through the breaker
    OpenFor,      \* config.open_duration, also the lease of a probe
    WindowFor,    \* config.window_duration
    MinSamples,   \* config.min_samples
    RateNum,      \* config.error_rate_threshold as RateNum / RateDen
    RateDen,
    MaxProbes,    \* config.half_open_max_probes (at least 1 by with_clock)
    MaxEntries,   \* MAX_WINDOW_ENTRIES
    Word,         \* the number of values of a usize
    MaxPause      \* bound: how old a clock reading is when it is used

ASSUME DurationAssumption ==
    OpenFor \in Nat \ {0} /\ WindowFor \in Nat /\ MaxPause \in Nat
ASSUME LimitAssumption ==
    /\ MinSamples \in Nat /\ RateNum \in Nat /\ RateDen \in Nat
    /\ MaxProbes \in Nat \ {0} /\ MaxEntries \in Nat \ {0}
    /\ Word \in Nat /\ Word > MaxProbes

VARIABLES
    parallel,  \* TRUE on a multi-threaded runtime; on a current-thread one a
               \* call of the breaker, which never awaits, runs to its end
    state,     \* the authoritative state
    opened,    \* age of opened_at_millis
    probes,    \* half_open_probes
    claimed,   \* age of probe_claimed_at_millis
    fast,      \* is_open_fast
    window,    \* the sliding window: entries, and the count of the failing ones
    pc,        \* where each caller is
    now,       \* age of the clock reading a caller works with
    seen,      \* age of the instant a caller has loaded
    bad,       \* whether the outcome a caller records is a failure
    streak,    \* history: probes admitted one within OpenFor of the other
    lastGrant  \* history: age of the clock reading of the last admitted probe

vars == <<parallel, state, opened, probes, claimed, fast, window,
          pc, now, seen, bad, streak, lastGrant>>
shared == <<parallel, state, opened, probes, claimed, fast, window>>
locals == <<now, seen, bad>>
history == <<streak, lastGrant>>

\* The caller has no call of the breaker in progress: it sends nothing, or its
\* request is in flight.
Resting == {"idle", "request"}
Steps == {"open", "cas", "lost", "mirror", "probe", "add", "claim", "sub",
          "lease", "takeover", "push", "log", "trip", "tripTime",
          "tripProbes", "tripMirror", "close", "closeWindow", "closeProbes",
          "closeMirror"}
States == {"Closed", "Open", "HalfOpen"}

Older(age, limit) == IF age >= limit THEN age ELSE age + 1
\* Beyond these ages instants behave alike.  A caller compares
\* the claim it loaded with one stored since, which is at most 2 * MaxPause old.
ClaimLimit == OpenFor + 2 * MaxPause
SampleLimit == WindowFor + MaxPause + 1
\* saturating_sub of an instant from a clock reading.
Elapsed(age, reading) == IF age >= reading THEN age - reading ELSE 0
-----------------------------------------------------------------------------
(* The sliding window.                                                     *)

Failing(entries, upto) == {i \in 1 .. upto : entries[i].bad}
EmptyWindow == [entries |-> <<>>, failures |-> 0]

Full(w) == Len(w.entries) >= MaxEntries

LostIgnored(w) == 0   \* faulty: the entry pushed out stays counted
\* What the entry that the cap pushes out takes from the count.
Lost(w) == IF Full(w) /\ w.entries[1].bad THEN 1 ELSE 0

Push(w, failure, age) ==
    LET kept == IF Full(w) THEN Tail(w.entries) ELSE w.entries
    IN  [entries  |-> Append(kept, [age |-> age, bad |-> failure]),
         failures |-> w.failures - Lost(w) + (IF failure THEN 1 ELSE 0)]

\* Entries are dropped from the front up to the first that is young enough;
\* an entry behind a younger one stays.
Evict(w, reading) ==
    LET n     == Len(w.entries)
        live  == {i \in 1 .. n : Elapsed(w.entries[i].age, reading) <= WindowFor}
        first == IF live = {} THEN n + 1
                 ELSE CHOOSE i \in live : \A j \in live : i <= j
    IN  [entries  |-> SubSeq(w.entries, first, n),
         failures |-> w.failures - Cardinality(Failing(w.entries, first - 1))]

ShouldTrip(w) ==
    /\ Len(w.entries) >= MinSamples
    /\ w.failures * RateDen >= RateNum * Len(w.entries)
-----------------------------------------------------------------------------
Init ==
    /\ parallel \in BOOLEAN
    /\ state = "Closed" /\ opened = 0 /\ probes = 0 /\ claimed = 0
    /\ fast = FALSE /\ window = EmptyWindow
    /\ pc = [t \in Callers |-> "idle"]
    /\ now = [t \in Callers |-> 0]
    /\ seen = [t \in Callers |-> 0]
    /\ bad = [t \in Callers |-> FALSE]
    /\ streak = 0 /\ lastGrant = 0

Quiet == \A t \in Callers : pc[t] \in Resting
MayCall(t) == parallel \/ Quiet

Goto(t, label) == pc' = [pc EXCEPT ![t] = label]
\* The caller leaves the breaker: what it read is forgotten.
Leave(t, label) ==
    /\ Goto(t, label)
    /\ now' = [now EXCEPT ![t] = 0]
    /\ seen' = [seen EXCEPT ![t] = 0]
    /\ bad' = [bad EXCEPT ![t] = FALSE]
\* A probe is admitted.  streak counts those admitted while the lease of the
\* one before was running, up to MaxProbes + 1.
Grant(t) ==
    /\ streak' = IF streak > 0 /\ Elapsed(lastGrant, now[t]) >= OpenFor
                 THEN 1
                 ELSE IF streak > MaxProbes THEN streak ELSE streak + 1
    /\ lastGrant' = now[t]
-----------------------------------------------------------------------------
(* check                                                                   *)

MirrorKept == fast   \* faulty: is_open_fast is not cleared
MirrorOfHalfOpen == FALSE
SlotFreeUpTo(prev) == prev <= MaxProbes   \* faulty: <= for <
SlotFree(prev) == prev < MaxProbes
LeaseNever(t) == FALSE   \* faulty: a claim is never taken for abandoned
LeaseOver(t) == Elapsed(claimed, now[t]) >= OpenFor

Check(t) ==
    /\ pc[t] = "idle" /\ MayCall(t)
    /\ Goto(t, CASE state = "Closed"   -> "request"
                 [] state = "Open"     -> "open"
                 [] state = "HalfOpen" -> "probe")
    /\ UNCHANGED <<shared, locals, history>>

\* check_open: load opened_at.  The age of what was loaded grows with time, so
\* the clock can be read in the next step.
LoadOpened(t) ==
    /\ pc[t] = "open"
    /\ seen' = [seen EXCEPT ![t] = opened]
    /\ Goto(t, "cas")
    /\ UNCHANGED <<shared, now, bad, history>>

\* check_open: too early, or the compare-and-swap to HalfOpen.
CasHalfOpen(t) ==
    /\ pc[t] = "cas"
    /\ \/ /\ seen[t] < OpenFor
          /\ Leave(t, "idle")
          /\ UNCHANGED <<state, history>>
       \/ /\ seen[t] >= OpenFor /\ state = "Open"
          /\ state' = "HalfOpen"
          /\ streak' = 0 /\ lastGrant' = 0
          /\ Goto(t, "mirror")
          /\ seen' = [seen EXCEPT ![t] = 0]
          /\ UNCHANGED <<now, bad>>
       \/ /\ seen[t] >= OpenFor /\ state # "Open"
          /\ Goto(t, "lost")
          /\ seen' = [seen EXCEPT ![t] = 0]
          /\ UNCHANGED <<state, now, bad, history>>
    /\ UNCHANGED <<parallel, opened, probes, claimed, fast, window>>

MirrorHalfOpen(t) ==
    /\ pc[t] = "mirror"
    /\ fast' = MirrorOfHalfOpen
    /\ Goto(t, "probe")
    /\ UNCHANGED <<parallel, state, opened, probes, claimed, window, locals, history>>

LostCas(t) ==
    /\ pc[t] = "lost"
    /\ \/ state = "Closed"   /\ Leave(t, "request")
       \/ state = "Open"     /\ Leave(t, "idle")
       \/ state = "HalfOpen" /\ Goto(t, "probe") /\ UNCHANGED locals
    /\ UNCHANGED <<shared, history>>

\* try_half_open_probe, one atomic operation after the other.
ReadClock(t) ==
    /\ pc[t] = "probe"
    /\ now' = [now EXCEPT ![t] = 0]
    /\ Goto(t, "add")
    /\ UNCHANGED <<shared, seen, bad, history>>

AddProbe(t) ==
    /\ pc[t] = "add"
    /\ probes' = (probes + 1) % Word
    /\ Goto(t, IF SlotFree(probes) THEN "claim" ELSE "sub")
    /\ UNCHANGED <<parallel, state, opened, claimed, fast, window, locals, history>>

ClaimSlot(t) ==
    /\ pc[t] = "claim"
    /\ claimed' = now[t]
    /\ Grant(t)
    /\ Leave(t, "request")
    /\ UNCHANGED <<parallel, state, opened, probes, fast, window>>

SubProbe(t) ==
    /\ pc[t] = "sub"
    /\ probes' = (probes - 1) % Word
    /\ Goto(t, "lease")
    /\ UNCHANGED <<parallel, state, opened, claimed, fast, window, locals, history>>

LoadClaim(t) ==
    /\ pc[t] = "lease"
    /\ \/ /\ LeaseOver(t)
          /\ seen' = [seen EXCEPT ![t] = claimed]
          /\ Goto(t, "takeover")
          /\ UNCHANGED <<now, bad>>
       \/ /\ ~LeaseOver(t)
          /\ Leave(t, "idle")
    /\ UNCHANGED <<shared, history>>

TakeOver(t) ==
    /\ pc[t] = "takeover"
    /\ \/ /\ claimed = seen[t]
          /\ claimed' = now[t]
          /\ Grant(t)
          /\ Leave(t, "request")
       \/ /\ claimed # seen[t]
          /\ Leave(t, "idle")
          /\ UNCHANGED <<claimed, history>>
    /\ UNCHANGED <<parallel, state, opened, probes, fast, window>>
-----------------------------------------------------------------------------
(* record, trip, close                                                     *)

Record(t, failure) ==
    /\ pc[t] = "request" /\ MayCall(t)
    /\ bad' = [bad EXCEPT ![t] = failure /\ state # "HalfOpen"]
    /\ Goto(t, CASE state = "Closed"                -> "push"
                 [] state = "Open"                  -> "log"
                 [] state = "HalfOpen" /\ failure   -> "trip"
                 [] state = "HalfOpen" /\ ~failure  -> "close")
    /\ UNCHANGED <<shared, now, seen, history>>

\* The request ends without an outcome: its future is dropped, or its status
\* is one the caller does not record.
Drop(t) ==
    /\ pc[t] = "request"
    /\ Goto(t, "idle")
    /\ UNCHANGED <<shared, locals, history>>

\* Under the mutex: push and evict; in Closed also the decision to trip.
PushSample(t) ==
    /\ pc[t] \in {"push", "log"}
    /\ window' = Evict(Push(window, bad[t], now[t]), now[t])
    /\ Leave(t, IF pc[t] = "push" /\ ShouldTrip(window')
                THEN "trip" ELSE "idle")
    /\ UNCHANGED <<parallel, state, opened, probes, claimed, fast, history>>

Trip(t) ==
    /\ pc[t] = "trip"
    /\ state' = "Open"
    /\ Goto(t, "tripTime")
    /\ UNCHANGED <<parallel, opened, probes, claimed, fast, window, locals, history>>

TripTime(t) ==
    /\ pc[t] = "tripTime"
    /\ opened' = 0
    /\ Goto(t, "tripProbes")
    /\ UNCHANGED <<parallel, state, probes, claimed, fast, window, locals, history>>

ResetProbes(t) ==
    /\ pc[t] \in {"tripProbes", "closeProbes"}
    /\ probes' = 0
    /\ Goto(t, IF pc[t] = "tripProbes" THEN "tripMirror" ELSE "closeMirror")
    /\ UNCHANGED <<parallel, state, opened, claimed, fast, window, locals, history>>

MirrorState(t) ==
    /\ pc[t] \in {"tripMirror", "closeMirror"}
    /\ fast' = (pc[t] = "tripMirror")
    /\ Leave(t, "idle")
    /\ UNCHANGED <<parallel, state, opened, probes, claimed, window, history>>

Close(t) ==
    /\ pc[t] = "close"
    /\ state' = "Closed"
    /\ Goto(t, "closeWindow")
    /\ UNCHANGED <<parallel, opened, probes, claimed, fast, window, locals, history>>

ClearWindow(t) ==
    /\ pc[t] = "closeWindow"
    /\ window' = EmptyWindow
    /\ Goto(t, "closeProbes")
    /\ UNCHANGED <<parallel, state, opened, probes, claimed, fast, locals, history>>

\* error_rate(): a read that evicts.
ErrorRate ==
    /\ parallel \/ Quiet
    /\ window' = Evict(window, 0)
    /\ UNCHANGED <<parallel, state, opened, probes, claimed, fast,
                   pc, locals, history>>
-----------------------------------------------------------------------------
\* Callers whose clock reading is still to be used.
UsesNow(t) == pc[t] \in {"add", "claim", "sub", "lease", "takeover",
                         "push", "log"}

Aged(sample) == [sample EXCEPT !.age = Older(@, SampleLimit)]

Tick ==
    /\ \A t \in Callers : UsesNow(t) => now[t] < MaxPause
    /\ opened' = Older(opened, OpenFor)
    /\ claimed' = Older(claimed, ClaimLimit)
    /\ lastGrant' = IF streak = 0 THEN 0 ELSE Older(lastGrant, ClaimLimit)
    /\ window' = [window EXCEPT !.entries = [i \in DOMAIN @ |-> Aged(@[i])]]
    /\ now' = [t \in Callers |-> IF UsesNow(t) THEN now[t] + 1 ELSE now[t]]
    /\ seen' = [t \in Callers |->
                    CASE pc[t] = "cas"      -> Older(seen[t], OpenFor)
                      [] pc[t] = "takeover" -> Older(seen[t], ClaimLimit)
                      [] OTHER              -> seen[t]]
    /\ UNCHANGED <<parallel, state, probes, fast, pc, bad, streak>>

CheckSteps(t) ==
    \/ LoadOpened(t) \/ CasHalfOpen(t) \/ MirrorHalfOpen(t) \/ LostCas(t)
    \/ ReadClock(t) \/ AddProbe(t) \/ ClaimSlot(t) \/ SubProbe(t)
    \/ LoadClaim(t) \/ TakeOver(t)
RecordSteps(t) ==
    \/ PushSample(t) \/ Trip(t) \/ TripTime(t) \/ ResetProbes(t)
    \/ MirrorState(t) \/ Close(t) \/ ClearWindow(t)
RequestEnds(t) == Drop(t) \/ \E failure \in BOOLEAN : Record(t, failure)

Next ==
    \/ \E t \in Callers :
          Check(t) \/ CheckSteps(t) \/ RequestEnds(t) \/ RecordSteps(t)
    \/ ErrorRate
    \/ Tick

\* The executor runs every caller, every request ends (reqwest has a timeout),
\* traffic goes on and time passes.
Fairness ==
    /\ WF_vars(Tick)
    /\ \A t \in Callers :
          WF_vars(Check(t)) /\ WF_vars(CheckSteps(t) \/ RecordSteps(t))
          /\ WF_vars(RequestEnds(t))

Spec == Init /\ [][Next]_vars /\ Fairness
-----------------------------------------------------------------------------
Entries == [age : 0 .. SampleLimit, bad : BOOLEAN]

\* Every variable has its type: the probe counter wraps inside its word, the
\* window holds at most MAX_WINDOW_ENTRIES samples (window.rs:29) and its count
\* of failures never goes below zero (window.rs:33, 49).
TypeOK ==
    /\ parallel \in BOOLEAN /\ state \in States /\ fast \in BOOLEAN
    /\ opened \in 0 .. OpenFor
    /\ claimed \in 0 .. ClaimLimit /\ lastGrant \in 0 .. ClaimLimit
    /\ probes \in 0 .. Word - 1
    /\ window.entries \in Seq(Entries) /\ Len(window.entries) <= MaxEntries
    /\ window.failures \in Nat
    /\ pc \in [Callers -> Resting \cup Steps]
    /\ now \in [Callers -> 0 .. MaxPause]
    /\ seen \in [Callers -> 0 .. ClaimLimit]
    /\ bad \in [Callers -> BOOLEAN]
    /\ streak \in 0 .. MaxProbes + 1

\* The incremental count of failures (window.rs:13-17) is the number of failing
\* samples the window holds, whatever samples the cap, the clock and a close
\* have dropped, and in whatever order callers pushed readings of the clock.  The
\* types of the variables come with it.
FailuresCounted ==
    /\ TypeOK
    /\ window.failures =
        Cardinality(Failing(window.entries, Len(window.entries)))

\* "Lock-free mirror of `state == Open`" (breaker.rs:41): when calls of the
\* breaker do not overlap, is_open() and state() agree whenever no call is in
\* progress.
MirrorAgrees == ~parallel /\ Quiet => (fast <=> state = "Open")

\* Half-open admits at most half_open_max_probes requests while the lease of
\* the last one runs ("only one takeover per expired lease",
\* breaker_tests/half_open.rs:101), when calls do not overlap, although requests
\* end late, or never report, in states of the breaker they were not sent in.
SerialProbesWithinSlots == ~parallel => streak <= MaxProbes

\* "a lost probe delays recovery by at most one cool-down" (breaker.rs:39):
\* while there is traffic the breaker never sheds for ever, whichever requests
\* are dropped without an outcome and however calls overlap.
SheddingEnds == []<>(\E t \in Callers : pc[t] = "request")
=============================================================================
