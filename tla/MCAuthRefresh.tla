---------------------------- MODULE MCAuthRefresh ----------------------------
(* The instances of AuthRefresh that TLC checks. *)
EXTENDS AuthRefresh

CONSTANTS t1, t2, p1, p2

Apart == {[t \in Task |-> IF t = t1 THEN p1 ELSE p2]}
Together == {[t \in Task |-> p1]}
Callers == [t \in Task |-> IF t = t1 THEN {"auth", "recover"} ELSE {"flow"}]
Mixed == [t \in Task |-> IF t = t1 THEN {"auth", "recover"} ELSE {"flow", "enrich"}]
=============================================================================
