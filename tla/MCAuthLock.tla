----------------------------- MODULE MCAuthLock -----------------------------
(* The instance of AuthLock that TLC checks: two calls, of one process or two. *)
EXTENDS AuthLock

CONSTANTS t1, t2
=============================================================================
