------------------------------ MODULE AuthLock ------------------------------
(***************************************************************************)
(* The advisory lock of auth.json (auth/manager/lock.rs): a flock on       *)
(* auth.json.lock whose content names the holder.  A waiter that reads a   *)
(* stale holder unlinks the PATH and goes on with a fresh inode, so a lock *)
(* may live on an inode the path no longer leads to.                       *)
(*                                                                         *)
(* A file system call is a step of its own.  An acquisition runs in        *)
(* rounds: 1 is the instant try, 2 the blocking wait under a deadline, 3   *)
(* and 4 are the two tries of the stale fallback.  What the users of the   *)
(* lock rely on is AuthFileLock, which this module implements.             *)
(***************************************************************************)
EXTENDS Integers, FiniteSets

CONSTANTS
    Task,      \* the asynchronous calls that take the lock, in any process
    NoTask,
    MaxInode   \* bound: inode numbers; a number is reused once nothing has it

ASSUME TaskAssumption == IsFiniteSet(Task) /\ NoTask \notin Task
\* A call has at most two lock files open, and the path leads to one more.
ASSUME InodeAssumption == MaxInode \in Nat /\ MaxInode > 2 * Cardinality(Task) + 1

VARIABLES
    path,    \* the inode auth.json.lock leads to, 0 when there is no file
    owner,   \* who holds the flock of an inode
    old,     \* the inodes whose holder info reads stale: a dead pid, or a
             \* timestamp past STALE_LOCK_TIMEOUT_SECS
    at,      \* where a call is in its acquisition
    round,   \* the round it is in, 1 when it is in none
    fd,      \* the lock file a call has opened, 0 when none
    keep     \* a lock the same call took before and still holds

vars == <<path, owner, old, at, round, fd, keep>>

Inode == 1..MaxInode
Places == {"out", "open", "flock", "unlink", "removed", "write", "stat", "in", "failed"}

Init ==
    /\ path = 0
    /\ owner = [i \in Inode |-> NoTask]
    /\ old = {}
    /\ at = [t \in Task |-> "out"]
    /\ round = [t \in Task |-> 1]
    /\ fd = [t \in Task |-> 0]
    /\ keep = [t \in Task |-> 0]

TypeOK ==
    /\ path \in 0..MaxInode
    /\ owner \in [Inode -> Task \cup {NoTask}]
    /\ old \subseteq Inode
    /\ at \in [Task -> Places]
    /\ round \in [Task -> 0..4]
    /\ fd \in [Task -> 0..MaxInode]
    /\ keep \in [Task -> 0..MaxInode]

Exists(i) == i = path \/ \E t \in Task : i \in {fd[t], keep[t]}
FreshInode == CHOOSE i \in Inode : ~Exists(i)

\* An inode that nothing has any more takes its info with it.
Forget == old' = {i \in old : Exists(i)'}

\* (faulty form: a lock that belongs to the process, as fcntl's do, goes with
\* the first descriptor that is closed)
ClosedForAll(t) ==
    [i \in Inode |-> IF i = fd[t] /\ owner[i] = t THEN NoTask ELSE owner[i]]

\* What is left of `owner` when t closes fd[t].  A flock belongs to an open
\* file: one that t holds through `keep` stays.
Closed(t) ==
    [i \in Inode |-> IF i = fd[t] /\ i # keep[t] /\ owner[i] = t THEN NoTask ELSE owner[i]]

\* (faulty form: the file that was locked is taken for the one at the path)
AnyInode(t) == TRUE

\* inodes_match after a flock, and AuthFileLock::still_live
SameInode(t) == fd[t] = path

\* try_lock_auth_file_async is called, or try_lock_auth_file_nonblocking.
Request(t) ==
    /\ at[t] = "out"
    /\ at' = [at EXCEPT ![t] = "open"]
    /\ \/ UNCHANGED round
       \/ keep[t] = 0 /\ round' = [round EXCEPT ![t] = 0]
    /\ UNCHANGED <<path, owner, old, fd, keep>>

\* The attempt of this round came to nothing: `r` is the round that follows,
\* 5 when there is none.  The file is closed.
GoOn(t, r) ==
    /\ owner' = Closed(t)
    /\ fd' = [fd EXCEPT ![t] = 0]
    /\ at' = [at EXCEPT ![t] = IF r = 5 THEN "failed" ELSE "open"]
    /\ round' = [round EXCEPT ![t] = IF r # 5 THEN r ELSE IF @ = 0 THEN 0 ELSE 1]
    /\ UNCHANGED <<path, keep>>
    /\ Forget

\* The round after a lock that is busy, and after one found unlinked.
AfterBusy(r) == IF r = 1 THEN 2 ELSE 5
AfterUnlink(r) == CASE r = 1 -> 2 [] r = 2 -> 2 [] r = 3 -> 4 [] OTHER -> 5

\* OpenOptions::open, creating the file when there is none
Open(t) ==
    /\ at[t] = "open"
    /\ path # 0 \/ \E i \in Inode : ~Exists(i)
    /\ LET i == IF path = 0 THEN FreshInode ELSE path IN
       /\ path' = i
       /\ fd' = [fd EXCEPT ![t] = i]
    /\ at' = [at EXCEPT ![t] = "flock"]
    /\ UNCHANGED <<owner, old, round, keep>>

\* The file cannot be opened: a try gives up, the blocking wait tries again
\* until its deadline.
OpenFails(t) ==
    /\ at[t] = "open"
    /\ round[t] # 2
    /\ GoOn(t, 5)

Flock(t) ==
    /\ at[t] = "flock"
    /\ owner[fd[t]] = NoTask
    /\ owner' = [owner EXCEPT ![fd[t]] = t]
    /\ at' = [at EXCEPT ![t] = "write"]
    /\ UNCHANGED <<path, old, round, fd, keep>>

\* EWOULDBLOCK: is_holder_stale reads the info of the file that is OPEN.
Refused(t) ==
    /\ at[t] = "flock"
    /\ round[t] # 2
    /\ owner[fd[t]] # NoTask
    /\ \/ /\ round[t] # 0 /\ fd[t] \in old
          /\ at' = [at EXCEPT ![t] = "unlink"]
          /\ UNCHANGED <<path, old, owner, round, fd, keep>>
       \/ /\ round[t] = 0 \/ fd[t] \notin old
          /\ GoOn(t, AfterBusy(round[t]))

\* remove_file(lock_path) removes whatever file the PATH leads to by now.
Unlink(t) ==
    /\ at[t] = "unlink"
    /\ \/ /\ path # 0
          /\ path' = 0
          /\ at' = [at EXCEPT ![t] = "removed"]
          /\ UNCHANGED <<owner, round, fd, keep>>
          /\ Forget
       \/ path = 0 /\ GoOn(t, AfterBusy(round[t]))

Removed(t) == at[t] = "removed" /\ GoOn(t, AfterUnlink(round[t]))

\* The deadline of the blocking wait passes.
Deadline(t) ==
    /\ round[t] = 2
    /\ at[t] \in {"open", "flock"}
    /\ GoOn(t, 3)

\* write_holder_info; when it fails the flock is kept all the same.
WriteInfo(t) ==
    /\ at[t] = "write"
    /\ old' \in {old, old \ {fd[t]}}
    /\ at' = [at EXCEPT ![t] = IF round[t] = 0 THEN "in" ELSE "stat"]
    /\ UNCHANGED <<path, owner, round, fd, keep>>

Stat(t) ==
    /\ at[t] = "stat"
    /\ \/ /\ SameInode(t)
          /\ at' = [at EXCEPT ![t] = "in"]
          /\ round' = [round EXCEPT ![t] = 1]
          /\ UNCHANGED <<path, old, owner, fd, keep>>
       \/ /\ ~SameInode(t)
          /\ GoOn(t, AfterUnlink(round[t]))

AcquireStep(t) ==
    \/ Open(t) \/ OpenFails(t) \/ Flock(t) \/ Refused(t) \/ Unlink(t) \/ Removed(t)
    \/ Deadline(t) \/ WriteInfo(t) \/ Stat(t)

\* The guard stays in scope while the same call asks once more.
KeepGuard(t) ==
    /\ at[t] = "in" /\ round[t] # 0 /\ keep[t] = 0
    /\ keep' = [keep EXCEPT ![t] = fd[t]]
    /\ fd' = [fd EXCEPT ![t] = 0]
    /\ at' = [at EXCEPT ![t] = "out"]
    /\ UNCHANGED <<path, owner, old, round>>

\* The guards of the calls in T go out of scope.
DropAll(T) ==
    /\ owner' = [i \in Inode |-> IF owner[i] \in T THEN NoTask ELSE owner[i]]
    /\ fd' = [t \in Task |-> IF t \in T THEN 0 ELSE fd[t]]
    /\ keep' = [t \in Task |-> IF t \in T THEN 0 ELSE keep[t]]
    /\ at' = [t \in Task |-> IF t \in T THEN "out" ELSE at[t]]
    /\ round' = [t \in Task |-> IF t \in T THEN 1 ELSE round[t]]
    /\ UNCHANGED path
    /\ Forget

Finish(t) == at[t] \in {"in", "failed"} /\ DropAll({t})

\* The process the calls in T run in dies.
Crash(T) == T # {} /\ DropAll(T)

\* Time passes: what an inode says of its holder is too old, or its pid dead.
InfoAges(i) ==
    /\ Exists(i)
    /\ old' = old \cup {i}
    /\ UNCHANGED <<path, owner, at, round, fd, keep>>

Next ==
    \/ \E t \in Task : Request(t) \/ AcquireStep(t) \/ KeepGuard(t) \/ Finish(t)
    \/ \E T \in SUBSET Task : Crash(T)
    \/ \E i \in Inode : InfoAges(i)

Spec == Init /\ [][Next]_vars
-----------------------------------------------------------------------------
\* A guard that its user may take for the live lock
HoldsAt(t, i) == keep[t] = i \/ (at[t] = "in" /\ round[t] # 0 /\ fd[t] = i)

Live ==
    IF path # 0 /\ owner[path] # NoTask /\ HoldsAt(owner[path], path)
    THEN owner[path] ELSE NoTask

Want ==
    [t \in Task |->
        CASE round[t] = 0 -> "out"
          [] round[t] # 0 /\ at[t] \in {"out", "in", "failed"} -> at[t]
          [] OTHER -> "wait"]

\* A call that is past its flock owns the file it has open, and a guard that is
\* kept in scope while the call asks again keeps its flock, whatever the second
\* request opens and closes: no two guards are ever on the same file.
GuardsOwnFlock ==
    \A t \in Task :
        /\ at[t] \in {"write", "stat", "in"} =>
              fd[t] # 0 /\ owner[fd[t]] = t /\ fd[t] # keep[t]
        /\ at[t] \in {"flock", "unlink", "removed"} => fd[t] # 0
        /\ at[t] \in {"out", "open", "failed"} => fd[t] = 0
        /\ keep[t] # 0 => owner[keep[t]] = t /\ round[t] # 0

LockInv == TypeOK /\ GuardsOwnFlock

Promise == INSTANCE AuthFileLock WITH live <- Live, want <- Want

\* lock.rs gives its users the lock they rely on: a guard is handed out only
\* when nobody holds the live lock, however unlinks, crashes and waits meet.
KeepsPromise == Promise!LockSpec
=============================================================================
