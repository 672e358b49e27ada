---------------------------- MODULE AuthLockProofs ----------------------------
(***************************************************************************)
(* Proofs about AuthLock: a guard owns the flock of its file, and lock.rs  *)
(* keeps the promise AuthFileLock makes to the code that refreshes         *)
(* credentials.                                                            *)
(***************************************************************************)
EXTENDS AuthLock, TLAPS

\* The nonblocking request (round 0) hands its guard out without looking at the
\* path again.
Staged == \A t \in Task : at[t] = "stat" => round[t] # 0

IInv == LockInv /\ Staged

USE TaskAssumption DEF Inode, Places
-----------------------------------------------------------------------------
\* GoOn leaves every other call alone, and releases no lock but the one of the
\* file it closes.
LEMMA GoOnKeeps ==
    ASSUME IInv, NEW t \in Task, NEW r \in 1..5, GoOn(t, r),
           at[t] \in {"open", "flock", "unlink", "removed", "stat"},
           r = 5 \/ round[t] # 0
    PROVE  IInv'
<1>1. TypeOK'
  <2>1. owner' \in [Inode -> Task \cup {NoTask}] /\ old' \subseteq Inode
    BY DEF IInv, LockInv, TypeOK, GoOn, Closed, Forget
  <2>2. /\ path' \in 0..MaxInode /\ keep' \in [Task -> 0..MaxInode]
        /\ fd' \in [Task -> 0..MaxInode]
    BY InodeAssumption DEF IInv, LockInv, TypeOK, GoOn
  <2>3. at' \in [Task -> Places] /\ round' \in [Task -> 0..4]
    BY DEF IInv, LockInv, TypeOK, GoOn
  <2> QED BY <2>1, <2>2, <2>3 DEF TypeOK
<1>2. GuardsOwnFlock'
  BY DEF IInv, LockInv, TypeOK, GuardsOwnFlock, GoOn, Closed
<1>3. Staged'
  BY DEF IInv, LockInv, TypeOK, Staged, GoOn
<1> QED BY <1>1, <1>2, <1>3 DEF IInv, LockInv

\* Guards that go out of scope, together or alone, leave the invariant true for the
\* others.
LEMMA DropKeeps ==
    ASSUME IInv, NEW T \in SUBSET Task, DropAll(T)
    PROVE  IInv'
<1>1. TypeOK'
  <2>1. owner' \in [Inode -> Task \cup {NoTask}] /\ old' \subseteq Inode
    BY DEF IInv, LockInv, TypeOK, DropAll, Forget
  <2>2. /\ path' \in 0..MaxInode /\ keep' \in [Task -> 0..MaxInode]
        /\ fd' \in [Task -> 0..MaxInode]
    BY InodeAssumption DEF IInv, LockInv, TypeOK, DropAll
  <2>3. at' \in [Task -> Places] /\ round' \in [Task -> 0..4]
    BY DEF IInv, LockInv, TypeOK, DropAll
  <2> QED BY <2>1, <2>2, <2>3 DEF TypeOK
<1>2. GuardsOwnFlock'
  BY DEF IInv, LockInv, TypeOK, GuardsOwnFlock, DropAll
<1>3. Staged'
  BY DEF IInv, LockInv, TypeOK, Staged, DropAll
<1> QED BY <1>1, <1>2, <1>3 DEF IInv, LockInv

\* The round after a failed attempt is a round, and none follows round 0.
LEMMA RoundsAfter ==
    ASSUME NEW r \in 0..4
    PROVE  /\ AfterBusy(r) \in 1..5 /\ AfterUnlink(r) \in 1..5
           /\ r = 0 => AfterBusy(r) = 5 /\ AfterUnlink(r) = 5
BY DEF AfterBusy, AfterUnlink

\* A file that is created gets a number nothing has.
LEMMA FreshExists ==
    ASSUME \E i \in Inode : ~Exists(i)
    PROVE  FreshInode \in Inode /\ ~Exists(FreshInode)
BY DEF FreshInode

\* No lock file, no call: the invariant holds.
LEMMA InitIInv == Init => IInv
BY InodeAssumption DEF Init, IInv, LockInv, TypeOK, GuardsOwnFlock, Staged

\* Every system call of an acquisition, every drop and every crash keeps it.
LEMMA IInvStep ==
    ASSUME IInv, [Next]_vars
    PROVE  IInv'
<1>1. ASSUME NEW t \in Task, Request(t) PROVE IInv'
  <2>1. TypeOK'
    <3>1. at' \in [Task -> Places]
      BY <1>1 DEF IInv, LockInv, TypeOK, Request
    <3>2. round' \in [Task -> 0..4]
      <4>1. round' = round \/ round' = [round EXCEPT ![t] = 0]
        BY <1>1 DEF Request
      <4>2. round \in [Task -> 0..4]
        BY DEF IInv, LockInv, TypeOK
      <4>3. [round EXCEPT ![t] = 0] \in [Task -> 0..4]
        BY <4>2
      <4> QED BY <4>1, <4>2, <4>3
    <3> QED BY <1>1, <3>1, <3>2 DEF IInv, LockInv, TypeOK, Request
  <2>2. GuardsOwnFlock' /\ Staged'
    BY <1>1 DEF IInv, LockInv, TypeOK, GuardsOwnFlock, Staged, Request
  <2> QED BY <2>1, <2>2 DEF IInv, LockInv
<1>2. ASSUME NEW t \in Task, Open(t) PROVE IInv'
  BY <1>2, FreshExists
     DEF IInv, LockInv, TypeOK, GuardsOwnFlock, Staged, Open
<1>3. ASSUME NEW t \in Task, OpenFails(t) PROVE IInv'
  BY <1>3, GoOnKeeps DEF OpenFails
<1>4. ASSUME NEW t \in Task, Flock(t) PROVE IInv'
  BY <1>4 DEF IInv, LockInv, TypeOK, GuardsOwnFlock, Staged, Flock
<1>5. ASSUME NEW t \in Task, Refused(t) PROVE IInv'
  <2>1. round[t] \in 0..4
    BY DEF IInv, LockInv, TypeOK
  <2>2. CASE GoOn(t, AfterBusy(round[t])) /\ at[t] = "flock"
    BY <2>1, <2>2, GoOnKeeps, RoundsAfter
  <2>3. CASE /\ at[t] = "flock" /\ at' = [at EXCEPT ![t] = "unlink"]
             /\ UNCHANGED <<path, old, owner, round, fd, keep>>
    BY <2>3 DEF IInv, LockInv, TypeOK, GuardsOwnFlock, Staged
  <2> QED BY <1>5, <2>2, <2>3 DEF Refused
<1>6. ASSUME NEW t \in Task, Unlink(t) PROVE IInv'
  <2>1. round[t] \in 0..4
    BY DEF IInv, LockInv, TypeOK
  <2>2. CASE GoOn(t, AfterBusy(round[t])) /\ at[t] = "unlink"
    BY <2>1, <2>2, GoOnKeeps, RoundsAfter
  <2>3. CASE /\ at[t] = "unlink" /\ at' = [at EXCEPT ![t] = "removed"]
             /\ path' = 0 /\ Forget
             /\ UNCHANGED <<owner, round, fd, keep>>
    <3>1. old' \subseteq Inode /\ path' \in 0..MaxInode
      <4>1. old' = {i \in old : Exists(i)'} /\ path' = 0
        BY <2>3 DEF Forget
      <4>2. old \subseteq Inode /\ MaxInode \in Nat
        BY InodeAssumption DEF IInv, LockInv, TypeOK
      <4>3. 0 \in 0..MaxInode
        BY <4>2
      <4> QED BY <4>1, <4>2, <4>3
    <3>2. at' \in [Task -> Places]
      BY <2>3 DEF IInv, LockInv, TypeOK
    <3>3. TypeOK'
      BY <2>3, <3>1, <3>2 DEF IInv, LockInv, TypeOK
    <3>4. GuardsOwnFlock' /\ Staged'
      BY <2>3 DEF IInv, LockInv, TypeOK, GuardsOwnFlock, Staged
    <3> QED BY <3>3, <3>4 DEF IInv, LockInv
  <2> QED BY <1>6, <2>2, <2>3 DEF Unlink
<1>7. ASSUME NEW t \in Task, Removed(t) PROVE IInv'
  <2>1. round[t] \in 0..4
    BY DEF IInv, LockInv, TypeOK
  <2> QED BY <1>7, <2>1, GoOnKeeps, RoundsAfter DEF Removed
<1>8. ASSUME NEW t \in Task, Deadline(t) PROVE IInv'
  BY <1>8, GoOnKeeps DEF Deadline
<1>9. ASSUME NEW t \in Task, WriteInfo(t) PROVE IInv'
  BY <1>9 DEF IInv, LockInv, TypeOK, GuardsOwnFlock, Staged, WriteInfo
<1>10. ASSUME NEW t \in Task, Stat(t) PROVE IInv'
  <2>1. round[t] \in 0..4
    BY DEF IInv, LockInv, TypeOK
  <2>2. CASE GoOn(t, AfterUnlink(round[t])) /\ at[t] = "stat"
    BY <2>1, <2>2, GoOnKeeps, RoundsAfter
  <2>3. CASE /\ at[t] = "stat" /\ at' = [at EXCEPT ![t] = "in"]
             /\ round' = [round EXCEPT ![t] = 1]
             /\ UNCHANGED <<path, old, owner, fd, keep>>
    BY <2>3 DEF IInv, LockInv, TypeOK, GuardsOwnFlock, Staged
  <2> QED BY <1>10, <2>2, <2>3 DEF Stat
<1>11. ASSUME NEW t \in Task, KeepGuard(t) PROVE IInv'
  BY <1>11 DEF IInv, LockInv, TypeOK, GuardsOwnFlock, Staged, KeepGuard
<1>12. ASSUME NEW t \in Task, Finish(t) PROVE IInv'
  BY <1>12, DropKeeps DEF Finish
<1>13. ASSUME NEW T \in SUBSET Task, Crash(T) PROVE IInv'
  BY <1>13, DropKeeps DEF Crash
<1>14. ASSUME NEW i \in Inode, InfoAges(i) PROVE IInv'
  BY <1>14 DEF IInv, LockInv, TypeOK, GuardsOwnFlock, Staged, InfoAges
<1>15. CASE UNCHANGED vars
  BY <1>15 DEF IInv, LockInv, TypeOK, GuardsOwnFlock, Staged, vars
<1> QED
  BY <1>1, <1>2, <1>3, <1>4, <1>5, <1>6, <1>7, <1>8, <1>9, <1>10, <1>11, <1>12, <1>13,
     <1>14, <1>15
  DEF Next, AcquireStep

\* For any number of calls: a guard owns the flock of the file it has, kept or
\* new, whatever other calls unlink, wait for and drop (auth/manager/lock.rs).
THEOREM LockCorrect == Spec => []LockInv
<1>1. Spec => []IInv
  BY InitIInv, IInvStep, PTL DEF Spec
<1> QED BY <1>1, PTL DEF IInv
-----------------------------------------------------------------------------
\* What the users of the lock see of a step: a step of AuthFileLock, or nothing.
Seen == [Promise!LockNext]_(Promise!lockVars)

\* A step that changes neither who holds the live lock nor what has come of a
\* request is not seen.
LEMMA NotSeen ==
    ASSUME Live' = Live, Want' = Want
    PROVE  Seen
BY DEF Seen, Promise!lockVars

\* `want` of a call depends on where this call is, and on nothing else.
LEMMA WantOfOne ==
    ASSUME NEW t \in Task, NEW a, NEW r, IInv, IInv',
           at' = [at EXCEPT ![t] = a], round' = [round EXCEPT ![t] = r]
    PROVE  /\ Want'[t] = Want[t] => Want' = Want
           /\ Want' = [Want EXCEPT ![t] = Want'[t]]
<1>1. \A u \in Task : u # t => at'[u] = at[u] /\ round'[u] = round[u]
  BY DEF IInv, LockInv, TypeOK
<1>2. \A u \in Task : u # t => Want'[u] = Want[u]
  BY <1>1 DEF Want
<1>3. Want = [u \in Task |-> Want[u]] /\ Want' = [u \in Task |-> Want'[u]]
  BY DEF Want
<1>4. Want'[t] = Want[t] => \A u \in Task : Want'[u] = Want[u]
  BY <1>2
<1>5. Want'[t] = Want[t] => Want' = Want
  BY <1>3, <1>4, Zenon
<1>6. Want' = [Want EXCEPT ![t] = Want'[t]]
  <2> DEFINE before == Want  after == Want'
  <2>1. before = [u \in Task |-> before[u]] /\ after = [u \in Task |-> after[u]]
    BY <1>3
  <2>2. \A u \in Task : u # t => after[u] = before[u]
    BY <1>2
  <2> HIDE DEF before, after
  <2>3. after = [before EXCEPT ![t] = after[t]]
    BY <2>1, <2>2
  <2> QED BY <2>3 DEF before, after
<1> QED BY <1>5, <1>6

\* A failed attempt leaves the live lock with its holder, and its caller waiting
\* or told that it failed.
LEMMA GoOnSeen ==
    ASSUME IInv, IInv', NEW t \in Task, NEW r \in 1..5, GoOn(t, r),
           at[t] \in {"open", "flock", "unlink", "removed", "stat"},
           r = 5 \/ round[t] # 0
    PROVE  Seen
<1>1. Live' = Live
  <2>1. CASE path = 0
    BY <2>1 DEF GoOn, Live
  <2>2. CASE path # 0
    <3>1. path' = path /\ keep' = keep /\ path \in Inode
      BY <2>2, InodeAssumption DEF GoOn, IInv, LockInv, TypeOK
    <3>2. \A u \in Task : HoldsAt(u, path)' = HoldsAt(u, path)
      BY <3>1 DEF GoOn, HoldsAt, IInv, LockInv, TypeOK
    <3>3. owner'[path] = IF path = fd[t] /\ path # keep[t] /\ owner[path] = t
                         THEN NoTask ELSE owner[path]
      BY <3>1 DEF GoOn, Closed
    <3>4. owner[path] \in Task \cup {NoTask}
      BY <3>1 DEF IInv, LockInv, TypeOK
    <3>5. path # keep[t] => ~HoldsAt(t, path)
      BY DEF HoldsAt
    <3> QED BY <2>2, <3>1, <3>2, <3>3, <3>4, <3>5 DEF Live
  <2> QED BY <2>1, <2>2
<1>2. /\ at' = [at EXCEPT ![t] = IF r = 5 THEN "failed" ELSE "open"]
      /\ round' = [round EXCEPT ![t] = IF r # 5 THEN r ELSE IF round[t] = 0 THEN 0 ELSE 1]
  BY DEF GoOn
<1>3. /\ at'[t] = IF r = 5 THEN "failed" ELSE "open"
      /\ round'[t] = IF r # 5 THEN r ELSE IF round[t] = 0 THEN 0 ELSE 1
  BY <1>2 DEF IInv, LockInv, TypeOK
<1>4. Want' = [Want EXCEPT ![t] = Want'[t]] /\ (Want'[t] = Want[t] => Want' = Want)
  BY <1>2, WantOfOne
<1>5. CASE round[t] = 0
  <2>1. Want'[t] = Want[t]
    BY <1>3, <1>5 DEF Want
  <2> QED BY <1>1, <1>4, <2>1, NotSeen
<1>6. CASE round[t] # 0 /\ r # 5
  <2>1. Want[t] = "wait" /\ Want'[t] = "wait"
    BY <1>3, <1>6 DEF Want
  <2> QED BY <1>1, <1>4, <2>1, NotSeen
<1>7. CASE round[t] # 0 /\ r = 5
  <2>1. Want[t] = "wait" /\ Want'[t] = "failed"
    BY <1>3, <1>7 DEF Want
  <2>2. Promise!Timeout(t)
    BY <1>1, <1>4, <2>1 DEF Promise!Timeout
  <2> QED BY <2>2 DEF Seen, Promise!LockNext
<1> QED BY <1>5, <1>6, <1>7

\* Guards that go out of scope release the live lock if it is theirs.
LEMMA DropSeen ==
    ASSUME IInv, NEW T \in SUBSET Task, DropAll(T)
    PROVE  Seen
<1>1. Live' = IF Live \in T THEN NoTask ELSE Live
  <2>1. CASE path = 0
    BY <2>1, TaskAssumption DEF DropAll, Live
  <2>2. CASE path # 0
    <3>1. path' = path /\ path \in Inode
      BY <2>2, InodeAssumption DEF DropAll, IInv, LockInv, TypeOK
    <3>2. owner'[path] = IF owner[path] \in T THEN NoTask ELSE owner[path]
      BY <3>1 DEF DropAll
    <3>3. \A u \in Task : u \notin T => HoldsAt(u, path)' = HoldsAt(u, path)
      BY <3>1 DEF DropAll, HoldsAt
    <3>4. owner[path] \in Task \cup {NoTask} /\ NoTask \notin T
      BY <3>1, TaskAssumption DEF IInv, LockInv, TypeOK
    <3>5. CASE owner[path] \in T
      BY <2>2, <3>1, <3>2, <3>4, <3>5 DEF Live
    <3>6. CASE owner[path] \notin T
      BY <2>2, <3>1, <3>2, <3>3, <3>4, <3>6 DEF Live
    <3> QED BY <3>5, <3>6
  <2> QED BY <2>1, <2>2
<1>2. Want' = [t \in Task |-> IF t \in T THEN "out" ELSE Want[t]]
  <2>1. \A t \in Task : Want'[t] = IF t \in T THEN "out" ELSE Want[t]
    BY DEF DropAll, Want
  <2> QED BY <2>1 DEF Want
<1>3. Promise!DropAll(T)
  BY <1>1, <1>2 DEF Promise!DropAll, Promise!Released
<1> QED BY <1>3 DEF Seen, Promise!LockNext

\* Every step is one its users may see, or one they do not.
LEMMA StepSeen ==
    ASSUME IInv, IInv', [Next]_vars
    PROVE  Seen
<1>0. /\ path \in 0..MaxInode /\ \A t \in Task : round[t] \in 0..4 /\ fd[t] \in 0..MaxInode
      /\ path # 0 => owner[path] \in Task \cup {NoTask} /\ path \in Inode
  BY InodeAssumption DEF IInv, LockInv, TypeOK
<1>1. ASSUME NEW t \in Task, Request(t) PROVE Seen
  <2>1. Live' = Live
    BY <1>1 DEF Request, Live, HoldsAt, IInv, LockInv, TypeOK
  <2>2. PICK r : at' = [at EXCEPT ![t] = "open"] /\ round' = [round EXCEPT ![t] = r]
                 /\ r \in {0, round[t]} /\ at[t] = "out"
    <3>1. round = [round EXCEPT ![t] = round[t]]
      BY DEF IInv, LockInv, TypeOK
    <3> QED BY <1>1, <3>1 DEF Request
  <2>3. at'[t] = "open" /\ round'[t] = r
    BY <2>2 DEF IInv, LockInv, TypeOK
  <2>4. Want' = [Want EXCEPT ![t] = Want'[t]] /\ (Want'[t] = Want[t] => Want' = Want)
    BY <2>2, WantOfOne
  <2>5. Want[t] = "out" /\ Want'[t] = IF r = 0 THEN "out" ELSE "wait"
    BY <2>2, <2>3 DEF Want
  <2>6. CASE r = 0
    BY <2>1, <2>4, <2>5, <2>6, NotSeen
  <2>7. CASE r # 0
    <3>1. Promise!Request(t, TRUE)
      BY <2>1, <2>4, <2>5, <2>7 DEF Promise!Request
    <3> QED BY <3>1 DEF Seen, Promise!LockNext
  <2> QED BY <2>6, <2>7
<1>2. ASSUME NEW t \in Task, Open(t) PROVE Seen
  <2>1. /\ at[t] = "open" /\ at' = [at EXCEPT ![t] = "flock"] /\ round' = round
        /\ owner' = owner /\ keep' = keep /\ fd' = [fd EXCEPT ![t] = path']
        /\ path # 0 => path' = path
        /\ path = 0 => path' \in Inode /\ ~Exists(path')
    BY <1>2, FreshExists DEF Open
  <2>2. Live' = Live
    <3>1. CASE path # 0
      <4>1. \A u \in Task : /\ fd[u] = path /\ at[u] = "in" => u # t
                            /\ u # t => fd'[u] = fd[u] /\ at'[u] = at[u]
        BY <2>1 DEF IInv, LockInv, TypeOK
      <4>2. at'[t] = "flock" /\ path' = path
        BY <2>1, <3>1 DEF IInv, LockInv, TypeOK
      <4>3. \A u \in Task : HoldsAt(u, path)' <=> HoldsAt(u, path)
        BY <2>1, <4>1, <4>2 DEF HoldsAt
      <4> QED BY <1>0, <2>1, <3>1, <4>2, <4>3 DEF Live
    <3>2. CASE path = 0
      <4>1. \A u \in Task : keep[u] # path' /\ fd[u] # path'
        BY <2>1, <3>2 DEF Exists
      <4>2. \A u \in Task : u # t => fd'[u] = fd[u]
        BY <2>1 DEF IInv, LockInv, TypeOK
      <4>3. at'[t] = "flock"
        BY <2>1 DEF IInv, LockInv, TypeOK
      <4>4. \A u \in Task : ~(keep'[u] = path' \/ (at'[u] = "in" /\ fd'[u] = path'))
        BY <2>1, <4>1, <4>2, <4>3
      <4>5. owner'[path'] \in Task \cup {NoTask}
        BY <2>1, <3>2 DEF IInv, LockInv, TypeOK
      <4>6. Live' = NoTask
        BY <4>4, <4>5 DEF Live, HoldsAt
      <4> QED BY <3>2, <4>6 DEF Live
    <3> QED BY <3>1, <3>2
  <2>3. Want' = Want
    BY <2>1 DEF Want, IInv, LockInv, TypeOK
  <2> QED BY <2>2, <2>3, NotSeen
<1>3. ASSUME NEW t \in Task, OpenFails(t) PROVE Seen
  BY <1>3, GoOnSeen DEF OpenFails
<1>4. ASSUME NEW t \in Task, Flock(t) PROVE Seen
  <2>1. Live' = Live
    BY <1>4, TaskAssumption DEF Flock, Live, HoldsAt, IInv, LockInv, TypeOK, GuardsOwnFlock
  <2>2. Want' = Want
    BY <1>4 DEF Flock, Want, IInv, LockInv, TypeOK
  <2> QED BY <2>1, <2>2, NotSeen
<1>5. ASSUME NEW t \in Task, Refused(t) PROVE Seen
  <2>1. CASE GoOn(t, AfterBusy(round[t])) /\ at[t] = "flock"
    BY <1>0, <2>1, GoOnSeen, RoundsAfter
  <2>2. CASE /\ at[t] = "flock" /\ at' = [at EXCEPT ![t] = "unlink"]
             /\ UNCHANGED <<path, old, owner, round, fd, keep>>
    <3>1. Live' = Live
      BY <2>2 DEF Live, HoldsAt, IInv, LockInv, TypeOK
    <3>2. Want' = Want
      BY <2>2 DEF Want, IInv, LockInv, TypeOK
    <3> QED BY <3>1, <3>2, NotSeen
  <2> QED BY <1>5, <2>1, <2>2 DEF Refused
<1>6. ASSUME NEW t \in Task, Unlink(t) PROVE Seen
  <2>1. CASE GoOn(t, AfterBusy(round[t])) /\ at[t] = "unlink"
    BY <1>0, <2>1, GoOnSeen, RoundsAfter
  <2>2. CASE /\ at[t] = "unlink" /\ at' = [at EXCEPT ![t] = "removed"]
             /\ path' = 0 /\ UNCHANGED <<owner, round, fd, keep>>
    <3>1. Live' = NoTask
      BY <2>2 DEF Live
    <3>2. Want' = Want
      BY <2>2 DEF Want, IInv, LockInv, TypeOK
    <3>3. Live = NoTask \/ Promise!Break
      BY <3>1, <3>2 DEF Promise!Break
    <3> QED BY <3>1, <3>2, <3>3, NotSeen DEF Seen, Promise!LockNext
  <2> QED BY <1>6, <2>1, <2>2 DEF Unlink
<1>7. ASSUME NEW t \in Task, Removed(t) PROVE Seen
  BY <1>0, <1>7, GoOnSeen, RoundsAfter DEF Removed
<1>8. ASSUME NEW t \in Task, Deadline(t) PROVE Seen
  BY <1>8, GoOnSeen DEF Deadline
<1>9. ASSUME NEW t \in Task, WriteInfo(t) PROVE Seen
  <2>1. Live' = Live
    BY <1>9 DEF WriteInfo, Live, HoldsAt, IInv, LockInv, TypeOK
  <2>2. Want' = Want
    BY <1>9 DEF WriteInfo, Want, IInv, LockInv, TypeOK
  <2> QED BY <2>1, <2>2, NotSeen
<1>10. ASSUME NEW t \in Task, Stat(t) PROVE Seen
  <2>1. CASE GoOn(t, AfterUnlink(round[t])) /\ at[t] = "stat"
    <3>1. round[t] # 0
      BY <2>1 DEF IInv, Staged
    <3> QED BY <1>0, <2>1, <3>1, GoOnSeen, RoundsAfter
  <2>2. CASE /\ at[t] = "stat" /\ SameInode(t) /\ at' = [at EXCEPT ![t] = "in"]
             /\ round' = [round EXCEPT ![t] = 1]
             /\ UNCHANGED <<path, old, owner, fd, keep>>
    <3>1. /\ round[t] # 0 /\ fd[t] # 0 /\ owner[fd[t]] = t /\ fd[t] # keep[t]
          /\ fd[t] = path
      BY <2>2 DEF IInv, LockInv, Staged, GuardsOwnFlock, SameInode
    <3>2. Live = NoTask /\ Live' = t
      BY <2>2, <3>1, TaskAssumption DEF Live, HoldsAt, IInv, LockInv, TypeOK
    <3>3. at'[t] = "in" /\ round'[t] = 1
      BY <2>2 DEF IInv, LockInv, TypeOK
    <3>4. Want[t] = "wait" /\ Want'[t] = "in"
      BY <2>2, <3>1, <3>3 DEF Want
    <3>5. Want' = [Want EXCEPT ![t] = Want'[t]]
      BY <2>2, WantOfOne
    <3>6. Promise!Grant(t)
      BY <3>2, <3>4, <3>5 DEF Promise!Grant
    <3> QED BY <3>6 DEF Seen, Promise!LockNext
  <2> QED BY <1>10, <2>1, <2>2 DEF Stat
<1>11. ASSUME NEW t \in Task, KeepGuard(t) PROVE Seen
  <2>1. Live' = Live
    BY <1>11 DEF KeepGuard, Live, HoldsAt, IInv, LockInv, TypeOK, GuardsOwnFlock
  <2>2. round = [round EXCEPT ![t] = round[t]] /\ at[t] = "in" /\ round[t] # 0
        /\ at' = [at EXCEPT ![t] = "out"] /\ round' = round
    BY <1>11 DEF KeepGuard, IInv, LockInv, TypeOK
  <2>3. Want' = [Want EXCEPT ![t] = Want'[t]]
    BY <2>2, WantOfOne
  <2>4. Want'[t] = "out"
    BY <2>2 DEF Want, IInv, LockInv, TypeOK
  <2>5. Promise!KeepGuard(t)
    BY <2>1, <2>3, <2>4 DEF Promise!KeepGuard
  <2> QED BY <2>5 DEF Seen, Promise!LockNext
<1>12. ASSUME NEW t \in Task, Finish(t) PROVE Seen
  BY <1>12, DropSeen DEF Finish
<1>13. ASSUME NEW T \in SUBSET Task, Crash(T) PROVE Seen
  BY <1>13, DropSeen DEF Crash
<1>14. ASSUME NEW i \in Inode, InfoAges(i) PROVE Seen
  <2>1. Live' = Live /\ Want' = Want
    BY <1>14 DEF InfoAges, Live, HoldsAt, Want
  <2> QED BY <2>1, NotSeen
<1>15. CASE UNCHANGED vars
  <2>1. Live' = Live /\ Want' = Want
    BY <1>15 DEF vars, Live, HoldsAt, Want
  <2> QED BY <2>1, NotSeen
<1> QED
  BY <1>1, <1>2, <1>3, <1>4, <1>5, <1>6, <1>7, <1>8, <1>9, <1>10, <1>11, <1>12, <1>13,
     <1>14, <1>15
  DEF Next, AcquireStep

\* For any number of calls and processes: what lock.rs does, system call by
\* system call, with unlinks by waiters and crashes at any moment, is what
\* AuthFileLock promises to refresh_chain and the other users of the lock.
THEOREM LockRefines == Spec => KeepsPromise
<1>1. Init => Promise!LockInit
  BY DEF Init, Promise!LockInit, Live, Want
<1>2. Spec => []IInv
  BY InitIInv, IInvStep, PTL DEF Spec
<1>3. IInv /\ IInv' /\ [Next]_vars => [Promise!LockNext]_(Promise!lockVars)
  BY StepSeen DEF Seen
<1> QED BY <1>1, <1>2, <1>3, PTL DEF Spec, KeepsPromise, Promise!LockSpec
=============================================================================
