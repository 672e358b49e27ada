----------------------------- MODULE LeaderProofs -----------------------------
(***************************************************************************)
(* Proofs about Leader: its types, that two leaders lead at once only      *)
(* after the lock file was unlinked under another process, and that the    *)
(* holder of the path's lock file never sees a live leader in it.          *)
(*                                                                         *)
(* The inductive invariant says what a process's place tells of the file   *)
(* it has open and of its lock (Places), that a flock has one holder       *)
(* (OneHolder), that a live leader's pid is in the inode it has locked and *)
(* in no other (PidInLocked), and that without tearing every file that is  *)
(* open, but those about to be closed, is the one the path leads to        *)
(* (OneFile).                                                              *)
(***************************************************************************)
EXTENDS Leader, TLAPS, FiniteSetTheorems

\* Places of a process that has no lock file open.
NoFile == {"none", "gone", "idle", "peek", "first", "lock", "wait", "late", "vacate",
           "own", "done", "start", "reopen"}
\* Places of a client that holds the flock.
Holding == {"holds", "adopt", "evict", "evicted", "spawn", "spawned"}

Places ==
    \A p \in Proc :
        /\ at[p] \in NoFile => fd[p] = 0 /\ p \notin locked
        /\ at[p] \in Holding => p \in locked
        /\ at[p] \in {"clean", "remove", "bind", "bound"} /\ p \notin locked => fd[p] = 0
        /\ at[p] \in {"flock", "try", "poll"} => fd[p] # 0 /\ p \notin locked
        /\ at[p] \in {"vacate", "evict"} => conn[p] \in Leader

OneHolder ==
    /\ \A p \in locked : fd[p] # 0
    /\ \A p, q \in locked : fd[p] = fd[q] => p = q

PidInLocked ==
    \A l \in Leader, i \in Inode :
        at[l] # "gone" /\ pid[i] = l => l \in locked /\ fd[l] = i

OneFile ==
    ~torn => \A p \in Proc : fd[p] # 0 /\ at[p] \notin {"unsock", "close"} => fd[p] = path

IInv == Places /\ OneHolder /\ PidInLocked /\ OneFile
-----------------------------------------------------------------------------
\* When there is no lock file, some inode is free: the processes have at most
\* one open each, and there are more inodes than processes.
LEMMA FreshIsInode ==
    ASSUME TypeOK, path = 0
    PROVE  FreshInode \in Inode /\ ~Exists(FreshInode)
<1>1. SUFFICES \E i \in Inode : ~Exists(i)
  BY DEF FreshInode
<1>2. SUFFICES ASSUME \A i \in Inode : Exists(i)
               PROVE  FALSE
  OBVIOUS
<1> DEFINE R == {fd[p] : p \in Proc}
<1>3. Inode \subseteq R
  BY <1>2 DEF Exists, Inode
<1>4. fd \in Surjection(Proc, R)
  <2>1. fd \in [Proc -> R]
    BY DEF TypeOK
  <2>2. \A t \in R : \E p \in Proc : fd[p] = t
    OBVIOUS
  <2> QED BY <2>1, <2>2 DEF Surjection
<1>5. IsFiniteSet(R) /\ Cardinality(R) <= Cardinality(Proc)
  BY <1>4, BoundAssumption, FS_Surjection
<1>6. Cardinality(Inode) <= Cardinality(R)
  BY <1>3, <1>5, FS_Subset
<1>7. Cardinality(Inode) = MaxInode
  <2>1. 1 \in Int /\ MaxInode \in Int /\ 1 <= MaxInode
    BY BoundAssumption, FS_CardinalityType
  <2> QED BY <2>1, FS_Interval DEF Inode
<1>8. Cardinality(Proc) \in Nat /\ Cardinality(R) \in Nat
  BY <1>5, BoundAssumption, FS_CardinalityType
<1> QED BY <1>5, <1>6, <1>7, <1>8, BoundAssumption

\* Nothing runs and no file is there: the types hold.
LEMMA InitTyped == Init => TypeOK
<1> SUFFICES ASSUME Init PROVE TypeOK
  OBVIOUS
<1>1. 0 \in 0..MaxInode /\ 0 \in 0..MaxFaults
  BY BoundAssumption
<1>2. /\ at \in [Proc -> ClientPlaces \cup LeaderPlaces]
      /\ \A c \in Client : at[c] \in ClientPlaces
      /\ \A l \in Leader : at[l] \in LeaderPlaces
  BY ProcAssumption DEF Init, Proc, ClientPlaces, LeaderPlaces
<1> QED BY <1>1, <1>2 DEF Init, TypeOK

FilesTyped == path \in 0..MaxInode /\ pid \in [Inode -> Leader \cup {NoOne}]
              /\ fd \in [Proc -> 0..MaxInode] /\ locked \subseteq Proc

\* Closing a lock file keeps the types of the files.
LEMMA CloseTyped ==
    ASSUME TypeOK, NEW p \in Proc, CloseLock(p)
    PROVE  FilesTyped'
BY BoundAssumption DEF TypeOK, FilesTyped, CloseLock, Forget, Exists

\* So does taking the flock, a leader's pid written with it.
LEMMA TakeTyped ==
    ASSUME TypeOK, NEW p \in Proc, TakeLock(p)
    PROVE  FilesTyped'
BY DEF TypeOK, FilesTyped, TakeLock

\* Every step keeps the types; a client that asks a leader to vacate is
\* connected to one.
LEMMA TypeStep ==
    ASSUME TypeOK, IInv, [Next]_vars
    PROVE  TypeOK'
<1> USE ProcAssumption, VersionAssumption, BoundAssumption
<1>1. ASSUME NEW c \in Client, Peek(c) PROVE TypeOK'
  <2>1. PICK place \in {"peek", "lock", "first"} : at' = [at EXCEPT ![c] = place]
    BY <1>1 DEF Peek, Go
  <2>2. UNCHANGED <<files, sock, conn, listening, target, version, vacating, faults, torn>>
    BY <1>1 DEF Peek, ClientFrame
  <2> QED BY <2>1, <2>2 DEF TypeOK, Proc, ClientPlaces, files
<1>2. ASSUME NEW c \in Client, Connect(c) PROVE TypeOK'
  BY <1>2 DEF TypeOK, Proc, Inode, ClientPlaces, LeaderPlaces, Connect, ClientFrame, files
<1>3. ASSUME NEW c \in Client, ConnectFails(c) PROVE TypeOK'
  <2>1. PICK place \in {"lock", "spawn", "late", "idle"} : at' = [at EXCEPT ![c] = place]
    BY <1>3 DEF ConnectFails, Go
  <2>2. /\ conn' \in [Client -> Leader \cup {NoOne}]
        /\ UNCHANGED <<files, sock, listening, target, version, vacating, faults, torn>>
    BY <1>3 DEF ConnectFails, ClientFrame, TypeOK
  <2> QED BY <2>1, <2>2 DEF TypeOK, Proc, ClientPlaces, files
<1>4. ASSUME NEW c \in Client, Registered(c) PROVE TypeOK'
  <2>1. FilesTyped'
    BY <1>4, CloseTyped DEF TypeOK, FilesTyped, Proc, Registered, files
  <2> QED BY <1>4, <2>1
     DEF TypeOK, FilesTyped, Proc, ClientPlaces, Registered, ClientFrame, Go
<1>5. ASSUME NEW c \in Client, AskToVacate(c) PROVE TypeOK'
  <2>1. conn[c] \in Leader
    BY <1>5 DEF IInv, Places, Proc, AskToVacate
  <2>2. ReadPid \in Leader \cup {NoOne}
    BY DEF TypeOK, Inode, ReadPid
  <2> QED BY <1>5, <2>1, <2>2 DEF TypeOK, Proc, ClientPlaces, AskToVacate, Go, files
<1>6. ASSUME NEW c \in Client, SignalToVacate(c) PROVE TypeOK'
  BY <1>6
     DEF TypeOK, Proc, Inode, ClientPlaces, LeaderPlaces, SignalToVacate, Killed, Forget,
       Exists, ReadPid, Alive
<1>7. ASSUME NEW c \in Client, OpenToSpawn(c) PROVE TypeOK'
  BY <1>7, FreshIsInode
     DEF TypeOK, Proc, Inode, ClientPlaces, LeaderPlaces, OpenToSpawn, OpenLock,
       ClientFrame, Go
<1>8. ASSUME NEW c \in Client, TryToSpawn(c) PROVE TypeOK'
  <2>1. FilesTyped'
    BY <1>8, CloseTyped, TakeTyped DEF Proc, TryToSpawn
  <2>2. PICK place \in {"holds", "wait"} : at' = [at EXCEPT ![c] = place]
    BY <1>8 DEF TryToSpawn, Go
  <2>3. UNCHANGED <<sock, conn, listening, target, version, vacating, faults, torn>>
    BY <1>8 DEF TryToSpawn, ClientFrame
  <2> QED BY <2>1, <2>2, <2>3 DEF TypeOK, FilesTyped, Proc, ClientPlaces
<1>9. ASSUME NEW c \in Client, HolderChecks(c) PROVE TypeOK'
  BY <1>9
     DEF TypeOK, Proc, Inode, ClientPlaces, LeaderPlaces, HolderChecks, ClientFrame, Go,
       files
<1>10. ASSUME NEW c \in Client, Spawn(c) PROVE TypeOK'
  <2>1. UNCHANGED <<files, listening, conn, target, vacating, faults, torn>> /\ sock' = NoOne
    BY <1>10 DEF Spawn
  <2>2. CASE at' = [at EXCEPT ![c] = "unlink"] /\ version' = version
    BY <2>1, <2>2 DEF TypeOK, Proc, ClientPlaces, files
  <2>3. ASSUME NEW l \in Leader,
               at' = [at EXCEPT ![c] = "spawned", ![l] = "start"],
               version' = [version EXCEPT ![l] = Version[c]]
        PROVE  TypeOK'
    <3>1. version' \in [Leader -> Build \cup {0}]
      BY <2>3 DEF TypeOK
    <3>2. /\ at' \in [Proc -> ClientPlaces \cup LeaderPlaces]
          /\ \A d \in Client : at'[d] \in ClientPlaces
          /\ \A k \in Leader : at'[k] \in LeaderPlaces
      BY <2>3 DEF TypeOK, Proc, ClientPlaces, LeaderPlaces
    <3> QED BY <2>1, <3>1, <3>2 DEF TypeOK, files
  <2> QED BY <1>10, <2>2, <2>3 DEF Spawn, Go
<1>11. ASSUME NEW c \in Client, HandOver(c) PROVE TypeOK'
  BY <1>11
     DEF TypeOK, Proc, Inode, ClientPlaces, LeaderPlaces, HandOver, CloseLock, Forget,
       Exists, ClientFrame, Go
<1>12. ASSUME NEW c \in Client, TimesOut(c) PROVE TypeOK'
  <2>1. PICK place \in {"unlink", "lock", "idle"} : at' = [at EXCEPT ![c] = place]
    BY <1>12 DEF TimesOut, Go
  <2>2. UNCHANGED <<files, sock, conn, listening, target, version, vacating, faults, torn>>
    BY <1>12 DEF TimesOut, ClientFrame
  <2> QED BY <2>1, <2>2 DEF TypeOK, Proc, ClientPlaces, files
<1>13. ASSUME NEW c \in Client, Leave(c) PROVE TypeOK'
  BY <1>13
     DEF TypeOK, Proc, Inode, ClientPlaces, LeaderPlaces, Leave, ClientFrame, Go, files
<1>14. ASSUME NEW l \in Leader, StartByHand(l) PROVE TypeOK'
  BY <1>14
     DEF TypeOK, Proc, Inode, ClientPlaces, LeaderPlaces, StartByHand, Fault, Go, files
<1>15. ASSUME NEW l \in Leader, OpenFirst(l) PROVE TypeOK'
  BY <1>15, FreshIsInode
     DEF TypeOK, Proc, Inode, ClientPlaces, LeaderPlaces, OpenFirst, OpenLock,
       LeaderFrame, Go
<1>16. ASSUME NEW l \in Leader, TryFirst(l) PROVE TypeOK'
  <2>1. FilesTyped'
    BY <1>16, CloseTyped, TakeTyped DEF Proc, TryFirst
  <2> QED BY <1>16, <2>1
     DEF TypeOK, FilesTyped, Proc, ClientPlaces, LeaderPlaces, TryFirst, LeaderFrame, Go
<1>17. ASSUME NEW l \in Leader, CleanSocket(l) PROVE TypeOK'
  <2>1. PICK place \in {"remove", "bind"} : at' = [at EXCEPT ![l] = place]
    BY <1>17 DEF CleanSocket, Go
  <2>2. /\ UNCHANGED <<files, conn, listening, target, version, vacating, faults, torn>>
        /\ sock' = NoOne
    BY <1>17 DEF CleanSocket, LeaderFrame
  <2> QED BY <2>1, <2>2 DEF TypeOK, Proc, LeaderPlaces, files
<1>18. ASSUME NEW l \in Leader, Bind(l) PROVE TypeOK'
  BY <1>18 DEF TypeOK, Proc, Inode, ClientPlaces, LeaderPlaces, Bind, LeaderFrame, Go, files
<1>19. ASSUME NEW l \in Leader, SocketReady(l) PROVE TypeOK'
  BY <1>19
     DEF TypeOK, Proc, Inode, ClientPlaces, LeaderPlaces, SocketReady, LeaderFrame, Go,
       files
<1>20. ASSUME NEW l \in Leader, OpenForHandoff(l) PROVE TypeOK'
  BY <1>20, FreshIsInode
     DEF TypeOK, Proc, Inode, ClientPlaces, LeaderPlaces, OpenForHandoff, OpenLock,
       LeaderFrame, Go
<1>21. ASSUME NEW l \in Leader, PollForHandoff(l) PROVE TypeOK'
  BY <1>21
     DEF TypeOK, Proc, Inode, ClientPlaces, LeaderPlaces, PollForHandoff, TakeLock, Held,
       LeaderFrame, Go
<1>22. ASSUME NEW l \in Leader, GiveUp(l) PROVE TypeOK'
  <2>1. FilesTyped'
    BY <1>22, CloseTyped DEF TypeOK, FilesTyped, Proc, GiveUp, files
  <2> QED BY <1>22, <2>1 DEF TypeOK, FilesTyped, Proc, LeaderPlaces, GiveUp, LeaderFrame, Go
<1>23. ASSUME NEW l \in Leader, BecomeReady(l) PROVE TypeOK'
  BY <1>23
     DEF TypeOK, Proc, Inode, ClientPlaces, LeaderPlaces, BecomeReady, LeaderFrame, Go,
       files
<1>24. ASSUME NEW l \in Leader, Shutdown(l) PROVE TypeOK'
  BY <1>24 DEF TypeOK, Proc, Inode, ClientPlaces, LeaderPlaces, Shutdown, Fault, Go, files
<1>25. ASSUME NEW l \in Leader, ServerExits(l) PROVE TypeOK'
  BY <1>25
     DEF TypeOK, Proc, Inode, ClientPlaces, LeaderPlaces, ServerExits, LeaderFrame, Go,
       files
<1>26. ASSUME NEW p \in Proc, Unlink(p) PROVE TypeOK'
  BY <1>26 DEF TypeOK, Proc, Inode, ClientPlaces, LeaderPlaces, Unlink, Forget, Exists, Go
<1>27. ASSUME NEW p \in Proc, Unsock(p) PROVE TypeOK'
  BY <1>27 DEF TypeOK, Proc, Inode, ClientPlaces, LeaderPlaces, Unsock, Go, files
<1>28. ASSUME NEW p \in Proc, Close(p) PROVE TypeOK'
  BY <1>28
     DEF TypeOK, Proc, Inode, ClientPlaces, LeaderPlaces, Close, CloseLock, Forget,
       Exists, Go
<1>29. ASSUME NEW p \in Proc, Kill(p) PROVE TypeOK'
  BY <1>29
     DEF TypeOK, Proc, Inode, ClientPlaces, LeaderPlaces, Kill, Killed, Fault, Forget,
       Exists, Go, Alive
<1>30. CASE UNCHANGED vars
  BY <1>30 DEF TypeOK, Proc, Inode, ClientPlaces, LeaderPlaces, vars, files
<1> QED
  BY <1>1, <1>2, <1>3, <1>4, <1>5, <1>6, <1>7, <1>8, <1>9, <1>10, <1>11, <1>12, <1>13,
     <1>14, <1>15, <1>16, <1>17, <1>18, <1>19, <1>20, <1>21, <1>22, <1>23, <1>24, <1>25,
     <1>26, <1>27, <1>28, <1>29, <1>30
  DEF Next, ClientStep, LeaderStep, DropLock

\* No step leaves a file open, or a lock, where Places says there is none.
LEMMA PlacesStep ==
    ASSUME TypeOK, IInv, [Next]_vars
    PROVE  Places'
<1> USE ProcAssumption
<1>1. ASSUME NEW c \in Client, Peek(c) PROVE Places'
  BY <1>1
     DEF TypeOK, IInv, Proc, Places, OneHolder, NoFile, Holding, Alive, Peek,
       ClientFrame, Go, files
<1>2. ASSUME NEW c \in Client, Connect(c) PROVE Places'
  BY <1>2
     DEF TypeOK, IInv, Proc, Places, OneHolder, NoFile, Holding, Alive, Connect,
       ClientFrame, files
<1>3. ASSUME NEW c \in Client, ConnectFails(c) PROVE Places'
  BY <1>3
     DEF TypeOK, IInv, Proc, Places, OneHolder, NoFile, Holding, Alive, ConnectFails,
       ClientFrame, Go, files
<1>4. ASSUME NEW c \in Client, Registered(c) PROVE Places'
  <2>1. conn[c] \in Leader
    BY <1>4 DEF TypeOK, Registered
  <2>2. CASE at[c] = "adopt" /\ CloseLock(c) /\ Go(c, "done") /\ UNCHANGED conn
    BY <2>2 DEF TypeOK, IInv, Proc, Places, NoFile, Holding, CloseLock, Go
  <2>3. CASE at[c] = "adopt" /\ UNCHANGED files /\ Go(c, "evict") /\ UNCHANGED conn
    BY <2>1, <2>3 DEF TypeOK, IInv, Proc, Places, NoFile, Holding, Go, files
  <2>4. CASE at[c] \in NoFile /\ UNCHANGED files /\ Go(c, "vacate") /\ UNCHANGED conn
    BY <2>1, <2>4 DEF TypeOK, IInv, Proc, Places, NoFile, Holding, Go, files
  <2>5. CASE /\ at[c] \in NoFile /\ UNCHANGED files
             /\ \E place \in {"done", "lock"} : Go(c, place)
             /\ conn' \in {conn, [conn EXCEPT ![c] = NoOne]}
    <3>1. PICK place \in {"done", "lock"} : at' = [at EXCEPT ![c] = place]
      BY <2>5 DEF Go
    <3>2. \A q \in Client \ {c} : conn'[q] = conn[q]
      BY <2>5 DEF TypeOK
    <3>3. \A q \in Leader : at'[q] \notin {"vacate", "evict"}
      BY <3>1 DEF TypeOK, Proc, LeaderPlaces
    <3> QED BY <2>5, <3>1, <3>2, <3>3 DEF TypeOK, IInv, Proc, Places, NoFile, Holding, files
  <2> QED BY <1>4, <2>2, <2>3, <2>4, <2>5 DEF Registered, NoFile
<1>5. ASSUME NEW c \in Client, AskToVacate(c) PROVE Places'
  BY <1>5
     DEF TypeOK, IInv, Proc, Places, OneHolder, NoFile, Holding, Alive, AskToVacate, Go,
       files, ReadPid
<1>6. ASSUME NEW c \in Client, SignalToVacate(c) PROVE Places'
  BY <1>6
     DEF TypeOK, IInv, Proc, Places, OneHolder, NoFile, Holding, Alive, SignalToVacate,
       Killed, Forget, Exists, ReadPid, Alive
<1>7. ASSUME NEW c \in Client, OpenToSpawn(c) PROVE Places'
  BY <1>7, FreshIsInode
     DEF TypeOK, IInv, Proc, Places, NoFile, Holding, Inode, OpenToSpawn, OpenLock,
       ClientFrame, Go
<1>8. ASSUME NEW c \in Client, TryToSpawn(c) PROVE Places'
  BY <1>8
     DEF TypeOK, IInv, Proc, Places, OneHolder, NoFile, Holding, Alive, TryToSpawn,
       TakeLock, CloseLock, Held, Forget, Exists, ClientFrame, Go
<1>9. ASSUME NEW c \in Client, HolderChecks(c) PROVE Places'
  BY <1>9
     DEF TypeOK, IInv, Proc, Places, OneHolder, NoFile, Holding, Alive, HolderChecks,
       ClientFrame, Go, files
<1>10. ASSUME NEW c \in Client, Spawn(c) PROVE Places'
  BY <1>10
     DEF TypeOK, IInv, Proc, Places, OneHolder, NoFile, Holding, Alive, Spawn, Go, files
<1>11. ASSUME NEW c \in Client, HandOver(c) PROVE Places'
  BY <1>11
     DEF TypeOK, IInv, Proc, Places, OneHolder, NoFile, Holding, Alive, HandOver,
       CloseLock, Forget, Exists, ClientFrame, Go
<1>12. ASSUME NEW c \in Client, TimesOut(c) PROVE Places'
  BY <1>12
     DEF TypeOK, IInv, Proc, Places, OneHolder, NoFile, Holding, Alive, TimesOut,
       ClientFrame, Go, files
<1>13. ASSUME NEW c \in Client, Leave(c) PROVE Places'
  BY <1>13
     DEF TypeOK, IInv, Proc, Places, OneHolder, NoFile, Holding, Alive, Leave,
       ClientFrame, Go, files
<1>14. ASSUME NEW l \in Leader, StartByHand(l) PROVE Places'
  BY <1>14
     DEF TypeOK, IInv, Proc, Places, OneHolder, NoFile, Holding, Alive, StartByHand,
       Fault, Go, files
<1>15. ASSUME NEW l \in Leader, OpenFirst(l) PROVE Places'
  BY <1>15, FreshIsInode
     DEF TypeOK, IInv, Proc, Places, NoFile, Holding, Inode, OpenFirst, OpenLock,
       LeaderFrame, Go
<1>16. ASSUME NEW l \in Leader, TryFirst(l) PROVE Places'
  BY <1>16
     DEF TypeOK, IInv, Proc, Places, OneHolder, NoFile, Holding, Alive, TryFirst,
       TakeLock, CloseLock, Held, Forget, Exists, LeaderFrame, Go
<1>17. ASSUME NEW l \in Leader, CleanSocket(l) PROVE Places'
  BY <1>17
     DEF TypeOK, IInv, Proc, Places, OneHolder, NoFile, Holding, Alive, CleanSocket,
       LeaderFrame, Go, files
<1>18. ASSUME NEW l \in Leader, Bind(l) PROVE Places'
  BY <1>18
     DEF TypeOK, IInv, Proc, Places, OneHolder, NoFile, Holding, Alive, Bind,
       LeaderFrame, Go, files
<1>19. ASSUME NEW l \in Leader, SocketReady(l) PROVE Places'
  BY <1>19
     DEF TypeOK, IInv, Proc, Places, OneHolder, NoFile, Holding, Alive, SocketReady,
       LeaderFrame, Go, files
<1>20. ASSUME NEW l \in Leader, OpenForHandoff(l) PROVE Places'
  BY <1>20, FreshIsInode
     DEF TypeOK, IInv, Proc, Places, NoFile, Holding, Inode, OpenForHandoff, OpenLock,
       LeaderFrame, Go
<1>21. ASSUME NEW l \in Leader, PollForHandoff(l) PROVE Places'
  BY <1>21
     DEF TypeOK, IInv, Proc, Places, OneHolder, NoFile, Holding, Alive, PollForHandoff,
       TakeLock, Held, LeaderFrame, Go
<1>22. ASSUME NEW l \in Leader, GiveUp(l) PROVE Places'
  BY <1>22
     DEF TypeOK, IInv, Proc, Places, OneHolder, NoFile, Holding, Alive, GiveUp,
       CloseLock, Forget, Exists, LeaderFrame, Go, files
<1>23. ASSUME NEW l \in Leader, BecomeReady(l) PROVE Places'
  BY <1>23
     DEF TypeOK, IInv, Proc, Places, OneHolder, NoFile, Holding, Alive, BecomeReady,
       LeaderFrame, Go, files
<1>24. ASSUME NEW l \in Leader, Shutdown(l) PROVE Places'
  BY <1>24
     DEF TypeOK, IInv, Proc, Places, OneHolder, NoFile, Holding, Alive, Shutdown, Fault,
       Go, files
<1>25. ASSUME NEW l \in Leader, ServerExits(l) PROVE Places'
  BY <1>25
     DEF TypeOK, IInv, Proc, Places, OneHolder, NoFile, Holding, Alive, ServerExits,
       LeaderFrame, Go, files
<1>26. ASSUME NEW p \in Proc, Unlink(p) PROVE Places'
  BY <1>26
     DEF TypeOK, IInv, Proc, Places, OneHolder, NoFile, Holding, Alive, Unlink, Forget,
       Exists, Go
<1>27. ASSUME NEW p \in Proc, Unsock(p) PROVE Places'
  BY <1>27
     DEF TypeOK, IInv, Proc, Places, OneHolder, NoFile, Holding, Alive, Unsock, Go,
       files
<1>28. ASSUME NEW p \in Proc, Close(p) PROVE Places'
  BY <1>28
     DEF TypeOK, IInv, Proc, Places, OneHolder, NoFile, Holding, Alive, Close, CloseLock,
       Forget, Exists, Go
<1>29. ASSUME NEW p \in Proc, Kill(p) PROVE Places'
  <2>1. /\ fd' = [fd EXCEPT ![p] = 0]
        /\ locked' = locked \ {p}
    BY <1>29 DEF TypeOK, Kill, Killed
  <2>2. PICK place \in {"gone", "idle"} : at' = [at EXCEPT ![p] = place]
    BY <1>29 DEF Kill, Go
  <2>3. \A q \in Client \ {p} : conn'[q] = conn[q]
    BY <1>29 DEF Kill
  <2>4. \A q \in Leader : at'[q] \notin {"vacate", "evict"}
    BY <1>29, TypeStep DEF TypeOK, LeaderPlaces, Next
  <2> QED BY <2>1, <2>2, <2>3, <2>4 DEF TypeOK, IInv, Proc, Places, NoFile, Holding
<1>30. CASE UNCHANGED vars
  BY <1>30 DEF TypeOK, IInv, Proc, Places, OneHolder, NoFile, Holding, Alive, vars, files
<1> QED
  BY <1>1, <1>2, <1>3, <1>4, <1>5, <1>6, <1>7, <1>8, <1>9, <1>10, <1>11, <1>12, <1>13,
     <1>14, <1>15, <1>16, <1>17, <1>18, <1>19, <1>20, <1>21, <1>22, <1>23, <1>24, <1>25,
     <1>26, <1>27, <1>28, <1>29, <1>30
  DEF Next, ClientStep, LeaderStep, DropLock

\* No step makes a second holder of a flock.
LEMMA OneHolderStep ==
    ASSUME TypeOK, IInv, [Next]_vars
    PROVE  OneHolder'
<1> USE ProcAssumption
<1>1. ASSUME NEW c \in Client, Peek(c) PROVE OneHolder'
  BY <1>1
     DEF TypeOK, IInv, Proc, Places, OneHolder, NoFile, Holding, Peek, ClientFrame, Go,
       files
<1>2. ASSUME NEW c \in Client, Connect(c) PROVE OneHolder'
  BY <1>2
     DEF TypeOK, IInv, Proc, Places, OneHolder, NoFile, Holding, Connect, ClientFrame,
       files
<1>3. ASSUME NEW c \in Client, ConnectFails(c) PROVE OneHolder'
  BY <1>3
     DEF TypeOK, IInv, Proc, Places, OneHolder, NoFile, Holding, ConnectFails,
       ClientFrame, Go, files
<1>4. ASSUME NEW c \in Client, Registered(c) PROVE OneHolder'
  BY <1>4
     DEF TypeOK, IInv, Proc, Places, OneHolder, NoFile, Holding, Registered, ClientFrame,
       Go, files, CloseLock, Forget, Exists
<1>5. ASSUME NEW c \in Client, AskToVacate(c) PROVE OneHolder'
  BY <1>5
     DEF TypeOK, IInv, Proc, Places, OneHolder, NoFile, Holding, AskToVacate, Go, files,
       ReadPid
<1>6. ASSUME NEW c \in Client, SignalToVacate(c) PROVE OneHolder'
  BY <1>6
     DEF TypeOK, IInv, Proc, Places, OneHolder, NoFile, Holding, SignalToVacate, Killed,
       Forget, Exists, ReadPid, Alive
<1>7. ASSUME NEW c \in Client, OpenToSpawn(c) PROVE OneHolder'
  BY <1>7
     DEF TypeOK, IInv, Proc, Places, OneHolder, NoFile, Holding, OpenToSpawn, OpenLock,
       ClientFrame, Go
<1>8. ASSUME NEW c \in Client, TryToSpawn(c) PROVE OneHolder'
  BY <1>8
     DEF TypeOK, IInv, Proc, Places, OneHolder, NoFile, Holding, TryToSpawn, TakeLock,
       CloseLock, Held, Forget, Exists, ClientFrame, Go
<1>9. ASSUME NEW c \in Client, HolderChecks(c) PROVE OneHolder'
  BY <1>9
     DEF TypeOK, IInv, Proc, Places, OneHolder, NoFile, Holding, HolderChecks,
       ClientFrame, Go, files
<1>10. ASSUME NEW c \in Client, Spawn(c) PROVE OneHolder'
  BY <1>10 DEF TypeOK, IInv, Proc, Places, OneHolder, NoFile, Holding, Spawn, Go, files
<1>11. ASSUME NEW c \in Client, HandOver(c) PROVE OneHolder'
  BY <1>11
     DEF TypeOK, IInv, Proc, Places, OneHolder, NoFile, Holding, HandOver, CloseLock,
       Forget, Exists, ClientFrame, Go
<1>12. ASSUME NEW c \in Client, TimesOut(c) PROVE OneHolder'
  BY <1>12
     DEF TypeOK, IInv, Proc, Places, OneHolder, NoFile, Holding, TimesOut, ClientFrame,
       Go, files
<1>13. ASSUME NEW c \in Client, Leave(c) PROVE OneHolder'
  BY <1>13
     DEF TypeOK, IInv, Proc, Places, OneHolder, NoFile, Holding, Leave, ClientFrame, Go,
       files
<1>14. ASSUME NEW l \in Leader, StartByHand(l) PROVE OneHolder'
  BY <1>14
     DEF TypeOK, IInv, Proc, Places, OneHolder, NoFile, Holding, StartByHand, Fault, Go,
       files
<1>15. ASSUME NEW l \in Leader, OpenFirst(l) PROVE OneHolder'
  BY <1>15
     DEF TypeOK, IInv, Proc, Places, OneHolder, NoFile, Holding, OpenFirst, OpenLock,
       LeaderFrame, Go
<1>16. ASSUME NEW l \in Leader, TryFirst(l) PROVE OneHolder'
  BY <1>16
     DEF TypeOK, IInv, Proc, Places, OneHolder, NoFile, Holding, TryFirst, TakeLock,
       CloseLock, Held, Forget, Exists, LeaderFrame, Go
<1>17. ASSUME NEW l \in Leader, CleanSocket(l) PROVE OneHolder'
  BY <1>17
     DEF TypeOK, IInv, Proc, Places, OneHolder, NoFile, Holding, CleanSocket,
       LeaderFrame, Go, files
<1>18. ASSUME NEW l \in Leader, Bind(l) PROVE OneHolder'
  BY <1>18
     DEF TypeOK, IInv, Proc, Places, OneHolder, NoFile, Holding, Bind, LeaderFrame, Go,
       files
<1>19. ASSUME NEW l \in Leader, SocketReady(l) PROVE OneHolder'
  BY <1>19
     DEF TypeOK, IInv, Proc, Places, OneHolder, NoFile, Holding, SocketReady,
       LeaderFrame, Go, files
<1>20. ASSUME NEW l \in Leader, OpenForHandoff(l) PROVE OneHolder'
  BY <1>20
     DEF TypeOK, IInv, Proc, Places, OneHolder, NoFile, Holding, OpenForHandoff,
       OpenLock, LeaderFrame, Go
<1>21. ASSUME NEW l \in Leader, PollForHandoff(l) PROVE OneHolder'
  BY <1>21
     DEF TypeOK, IInv, Proc, Places, OneHolder, NoFile, Holding, PollForHandoff,
       TakeLock, Held, LeaderFrame, Go
<1>22. ASSUME NEW l \in Leader, GiveUp(l) PROVE OneHolder'
  BY <1>22
     DEF TypeOK, IInv, Proc, Places, OneHolder, NoFile, Holding, GiveUp, CloseLock,
       Forget, Exists, LeaderFrame, Go, files
<1>23. ASSUME NEW l \in Leader, BecomeReady(l) PROVE OneHolder'
  BY <1>23
     DEF TypeOK, IInv, Proc, Places, OneHolder, NoFile, Holding, BecomeReady,
       LeaderFrame, Go, files
<1>24. ASSUME NEW l \in Leader, Shutdown(l) PROVE OneHolder'
  BY <1>24
     DEF TypeOK, IInv, Proc, Places, OneHolder, NoFile, Holding, Shutdown, Fault, Go,
       files
<1>25. ASSUME NEW l \in Leader, ServerExits(l) PROVE OneHolder'
  BY <1>25
     DEF TypeOK, IInv, Proc, Places, OneHolder, NoFile, Holding, ServerExits,
       LeaderFrame, Go, files
<1>26. ASSUME NEW p \in Proc, Unlink(p) PROVE OneHolder'
  BY <1>26
     DEF TypeOK, IInv, Proc, Places, OneHolder, NoFile, Holding, Unlink, Forget, Exists,
       Go
<1>27. ASSUME NEW p \in Proc, Unsock(p) PROVE OneHolder'
  BY <1>27 DEF TypeOK, IInv, Proc, Places, OneHolder, NoFile, Holding, Unsock, Go, files
<1>28. ASSUME NEW p \in Proc, Close(p) PROVE OneHolder'
  BY <1>28
     DEF TypeOK, IInv, Proc, Places, OneHolder, NoFile, Holding, Close, CloseLock,
       Forget, Exists, Go
<1>29. ASSUME NEW p \in Proc, Kill(p) PROVE OneHolder'
  BY <1>29
     DEF TypeOK, IInv, Proc, Places, OneHolder, NoFile, Holding, Kill, Killed, Fault,
       Forget, Exists, Go, Alive
<1>30. CASE UNCHANGED vars
  BY <1>30 DEF TypeOK, IInv, Proc, Places, OneHolder, NoFile, Holding, vars, files
<1> QED
  BY <1>1, <1>2, <1>3, <1>4, <1>5, <1>6, <1>7, <1>8, <1>9, <1>10, <1>11, <1>12, <1>13,
     <1>14, <1>15, <1>16, <1>17, <1>18, <1>19, <1>20, <1>21, <1>22, <1>23, <1>24, <1>25,
     <1>26, <1>27, <1>28, <1>29, <1>30
  DEF Next, ClientStep, LeaderStep, DropLock

\* A pid stays as it is, or goes with its inode.
LEMMA ForgetKeeps ==
    ASSUME TypeOK, Forget, NEW i \in Inode
    PROVE  pid'[i] \in {pid[i], NoOne}
BY DEF Forget

\* A step that writes no pid and lets no leader lose its lock keeps pids where their
\* leaders are.
LEMMA PidKept ==
    ASSUME TypeOK, PidInLocked,
           \A i \in Inode : pid'[i] \in {pid[i], NoOne},
           \A l \in Leader : at'[l] # "gone" => at[l] # "gone",
           \A l \in Leader : at'[l] # "gone" /\ l \in locked => l \in locked' /\ fd'[l] = fd[l]
    PROVE  PidInLocked'
BY ProcAssumption DEF PidInLocked, Proc

\* A leader that is alive keeps locked the inode its pid is in.
LEMMA PidStep ==
    ASSUME TypeOK, IInv, [Next]_vars
    PROVE  PidInLocked'
<1> USE ProcAssumption
<1>1. ASSUME NEW c \in Client, Peek(c) PROVE PidInLocked'
  BY <1>1
     DEF TypeOK, IInv, Proc, Places, OneHolder, PidInLocked, NoFile, Inode, Peek,
       ClientFrame, Go, files
<1>2. ASSUME NEW c \in Client, Connect(c) PROVE PidInLocked'
  BY <1>2
     DEF TypeOK, IInv, Proc, Places, OneHolder, PidInLocked, NoFile, Inode, Connect,
       ClientFrame, files
<1>3. ASSUME NEW c \in Client, ConnectFails(c) PROVE PidInLocked'
  BY <1>3
     DEF TypeOK, IInv, Proc, Places, OneHolder, PidInLocked, NoFile, Inode, ConnectFails,
       ClientFrame, Go, files
<1>4. ASSUME NEW c \in Client, Registered(c) PROVE PidInLocked'
  BY <1>4, PidKept, ForgetKeeps
     DEF TypeOK, IInv, Proc, Places, PidInLocked, NoFile, Registered, CloseLock, Go,
       files
<1>5. ASSUME NEW c \in Client, AskToVacate(c) PROVE PidInLocked'
  BY <1>5
     DEF TypeOK, IInv, Proc, Places, OneHolder, PidInLocked, NoFile, Inode, AskToVacate,
       Go, files, ReadPid
<1>6. ASSUME NEW c \in Client, SignalToVacate(c) PROVE PidInLocked'
  BY <1>6, PidKept, ForgetKeeps
     DEF TypeOK, IInv, Proc, Places, PidInLocked, NoFile, SignalToVacate, Killed, Alive
<1>7. ASSUME NEW c \in Client, OpenToSpawn(c) PROVE PidInLocked'
  BY <1>7
     DEF TypeOK, IInv, Proc, Places, OneHolder, PidInLocked, NoFile, Inode, OpenToSpawn,
       OpenLock, ClientFrame, Go
<1>8. ASSUME NEW c \in Client, TryToSpawn(c) PROVE PidInLocked'
  <2>1. CASE TakeLock(c)
    BY <1>8, <2>1
       DEF TypeOK, IInv, Proc, Places, OneHolder, PidInLocked, NoFile, Inode, TryToSpawn,
         TakeLock, Held, Go
  <2>2. CASE CloseLock(c) /\ Held(fd[c])
    BY <1>8, <2>2, PidKept, ForgetKeeps
       DEF TypeOK, IInv, Proc, Places, OneHolder, PidInLocked, NoFile, TryToSpawn,
         CloseLock, Held, Go
  <2> QED BY <1>8, <2>1, <2>2 DEF TryToSpawn
<1>9. ASSUME NEW c \in Client, HolderChecks(c) PROVE PidInLocked'
  BY <1>9
     DEF TypeOK, IInv, Proc, Places, OneHolder, PidInLocked, NoFile, Inode, HolderChecks,
       ClientFrame, Go, files
<1>10. ASSUME NEW c \in Client, Spawn(c) PROVE PidInLocked'
  BY <1>10
     DEF TypeOK, IInv, Proc, Places, OneHolder, PidInLocked, NoFile, Inode, Spawn, Go,
       files
<1>11. ASSUME NEW c \in Client, HandOver(c) PROVE PidInLocked'
  BY <1>11
     DEF TypeOK, IInv, Proc, Places, OneHolder, PidInLocked, NoFile, Inode, HandOver,
       CloseLock, Forget, Exists, ClientFrame, Go
<1>12. ASSUME NEW c \in Client, TimesOut(c) PROVE PidInLocked'
  BY <1>12
     DEF TypeOK, IInv, Proc, Places, OneHolder, PidInLocked, NoFile, Inode, TimesOut,
       ClientFrame, Go, files
<1>13. ASSUME NEW c \in Client, Leave(c) PROVE PidInLocked'
  BY <1>13
     DEF TypeOK, IInv, Proc, Places, OneHolder, PidInLocked, NoFile, Inode, Leave,
       ClientFrame, Go, files
<1>14. ASSUME NEW l \in Leader, StartByHand(l) PROVE PidInLocked'
  BY <1>14
     DEF TypeOK, IInv, Proc, Places, OneHolder, PidInLocked, NoFile, Inode, StartByHand,
       Fault, Go, files
<1>15. ASSUME NEW l \in Leader, OpenFirst(l) PROVE PidInLocked'
  BY <1>15
     DEF TypeOK, IInv, Proc, Places, OneHolder, PidInLocked, NoFile, Inode, OpenFirst,
       OpenLock, LeaderFrame, Go
<1>16. ASSUME NEW l \in Leader, TryFirst(l) PROVE PidInLocked'
  <2>1. CASE TakeLock(l)
    BY <1>16, <2>1
       DEF TypeOK, IInv, Proc, Places, OneHolder, PidInLocked, NoFile, Inode, TryFirst,
         TakeLock, Held, Go
  <2>2. CASE CloseLock(l) /\ Held(fd[l])
    BY <1>16, <2>2, PidKept, ForgetKeeps
       DEF TypeOK, IInv, Proc, Places, OneHolder, PidInLocked, NoFile, TryFirst,
         CloseLock, Held, Go
  <2> QED BY <1>16, <2>1, <2>2 DEF TryFirst
<1>17. ASSUME NEW l \in Leader, CleanSocket(l) PROVE PidInLocked'
  BY <1>17
     DEF TypeOK, IInv, Proc, Places, OneHolder, PidInLocked, NoFile, Inode, CleanSocket,
       LeaderFrame, Go, files
<1>18. ASSUME NEW l \in Leader, Bind(l) PROVE PidInLocked'
  BY <1>18
     DEF TypeOK, IInv, Proc, Places, OneHolder, PidInLocked, NoFile, Inode, Bind,
       LeaderFrame, Go, files
<1>19. ASSUME NEW l \in Leader, SocketReady(l) PROVE PidInLocked'
  BY <1>19
     DEF TypeOK, IInv, Proc, Places, OneHolder, PidInLocked, NoFile, Inode, SocketReady,
       LeaderFrame, Go, files
<1>20. ASSUME NEW l \in Leader, OpenForHandoff(l) PROVE PidInLocked'
  BY <1>20
     DEF TypeOK, IInv, Proc, Places, OneHolder, PidInLocked, NoFile, Inode,
       OpenForHandoff, OpenLock, LeaderFrame, Go
<1>21. ASSUME NEW l \in Leader, PollForHandoff(l) PROVE PidInLocked'
  BY <1>21
     DEF TypeOK, IInv, Proc, Places, OneHolder, PidInLocked, NoFile, Inode,
       PollForHandoff, TakeLock, Held, LeaderFrame, Go
<1>22. ASSUME NEW l \in Leader, GiveUp(l) PROVE PidInLocked'
  BY <1>22, PidKept, ForgetKeeps
     DEF TypeOK, IInv, Proc, Places, PidInLocked, NoFile, GiveUp, CloseLock, Go, files
<1>23. ASSUME NEW l \in Leader, BecomeReady(l) PROVE PidInLocked'
  BY <1>23
     DEF TypeOK, IInv, Proc, Places, OneHolder, PidInLocked, NoFile, Inode, BecomeReady,
       LeaderFrame, Go, files
<1>24. ASSUME NEW l \in Leader, Shutdown(l) PROVE PidInLocked'
  BY <1>24
     DEF TypeOK, IInv, Proc, Places, OneHolder, PidInLocked, NoFile, Inode, Shutdown,
       Fault, Go, files
<1>25. ASSUME NEW l \in Leader, ServerExits(l) PROVE PidInLocked'
  BY <1>25
     DEF TypeOK, IInv, Proc, Places, OneHolder, PidInLocked, NoFile, Inode, ServerExits,
       LeaderFrame, Go, files
<1>26. ASSUME NEW p \in Proc, Unlink(p) PROVE PidInLocked'
  BY <1>26
     DEF TypeOK, IInv, Proc, Places, OneHolder, PidInLocked, NoFile, Inode, Unlink,
       Forget, Exists, Go
<1>27. ASSUME NEW p \in Proc, Unsock(p) PROVE PidInLocked'
  BY <1>27
     DEF TypeOK, IInv, Proc, Places, OneHolder, PidInLocked, NoFile, Inode, Unsock, Go,
       files
<1>28. ASSUME NEW p \in Proc, Close(p) PROVE PidInLocked'
  BY <1>28
     DEF TypeOK, IInv, Proc, Places, OneHolder, PidInLocked, NoFile, Inode, Close,
       CloseLock, Forget, Exists, Go
<1>29. ASSUME NEW p \in Proc, Kill(p) PROVE PidInLocked'
  BY <1>29, PidKept, ForgetKeeps
     DEF TypeOK, IInv, Proc, Places, PidInLocked, NoFile, Kill, Killed, Go
<1>30. CASE UNCHANGED vars
  BY <1>30
     DEF TypeOK, IInv, Proc, Places, OneHolder, PidInLocked, NoFile, Inode, vars, files
<1> QED
  BY <1>1, <1>2, <1>3, <1>4, <1>5, <1>6, <1>7, <1>8, <1>9, <1>10, <1>11, <1>12, <1>13,
     <1>14, <1>15, <1>16, <1>17, <1>18, <1>19, <1>20, <1>21, <1>22, <1>23, <1>24, <1>25,
     <1>26, <1>27, <1>28, <1>29, <1>30
  DEF Next, ClientStep, LeaderStep, DropLock

\* Without tearing, what is open is what the path leads to.
LEMMA OneFileStep ==
    ASSUME TypeOK, IInv, [Next]_vars
    PROVE  OneFile'
<1> USE ProcAssumption
<1>1. ASSUME NEW c \in Client, Peek(c) PROVE OneFile'
  BY <1>1 DEF TypeOK, IInv, Proc, Places, OneFile, NoFile, Peek, ClientFrame, Go, files
<1>2. ASSUME NEW c \in Client, Connect(c) PROVE OneFile'
  BY <1>2 DEF TypeOK, IInv, Proc, Places, OneFile, NoFile, Connect, ClientFrame, files
<1>3. ASSUME NEW c \in Client, ConnectFails(c) PROVE OneFile'
  BY <1>3
     DEF TypeOK, IInv, Proc, Places, OneFile, NoFile, ConnectFails, ClientFrame, Go,
       files
<1>4. ASSUME NEW c \in Client, Registered(c) PROVE OneFile'
  BY <1>4
     DEF TypeOK, IInv, Proc, Places, OneFile, NoFile, Registered, ClientFrame, Go, files,
       CloseLock, Forget, Exists
<1>5. ASSUME NEW c \in Client, AskToVacate(c) PROVE OneFile'
  BY <1>5 DEF TypeOK, IInv, Proc, Places, OneFile, NoFile, AskToVacate, Go, files, ReadPid
<1>6. ASSUME NEW c \in Client, SignalToVacate(c) PROVE OneFile'
  BY <1>6
     DEF TypeOK, IInv, Proc, Places, OneFile, NoFile, SignalToVacate, Killed, Forget,
       Exists, ReadPid, Alive
<1>7. ASSUME NEW c \in Client, OpenToSpawn(c) PROVE OneFile'
  BY <1>7
     DEF TypeOK, IInv, Proc, Places, OneFile, NoFile, OpenToSpawn, OpenLock, ClientFrame,
       Go
<1>8. ASSUME NEW c \in Client, TryToSpawn(c) PROVE OneFile'
  BY <1>8
     DEF TypeOK, IInv, Proc, Places, OneFile, NoFile, TryToSpawn, TakeLock, CloseLock,
       Held, Forget, Exists, ClientFrame, Go
<1>9. ASSUME NEW c \in Client, HolderChecks(c) PROVE OneFile'
  BY <1>9
     DEF TypeOK, IInv, Proc, Places, OneFile, NoFile, HolderChecks, ClientFrame, Go,
       files
<1>10. ASSUME NEW c \in Client, Spawn(c) PROVE OneFile'
  BY <1>10 DEF TypeOK, IInv, Proc, Places, OneFile, NoFile, Spawn, Go, files
<1>11. ASSUME NEW c \in Client, HandOver(c) PROVE OneFile'
  BY <1>11
     DEF TypeOK, IInv, Proc, Places, OneFile, NoFile, HandOver, CloseLock, Forget,
       Exists, ClientFrame, Go
<1>12. ASSUME NEW c \in Client, TimesOut(c) PROVE OneFile'
  BY <1>12 DEF TypeOK, IInv, Proc, Places, OneFile, NoFile, TimesOut, ClientFrame, Go, files
<1>13. ASSUME NEW c \in Client, Leave(c) PROVE OneFile'
  BY <1>13 DEF TypeOK, IInv, Proc, Places, OneFile, NoFile, Leave, ClientFrame, Go, files
<1>14. ASSUME NEW l \in Leader, StartByHand(l) PROVE OneFile'
  BY <1>14 DEF TypeOK, IInv, Proc, Places, OneFile, NoFile, StartByHand, Fault, Go, files
<1>15. ASSUME NEW l \in Leader, OpenFirst(l) PROVE OneFile'
  BY <1>15
     DEF TypeOK, IInv, Proc, Places, OneFile, NoFile, OpenFirst, OpenLock, LeaderFrame,
       Go
<1>16. ASSUME NEW l \in Leader, TryFirst(l) PROVE OneFile'
  BY <1>16
     DEF TypeOK, IInv, Proc, Places, OneFile, NoFile, TryFirst, TakeLock, CloseLock,
       Held, Forget, Exists, LeaderFrame, Go
<1>17. ASSUME NEW l \in Leader, CleanSocket(l) PROVE OneFile'
  BY <1>17
     DEF TypeOK, IInv, Proc, Places, OneFile, NoFile, CleanSocket, LeaderFrame, Go,
       files
<1>18. ASSUME NEW l \in Leader, Bind(l) PROVE OneFile'
  BY <1>18 DEF TypeOK, IInv, Proc, Places, OneFile, NoFile, Bind, LeaderFrame, Go, files
<1>19. ASSUME NEW l \in Leader, SocketReady(l) PROVE OneFile'
  BY <1>19
     DEF TypeOK, IInv, Proc, Places, OneFile, NoFile, SocketReady, LeaderFrame, Go,
       files
<1>20. ASSUME NEW l \in Leader, OpenForHandoff(l) PROVE OneFile'
  BY <1>20
     DEF TypeOK, IInv, Proc, Places, OneFile, NoFile, OpenForHandoff, OpenLock,
       LeaderFrame, Go
<1>21. ASSUME NEW l \in Leader, PollForHandoff(l) PROVE OneFile'
  BY <1>21
     DEF TypeOK, IInv, Proc, Places, OneFile, NoFile, PollForHandoff, TakeLock, Held,
       LeaderFrame, Go
<1>22. ASSUME NEW l \in Leader, GiveUp(l) PROVE OneFile'
  BY <1>22
     DEF TypeOK, IInv, Proc, Places, OneFile, NoFile, GiveUp, CloseLock, Forget, Exists,
       LeaderFrame, Go, files
<1>23. ASSUME NEW l \in Leader, BecomeReady(l) PROVE OneFile'
  BY <1>23
     DEF TypeOK, IInv, Proc, Places, OneFile, NoFile, BecomeReady, LeaderFrame, Go,
       files
<1>24. ASSUME NEW l \in Leader, Shutdown(l) PROVE OneFile'
  BY <1>24 DEF TypeOK, IInv, Proc, Places, OneFile, NoFile, Shutdown, Fault, Go, files
<1>25. ASSUME NEW l \in Leader, ServerExits(l) PROVE OneFile'
  BY <1>25
     DEF TypeOK, IInv, Proc, Places, OneFile, NoFile, ServerExits, LeaderFrame, Go,
       files
<1>26. ASSUME NEW p \in Proc, Unlink(p) PROVE OneFile'
  BY <1>26 DEF TypeOK, IInv, Proc, Places, OneFile, NoFile, Unlink, Forget, Exists, Go
<1>27. ASSUME NEW p \in Proc, Unsock(p) PROVE OneFile'
  BY <1>27 DEF TypeOK, IInv, Proc, Places, OneFile, NoFile, Unsock, Go, files
<1>28. ASSUME NEW p \in Proc, Close(p) PROVE OneFile'
  BY <1>28
     DEF TypeOK, IInv, Proc, Places, OneFile, NoFile, Close, CloseLock, Forget, Exists,
       Go
<1>29. ASSUME NEW p \in Proc, Kill(p) PROVE OneFile'
  BY <1>29
     DEF TypeOK, IInv, Proc, Places, OneFile, NoFile, Kill, Killed, Fault, Forget,
       Exists, Go, Alive
<1>30. CASE UNCHANGED vars
  BY <1>30 DEF TypeOK, IInv, Proc, Places, OneFile, NoFile, vars, files
<1> QED
  BY <1>1, <1>2, <1>3, <1>4, <1>5, <1>6, <1>7, <1>8, <1>9, <1>10, <1>11, <1>12, <1>13,
     <1>14, <1>15, <1>16, <1>17, <1>18, <1>19, <1>20, <1>21, <1>22, <1>23, <1>24, <1>25,
     <1>26, <1>27, <1>28, <1>29, <1>30
  DEF Next, ClientStep, LeaderStep, DropLock

-----------------------------------------------------------------------------
\* The strengthening holds at the start.
LEMMA InitIInv == Init => IInv
BY ProcAssumption DEF Init, IInv, Places, OneHolder, PidInLocked, OneFile, NoFile, Holding,
   Proc, Inode

\* The strengthening, which says of every reachable state who holds what.
LEMMA Inductive == Spec => [](TypeOK /\ IInv)
<1>1. Init => TypeOK /\ IInv
  BY InitTyped, InitIInv
<1>2. TypeOK /\ IInv /\ [Next]_vars => (TypeOK /\ IInv)'
  BY TypeStep, PlacesStep, OneHolderStep, PidStep, OneFileStep DEF IInv
<1> QED BY <1>1, <1>2, PTL DEF Spec

\* The types of Leader, for any number of clients and leaders.
THEOREM TypeCorrect == Spec => []TypeOK
BY Inductive, PTL

\* While nobody tears the lock file, two leaders that lead have the same file
\* open and locked: they are one.
LEMMA LeadsOnce ==
    ASSUME TypeOK, IInv, ~torn, NEW l \in Leader, NEW m \in Leader, Leads(l), Leads(m)
    PROVE  l = m
<1>1. fd[l] = path /\ fd[m] = path
  BY DEF IInv, OneHolder, OneFile, Leads, Proc
<1> QED BY <1>1 DEF IInv, OneHolder, Leads

\* The flock and its hand-over exclude a second leader (lock.rs, run_leader)
\* unless LeaderLock::drop unlinked the lock file under another process.
THEOREM SplitsHaveCause == Spec => []SplitHasCause
<1>1. TypeOK /\ IInv => SplitHasCause
  <2> SUFFICES ASSUME TypeOK, IInv, ~torn
               PROVE  ~(Cardinality({l \in Leader : Leads(l)}) > 1)
    BY DEF SplitHasCause
  <2> DEFINE Ls == {l \in Leader : Leads(l)}
  <2>1. CASE Ls = {}
    BY <2>1, FS_EmptySet
  <2>2. CASE Ls # {}
    <3>1. PICK l \in Leader : Ls = {l}
      BY <2>2, LeadsOnce
    <3> QED BY <3>1, FS_Singleton
  <2> QED BY <2>1, <2>2
<1> QED BY <1>1, Inductive, PTL

\* Under the flock of the path's own lock file connect_or_spawn sees no live
\* leader: whoever writes its pid in a lock file holds it until it is gone.
THEOREM HoldersSeeNoLeader == Spec => []HolderSeesNoLeader
<1>1. TypeOK /\ IInv => HolderSeesNoLeader
  <2> SUFFICES ASSUME TypeOK, IInv, NEW c \in Client, at[c] = "holds", fd[c] = path,
                      Alive(ReadPid)
               PROVE  FALSE
    BY DEF HolderSeesNoLeader
  <2>1. c \in locked /\ fd[c] # 0
    BY DEF IInv, Places, OneHolder, Holding, Proc
  <2>2. PICK l \in Leader : l = ReadPid /\ at[l] # "gone"
    BY DEF Alive
  <2>3. path \in Inode /\ pid[path] = l
    BY <2>1, <2>2 DEF ReadPid, TypeOK, Inode
  <2>4. l \in locked /\ fd[l] = path
    BY <2>2, <2>3 DEF IInv, PidInLocked
  <2>5. l = c
    BY <2>1, <2>4 DEF IInv, OneHolder
  <2> QED BY <2>5, ProcAssumption
<1> QED BY <1>1, Inductive, PTL
=============================================================================
