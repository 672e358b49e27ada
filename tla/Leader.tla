-------------------------------- MODULE Leader --------------------------------
(***************************************************************************)
(* Finding, starting and replacing the leader process (leader/mod.rs       *)
(* connect_or_spawn, leader/lock.rs, agent/app.rs run_leader).             *)
(*                                                                         *)
(* Clients and leaders meet at two files: leader.lock, under whose flock a *)
(* client starts a leader and a leader lives, and leader.sock, the socket  *)
(* it listens on.  Either path may be unlinked while a process still has   *)
(* the file: a lock may be held on an inode the path no longer leads to,   *)
(* and a leader may listen on a socket nobody can find.                    *)
(*                                                                         *)
(* A file system call is a step, but for reads that follow one another     *)
(* without an await.  Timeouts are steps that may be taken at any time.    *)
(***************************************************************************)
EXTENDS Integers, FiniteSets

CONSTANTS
    Client,        \* processes that call connect_or_spawn, again and again
    Leader,        \* leader processes; one is started at most once (a bound)
    NoOne,
    Build,         \* the binary versions there are
    Version,       \* the binary version of a client
    RelaunchFrom,  \* the first version that knows RelaunchForUpdate
    MaxInode,      \* bound: inode numbers; a number is reused once it is free
    MaxFaults      \* bound: kills, shutdowns, leaders started by hand

Proc == Client \cup Leader

ASSUME ProcAssumption ==
    Client \cap Leader = {} /\ NoOne \notin Proc
ASSUME VersionAssumption ==
    Build \subseteq Nat \ {0} /\ Version \in [Client -> Build] /\ RelaunchFrom \in Nat
\* A process has at most one lock file open, and the path leads to one more.
ASSUME BoundAssumption ==
    /\ IsFiniteSet(Proc) /\ MaxFaults \in Nat
    /\ MaxInode \in Nat /\ MaxInode > Cardinality(Proc)

VARIABLES
    path,       \* the inode leader.lock leads to, 0 when there is no file
    pid,        \* what is written in an inode
    fd,         \* the lock file a process has open, 0 when none
    locked,     \* the processes that hold the flock of the file they have open
    sock,       \* whose socket leader.sock leads to; it may be dead
    listening,  \* the leaders whose server accepts connections
    at,         \* where a process is
    conn,       \* the leader a client is connected to
    target,     \* the leader a client evicts under the flock
    version,    \* the binary version of a leader, 0 before it starts
    vacating,   \* the leaders that have accepted RelaunchForUpdate
    faults,     \* bound: what has happened to leaders so far
    torn        \* history: the lock file was unlinked while another process
                \* had it open

files == <<path, pid, fd, locked>>
vars == <<files, sock, listening, at, conn, target, version, vacating, faults, torn>>

Inode == 1..MaxInode
ClientPlaces == {"idle", "peek", "first", "lock", "flock", "holds", "adopt", "evict",
                 "evicted", "spawn", "spawned", "own", "wait", "late", "vacate", "done",
                 "unlink", "unsock", "close"}
LeaderPlaces == {"none", "start", "try", "clean", "remove", "bind", "bound", "reopen",
                 "poll", "auth", "ready", "closing", "unlink", "unsock", "close", "gone"}

TypeOK ==
    /\ path \in 0..MaxInode
    /\ pid \in [Inode -> Leader \cup {NoOne}]
    /\ fd \in [Proc -> 0..MaxInode]
    /\ locked \subseteq Proc
    /\ sock \in Leader \cup {NoOne}
    /\ listening \subseteq Leader
    /\ at \in [Proc -> ClientPlaces \cup LeaderPlaces]
    /\ \A c \in Client : at[c] \in ClientPlaces
    /\ \A l \in Leader : at[l] \in LeaderPlaces
    /\ conn \in [Client -> Leader \cup {NoOne}]
    /\ target \in [Client -> Leader \cup {NoOne}]
    /\ version \in [Leader -> Build \cup {0}]
    /\ vacating \subseteq Leader
    /\ faults \in 0..MaxFaults
    /\ torn \in BOOLEAN

Init ==
    /\ path = 0
    /\ pid = [i \in Inode |-> NoOne]
    /\ fd = [p \in Proc |-> 0]
    /\ locked = {}
    /\ sock = NoOne
    /\ listening = {}
    /\ at = [p \in Proc |-> IF p \in Client THEN "idle" ELSE "none"]
    /\ conn = [c \in Client |-> NoOne]
    /\ target = [c \in Client |-> NoOne]
    /\ version = [l \in Leader |-> 0]
    /\ vacating = {}
    /\ faults = 0
    /\ torn = FALSE

Alive(l) == l \in Leader /\ at[l] \notin {"none", "gone"}
Held(i) == \E p \in locked : fd[p] = i
Exists(i) == i = path \/ \E p \in Proc : fd[p] = i
FreshInode == CHOOSE i \in Inode : ~Exists(i)

\* LeaderLock::read_pid
ReadPid == IF path = 0 THEN NoOne ELSE pid[path]

Fault == faults < MaxFaults /\ faults' = faults + 1
Go(p, place) == at' = [at EXCEPT ![p] = place]

\* An inode that nothing has any more takes its content with it.
Forget == pid' = [i \in Inode |-> IF Exists(i)' THEN pid[i] ELSE NoOne]

\* LeaderLock::open_lock_file
OpenLock(p) ==
    LET i == IF path = 0 THEN FreshInode ELSE path IN
    /\ path' = i
    /\ fd' = [fd EXCEPT ![p] = i]
    /\ UNCHANGED <<pid, locked>>

\* The lock file is closed, which releases the flock on it.
CloseLock(p) ==
    /\ fd' = [fd EXCEPT ![p] = 0]
    /\ locked' = locked \ {p}
    /\ UNCHANGED path
    /\ Forget

\* Faulty forms of TakeLock: every holder writes its pid; the lock is shared.
TakeLockAndSign(p) ==
    /\ ~Held(fd[p])
    /\ locked' = locked \cup {p}
    /\ pid' = [pid EXCEPT ![fd[p]] = p]
    /\ UNCHANGED <<path, fd>>

TakeSharedLock(p) ==
    /\ locked' = locked \cup {p}
    /\ pid' = IF p \in Leader THEN [pid EXCEPT ![fd[p]] = p] ELSE pid
    /\ UNCHANGED <<path, fd>>

\* The flock is taken; a leader writes its pid.
TakeLock(p) ==
    /\ ~Held(fd[p])
    /\ locked' = locked \cup {p}
    /\ pid' = IF p \in Leader THEN [pid EXCEPT ![fd[p]] = p] ELSE pid
    /\ UNCHANGED <<path, fd>>
-----------------------------------------------------------------------------
(* LeaderLock::drop of a lock that was not handed over: both paths are     *)
(* unlinked, whatever they lead to by now, before the flock goes.          *)

Unlink(p) ==
    /\ at[p] = "unlink"
    /\ path' = 0
    /\ torn' = (torn \/ \E q \in Proc \ {p} : path # 0 /\ fd[q] = path)
    /\ Go(p, "unsock")
    /\ UNCHANGED <<fd, locked, sock, listening, conn, target, version, vacating, faults>>
    /\ Forget

Unsock(p) ==
    /\ at[p] = "unsock"
    /\ sock' = NoOne
    /\ Go(p, "close")
    /\ UNCHANGED <<files, listening, conn, target, version, vacating, faults, torn>>

Close(p) ==
    /\ at[p] = "close"
    /\ CloseLock(p)
    /\ Go(p, IF p \in Client THEN "idle" ELSE "gone")
    /\ UNCHANGED <<sock, listening, conn, target, version, vacating, faults, torn>>

DropLock(p) == Unlink(p) \/ Unsock(p) \/ Close(p)
-----------------------------------------------------------------------------
(* connect_or_spawn.                                                       *)

\* What a client's steps leave alone unless they say otherwise.
ClientFrame == UNCHANGED <<listening, target, version, vacating, faults, torn>>

\* The socket file is there; a pid that is dead says that it is stale.
Peek(c) ==
    /\ \/ at[c] = "idle" /\ Go(c, "peek")
       \/ /\ at[c] = "peek"
          /\ Go(c, IF sock = NoOne \/ (ReadPid # NoOne /\ ~Alive(ReadPid))
                   THEN "lock" ELSE "first")
    /\ UNCHANGED <<files, sock, conn>> /\ ClientFrame

\* LeaderClient::connect up to the registration.
Connect(c) ==
    /\ at[c] \in {"first", "adopt", "wait", "late", "own"} /\ conn[c] = NoOne
    /\ sock \in listening
    /\ conn' = [conn EXCEPT ![c] = sock]
    /\ UNCHANGED <<files, sock, at>> /\ ClientFrame

\* A faulty form of ConnectFails: a socket that refuses is tried again and again.
TriesAgain(c) ==
    /\ \/ conn[c] = NoOne /\ sock \notin listening
          /\ (at[c] \in {"wait", "late"} => sock # NoOne)
       \/ conn[c] # NoOne /\ conn[c] \notin listening
    /\ \/ at[c] = "first" /\ Go(c, "peek")
       \/ at[c] = "adopt" /\ Go(c, "spawn")
       \/ at[c] \in {"wait", "late"} /\ Go(c, "late")
       \/ at[c] = "own" /\ Go(c, "idle")
    /\ conn' = [conn EXCEPT ![c] = NoOne]
    /\ UNCHANGED <<files, sock>> /\ ClientFrame

\* The connection is refused, or closed before the leader was ready.  In
\* wait_for_socket_connectable the error is kept and the polling goes on.
ConnectFails(c) ==
    /\ \/ conn[c] = NoOne /\ sock \notin listening
          /\ (at[c] \in {"wait", "late"} => sock # NoOne)
       \/ conn[c] # NoOne /\ conn[c] \notin listening
    /\ \/ at[c] = "first" /\ Go(c, "lock")
       \/ at[c] = "adopt" /\ Go(c, "spawn")
       \/ at[c] \in {"wait", "late"} /\ Go(c, "late")
       \/ at[c] = "own" /\ Go(c, "idle")
    /\ conn' = [conn EXCEPT ![c] = NoOne]
    /\ UNCHANGED <<files, sock>> /\ ClientFrame

\* should_evict_conn
Older(l, c) == version[l] < Version[c]

\* The leader is ready (LeaderReady).  The spawner keeps whatever leader it is
\* connected to; the others do not keep an older one.
Registered(c) ==
    LET l == conn[c]
        keeps == at[c] = "own" \/ (at[c] \in {"first", "adopt", "wait", "late"} /\ ~Older(l, c))
    IN
    /\ l # NoOne /\ at[l] = "ready"
    /\ \/ /\ keeps
          /\ Go(c, "done") /\ UNCHANGED conn
       \/ /\ at[c] = "first" /\ ~keeps
          /\ Go(c, "lock") /\ conn' = [conn EXCEPT ![c] = NoOne]
       \/ /\ at[c] \in {"wait", "late"} /\ ~keeps
          /\ Go(c, "vacate") /\ UNCHANGED conn
       \/ /\ at[c] = "adopt" /\ ~keeps
          /\ Go(c, "evict") /\ UNCHANGED conn
    /\ IF at[c] = "adopt" /\ keeps THEN CloseLock(c) ELSE UNCHANGED files
    /\ UNCHANGED sock /\ ClientFrame

\* request_leader_vacate: RelaunchForUpdate over the connection, or SIGTERM to
\* the pid the lock file names by now.  Under the flock, evict_leader then sees
\* that pid exit, or kills it.
AskToVacate(c) ==
    /\ at[c] \in {"vacate", "evict"} /\ version[conn[c]] >= RelaunchFrom
    /\ vacating' = IF at[conn[c]] = "ready" THEN vacating \cup {conn[c]} ELSE vacating
    /\ conn' = [conn EXCEPT ![c] = NoOne]
    /\ \/ at[c] = "vacate" /\ Go(c, "lock") /\ UNCHANGED target
       \/ at[c] = "evict" /\ Go(c, "evicted") /\ target' = [target EXCEPT ![c] = ReadPid]
    /\ UNCHANGED <<files, sock, listening, version, faults, torn>>

\* The processes in P end at once: no Drop runs, and their files stay.
Killed(P) ==
    /\ fd' = [p \in Proc |-> IF p \in P THEN 0 ELSE fd[p]]
    /\ locked' = locked \ P
    /\ listening' = listening \ P
    /\ UNCHANGED path
    /\ Forget

SignalToVacate(c) ==
    LET named == IF at[c] = "evicted" THEN target[c] ELSE ReadPid
        P == {l \in Leader : l = named /\ Alive(l)}
        next == IF at[c] = "vacate" THEN "lock" ELSE "spawn"
    IN
    /\ \/ at[c] \in {"vacate", "evict"} /\ version[conn[c]] < RelaunchFrom
       \/ at[c] = "evicted"
    /\ Killed(P)
    /\ at' = [p \in Proc |-> IF p = c THEN next ELSE IF p \in P THEN "gone" ELSE at[p]]
    /\ conn' = [conn EXCEPT ![c] = NoOne]
    /\ target' = [target EXCEPT ![c] = NoOne]
    /\ UNCHANGED <<sock, version, vacating, faults, torn>>

\* LeaderLock::try_acquire
OpenToSpawn(c) ==
    /\ at[c] = "lock"
    /\ OpenLock(c)
    /\ Go(c, "flock")
    /\ UNCHANGED <<sock, conn>> /\ ClientFrame

TryToSpawn(c) ==
    /\ at[c] = "flock"
    /\ \/ TakeLock(c) /\ Go(c, "holds")
       \/ Held(fd[c]) /\ CloseLock(c) /\ Go(c, "wait")
    /\ UNCHANGED <<sock, conn>> /\ ClientFrame

\* Under the flock: a leader that is alive and has a socket is tried first.
HolderChecks(c) ==
    /\ at[c] = "holds"
    /\ Go(c, IF sock # NoOne /\ Alive(ReadPid) THEN "adopt" ELSE "spawn")
    /\ UNCHANGED <<files, sock, conn>> /\ ClientFrame

\* The client clears the way and starts a leader.  The start fails, with the lock
\* to drop, when no leader is left (a bound).
Spawn(c) ==
    /\ at[c] = "spawn"
    /\ sock' = NoOne
    /\ \/ \E l \in Leader :
            /\ at[l] = "none"
            /\ at' = [at EXCEPT ![c] = "spawned", ![l] = "start"]
            /\ version' = [version EXCEPT ![l] = Version[c]]
       \/ /\ \A l \in Leader : at[l] # "none"
          /\ Go(c, "unlink")
          /\ UNCHANGED version
    /\ UNCHANGED <<files, listening, conn, target, vacating, faults, torn>>

\* Some socket is there: the lock is handed over (LeaderLock::release).
HandOver(c) ==
    /\ at[c] = "spawned" /\ sock # NoOne
    /\ CloseLock(c)
    /\ Go(c, "own")
    /\ UNCHANGED <<sock, conn>> /\ ClientFrame

\* SPAWN_WAIT_TIMEOUT passes while the spawner waits, or in
\* wait_for_socket_connectable.
TimesOut(c) ==
    /\ conn[c] = NoOne
    /\ \/ at[c] = "spawned" /\ sock = NoOne /\ Go(c, "unlink")
       \/ at[c] = "wait" /\ Go(c, "lock")
       \/ at[c] = "late" /\ Go(c, "idle")
    /\ UNCHANGED <<files, sock, conn>> /\ ClientFrame

\* The client quits, or its leader is gone and it will call again.
Leave(c) ==
    /\ at[c] = "done"
    /\ Go(c, "idle")
    /\ conn' = [conn EXCEPT ![c] = NoOne]
    /\ UNCHANGED <<files, sock>> /\ ClientFrame

ClientStep(c) ==
    \/ Connect(c) \/ ConnectFails(c) \/ Registered(c) \/ AskToVacate(c)
    \/ SignalToVacate(c) \/ OpenToSpawn(c) \/ TryToSpawn(c) \/ HolderChecks(c) \/ Spawn(c)
    \/ HandOver(c)
-----------------------------------------------------------------------------
(* run_leader.                                                             *)

LeaderFrame == UNCHANGED <<conn, target, version, vacating, faults, torn>>

\* Started by hand or by a service manager.
StartByHand(l) ==
    /\ at[l] = "none"
    /\ Fault
    /\ Go(l, "start")
    /\ \E v \in Build : version' = [version EXCEPT ![l] = v]
    /\ UNCHANGED <<files, sock, listening, conn, target, vacating, torn>>

OpenFirst(l) ==
    /\ at[l] = "start"
    /\ OpenLock(l)
    /\ Go(l, "try")
    /\ UNCHANGED <<sock, listening>> /\ LeaderFrame

\* The early bail-out.
TryFirst(l) ==
    /\ at[l] = "try"
    /\ \/ TakeLock(l) /\ Go(l, "clean")
       \/ /\ Held(fd[l])
          /\ CloseLock(l)
          /\ Go(l, IF sock # NoOne THEN "gone" ELSE "clean")
    /\ UNCHANGED <<sock, listening>> /\ LeaderFrame

\* cleanup_socket, and run_leader_server's own removal.
CleanSocket(l) ==
    /\ \/ at[l] = "clean" /\ Go(l, "remove")
       \/ at[l] = "remove" /\ Go(l, "bind")
    /\ sock' = NoOne
    /\ UNCHANGED <<files, listening>> /\ LeaderFrame

\* LeaderListener::bind, which fails on a path that exists.
Bind(l) ==
    /\ at[l] = "bind"
    /\ sock' = IF sock = NoOne THEN l ELSE sock
    /\ listening' = IF sock = NoOne THEN listening \cup {l} ELSE listening
    /\ Go(l, "bound")
    /\ UNCHANGED files /\ LeaderFrame

\* The wait for a socket at the path, which anybody's ends.
SocketReady(l) ==
    /\ at[l] = "bound" /\ sock # NoOne
    /\ Go(l, IF l \in locked THEN "auth" ELSE "reopen")
    /\ UNCHANGED <<files, sock, listening>> /\ LeaderFrame

\* try_acquire_timeout opens the file once and then polls its flock.
OpenForHandoff(l) ==
    /\ at[l] = "reopen"
    /\ OpenLock(l)
    /\ Go(l, "poll")
    /\ UNCHANGED <<sock, listening>> /\ LeaderFrame

PollForHandoff(l) ==
    /\ at[l] = "poll"
    /\ TakeLock(l)
    /\ Go(l, "auth")
    /\ UNCHANGED <<sock, listening>> /\ LeaderFrame

\* The socket does not appear in time, or the lock does not come: the leader
\* returns with an error.  Its server, cancelled, may still unlink the socket.
GiveUp(l) ==
    /\ \/ at[l] = "bound" /\ sock = NoOne
       \/ at[l] = "poll" /\ Held(fd[l])
    /\ listening' = listening \ {l}
    /\ sock' \in {sock, NoOne}
    /\ IF l \in locked
       THEN Go(l, "unlink") /\ UNCHANGED files
       ELSE Go(l, "gone") /\ CloseLock(l)
    /\ LeaderFrame

\* Credentials and models are there; a server that could not bind ends it.
BecomeReady(l) ==
    /\ at[l] = "auth"
    /\ Go(l, IF l \in listening THEN "ready" ELSE "unlink")
    /\ UNCHANGED <<files, sock, listening>> /\ LeaderFrame

\* The server is cancelled by an update, or its last client has left.
Shutdown(l) ==
    /\ at[l] = "ready"
    /\ \/ l \in vacating /\ UNCHANGED faults
       \/ l \notin vacating /\ Fault
    /\ listening' = listening \ {l}
    /\ Go(l, "closing")
    /\ UNCHANGED <<files, sock, conn, target, version, vacating, torn>>

\* A faulty form of ServerExits: the flock goes before the paths are unlinked.
ExitsUnlocked(l) ==
    /\ at[l] = "closing"
    /\ sock' = NoOne
    /\ locked' = locked \ {l}
    /\ Go(l, "unlink")
    /\ UNCHANGED <<path, pid, fd, listening>> /\ LeaderFrame

\* run_leader_server returns; two seconds later the lock is dropped.
ServerExits(l) ==
    /\ at[l] = "closing"
    /\ sock' = NoOne
    /\ Go(l, "unlink")
    /\ UNCHANGED <<files, listening>> /\ LeaderFrame

Kill(p) ==
    /\ IF p \in Leader THEN Alive(p) ELSE at[p] # "idle"
    /\ Fault
    /\ Killed({p})
    /\ Go(p, IF p \in Leader THEN "gone" ELSE "idle")
    /\ conn' = [c \in Client |-> IF c = p THEN NoOne ELSE conn[c]]
    /\ target' = [c \in Client |-> IF c = p THEN NoOne ELSE target[c]]
    /\ UNCHANGED <<sock, version, vacating, torn>>

LeaderStep(l) ==
    \/ OpenFirst(l) \/ TryFirst(l) \/ CleanSocket(l) \/ Bind(l) \/ SocketReady(l)
    \/ OpenForHandoff(l) \/ PollForHandoff(l) \/ GiveUp(l) \/ BecomeReady(l)
    \/ ServerExits(l)

Next ==
    \/ \E c \in Client : Peek(c) \/ ClientStep(c) \/ TimesOut(c) \/ Leave(c)
    \/ \E l \in Leader : StartByHand(l) \/ LeaderStep(l) \/ Shutdown(l)
    \/ \E p \in Proc : DropLock(p) \/ Kill(p)

Spec == Init /\ [][Next]_vars

\* The executor runs every process that can go on, a timeout comes if nothing
\* else does, and a leader that is to relaunch ends.
Fairness ==
    /\ \A c \in Client : /\ WF_vars(Peek(c)) /\ WF_vars(ClientStep(c)) /\ WF_vars(TimesOut(c))
                         /\ SF_vars(Connect(c))
    /\ \A l \in Leader : WF_vars(LeaderStep(l)) /\ WF_vars(l \in vacating /\ Shutdown(l))
    /\ \A p \in Proc : WF_vars(DropLock(p))

FairSpec == Spec /\ Fairness
-----------------------------------------------------------------------------
Leads(l) == at[l] \in {"auth", "ready", "closing"} /\ l \in locked

\* Two leaders lead at once only if the lock file was unlinked while another
\* process had it open: but for that, the flock and its hand-over exclude a
\* second leader through every race of spawners, kills and evictions.
SplitHasCause == Cardinality({l \in Leader : Leads(l)}) > 1 => torn

\* A client that holds the flock of the file the path leads to never sees a live
\* leader in it: the adoption and the eviction it would then try are for a lock
\* file that was replaced while the client waited for the old one.
HolderSeesNoLeader ==
    \A c \in Client : at[c] = "holds" /\ fd[c] = path => ~Alive(ReadPid)

\* What lock.rs and mod.rs say: the exclusive lock tells who is the leader, and
\* the flock makes for exactly one evictor and spawner.
OneLeader == Cardinality({l \in Leader : Leads(l)}) <= 1

\* A leader leads, and its socket is not where the clients look for it.
Unreachable == \E l \in Leader : at[l] = "ready" /\ l \in locked /\ fd[l] = path /\ sock # l

\* A client that calls connect_or_spawn gets a connection or an error, whatever
\* it meets: refused connections, dead leaders, evictions, a lock that others hold.
\* Only a leader that leads without a socket keeps it waiting for ever.
CallReturns ==
    \A c \in Client : at[c] = "peek" ~> at[c] \in {"idle", "done"} \/ Unreachable
=============================================================================
