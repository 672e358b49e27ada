--------------------------- MODULE SchedulerProofs ---------------------------
(***************************************************************************)
(* Proofs about Scheduler: its types, that a saved task leaves the file    *)
(* for a cause, that a created task is saved, that a removal is final,     *)
(* that fires are spaced, and that the panel shows every task.             *)
(*                                                                         *)
(* The inductive invariant IInv follows the two copies of a task that      *)
(* outlive the actor's: the file, and what the file will hold next         *)
(* (Saved).  Copies and Losses relate them to memory, and Fresh says that  *)
(* an id is nowhere before its creation has been handled.  View adds what  *)
(* the notifications on their way will make of the panel.                  *)
(***************************************************************************)
EXTENDS SchedulerProperties, ListTheorems

Command == [op : {"create"}, task : Task, saves : BOOLEAN]
             \cup [op : {"delete"}, id : Id, saves : BOOLEAN]
Note == [kind : {"Created", "Removed", "Fired", "FiredLate"}, id : Id]
OneOfEach(s) == \A i, j \in DOMAIN s : s[i].id = s[j].id => i = j
TaskList == {s \in Seq(Task) : Len(s) <= MaxTasks /\ OneOfEach(s)}

\* What the file will hold once the writer has nothing left.
Saved == IF pending = None THEN disk ELSE pending[1]

Typed ==
    /\ now \in 0..MaxTime /\ up \in BOOLEAN /\ cancelled \in BOOLEAN /\ owed \in BOOLEAN
    /\ behind \in BOOLEAN
    /\ pc \in {"missed", "prune", "announce", "loop", "done"}
    /\ tasks \in TaskList /\ disk \in TaskList
    /\ pending \in {None} \cup {<<s>> : s \in TaskList}
    /\ missed \in Seq(Id) /\ cmds \in Seq(Command) /\ wire \in Seq(Note)
    /\ logged \subseteq Id /\ panel \subseteq Id /\ everFired \subseteq Id
    /\ deleted \subseteq Id /\ gone \subseteq Id /\ ghosts \subseteq Id /\ answered \subseteq Id
    /\ lastFire \in [Id -> {Never} \cup 0..MaxTime]
    /\ created \in 0..MaxRequests /\ asked \in 0..MaxRequests /\ created <= asked
    /\ lives \in 1..MaxLives /\ faults \in 0..MaxFaults

\* What the actor's place tells.
Places ==
    /\ ~up => /\ pc = "missed" /\ tasks = <<>> /\ cmds = <<>>
              /\ pending = None /\ wire = <<>>
    /\ pc = "missed" => /\ gone = {} /\ answered = {}
                        /\ \A id \in Id : lastFire[id] = Never
    /\ pc # "prune" => missed = <<>>
    /\ pc = "done" => cancelled

\* No task and no memory of one has an id that is still to be handled.
Fresh(id) ==
    /\ id \notin Ids(tasks) /\ id \notin Ids(disk) /\ id \notin Ids(Saved)
    /\ id \notin answered /\ id \notin gone /\ lastFire[id] = Never
NewIdsAreFresh ==
    /\ \A id \in Id : id > created => Fresh(id)
    /\ \A i \in DOMAIN cmds : cmds[i].op = "create" =>
        /\ cmds[i].task.id <= created
        /\ Fresh(cmds[i].task.id)
        /\ \A j \in DOMAIN cmds :
            cmds[j].op = "create" /\ cmds[j].task.id = cmds[i].task.id => i = j

\* The copies of a task agree on what its end depends on.
SameTasks(a, b) ==
    \A t \in ToSet(a), u \in ToSet(b) :
        t.id = u.id => t.recurring = u.recurring /\ t.expires = u.expires
Copies == SameTasks(tasks, disk) /\ SameTasks(tasks, Saved)

\* A task that is in the file and not in a copy that may replace it has ended.
Ended(t) ==
    \/ t.id \in deleted
    \/ ~t.recurring /\ t.id \in everFired
    \/ IsExpired(t)
LostOnlyEnded(s, t) == \A u \in ToSet(s) : u.id \in Ids(t) \/ Ended(u)
Losses ==
    /\ LostOnlyEnded(disk, Saved)
    /\ up /\ pc # "done" => LostOnlyEnded(disk, tasks) /\ LostOnlyEnded(Saved, tasks)

\* The tasks about to be pruned are one-shots that fired.
Late ==
    /\ Range(missed) \subseteq Ids(tasks)
    /\ \A t \in ToSet(tasks) : t.id \in Range(missed) => ~t.recurring /\ t.id \in everFired

\* No task in memory was announced as removed.
Removals == gone \cap Ids(tasks) = {}

\* A task that fired and stays is due an interval after that, not before.
Spaced ==
    \A t \in ToSet(tasks) : lastFire[t.id] # Never =>
        \/ t.id \in Range(missed)
        \/ t.recurring /\ lastFire[t.id] <= t.anchor

\* What no call is about to save and no call has lost will be in the file.
Saves == Serving /\ ~owed /\ ~behind => answered \cap Ids(tasks) \subseteq Ids(Saved)

IInv == /\ Typed /\ Places /\ NewIdsAreFresh /\ Copies
        /\ Losses /\ Late /\ Removals /\ Spaced /\ Saves
-----------------------------------------------------------------------------
(* What is done to a list of tasks.                                        *)

\* The tasks of a list, and their ids: no two have the same.
LEMMA ListElements ==
  ASSUME NEW s \in TaskList
  PROVE  /\ s \in Seq(Task) /\ DOMAIN s = 1..Len(s) /\ Len(s) \in Nat
         /\ ToSet(s) \subseteq Task /\ Ids(s) \subseteq Id
         /\ \A t, u \in ToSet(s) : t.id = u.id => t = u
<1>1. s \in Seq(Task) /\ OneOfEach(s)
  BY DEF TaskList
<1>2. DOMAIN s = 1..Len(s) /\ Len(s) \in Nat /\ \A i \in DOMAIN s : s[i] \in Task
  BY <1>1
<1>3. ToSet(s) \subseteq Task
  BY <1>2 DEF ToSet
<1>4. \A t \in Task : t.id \in Id
  BY DEF Task
<1>5. QED
  BY <1>1, <1>2, <1>3, <1>4 DEF ToSet, Ids, OneOfEach

\* Keeping some tasks of a list (retain).
LEMMA KeepTasks ==
  ASSUME NEW s \in TaskList, NEW S
  PROVE  Keep(s, S) \in TaskList /\ ToSet(Keep(s, S)) = ToSet(s) \cap S
<1> DEFINE k == Keep(s, S)
<1>1. s \in Seq(Task) /\ Len(s) <= MaxTasks /\ Len(s) \in Nat /\ DOMAIN s = 1..Len(s)
  BY ListElements DEF TaskList
<1>2. /\ k \in Seq(Task) /\ Len(k) <= Len(s) /\ Follows(k, s, Len(s))
      /\ ToSet(k) = ToSet(s) \cap S
  BY <1>1, KeepOrder, KeepElements
<1> HIDE DEF k
<1>3. DOMAIN k = 1..Len(k) /\ Len(k) \in Nat
  BY <1>2
<1>4. ASSUME NEW a \in 1..Len(k), NEW b \in 1..Len(k), a < b PROVE k[a].id # k[b].id
  <2>1. PICK c \in 1..Len(s), d \in 1..Len(s) : c < d /\ k[a] = s[c] /\ k[b] = s[d]
    BY <1>2, <1>4 DEF Follows
  <2>2. s[c].id # s[d].id
    BY <1>1, <2>1 DEF TaskList, OneOfEach
  <2>3. QED
    BY <2>1, <2>2
<1>5. OneOfEach(k)
  BY <1>3, <1>4 DEF OneOfEach
<1>6. Len(k) <= MaxTasks
  BY <1>1, <1>2, <1>3, BoundAssumption
<1>7. k \in TaskList
  BY <1>2, <1>5, <1>6 DEF TaskList
<1>8. QED
  BY <1>2, <1>7 DEF k

\* Keeping the tasks with some ids.
LEMMA KeepIdsTasks ==
  ASSUME NEW s \in TaskList, NEW S
  PROVE  /\ KeepIds(s, S) \in TaskList
         /\ ToSet(KeepIds(s, S)) = {t \in ToSet(s) : t.id \in S}
         /\ Ids(KeepIds(s, S)) = Ids(s) \cap S
<1>1. /\ KeepIds(s, S) \in TaskList
      /\ ToSet(KeepIds(s, S)) = {t \in ToSet(s) : t.id \in S}
  BY KeepTasks DEF KeepIds
<1> HIDE DEF KeepIds
<1>2. QED
  BY <1>1 DEF Ids

\* A task with an id of its own is added.
LEMMA AppendTask ==
  ASSUME NEW s \in TaskList, NEW t \in Task, Len(s) < MaxTasks, t.id \notin Ids(s)
  PROVE  /\ Append(s, t) \in TaskList
         /\ ToSet(Append(s, t)) = ToSet(s) \cup {t}
         /\ Ids(Append(s, t)) = Ids(s) \cup {t.id}
<1> DEFINE a == Append(s, t)
<1>1. s \in Seq(Task) /\ Len(s) \in Nat /\ DOMAIN s = 1..Len(s) /\ OneOfEach(s)
  BY ListElements DEF TaskList
<1>2. a \in Seq(Task) /\ ToSet(a) = ToSet(s) \cup {t}
  BY <1>1, AppendElements
<1>3. /\ Len(a) = Len(s) + 1 /\ DOMAIN a = 1..(Len(s) + 1)
      /\ a[Len(s) + 1] = t /\ \A i \in 1..Len(s) : a[i] = s[i]
  BY <1>1
<1>4. \A i \in 1..Len(s) : s[i].id # t.id
  BY <1>1 DEF Ids, ToSet
<1> HIDE DEF a
<1>5. OneOfEach(a)
  BY <1>1, <1>3, <1>4 DEF OneOfEach
<1>6. Len(a) <= MaxTasks
  BY <1>1, <1>3, BoundAssumption
<1>7. a \in TaskList
  BY <1>2, <1>5, <1>6 DEF TaskList
<1>8. Ids(a) = Ids(s) \cup {t.id}
  BY <1>2 DEF Ids
<1>9. QED
  BY <1>2, <1>7, <1>8 DEF a

\* The task at a place is removed.
LEMMA RemoveTask ==
  ASSUME NEW s \in TaskList, NEW i \in DOMAIN s
  PROVE  /\ RemoveAt(s, i) \in TaskList
         /\ ToSet(RemoveAt(s, i)) = {t \in ToSet(s) : t.id # s[i].id}
         /\ Ids(RemoveAt(s, i)) = Ids(s) \ {s[i].id}
<1> DEFINE r == RemoveAt(s, i)
<1>1. s \in Seq(Task) /\ Len(s) \in Nat /\ DOMAIN s = 1..Len(s) /\ OneOfEach(s)
  BY ListElements DEF TaskList
<1>2. /\ r \in Seq(Task) /\ Len(r) = Len(s) - 1 /\ DOMAIN r = 1..(Len(s) - 1)
      /\ \A j \in 1..(Len(s) - 1) : /\ j < i => r[j] = s[j]
                                    /\ j >= i => r[j] = s[j + 1]
  <2>1. i \in 1..Len(s)
    BY SMTT(40), <1>1
  <2>2. /\ r \in Seq(Task) /\ Len(r) = Len(s) - 1
        /\ \A j \in 1..(Len(s) - 1) : /\ j < i => r[j] = s[j]
                                      /\ j >= i => r[j] = s[j + 1]
    BY <1>1, <2>1, RemoveAtProperties
  <2> HIDE DEF r
  <2>3. DOMAIN r = 1..(Len(s) - 1)
    BY <2>2
  <2>4. QED
    BY <2>2, <2>3
<1> HIDE DEF r
<1>3. OneOfEach(r)
  BY SMTT(40), <1>1, <1>2 DEF OneOfEach
<1>4. Len(r) <= MaxTasks
  BY <1>1, <1>2, BoundAssumption DEF TaskList
<1>5. r \in TaskList
  BY <1>2, <1>3, <1>4 DEF TaskList
<1>6. ASSUME NEW j \in 1..(Len(s) - 1)
      PROVE  r[j] \in ToSet(s) /\ r[j].id # s[i].id
  <2>1. PICK k \in DOMAIN s : r[j] = s[k] /\ k # i
    <3>1. CASE j < i
      BY <1>1, <1>2, <3>1
    <3>2. CASE j >= i
      BY <1>1, <1>2, <3>2
    <3>3. QED
      BY <1>1, <3>1, <3>2
  <2>2. QED
    BY <1>1, <2>1 DEF ToSet, OneOfEach
<1>7. ASSUME NEW j \in DOMAIN s, s[j].id # s[i].id PROVE s[j] \in ToSet(r)
  <2>1. CASE j < i
    <3>1. j \in DOMAIN r /\ r[j] = s[j]
      BY <1>1, <1>2, <2>1
    <3>2. QED
      BY <3>1 DEF ToSet
  <2>2. CASE j > i
    <3>1. j - 1 \in DOMAIN r /\ r[j - 1] = s[j]
      BY <1>1, <1>2, <2>2
    <3>2. QED
      BY <3>1 DEF ToSet
  <2>3. QED
    BY <1>1, <1>7, <2>1, <2>2
<1>8. ToSet(r) = {t \in ToSet(s) : t.id # s[i].id}
  <2>1. ToSet(r) = {r[j] : j \in 1..(Len(s) - 1)}
    BY <1>2 DEF ToSet
  <2>2. ASSUME NEW t \in ToSet(s), t.id # s[i].id PROVE t \in ToSet(r)
    BY <1>7, <2>2 DEF ToSet
  <2>3. QED
    BY <1>6, <2>1, <2>2
<1>9. Ids(r) = Ids(s) \ {s[i].id}
  BY <1>8 DEF Ids
<1>10. QED
  BY <1>5, <1>8, <1>9 DEF r

\* A task is replaced by another form of it.
LEMMA ReplaceTask ==
  ASSUME NEW s \in TaskList, NEW i \in DOMAIN s, NEW t \in Task, t.id = s[i].id
  PROVE  /\ [s EXCEPT ![i] = t] \in TaskList
         /\ ToSet([s EXCEPT ![i] = t]) = {u \in ToSet(s) : u.id # t.id} \cup {t}
         /\ Ids([s EXCEPT ![i] = t]) = Ids(s)
<1> DEFINE r == [s EXCEPT ![i] = t]
<1>1. s \in Seq(Task) /\ Len(s) \in Nat /\ DOMAIN s = 1..Len(s) /\ OneOfEach(s)
  BY ListElements DEF TaskList
<1>2. /\ r \in Seq(Task) /\ Len(r) = Len(s) /\ DOMAIN r = DOMAIN s
      /\ \A j \in DOMAIN s : r[j] = IF j = i THEN t ELSE s[j]
  BY <1>1
<1> HIDE DEF r
<1>3. OneOfEach(r)
  BY <1>1, <1>2 DEF OneOfEach
<1>4. r \in TaskList
  BY <1>2, <1>3 DEF TaskList
<1>5. ToSet(r) = {u \in ToSet(s) : u.id # t.id} \cup {t}
  BY <1>1, <1>2 DEF ToSet, OneOfEach
<1>6. Ids(r) = Ids(s)
  BY <1>5 DEF Ids, ToSet
<1>7. QED
  BY <1>4, <1>5, <1>6 DEF r

\* The ids of a list, in order.
LEMMA IdSeqProperties ==
  ASSUME NEW s \in TaskList
  PROVE  /\ IdSeq(s) \in Seq(Id) /\ Range(IdSeq(s)) = Ids(s)
         /\ IdSeq(s) = <<>> => Ids(s) = {}
<1>1. DOMAIN s = 1..Len(s) /\ Len(s) \in Nat /\ \A i \in DOMAIN s : s[i].id \in Id
  BY ListElements DEF Ids, ToSet
<1>2. IdSeq(s) \in Seq(Id) /\ DOMAIN IdSeq(s) = DOMAIN s
  BY <1>1 DEF IdSeq
<1>3. \A i \in DOMAIN s : IdSeq(s)[i] = s[i].id
  BY DEF IdSeq
<1>4. Range(IdSeq(s)) = Ids(s)
  BY <1>2, <1>3 DEF Range, Ids, ToSet
<1>5. IdSeq(s) = <<>> => Ids(s) = {}
  BY <1>2 DEF Ids, ToSet
<1>6. QED
  BY <1>2, <1>4, <1>5

\* A notification for each of some ids.
LEMMA NotesProperties ==
  ASSUME NEW kind \in {"Created", "Removed", "Fired", "FiredLate"}, NEW ids \in Seq(Id)
  PROVE  /\ Notes(kind, ids) \in Seq(Note)
         /\ \A n \in Range(Notes(kind, ids)) : n.kind = kind /\ n.id \in Range(ids)
<1>1. DOMAIN ids = 1..Len(ids) /\ Len(ids) \in Nat /\ \A i \in DOMAIN ids : ids[i] \in Id
  OBVIOUS
<1>2. Notes(kind, ids) \in Seq(Note)
  BY <1>1 DEF Notes, Note
<1>3. ASSUME NEW n \in Range(Notes(kind, ids)) PROVE n.kind = kind /\ n.id \in Range(ids)
  BY <1>3 DEF Notes, Range
<1>4. QED
  BY <1>2, <1>3

\* What a step sends is what it appends to the wire.
LEMMA JoinNotes ==
  ASSUME NEW w \in Seq(Note), NEW n \in Seq(Note)
  PROVE  /\ w \o n \in Seq(Note)
         /\ Range(w \o n) = Range(w) \cup Range(n)
         /\ Range(SubSeq(w \o n, Len(w) + 1, Len(w \o n))) = Range(n)
<1> DEFINE z == w \o n
           u == SubSeq(z, Len(w) + 1, Len(z))
<1>1. /\ z \in Seq(Note) /\ Len(z) = Len(w) + Len(n) /\ Len(w) \in Nat /\ Len(n) \in Nat
      /\ \A j \in 1..Len(w) : z[j] = w[j]
      /\ \A j \in 1..Len(n) : z[Len(w) + j] = n[j]
  BY JoinPlaces
<1>2. /\ DOMAIN z = 1..(Len(w) + Len(n)) /\ DOMAIN w = 1..Len(w) /\ DOMAIN n = 1..Len(n)
  BY <1>1
<1> HIDE DEF z
<1>3. Len(u) = Len(n) /\ DOMAIN u = 1..Len(n) /\ \A j \in 1..Len(n) : u[j] = z[Len(w) + j]
  BY <1>1
<1> HIDE DEF u
<1>4. Range(u) = Range(n)
  BY <1>1, <1>2, <1>3 DEF Range
<1>5. Range(z) \subseteq Range(w) \cup Range(n)
  <2>1. ASSUME NEW j \in 1..(Len(w) + Len(n)) PROVE z[j] \in Range(w) \cup Range(n)
    <3>1. CASE j \in 1..Len(w)
      BY <1>1, <1>2, <3>1 DEF Range
    <3>2. CASE j \notin 1..Len(w)
      <4>1. j - Len(w) \in 1..Len(n) /\ Len(w) + (j - Len(w)) = j
        BY <1>1, <3>2
      <4>2. z[j] = n[j - Len(w)]
        BY <1>1, <4>1
      <4>3. QED
        BY <1>2, <4>1, <4>2 DEF Range
    <3>3. QED
      BY <3>1, <3>2
  <2>2. QED
    BY <1>2, <2>1 DEF Range
<1>6. Range(w) \cup Range(n) \subseteq Range(z)
  <2>1. \A j \in DOMAIN w : j \in DOMAIN z /\ z[j] = w[j]
    BY <1>1, <1>2
  <2>2. \A j \in DOMAIN n : Len(w) + j \in DOMAIN z /\ z[Len(w) + j] = n[j]
    BY <1>1, <1>2
  <2>3. QED
    BY <2>1, <2>2 DEF Range
<1>7. QED
  BY <1>1, <1>4, <1>5, <1>6 DEF z, u

\* A step that appends notifications sends nothing else.
LEMMA Sending ==
  ASSUME wire \in Seq(Note), NEW n \in Seq(Note), wire' = wire \o n
  PROVE  wire' \in Seq(Note) /\ Sent \subseteq Range(n)
  BY JoinNotes DEF Sent

\* A step that appends none, the bridge's too, sends none.
LEMMA SendingNothing ==
  ASSUME wire \in Seq(Note),
         wire' = wire \/ (wire # <<>> /\ wire' = Tail(wire)) \/ wire' = <<>>
  PROVE  wire' \in Seq(Note) /\ Sent = {}
<1>1. Len(wire) \in Nat
  OBVIOUS
<1>2. Len(wire') <= Len(wire) /\ wire' \in Seq(Note)
  <2>1. CASE wire' = wire
    BY SMTT(40), <1>1, <2>1
  <2>2. CASE wire # <<>> /\ wire' = Tail(wire)
    <3>1. Len(Tail(wire)) = Len(wire) - 1 /\ Tail(wire) \in Seq(Note)
      BY <2>2
    <3>2. Len(wire) - 1 <= Len(wire)
      BY <1>1
    <3>3. QED
      BY <2>2, <3>1, <3>2
  <2>3. CASE wire' = <<>>
    BY <1>1, <2>3
  <2>4. QED
    BY <2>1, <2>2, <2>3
<1>3. ~(Len(wire') > Len(wire))
  BY <1>1, <1>2
<1>4. QED
  BY <1>2, <1>3 DEF Sent

-----------------------------------------------------------------------------
(* The invariant.                                                          *)

\* The empty list is a list of tasks, without any.
LEMMA EmptyList == <<>> \in TaskList /\ ToSet(<<>>) = {} /\ Ids(<<>>) = {}
<1>1. <<>> \in Seq(Task) /\ Len(<<>>) = 0 /\ DOMAIN <<>> = {}
  OBVIOUS
<1>2. 0 <= MaxTasks
  BY BoundAssumption
<1>3. QED
  BY <1>1, <1>2 DEF TaskList, OneOfEach, ToSet, Ids

\* What the file will hold is a list of tasks.
LEMMA SavedIsList == Typed => Saved \in TaskList
  BY DEF Typed, Saved, None

\* The invariant holds when the session starts.
LEMMA InitIInv == Init => IInv
<1> SUFFICES ASSUME Init PROVE IInv
  OBVIOUS
<1>1. Typed
  <2>1. up \in BOOLEAN /\ cancelled \in BOOLEAN /\ owed \in BOOLEAN /\ behind \in BOOLEAN
    BY Zenon DEF Init
  <2>2. /\ {0} \subseteq 0..MaxTime /\ {0} \subseteq 0..MaxRequests
        /\ 0 \in 0..MaxFaults /\ 1 \in 1..MaxLives
    BY BoundAssumption
  <2>3. /\ tasks \in TaskList /\ disk \in TaskList /\ pending = None
        /\ missed \in Seq(Id) /\ cmds \in Seq(Command) /\ wire \in Seq(Note)
    BY EmptyList DEF Init
  <2>4. lastFire \in [Id -> {Never} \cup 0..MaxTime]
    BY DEF Init
  <2>5. QED
    BY <2>1, <2>2, <2>3, <2>4 DEF Init, Typed
<1>2. Saved = <<>> /\ tasks = <<>> /\ disk = <<>> /\ missed = <<>> /\ Range(missed) = {}
  BY DEF Init, Saved, None, Range
<1>3. Places
  BY DEF Init, Places, None
<1>4. NewIdsAreFresh
  BY <1>2, EmptyList DEF Init, NewIdsAreFresh, Fresh
<1>5. Copies /\ Losses
  BY <1>2, EmptyList DEF Copies, SameTasks, Losses, LostOnlyEnded
<1>6. Late /\ Removals /\ Spaced /\ Saves
  BY <1>2, EmptyList DEF Late, Removals, Spaced, Saves, Init
<1>7. QED
  BY <1>1, <1>3, <1>4, <1>5, <1>6 DEF IInv

\* What is kept of the invariant by a step that touches no list of tasks.
LEMMA ListsAlone ==
  ASSUME IInv, UNCHANGED <<up, tasks, missed, pending, disk, history>>,
         pc' = pc \/ (pc = "announce" /\ pc' = "loop"),
         now' \in Nat, now' >= now,
         Serving' /\ ~owed' /\ ~behind' => Serving /\ ~owed /\ ~behind
  PROVE  /\ Copies' /\ Losses' /\ Late' /\ Removals' /\ Spaced' /\ Saves'
         /\ \A id \in Id : Fresh(id) => Fresh(id)'
         /\ Saved' = Saved
<1>1. /\ Saved' = Saved /\ up' = up /\ tasks' = tasks /\ missed' = missed /\ disk' = disk
      /\ lastFire' = lastFire /\ everFired' = everFired /\ deleted' = deleted
      /\ gone' = gone /\ answered' = answered
  BY DEF Saved, history
<1>2. Typed /\ now \in Nat
  BY DEF IInv, Typed
<1>3. Copies'
  BY <1>1 DEF IInv, Copies
<1>4. \A t \in Task : Ended(t) => Ended(t)'
  BY <1>1, <1>2 DEF Ended, IsExpired, Task
<1>5. /\ ToSet(tasks) \subseteq Task /\ ToSet(disk) \subseteq Task /\ ToSet(Saved) \subseteq Task
  BY <1>2, ListElements, SavedIsList DEF Typed
<1>6. ASSUME NEW a, NEW b, LostOnlyEnded(a, b), ToSet(a) \subseteq Task
      PROVE  \A u \in ToSet(a) : u.id \in Ids(b) \/ Ended(u)'
  BY <1>4, <1>6 DEF LostOnlyEnded
<1>7. Losses'
  BY <1>1, <1>5, <1>6 DEF IInv, Losses, LostOnlyEnded
<1>8. Late' /\ Removals' /\ Spaced'
  BY <1>1 DEF IInv, Late, Removals, Spaced
<1>9. Saves'
  BY <1>1 DEF IInv, Saves
<1>10. \A id \in Id : Fresh(id) => Fresh(id)'
  BY <1>1 DEF Fresh
<1>11. QED
  BY <1>1, <1>3, <1>7, <1>8, <1>9, <1>10

\* What is to be created has an id of the instance.
LEMMA CommandIds ==
  ASSUME Typed
  PROVE  \A i \in DOMAIN cmds : cmds[i].op = "create" => cmds[i].task.id \in Id
<1>1. cmds \in Seq(Command)
  BY DEF Typed
<1>2. \A i \in DOMAIN cmds : cmds[i] \in Command
  BY <1>1
<1>3. QED
  BY <1>2 DEF Command, Task

\* The commands, when one is added or none changes.
LEMMA SameCommands ==
  ASSUME Typed, NewIdsAreFresh, cmds' = cmds, created' = created,
         \A id \in Id : Fresh(id) => Fresh(id)'
  PROVE  NewIdsAreFresh'
<1>1. \A i \in DOMAIN cmds : cmds[i].op = "create" => cmds[i].task.id \in Id
  BY CommandIds
<1>2. QED
  BY <1>1 DEF NewIdsAreFresh

\* The commands, when one is sent.
LEMMA AddCommand ==
  ASSUME NEW c \in Command, Typed, cmds' = Append(cmds, c)
  PROVE  /\ cmds' \in Seq(Command) /\ Len(cmds) \in Nat
         /\ DOMAIN cmds' = DOMAIN cmds \cup {Len(cmds) + 1} /\ Len(cmds) + 1 \notin DOMAIN cmds
         /\ cmds'[Len(cmds) + 1] = c /\ \A i \in DOMAIN cmds : cmds'[i] = cmds[i]
<1>1. cmds \in Seq(Command)
  BY DEF Typed
<1>2. QED
  BY <1>1

\* A request to delete makes no id used.
LEMMA AddDelete ==
  ASSUME NEW c \in [op : {"delete"}, id : Id, saves : BOOLEAN], Typed, NewIdsAreFresh,
         cmds' = Append(cmds, c), created' = created, \A id \in Id : Fresh(id) => Fresh(id)'
  PROVE  cmds' \in Seq(Command) /\ NewIdsAreFresh'
<1>1. c \in Command /\ c.op # "create"
  BY DEF Command
<1>2. /\ cmds' \in Seq(Command)
      /\ DOMAIN cmds' = DOMAIN cmds \cup {Len(cmds) + 1}
      /\ cmds'[Len(cmds) + 1] = c /\ \A i \in DOMAIN cmds : cmds'[i] = cmds[i]
  BY <1>1, AddCommand
<1>3. \A i \in DOMAIN cmds' : cmds'[i].op = "create" =>
        i \in DOMAIN cmds /\ cmds'[i] = cmds[i] /\ cmds[i].task.id \in Id
  BY <1>1, <1>2, CommandIds
<1>4. QED
  BY <1>2, <1>3 DEF NewIdsAreFresh

\* scheduler_create: the new id is fresh, and it is the only command that has it.
LEMMA CreateKeeps ==
  ASSUME IInv, NEW r \in Request, NEW own \in BOOLEAN, Create(r, own)
  PROVE  IInv'
<1> DEFINE t == NewTask(created + 1, r)
           c == [op |-> "create", task |-> t, saves |-> own]
<1>1. /\ Typed /\ Places /\ NewIdsAreFresh
      /\ cmds' = Append(cmds, c) /\ asked < MaxRequests /\ asked' = asked + 1
      /\ created' = created + 1
      /\ UNCHANGED <<now, life, actor, owed, files, wire, client, history>>
  BY DEF IInv, Create, Asks
<1>2. /\ created \in Nat /\ asked \in Nat /\ created <= asked /\ now \in Nat
      /\ MaxRequests \in Nat /\ Expiry \in Nat
  BY <1>1, BoundAssumption DEF Typed
<1>3. /\ created + 1 \in Id /\ created' <= asked'
      /\ asked' \in 0..MaxRequests /\ created' \in 0..MaxRequests
  BY <1>1, <1>2 DEF Id
<1>4. t \in Task /\ t.id = created + 1
  <2>1. /\ r.interval \in Nat \ {0} /\ r.recurring \in BOOLEAN /\ r.durable \in BOOLEAN
        /\ r.immediate \in BOOLEAN
    BY RequestAssumption
  <2>2. (IF r.immediate THEN now - r.interval ELSE now) \in Int
    BY <1>2, <2>1
  <2>3. now + Expiry \in Nat
    BY <1>2
  <2>4. QED
    BY <1>3, <2>1, <2>2, <2>3 DEF NewTask, Task
<1> HIDE DEF t
<1>5. c \in Command /\ c.op = "create" /\ c.task = t
  BY <1>4 DEF Command
<1> HIDE DEF c
<1>6. /\ cmds' \in Seq(Command) /\ Len(cmds) + 1 \notin DOMAIN cmds
      /\ DOMAIN cmds' = DOMAIN cmds \cup {Len(cmds) + 1}
      /\ cmds'[Len(cmds) + 1] = c /\ \A i \in DOMAIN cmds : cmds'[i] = cmds[i]
  BY <1>1, <1>5, AddCommand
<1>7. Typed'
  BY <1>1, <1>3, <1>6 DEF Typed, life, actor, files, client, history
<1>8. Places'
  <2>1. up
    BY DEF Create, Asks, Serving
  <2>2. QED
    BY <1>1, <2>1 DEF Places, life, actor, files, history
<1>9. /\ Copies' /\ Losses' /\ Late' /\ Removals' /\ Spaced' /\ Saves'
      /\ \A id \in Id : Fresh(id) => Fresh(id)'
  BY <1>1, <1>2, ListsAlone DEF life, actor, files, Serving
<1>10. NewIdsAreFresh'
  <2>1. \A id \in Id : id > created' => Fresh(id)'
    BY <1>1, <1>2, <1>9 DEF NewIdsAreFresh, Id
  <2>2. t.id = created + 1 /\ t.id <= created' /\ t.id > created
    BY <1>1, <1>2, <1>4
  <2>3. \A i \in DOMAIN cmds : cmds[i].op = "create" =>
          /\ cmds[i].task.id \in Id /\ cmds[i].task.id <= created
          /\ Fresh(cmds[i].task.id)
    <3>1. \A i \in DOMAIN cmds : cmds[i] \in Command
      BY <1>1 DEF Typed
    <3>2. \A i \in DOMAIN cmds : cmds[i].op = "create" => cmds[i].task.id \in Id
      BY <3>1 DEF Command, Task
    <3>3. QED
      BY <1>1, <3>2 DEF NewIdsAreFresh
  <2>4. ASSUME NEW i \in DOMAIN cmds', NEW j \in DOMAIN cmds',
               cmds'[i].op = "create", cmds'[j].op = "create",
               cmds'[j].task.id = cmds'[i].task.id
        PROVE  i = j
    <3>1. CASE i \in DOMAIN cmds /\ j \in DOMAIN cmds
      BY <1>1, <1>6, <2>4, <3>1 DEF NewIdsAreFresh
    <3>2. CASE i \notin DOMAIN cmds /\ j \notin DOMAIN cmds
      BY <1>6, <3>2
    <3>3. CASE i \in DOMAIN cmds /\ j \notin DOMAIN cmds
      <4>1. cmds[i].task.id <= created /\ cmds[i].task.id = t.id
        BY <1>5, <1>6, <2>3, <2>4, <3>3
      <4>2. QED
        BY <1>2, <1>4, <4>1
    <3>4. CASE i \notin DOMAIN cmds /\ j \in DOMAIN cmds
      <4>1. cmds[j].task.id <= created /\ cmds[j].task.id = t.id
        BY <1>5, <1>6, <2>3, <2>4, <3>4
      <4>2. QED
        BY <1>2, <1>4, <4>1
    <3>5. QED
      BY <3>1, <3>2, <3>3, <3>4
  <2>5. ASSUME NEW i \in DOMAIN cmds', cmds'[i].op = "create",
               NEW k \in Id, k = cmds'[i].task.id
        PROVE  k <= created' /\ Fresh(k)'
    <3>1. CASE i \in DOMAIN cmds
      <4>1. k = cmds[i].task.id /\ k <= created /\ Fresh(k)
        BY <1>6, <2>3, <2>5, <3>1
      <4>2. QED
        BY <1>1, <1>2, <1>9, <4>1 DEF Id
    <3>2. CASE i \notin DOMAIN cmds
      <4>1. k = created + 1
        BY <1>5, <1>6, <2>2, <2>5, <3>2
      <4>2. Fresh(k)
        BY <1>1, <1>2, <4>1 DEF NewIdsAreFresh
      <4>3. QED
        BY <1>1, <1>2, <1>9, <4>1, <4>2
    <3>3. QED
      BY <3>1, <3>2
  <2>6. \A i \in DOMAIN cmds' : cmds'[i].op = "create" => cmds'[i].task.id \in Id
    <3>1. cmds' \in Seq(Command)
      BY <1>6
    <3>2. \A i \in DOMAIN cmds' : cmds'[i] \in Command
      BY <3>1
    <3>3. QED
      BY <3>2 DEF Command, Task
  <2>7. QED
    BY <2>1, <2>4, <2>5, <2>6 DEF NewIdsAreFresh
<1>11. QED
  BY <1>7, <1>8, <1>9, <1>10 DEF IInv

\* scheduler_delete, or a deletion from the panel.
LEMMA DeleteKeeps ==
  ASSUME IInv, NEW id \in Id, NEW own \in BOOLEAN, Delete(id, own) \/ CancelFromPanel(id)
  PROVE  IInv'
<1>1. PICK saves \in BOOLEAN :
        cmds' = Append(cmds, [op |-> "delete", id |-> id, saves |-> saves])
  BY DEF Delete, CancelFromPanel, Asks
<1>2. /\ Typed /\ Places /\ NewIdsAreFresh /\ up
      /\ asked < MaxRequests /\ asked' = asked + 1 /\ panel' \subseteq Id
      /\ UNCHANGED <<now, life, actor, owed, files, wire, logged, created, history>>
  BY DEF IInv, Delete, CancelFromPanel, Asks, Serving, Typed, client
<1>3. asked' \in 0..MaxRequests /\ created <= asked' /\ now \in Nat
  BY <1>2, BoundAssumption DEF Typed
<1>4. /\ Copies' /\ Losses' /\ Late' /\ Removals' /\ Spaced' /\ Saves'
      /\ \A k \in Id : Fresh(k) => Fresh(k)'
  BY <1>2, <1>3, ListsAlone DEF life, actor, files, Serving
<1>5. cmds' \in Seq(Command) /\ NewIdsAreFresh'
  BY <1>1, <1>2, <1>4, AddDelete
<1>6. Typed'
  BY <1>2, <1>3, <1>5 DEF Typed, life, actor, files, history
<1>7. Places'
  BY <1>2 DEF Places, life, actor, files, history
<1>8. QED
  BY <1>4, <1>5, <1>6, <1>7 DEF IInv

\* The re-announcement changes nothing but the wire.
LEMMA AnnounceKeeps == IInv /\ AnnounceExisting => IInv'
<1> SUFFICES ASSUME IInv, AnnounceExisting PROVE IInv'
  OBVIOUS
<1>1. /\ Typed /\ Places /\ NewIdsAreFresh
      /\ up /\ pc = "announce" /\ pc' = "loop" /\ wire' = wire \o Notes("Created", Announced)
      /\ UNCHANGED <<now, life, tasks, missed, cmds, owed, files, client, created, asked,
                     history>>
  BY DEF IInv, AnnounceExisting, At
<1>2. Notes("Created", Announced) \in Seq(Note) /\ wire' \in Seq(Note) /\ now \in Nat
  BY <1>1, IdSeqProperties, NotesProperties, Sending DEF Typed, Announced
<1>3. /\ Copies' /\ Losses' /\ Late' /\ Removals' /\ Spaced' /\ Saves'
      /\ \A k \in Id : Fresh(k) => Fresh(k)'
  BY <1>1, <1>2, ListsAlone DEF life, files, Serving
<1>4. NewIdsAreFresh'
  BY <1>1, <1>3, SameCommands
<1>5. Typed'
  BY <1>1, <1>2 DEF Typed, life, files, client, history
<1>6. Places'
  BY <1>1 DEF Places, life, files, history
<1>7. QED
  BY <1>3, <1>4, <1>5, <1>6 DEF IInv

\* The bridge changes nothing but the wire, the log and the panel.
LEMMA BridgeKeeps == IInv /\ Bridge => IInv'
<1> SUFFICES ASSUME IInv, Bridge PROVE IInv'
  OBVIOUS
<1>1. /\ Typed /\ Places /\ NewIdsAreFresh /\ up /\ wire # <<>> /\ wire' = Tail(wire)
      /\ UNCHANGED <<now, life, actor, cmds, owed, files, created, asked, history>>
  BY DEF IInv, Bridge
<1>2. wire' \in Seq(Note) /\ now \in Nat
  BY <1>1, SendingNothing DEF Typed
<1>3. logged' \subseteq Id /\ panel' \subseteq Id
  <2>1. Head(wire).id \in Id
    <3>1. wire \in Seq(Note)
      BY <1>1 DEF Typed
    <3>2. Head(wire) \in Note
      BY <1>1, <3>1
    <3>3. QED
      BY <3>2 DEF Note
  <2>2. QED
    BY <1>1, <2>1 DEF Bridge, Typed
<1>4. /\ Copies' /\ Losses' /\ Late' /\ Removals' /\ Spaced' /\ Saves'
      /\ \A k \in Id : Fresh(k) => Fresh(k)'
  BY <1>1, <1>2, ListsAlone DEF life, actor, files, Serving
<1>5. NewIdsAreFresh'
  BY <1>1, <1>4, SameCommands
<1>6. Typed'
  BY <1>1, <1>2, <1>3 DEF Typed, life, actor, files, history
<1>7. Places'
  BY <1>1 DEF Places, life, actor, files, history
<1>8. QED
  BY <1>4, <1>5, <1>6, <1>7 DEF IInv

\* Time: what has expired stays expired.
LEMMA TickKeeps == IInv /\ Tick => IInv'
<1> SUFFICES ASSUME IInv, Tick PROVE IInv'
  OBVIOUS
<1>1. /\ Typed /\ Places /\ NewIdsAreFresh /\ now < MaxTime /\ now' = now + 1
      /\ UNCHANGED <<life, actor, cmds, owed, files, wire, client, created, asked, history>>
  BY DEF IInv, Tick
<1>2. now' \in 0..MaxTime /\ now' \in Nat /\ now' >= now
  BY <1>1, BoundAssumption DEF Typed
<1>3. /\ Copies' /\ Losses' /\ Late' /\ Removals' /\ Spaced' /\ Saves'
      /\ \A k \in Id : Fresh(k) => Fresh(k)'
  BY <1>1, <1>2, ListsAlone DEF life, actor, files, Serving
<1>4. NewIdsAreFresh'
  BY <1>1, <1>3, SameCommands
<1>5. Typed'
  BY <1>1, <1>2 DEF Typed, life, actor, files, client, history
<1>6. Places'
  BY <1>1 DEF Places, life, actor, files, history
<1>7. QED
  BY <1>3, <1>4, <1>5, <1>6 DEF IInv

\* Nobody saves once the toolset was dropped.
LEMMA CancelKeeps == IInv /\ Cancel => IInv'
<1> SUFFICES ASSUME IInv, Cancel PROVE IInv'
  OBVIOUS
<1>1. /\ Typed /\ Places /\ NewIdsAreFresh /\ up /\ cancelled' /\ cancelled' \in BOOLEAN
      /\ owed' \in BOOLEAN
      /\ UNCHANGED <<now, up, lives, actor, cmds, files, wire, client, created, asked,
                     history>>
  BY Zenon DEF IInv, Cancel, Serving
<1>2. now \in Nat /\ ~Serving'
  BY <1>1 DEF Typed, Serving
<1>3. /\ Copies' /\ Losses' /\ Late' /\ Removals' /\ Spaced' /\ Saves'
      /\ \A k \in Id : Fresh(k) => Fresh(k)'
  BY <1>1, <1>2, ListsAlone DEF actor, files
<1>4. NewIdsAreFresh'
  BY <1>1, <1>3, SameCommands
<1>5. Typed'
  BY <1>1 DEF Typed, actor, files, client, history
<1>6. Places'
  BY <1>1 DEF Places, actor, files, history
<1>7. QED
  BY <1>3, <1>4, <1>5, <1>6 DEF IInv

\* The calls of a cancelled turn are dropped: their commands stay, and what was
\* done and not saved leaves the file behind.
LEMMA DropKeeps == IInv /\ DropCalls => IInv'
<1> SUFFICES ASSUME IInv, DropCalls PROVE IInv'
  OBVIOUS
<1>1. /\ Typed /\ Places /\ NewIdsAreFresh /\ up /\ ~cancelled
      /\ owed' = FALSE /\ behind' = (behind \/ owed)
      /\ cmds' = [i \in DOMAIN cmds |-> [cmds[i] EXCEPT !.saves = FALSE]]
      /\ UNCHANGED <<now, life, actor, pending, disk, faults, wire, client, created, asked,
                     history>>
  BY DEF IInv, DropCalls, Serving
<1>2. owed' \in BOOLEAN /\ behind' \in BOOLEAN /\ (~behind' => ~behind /\ ~owed)
  BY <1>1, Zenon DEF Typed
<1>3. /\ now \in Nat /\ now' \in Nat /\ now' >= now
      /\ UNCHANGED <<up, tasks, missed, pending, disk, history>> /\ pc' = pc /\ Serving
  BY <1>1 DEF Typed, Serving, life, actor
<1>4. /\ Copies' /\ Losses' /\ Late' /\ Removals' /\ Spaced'
      /\ \A k \in Id : Fresh(k) => Fresh(k)'
      /\ Saves'
  <2>1. ~behind' => Serving /\ ~owed /\ ~behind
    BY <1>2, <1>3
  <2>2. QED
    BY <1>3, <2>1, ListsAlone
<1>5. /\ cmds' \in Seq(Command) /\ DOMAIN cmds' = DOMAIN cmds
      /\ \A i \in DOMAIN cmds : /\ cmds'[i].op = cmds[i].op
                                /\ cmds[i].op = "create" => cmds'[i].task = cmds[i].task
  <2>1. cmds \in Seq(Command)
    BY <1>1 DEF Typed
  <2>2. ASSUME NEW c \in Command
        PROVE  /\ [c EXCEPT !.saves = FALSE] \in Command
               /\ [c EXCEPT !.saves = FALSE].op = c.op
               /\ c.op = "create" => [c EXCEPT !.saves = FALSE].task = c.task
    BY DEF Command
  <2>3. /\ \A i \in DOMAIN cmds : cmds[i] \in Command
        /\ DOMAIN cmds = 1..Len(cmds) /\ Len(cmds) \in Nat
    BY <2>1
  <2>4. PICK s : s = cmds'
    OBVIOUS
  <2>5. /\ s = [i \in 1..Len(cmds) |-> s[i]]
        /\ \A i \in 1..Len(cmds) : s[i] = [cmds[i] EXCEPT !.saves = FALSE]
    BY <1>1, <2>3, <2>4
  <2>6. \A i \in 1..Len(cmds) : /\ s[i] \in Command /\ s[i].op = cmds[i].op
                                /\ cmds[i].op = "create" => s[i].task = cmds[i].task
    BY <2>2, <2>3, <2>5
  <2>7. s \in Seq(Command) /\ DOMAIN s = DOMAIN cmds
    BY <2>3, <2>5, <2>6
  <2>8. QED
    BY <2>3, <2>4, <2>6, <2>7
<1>6. NewIdsAreFresh'
  <2>1. \A i \in DOMAIN cmds : cmds[i].op = "create" => cmds[i].task.id \in Id
    BY <1>1, CommandIds
  <2>2. created' = created
    BY <1>1
  <2>3. PICK s : s = cmds'
    OBVIOUS
  <2>4. ASSUME NEW i \in DOMAIN cmds, s[i].op = "create"
        PROVE  /\ s[i].task.id <= created /\ Fresh(s[i].task.id)'
               /\ \A j \in DOMAIN cmds :
                    s[j].op = "create" /\ s[j].task.id = s[i].task.id => i = j
    <3>1. cmds[i].op = "create" /\ s[i].task = cmds[i].task
      BY <1>5, <2>3, <2>4
    <3>2. /\ cmds[i].task.id <= created /\ Fresh(cmds[i].task.id)
          /\ \A j \in DOMAIN cmds :
                cmds[j].op = "create" /\ cmds[j].task.id = cmds[i].task.id => i = j
      BY <1>1, <3>1 DEF NewIdsAreFresh
    <3>3. QED
      BY <1>4, <1>5, <2>1, <2>3, <3>1, <3>2
  <2>5. QED
    BY <1>1, <1>4, <1>5, <2>2, <2>3, <2>4 DEF NewIdsAreFresh
<1>7. Typed'
  BY <1>1, <1>2, <1>5 DEF Typed, life, actor, client, history
<1>8. Places'
  BY <1>1 DEF Places, life, actor, history
<1>9. QED
  BY <1>4, <1>6, <1>7, <1>8 DEF IInv

-----------------------------------------------------------------------------
(* The steps that take a command, and those that take tasks away.          *)

\* The commands, when the first is taken: its id, if it has one, may be used.
LEMMA TakeCommand ==
  ASSUME Typed, NewIdsAreFresh, cmds # <<>>, cmds' = Tail(cmds), created' = created,
         \A id \in Id :
            Fresh(id) /\ ~(Head(cmds).op = "create" /\ id = Head(cmds).task.id)
              => Fresh(id)'
  PROVE  /\ cmds' \in Seq(Command) /\ NewIdsAreFresh'
         /\ Head(cmds) \in Command
         /\ Head(cmds).op = "create" => /\ Head(cmds).task.id <= created
                                        /\ Fresh(Head(cmds).task.id)
<1> DEFINE h == Head(cmds)
<1>1. cmds \in Seq(Command)
  BY DEF Typed
<1>2. /\ cmds' \in Seq(Command) /\ h = cmds[1] /\ 1 \in DOMAIN cmds /\ h \in Command
      /\ \A i \in DOMAIN cmds' : i + 1 \in DOMAIN cmds /\ i \in Nat /\ i + 1 # 1
      /\ \A i \in DOMAIN cmds' : cmds'[i] = cmds[i + 1]
  BY <1>1
<1>3. h.op = "create" => h.task.id <= created /\ Fresh(h.task.id)
  BY <1>2 DEF NewIdsAreFresh
<1> HIDE DEF h
<1>4. \A i \in DOMAIN cmds' : cmds'[i] \in Command
  BY <1>2
<1>5. created \in Nat /\ \A id \in Id : id \in Nat
  BY DEF Typed, Id
<1>6. \A id \in Id : Fresh(id) /\ ~(h.op = "create" /\ id = h.task.id) => Fresh(id)'
  BY DEF h
<1>7. ASSUME NEW id \in Id, id > created' PROVE Fresh(id)'
  <2>1. Fresh(id)
    BY <1>7 DEF NewIdsAreFresh
  <2>2. ~(h.op = "create" /\ id = h.task.id)
    BY <1>3, <1>5, <1>7
  <2>3. QED
    BY <1>6, <2>1, <2>2
<1>8. ASSUME NEW i \in DOMAIN cmds', cmds'[i].op = "create",
             NEW k, k = cmds'[i].task.id
      PROVE  k <= created' /\ Fresh(k)'
  <2>1. cmds[i + 1].op = "create" /\ k = cmds[i + 1].task.id /\ i + 1 \in DOMAIN cmds
    BY <1>2, <1>8
  <2>2. k <= created /\ Fresh(k)
    BY <2>1 DEF NewIdsAreFresh
  <2>3. ~(h.op = "create" /\ k = h.task.id)
    BY <1>2, <2>1 DEF NewIdsAreFresh
  <2>4. k \in Id
    BY <2>1, CommandIds
  <2>5. QED
    BY <1>6, <2>2, <2>3, <2>4
<1>9. ASSUME NEW i \in DOMAIN cmds', NEW j \in DOMAIN cmds',
             cmds'[i].op = "create", cmds'[j].op = "create",
             cmds'[j].task.id = cmds'[i].task.id
      PROVE  i = j
  <2>1. i + 1 = j + 1
    BY <1>2, <1>9 DEF NewIdsAreFresh
  <2>2. QED
    BY <1>2, <2>1
<1>10. NewIdsAreFresh'
  BY <1>7, <1>8, <1>9 DEF NewIdsAreFresh
<1>11. QED
  BY <1>2, <1>3, <1>10 DEF h

\* The tasks of X leave memory, for a cause, and this is told.
LEMMA TakeAway ==
  ASSUME IInv, NEW X, X \subseteq Ids(tasks),
         ToSet(tasks') = {t \in ToSet(tasks) : t.id \notin X},
         Ids(tasks') = Ids(tasks) \ X,
         gone' = gone \cup X,
         \A t \in ToSet(tasks) : t.id \in X => Ended(t)',
         deleted \subseteq deleted', everFired \subseteq everFired',
         \A id \in Id \ X : lastFire'[id] = lastFire[id],
         Range(missed) \subseteq X, missed' = <<>>,
         up /\ pc # "done", UNCHANGED <<now, life, files, answered>>,
         ~owed' => ~owed
  PROVE  /\ Copies' /\ Losses' /\ Late' /\ Removals' /\ Spaced' /\ Saves'
         /\ \A id \in Id : Fresh(id) => Fresh(id)'
<1>1. Saved' = Saved /\ disk' = disk /\ behind' = behind /\ up' = up /\ cancelled' = cancelled
  BY DEF Saved, files, life
<1>2. Range(missed') = {}
  BY DEF Range
<1>3. /\ Typed /\ Copies /\ Losses /\ Removals /\ Spaced /\ Saves
  BY DEF IInv
<1>4. Copies'
  BY <1>1, <1>3 DEF Copies, SameTasks
<1>5. \A t : Ended(t) => Ended(t)'
  BY DEF Ended, IsExpired
<1>6. ASSUME NEW a, SameTasks(tasks, a), LostOnlyEnded(a, tasks), NEW u \in ToSet(a)
      PROVE  u.id \in Ids(tasks') \/ Ended(u)'
  <2>1. CASE Ended(u)
    BY <1>5, <2>1
  <2>2. CASE u.id \in Ids(tasks)
    <3>1. PICK t \in ToSet(tasks) : t.id = u.id
      BY <2>2 DEF Ids
    <3>2. CASE u.id \in X
      <4>1. Ended(t)' /\ t.recurring = u.recurring /\ t.expires = u.expires
        BY <1>6, <3>1, <3>2 DEF SameTasks
      <4>2. QED
        BY <3>1, <4>1 DEF Ended, IsExpired
    <3>3. QED
      BY <2>2, <3>2
  <2>3. QED
    BY <1>6, <2>1, <2>2 DEF LostOnlyEnded
<1>7. Losses'
  <2>1. LostOnlyEnded(disk, Saved) /\ LostOnlyEnded(disk, tasks) /\ LostOnlyEnded(Saved, tasks)
    BY <1>3 DEF Losses
  <2>2. LostOnlyEnded(disk, Saved)'
    BY <1>1, <1>5, <2>1 DEF LostOnlyEnded
  <2>3. LostOnlyEnded(disk, tasks)' /\ LostOnlyEnded(Saved, tasks)'
    BY <1>1, <1>3, <1>6, <2>1 DEF LostOnlyEnded, Copies
  <2>4. QED
    BY <2>2, <2>3 DEF Losses
<1>8. Late'
  BY <1>2 DEF Late
<1>9. Removals'
  BY <1>3 DEF Removals
<1>10. Spaced'
  <2>1. \A t \in ToSet(tasks) : t.id \in Id
    BY <1>3, ListElements DEF Typed, Ids
  <2>2. QED
    BY <1>3, <2>1 DEF Spaced
<1>11. Saves'
  BY <1>1, <1>3 DEF Saves, Serving
<1>12. \A id \in Id : Fresh(id) => Fresh(id)'
  BY <1>1 DEF Fresh
<1>13. QED
  BY <1>4, <1>7, <1>8, <1>9, <1>10, <1>11, <1>12

\* A confirmed deletion is a cause, and is announced.
LEMMA HandleDeleteKeeps == IInv /\ HandleDelete => IInv'
<1> SUFFICES ASSUME IInv, HandleDelete PROVE IInv'
  OBVIOUS
<1> DEFINE cmd == Head(cmds)
           out == IF cmd.id \in Ids(tasks) THEN <<cmd.id>> ELSE <<>>
           X == {cmd.id} \cap Ids(tasks)
<1>1. /\ Typed /\ Places /\ NewIdsAreFresh
      /\ up /\ pc = "loop" /\ ~cancelled /\ cmds # <<>> /\ cmd.op = "delete"
      /\ cmds' = Tail(cmds) /\ tasks' = KeepIds(tasks, Id \ {cmd.id})
      /\ wire' = wire \o Notes("Removed", out)
      /\ deleted' = deleted \cup Range(out) /\ gone' = gone \cup Range(out)
      /\ owed' = (owed \/ cmd.saves)
      /\ UNCHANGED <<now, life, pc, missed, files, client, created, asked,
                     lastFire, everFired, ghosts, answered>>
  BY DEF IInv, HandleDelete, HasCommand, Listening, At, Told
<1>2. Range(out) = X /\ cmd.id \in Id /\ cmd.saves \in BOOLEAN /\ out \in Seq(Id)
  <2>1. cmd \in Command
    <3>1. cmds \in Seq(Command)
      BY <1>1 DEF Typed
    <3>2. QED
      BY <1>1, <3>1
  <2>2. cmd.id \in Id /\ cmd.saves \in BOOLEAN
    BY <1>1, <2>1 DEF Command
  <2> HIDE DEF cmd
  <2>3. QED
    BY <2>2 DEF Range
<1> HIDE DEF cmd, out
<1>3. /\ tasks' \in TaskList
      /\ ToSet(tasks') = {t \in ToSet(tasks) : t.id \notin X}
      /\ Ids(tasks') = Ids(tasks) \ X
  <2>1. tasks \in TaskList
    BY <1>1 DEF Typed
  <2>2. ToSet(tasks) \subseteq Task /\ Ids(tasks) \subseteq Id
    BY <2>1, ListElements
  <2>3. /\ tasks' \in TaskList
        /\ ToSet(tasks') = {t \in ToSet(tasks) : t.id \in Id \ {cmd.id}}
        /\ Ids(tasks') = Ids(tasks) \cap (Id \ {cmd.id})
    BY <1>1, <2>1, KeepIdsTasks
  <2>4. QED
    BY <2>2, <2>3 DEF Ids
<1>4. wire' \in Seq(Note)
  <2>1. Notes("Removed", out) \in Seq(Note)
    BY <1>2, NotesProperties
  <2>2. QED
    BY <1>1, <2>1, Sending DEF Typed
<1>5. missed = <<>> /\ Range(missed) = {} /\ missed' = <<>>
  BY <1>1 DEF Places, Range
<1>6. \A t \in ToSet(tasks) : t.id \in X => Ended(t)'
  BY <1>1, <1>2 DEF Ended
<1>7. /\ Copies' /\ Losses' /\ Late' /\ Removals' /\ Spaced' /\ Saves'
      /\ \A id \in Id : Fresh(id) => Fresh(id)'
  BY <1>1, <1>2, <1>3, <1>5, <1>6, TakeAway
<1>8. cmds' \in Seq(Command) /\ NewIdsAreFresh'
  BY <1>1, <1>7, TakeCommand
<1>9. Typed'
  <2>1. owed' \in BOOLEAN
    BY <1>1, <1>2 DEF Typed
  <2>2. QED
    BY <1>1, <1>2, <1>3, <1>4, <1>8, <2>1 DEF Typed, life, files, client
<1>10. Places'
  BY <1>1 DEF Places, life, files
<1>11. QED
  BY <1>7, <1>8, <1>9, <1>10 DEF IInv

\* The one-shots that fired late are pruned.
LEMMA PruneKeeps == IInv /\ PruneMissed => IInv'
<1> SUFFICES ASSUME IInv, PruneMissed PROVE IInv'
  OBVIOUS
<1> DEFINE X == Range(missed)
<1>1. /\ Typed /\ Places /\ NewIdsAreFresh /\ Late
      /\ up /\ pc = "prune" /\ pc' = "announce"
      /\ tasks' = KeepIds(tasks, Id \ X) /\ missed' = <<>>
      /\ wire' = wire \o Notes("Removed", missed) /\ gone' = gone \cup X
      /\ UNCHANGED <<now, life, cmds, owed, files, client, created, asked,
                     lastFire, everFired, deleted, ghosts, answered>>
  BY DEF IInv, PruneMissed, Pruned, At, Told
<1>2. X \subseteq Ids(tasks) /\ missed \in Seq(Id)
  BY <1>1 DEF Late, Typed
<1>3. /\ tasks' \in TaskList /\ Ids(tasks) \subseteq Id
      /\ ToSet(tasks') = {t \in ToSet(tasks) : t.id \notin X}
      /\ Ids(tasks') = Ids(tasks) \ X
  <2>1. tasks \in TaskList
    BY <1>1 DEF Typed
  <2>2. ToSet(tasks) \subseteq Task /\ Ids(tasks) \subseteq Id
    BY <2>1, ListElements
  <2> HIDE DEF X
  <2>3. /\ tasks' \in TaskList
        /\ ToSet(tasks') = {t \in ToSet(tasks) : t.id \in Id \ X}
        /\ Ids(tasks') = Ids(tasks) \cap (Id \ X)
    BY <1>1, <2>1, KeepIdsTasks
  <2>4. QED
    BY <2>2, <2>3 DEF Ids
<1>4. wire' \in Seq(Note)
  <2>1. Notes("Removed", missed) \in Seq(Note)
    BY <1>2, NotesProperties
  <2>2. QED
    BY <1>1, <2>1, Sending DEF Typed
<1>5. \A t \in ToSet(tasks) : t.id \in X => Ended(t)'
  BY <1>1 DEF Ended, Late
<1>6. /\ Copies' /\ Losses' /\ Late' /\ Removals' /\ Spaced' /\ Saves'
      /\ \A id \in Id : Fresh(id) => Fresh(id)'
  BY <1>1, <1>2, <1>3, <1>5, TakeAway
<1>7. NewIdsAreFresh'
  BY <1>1, <1>6, SameCommands
<1>8. gone' \subseteq Id
  BY <1>1, <1>2, <1>3 DEF Typed
<1>9. Typed'
  <2>1. missed' \in Seq(Id)
    BY <1>1
  <2>2. QED
    BY <1>1, <1>3, <1>4, <1>8, <2>1 DEF Typed, life, files, client
<1>10. Places'
  BY <1>1 DEF Places, life, files
<1>11. QED
  BY <1>6, <1>7, <1>9, <1>10 DEF IInv

\* A task that fired and stays differs in its anchor and its flag only.
LEMMA RefiredTask ==
  ASSUME NEW t \in Task, now \in Nat
  PROVE  \E n \in Task : /\ n = Refired(t) /\ n.id = t.id /\ n.recurring = t.recurring
                         /\ n.expires = t.expires /\ n.anchor = now
<1> DEFINE m == [t EXCEPT !.anchor = now]
           n == [m EXCEPT !.fired = TRUE]
<1>1. /\ m \in Task /\ m.id = t.id /\ m.recurring = t.recurring
      /\ m.expires = t.expires /\ m.anchor = now
  BY DEF Task
<1>2. Refired(t) = n
  BY Zenon DEF Refired
<1> HIDE DEF m
<1>3. /\ n \in Task /\ n.id = m.id /\ n.recurring = m.recurring
      /\ n.expires = m.expires /\ n.anchor = m.anchor
  BY <1>1 DEF Task
<1>4. QED
  BY <1>1, <1>2, <1>3

\* The timer fires a task, which then waits an interval or ends.
LEMMA FireNextKeeps == IInv /\ FireNextTask => IInv'
<1> SUFFICES ASSUME IInv, FireNextTask PROVE IInv'
  OBVIOUS
<1>1. PICK i \in DOMAIN tasks :
        LET t == tasks[i]
            ends == IF ~t.recurring \/ IsExpired(t) THEN <<t.id>> ELSE <<>>
        IN
        /\ Listening /\ cmds = <<>> /\ FirstDue(i)
        /\ tasks' = IF ends = <<>> THEN [tasks EXCEPT ![i] = Refired(t)]
                    ELSE RemoveAt(tasks, i)
        /\ wire' = wire \o FireNotes(t, ends)
        /\ FiredNow(<<t.id>>)
        /\ Told(ends)
        /\ UNCHANGED <<now, life, pc, missed, cmds, owed, files, client, created, asked,
                       deleted, ghosts, answered>>
  BY DEF FireNextTask
<1>0. PICK t : t = tasks[i]
  OBVIOUS
<1> DEFINE over == ~t.recurring \/ IsExpired(t)
           ends == IF over THEN <<t.id>> ELSE <<>>
<1>2. /\ Typed /\ Places /\ NewIdsAreFresh /\ Copies /\ Losses /\ Removals /\ Spaced /\ Saves
      /\ up /\ pc = "loop" /\ ~cancelled
      /\ UNCHANGED <<now, life, pc, missed, cmds, owed, files, client, created, asked,
                     deleted, ghosts, answered>>
  BY <1>1 DEF IInv, Listening, At
<1>3. /\ t \in Task /\ t \in ToSet(tasks) /\ t.id \in Id /\ t.id \in Ids(tasks)
      /\ Range(<<t.id>>) = {t.id}
  BY <1>0, <1>2, ListElements DEF Typed, Ids, ToSet, Range
<1>4. /\ lastFire' = [id \in Id |-> IF id = t.id THEN now ELSE lastFire[id]]
      /\ everFired' = everFired \cup {t.id}
  BY <1>0, <1>1, <1>3 DEF FiredNow
<1>5. missed = <<>> /\ Range(missed) = {} /\ Range(missed') = {}
  BY <1>2 DEF Places, Range
<1>6. wire' \in Seq(Note)
  <2>1. <<t.id>> \in Seq(Id) /\ ends \in Seq(Id)
    BY <1>3
  <2>2. Notes("Fired", <<t.id>>) \in Seq(Note) /\ Notes("Removed", ends) \in Seq(Note)
    BY <2>1, NotesProperties
  <2>3. FireNotes(t, ends) \in Seq(Note)
    BY <2>2, JoinNotes DEF FireNotes
  <2>4. QED
    BY <1>0, <1>1, <1>2, <2>3, Sending DEF Typed
<1>7. /\ now \in 0..MaxTime /\ now \in Nat /\ now # Never
      /\ lastFire' \in [Id -> {Never} \cup 0..MaxTime] /\ everFired' \subseteq Id
  BY <1>2, <1>3, <1>4 DEF Typed, Never
<1>8. /\ tasks' \in TaskList /\ gone' \subseteq Id
      /\ Copies' /\ Losses' /\ Late' /\ Removals' /\ Spaced' /\ Saves'
      /\ \A id \in Id : Fresh(id) => Fresh(id)'
  <2>1. CASE over
    <3>1. tasks' = RemoveAt(tasks, i) /\ gone' = gone \cup {t.id}
      BY <1>0, <1>1, <1>3, <2>1 DEF Told
    <3>2. /\ tasks' \in TaskList
          /\ ToSet(tasks') = {u \in ToSet(tasks) : u.id \notin {t.id}}
          /\ Ids(tasks') = Ids(tasks) \ {t.id}
      BY <1>0, <1>2, <3>1, RemoveTask DEF Typed
    <3>3. \A u \in ToSet(tasks) : u.id \in {t.id} => Ended(u)'
      <4>1. Ended(t)'
        BY <1>2, <1>4, <2>1 DEF Ended, IsExpired
      <4>2. \A u \in ToSet(tasks) : u.id = t.id => u = t
        BY <1>2, <1>3, ListElements DEF Typed
      <4>3. QED
        BY <4>1, <4>2
    <3>4. /\ \A id \in Id \ {t.id} : lastFire'[id] = lastFire[id]
          /\ {t.id} \subseteq Ids(tasks) /\ Range(missed) \subseteq {t.id} /\ missed' = <<>>
          /\ everFired \subseteq everFired' /\ deleted \subseteq deleted'
          /\ (~owed' => ~owed) /\ up /\ pc # "done"
          /\ UNCHANGED <<now, life, files, answered>>
      BY <1>2, <1>3, <1>4, <1>5
    <3>5. /\ Copies' /\ Losses' /\ Late' /\ Removals' /\ Spaced' /\ Saves'
          /\ \A id \in Id : Fresh(id) => Fresh(id)'
      BY <3>1, <3>2, <3>3, <3>4, TakeAway
    <3>6. gone' \subseteq Id
      BY <1>2, <1>3, <3>1 DEF Typed
    <3>7. QED
      BY <3>2, <3>5, <3>6
  <2>2. CASE ~over
    <3>1. PICK n \in Task : /\ n = Refired(t) /\ n.id = t.id /\ n.recurring = t.recurring
                            /\ n.expires = t.expires /\ n.anchor = now
      BY <1>3, <1>7, RefiredTask
    <3>2. tasks' = [tasks EXCEPT ![i] = n] /\ gone' = gone /\ t.recurring
      BY <1>0, <1>1, <2>2, <3>1 DEF Told, Range
    <3>3. /\ tasks' \in TaskList /\ Ids(tasks') = Ids(tasks)
          /\ ToSet(tasks') = {u \in ToSet(tasks) : u.id # n.id} \cup {n}
      <4>1. tasks \in TaskList /\ n.id = tasks[i].id
        BY <1>0, <1>2, <3>1 DEF Typed
      <4>2. QED
        BY ZenonT(60), <3>1, <3>2, <4>1, ReplaceTask
    <3>4. Saved' = Saved /\ disk' = disk /\ up' = up /\ cancelled' = cancelled
          /\ owed' = owed /\ behind' = behind /\ answered' = answered
      BY <1>2 DEF Saved, files, life
    <3>5. Copies'
      BY <1>2, <1>3, <3>1, <3>3, <3>4 DEF Copies, SameTasks
    <3>6. \A u : Ended(u) => Ended(u)'
      BY <1>2, <1>4 DEF Ended, IsExpired
    <3>7. Losses'
      BY <1>2, <3>3, <3>4, <3>6 DEF Losses, LostOnlyEnded
    <3>8. Late' /\ Removals' /\ Saves'
      <4>1. Late'
        BY <1>5 DEF Late
      <4>2. Removals'
        BY <1>2, <3>2, <3>3 DEF Removals
      <4>3. Saves'
        BY <1>2, <3>3, <3>4 DEF Saves, Serving
      <4>4. QED
        BY <4>1, <4>2, <4>3
    <3>9. Spaced'
      <4>1. ASSUME NEW u \in ToSet(tasks'), lastFire'[u.id] # Never
            PROVE  u.recurring /\ lastFire'[u.id] <= u.anchor
        <5>1. CASE u = n
          <6>1. u.id = t.id /\ u.recurring /\ u.anchor = now
            BY <3>1, <3>2, <5>1
          <6>2. lastFire'[u.id] = now
            BY <1>3, <1>4, <6>1
          <6>3. now <= now
            BY <1>7
          <6>4. QED
            BY <6>1, <6>2, <6>3
        <5>2. CASE u # n
          <6>1. u \in ToSet(tasks) /\ u.id # t.id /\ u.id \in Id
            BY <1>2, <3>1, <3>3, <4>1, <5>2, ListElements DEF Typed, Ids
          <6>2. lastFire'[u.id] = lastFire[u.id]
            BY <1>4, <6>1
          <6>3. QED
            BY <1>2, <1>5, <4>1, <6>1, <6>2 DEF Spaced
        <5>3. QED
          BY <5>1, <5>2
      <4>2. QED
        BY <4>1 DEF Spaced
    <3>10. \A id \in Id : Fresh(id) => Fresh(id)'
      BY <1>3, <1>4, <3>2, <3>3, <3>4 DEF Fresh
    <3>11. gone' \subseteq Id
      BY <1>2, <3>2 DEF Typed
    <3>12. QED
      BY <3>3, <3>5, <3>7, <3>8, <3>9, <3>10, <3>11
  <2>3. QED
    BY <2>1, <2>2
<1>9. NewIdsAreFresh'
  BY <1>2, <1>8, SameCommands
<1>10. Typed'
  BY <1>2, <1>6, <1>7, <1>8 DEF Typed, life, files, client
<1>11. Places'
  BY <1>2 DEF Places, life, files
<1>12. QED
  BY <1>8, <1>9, <1>10, <1>11 DEF IInv

\* The drain takes all tasks from memory, and nobody saves after it.
LEMMA DrainKeeps == IInv /\ DrainTasks => IInv'
<1> SUFFICES ASSUME IInv, DrainTasks PROVE IInv'
  OBVIOUS
<1>1. /\ Typed /\ Places /\ NewIdsAreFresh /\ Losses
      /\ up /\ pc = "loop" /\ cancelled /\ pc' = "done" /\ tasks' = <<>>
      /\ wire' = wire \o Notes("Removed", IdSeq(tasks))
      /\ gone' = gone \cup Range(IdSeq(tasks))
      /\ UNCHANGED <<now, life, missed, cmds, owed, files, client, created, asked,
                     lastFire, everFired, deleted, ghosts, answered>>
  BY DEF IInv, DrainTasks, At, Told
<1>2. /\ IdSeq(tasks) \in Seq(Id) /\ Range(IdSeq(tasks)) = Ids(tasks) /\ Ids(tasks) \subseteq Id
      /\ tasks' \in TaskList /\ ToSet(tasks') = {} /\ Ids(tasks') = {}
  BY <1>1, IdSeqProperties, ListElements, EmptyList DEF Typed
<1>3. wire' \in Seq(Note)
  <2>1. Notes("Removed", IdSeq(tasks)) \in Seq(Note)
    BY <1>2, NotesProperties
  <2>2. QED
    BY <1>1, <2>1, Sending DEF Typed
<1>4. /\ Saved' = Saved /\ disk' = disk /\ missed' = <<>> /\ Range(missed') = {}
      /\ cancelled' = cancelled
  BY <1>1 DEF Saved, files, Places, Range, life
<1>5. Copies' /\ Late' /\ Removals' /\ Spaced'
  BY <1>2, <1>4 DEF Copies, SameTasks, Late, Removals, Spaced
<1>6. Saves'
  BY <1>1, <1>4 DEF Saves, Serving
<1>7. Losses'
  <2>1. \A t : Ended(t) => Ended(t)'
    BY <1>1 DEF Ended, IsExpired
  <2>2. QED
    BY <1>1, <1>4, <2>1 DEF Losses, LostOnlyEnded
<1>8. \A id \in Id : Fresh(id) => Fresh(id)'
  BY <1>1, <1>2, <1>4 DEF Fresh
<1>9. NewIdsAreFresh'
  BY <1>1, <1>8, SameCommands
<1>10. Typed'
  BY <1>1, <1>2, <1>3 DEF Typed, life, files, client
<1>11. Places'
  BY <1>1, <1>4 DEF Places, life, files
<1>12. QED
  BY <1>5, <1>6, <1>7, <1>9, <1>10, <1>11 DEF IInv

-----------------------------------------------------------------------------
(* The steps that add a task, and those that fire late ones.               *)

\* A create is handled: the id was fresh, so no copy has the task and it did not fire.
LEMMA HandleCreateKeeps == IInv /\ HandleCreate => IInv'
<1> SUFFICES ASSUME IInv, HandleCreate PROVE IInv'
  OBVIOUS
<1>1. PICK cmd : cmd = Head(cmds)
  OBVIOUS
<1>2. /\ Typed /\ Places /\ NewIdsAreFresh /\ Copies /\ Losses /\ Removals /\ Spaced /\ Saves
      /\ up /\ pc = "loop" /\ ~cancelled /\ cmds # <<>> /\ cmd.op = "create"
      /\ cmds' = Tail(cmds)
      /\ tasks' = IF Room THEN Append(tasks, cmd.task) ELSE tasks
      /\ wire' = IF Room THEN wire \o Notes("Created", <<cmd.task.id>>) ELSE wire
      /\ owed' = (owed \/ (Room /\ cmd.saves))
      /\ answered' = IF Room /\ cmd.saves THEN answered \cup {cmd.task.id} ELSE answered
      /\ UNCHANGED <<now, life, pc, missed, files, client, created, asked,
                     lastFire, everFired, deleted, gone, ghosts>>
  BY <1>1 DEF IInv, HandleCreate, HasCommand, Listening, At
<1>3. /\ cmd.task \in Task /\ cmd.saves \in BOOLEAN /\ Fresh(cmd.task.id)
  <2>1. cmds \in Seq(Command)
    BY <1>2 DEF Typed
  <2>2. 1 \in DOMAIN cmds /\ cmd = cmds[1] /\ cmd \in Command
    BY <1>1, <1>2, <2>1
  <2>3. cmd.task \in Task /\ cmd.saves \in BOOLEAN
    BY <1>2, <2>2 DEF Command
  <2>4. QED
    BY <1>2, <2>2, <2>3 DEF NewIdsAreFresh
<1>4. PICK t \in Task : t = cmd.task
  BY <1>3
<1>5. t.id \in Id /\ Fresh(t.id)
  BY <1>3, <1>4 DEF Task
<1>6. /\ Saved' = Saved /\ disk' = disk /\ gone' = gone /\ lastFire' = lastFire
      /\ up' = up /\ cancelled' = cancelled /\ behind' = behind /\ pc' = pc
      /\ Range(missed') = {} /\ missed' = <<>>
  BY <1>2 DEF Saved, files, life, Places, Range
<1>7. \A u : Ended(u) => Ended(u)'
  BY <1>2 DEF Ended, IsExpired
<1>8. /\ tasks' \in TaskList /\ wire' \in Seq(Note) /\ answered' \subseteq Id
      /\ Copies' /\ Losses' /\ Late' /\ Removals' /\ Spaced' /\ Saves'
      /\ \A id \in Id : Fresh(id) /\ id # t.id => Fresh(id)'
  <2>1. CASE Room
    <3>1. /\ tasks' = Append(tasks, t) /\ wire' = wire \o Notes("Created", <<t.id>>)
          /\ t.id \notin Ids(tasks) /\ tasks \in TaskList /\ Len(tasks) < MaxTasks
      BY <1>2, <1>4, <1>5, <2>1 DEF Fresh, Typed, Room
    <3>2. /\ tasks' \in TaskList /\ ToSet(tasks') = ToSet(tasks) \cup {t}
          /\ Ids(tasks') = Ids(tasks) \cup {t.id}
      BY <3>1, AppendTask
    <3>3. wire' \in Seq(Note)
      <4>1. <<t.id>> \in Seq(Id)
        BY <1>5
      <4>2. Notes("Created", <<t.id>>) \in Seq(Note)
        BY <4>1, NotesProperties
      <4>3. QED
        BY <1>2, <3>1, <4>2, Sending DEF Typed
    <3>4. answered' \subseteq Id /\ answered' \subseteq answered \cup {t.id}
      BY <1>2, <1>4, <1>5 DEF Typed
    <3>5. Copies'
      <4>1. \A u \in ToSet(disk) \cup ToSet(Saved) : u.id # t.id
        BY <1>5 DEF Fresh, Ids
      <4>2. SameTasks(tasks', disk) /\ SameTasks(tasks', Saved)
        BY <1>2, <3>2, <4>1 DEF Copies, SameTasks
      <4>3. QED
        BY <1>6, <4>2 DEF Copies
    <3>6. Losses'
      BY <1>2, <1>6, <1>7, <3>2 DEF Losses, LostOnlyEnded
    <3>7. Late' /\ Removals'
      BY <1>2, <1>5, <1>6, <3>2 DEF Late, Removals, Fresh
    <3>8. Spaced'
      <4>1. Range(missed) = {}
        BY <1>2 DEF Places, Range
      <4>2. QED
        BY <1>2, <1>5, <1>6, <3>2, <4>1 DEF Spaced, Fresh
    <3>9. Saves'
      <4>1. SUFFICES ASSUME Serving', ~owed', ~behind'
                     PROVE  answered' \cap Ids(tasks') \subseteq Ids(Saved')
        BY DEF Saves
      <4>2. ~owed /\ ~cmd.saves /\ answered' = answered
        BY <1>2, <2>1, <4>1
      <4>3. answered \cap Ids(tasks) \subseteq Ids(Saved)
        BY <1>2, <1>6, <4>1, <4>2 DEF Saves, Serving
      <4>4. QED
        BY <1>5, <1>6, <3>2, <4>2, <4>3 DEF Fresh
    <3>10. \A id \in Id : Fresh(id) /\ id # t.id => Fresh(id)'
      BY <1>6, <3>2, <3>4 DEF Fresh
    <3>11. QED
      BY <3>2, <3>3, <3>4, <3>5, <3>6, <3>7, <3>8, <3>9, <3>10
  <2>2. CASE ~Room
    <3>1. tasks' = tasks /\ wire' = wire /\ answered' = answered /\ (~owed' => ~owed)
      BY <1>2, <2>2
    <3>2. Copies' /\ Losses'
      BY <1>2, <1>6, <1>7, <3>1 DEF Copies, Losses, LostOnlyEnded
    <3>3. Late' /\ Removals'
      BY <1>2, <1>6, <3>1 DEF Late, Removals
    <3>4. Spaced'
      BY <1>2, <1>6, <3>1 DEF Spaced, Places
    <3>5. Saves'
      BY <1>2, <1>6, <3>1 DEF Saves, Serving
    <3>6. \A id \in Id : Fresh(id) => Fresh(id)'
      BY <1>6, <3>1 DEF Fresh
    <3>7. QED
      BY <1>2, <3>1, <3>2, <3>3, <3>4, <3>5, <3>6 DEF Typed
  <2>3. QED
    BY <2>1, <2>2
<1>9. cmds' \in Seq(Command) /\ NewIdsAreFresh'
  BY <1>1, <1>2, <1>4, <1>8, TakeCommand
<1>10. Typed'
  <2>1. owed' \in BOOLEAN
    BY <1>2, <1>3 DEF Typed
  <2>2. QED
    BY <1>2, <1>8, <1>9, <2>1 DEF Typed, life, files, client
<1>11. Places'
  BY <1>2, <1>6 DEF Places, life, files
<1>12. QED
  BY <1>8, <1>9, <1>10, <1>11 DEF IInv

\* The missed one-shots fire; they are the first to fire in a life.
LEMMA FireMissedKeeps == IInv /\ FireMissed => IInv'
<1> SUFFICES ASSUME IInv, FireMissed PROVE IInv'
  OBVIOUS
<1> DEFINE S == {t \in ToSet(tasks) : IsMissed(t)}
           k == Keep(tasks, S)
<1>1. PICK late : late = IdSeq(k)
  OBVIOUS
<1>2. /\ Typed /\ Places /\ NewIdsAreFresh /\ Copies /\ Losses /\ Removals /\ Saves
      /\ up /\ pc = "missed"
      /\ pc' = IF late = <<>> THEN "announce" ELSE "prune"
      /\ missed' = late /\ wire' = wire \o Notes("FiredLate", late)
      /\ lastFire' = [id \in Id |-> IF id \in Range(late) THEN now ELSE lastFire[id]]
      /\ everFired' = everFired \cup Range(late)
      /\ UNCHANGED <<now, life, tasks, cmds, owed, files, client, created, asked,
                     deleted, gone, ghosts, answered>>
  BY <1>1 DEF IInv, FireMissed, At, FiredNow
<1>3. tasks \in TaskList /\ ToSet(tasks) \subseteq Task /\ Ids(tasks) \subseteq Id
  BY <1>2, ListElements DEF Typed
<1>4. k \in TaskList /\ ToSet(k) = S
  BY <1>3, KeepTasks
<1>5. /\ late \in Seq(Id) /\ Range(late) = Ids(k)
  BY <1>1, <1>4, IdSeqProperties
<1> HIDE DEF k
<1>6. /\ Range(late) \subseteq Ids(tasks) /\ Range(late) \subseteq Id
      /\ \A t \in ToSet(tasks) : t.id \in Range(late) => ~t.recurring
  <2>1. \A t \in ToSet(k) : t \in ToSet(tasks) /\ ~t.recurring
    BY <1>4 DEF IsMissed
  <2>2. \A t, u \in ToSet(tasks) : t.id = u.id => t = u
    BY <1>3, ListElements
  <2>3. QED
    BY <1>3, <1>5, <2>1, <2>2 DEF Ids
<1>7. wire' \in Seq(Note)
  <2>1. Notes("FiredLate", late) \in Seq(Note)
    BY <1>5, NotesProperties
  <2>2. QED
    BY <1>2, <2>1, Sending DEF Typed
<1>8. /\ Saved' = Saved /\ disk' = disk /\ tasks' = tasks /\ gone' = gone
      /\ up' = up /\ cancelled' = cancelled /\ behind' = behind /\ owed' = owed
      /\ answered' = answered /\ gone = {} /\ answered = {}
      /\ \A id \in Id : lastFire[id] = Never
  BY <1>2 DEF Saved, files, life, Places
<1>9. \A u : Ended(u) => Ended(u)'
  BY <1>2 DEF Ended, IsExpired
<1>10. Copies'
  BY <1>2, <1>8 DEF Copies
<1>11. Losses'
  BY <1>2, <1>8, <1>9 DEF Losses, LostOnlyEnded
<1>12. Late' /\ Removals'
  BY <1>2, <1>6, <1>8 DEF Late, Removals
<1>13. Spaced'
  <2>1. ASSUME NEW t \in ToSet(tasks'), lastFire'[t.id] # Never PROVE t.id \in Range(missed')
    <3>1. t.id \in Id
      BY <1>3, <1>8 DEF Ids
    <3>2. QED
      BY <1>2, <1>8, <2>1, <3>1
  <2>2. QED
    BY <2>1 DEF Spaced
<1>14. Saves'
  BY <1>8 DEF Saves
<1>15. \A id \in Id : Fresh(id) => Fresh(id)'
  BY <1>2, <1>6, <1>8 DEF Fresh
<1>16. NewIdsAreFresh'
  BY <1>2, <1>15, SameCommands
<1>17. Typed'
  <2>1. /\ lastFire' \in [Id -> {Never} \cup 0..MaxTime] /\ everFired' \subseteq Id
        /\ missed' \in Seq(Id)
    BY <1>2, <1>5, <1>6 DEF Typed
  <2>2. QED
    BY <1>2, <1>7, <2>1 DEF Typed, life, files, client
<1>18. Places'
  BY <1>2, <1>8 DEF Places, life, files
<1>19. QED
  BY <1>10, <1>11, <1>12, <1>13, <1>14, <1>16, <1>17, <1>18 DEF IInv

-----------------------------------------------------------------------------
(* The file, and the lives.                                                *)

\* A step of the writer or of a tool's tail: only what is saved changes.
LEMMA FileKeeps == IInv /\ (FinalizeOutput \/ WritePending \/ WriteFails) => IInv'
<1> SUFFICES ASSUME IInv, FinalizeOutput \/ WritePending \/ WriteFails PROVE IInv'
  OBVIOUS
<1>1. /\ Typed /\ Places /\ NewIdsAreFresh /\ Copies /\ Losses /\ Late /\ Removals
      /\ Spaced /\ Saves /\ up
      /\ UNCHANGED <<now, life, actor, cmds, wire, client, created, asked, history>>
  BY DEF IInv, FinalizeOutput, WritePending, WriteFails, MaySave, Serving
<1>2. /\ now' = now /\ up' = up /\ cancelled' = cancelled /\ pc' = pc /\ tasks' = tasks
      /\ missed' = missed /\ lastFire' = lastFire /\ everFired' = everFired
      /\ deleted' = deleted /\ gone' = gone /\ answered' = answered
  BY <1>1 DEF life, actor, history
<1>3. /\ Saved' \in {tasks, Saved, disk} /\ disk' \in {disk, Saved}
      /\ pending' \in {None} \cup {<<l>> : l \in TaskList} /\ disk' \in TaskList
      /\ faults' \in 0..MaxFaults /\ owed' \in BOOLEAN /\ behind' \in BOOLEAN
      /\ LostOnlyEnded(disk, Saved)'
      /\ pc # "done" => LostOnlyEnded(disk, tasks)' /\ LostOnlyEnded(Saved, tasks)'
      /\ Saves'
  <2>1. \A t : Ended(t)' = Ended(t)
    BY <1>2 DEF Ended, IsExpired
  <2>2. \A l : \A t \in ToSet(l) : t.id \in Ids(l)
    BY DEF Ids
  <2>3. CASE FinalizeOutput
    <3>1. /\ pending' = <<tasks>> /\ disk' = disk /\ owed' = FALSE /\ Serving
          /\ faults' = faults /\ behind' = FALSE
      BY <2>3 DEF FinalizeOutput, MaySave, Snapshot
    <3>2. Saved' = tasks /\ pc # "done"
      BY <1>1, <3>1 DEF Saved, None, Places, Serving
    <3>3. LostOnlyEnded(disk, tasks)
      BY <1>1, <3>2 DEF Losses
    <3>4. /\ LostOnlyEnded(disk, Saved)' /\ LostOnlyEnded(disk, tasks)'
          /\ LostOnlyEnded(Saved, tasks)'
      BY <1>2, <2>1, <2>2, <3>1, <3>2, <3>3 DEF LostOnlyEnded
    <3>5. Saves'
      BY <1>2, <3>2 DEF Saves
    <3>6. QED
      BY <1>1, <3>1, <3>2, <3>4, <3>5 DEF Typed
  <2>4. CASE WritePending
    <3>1. /\ pending # None /\ disk' = pending[1] /\ pending' = None /\ owed' = owed
          /\ faults' = faults /\ behind' = behind
      BY <2>4 DEF WritePending
    <3>2. Saved' = Saved /\ disk' = Saved
      BY <3>1 DEF Saved
    <3>3. pc # "done" => LostOnlyEnded(Saved, tasks)
      BY <1>1 DEF Losses
    <3>4. /\ LostOnlyEnded(disk, Saved)'
          /\ pc # "done" => LostOnlyEnded(disk, tasks)' /\ LostOnlyEnded(Saved, tasks)'
      BY <1>2, <2>1, <2>2, <3>2, <3>3 DEF LostOnlyEnded
    <3>5. Saves'
      BY <1>1, <1>2, <3>1, <3>2 DEF Saves, Serving
    <3>6. QED
      BY <1>1, <3>1, <3>2, <3>4, <3>5, SavedIsList DEF Typed
  <2>5. CASE WriteFails
    <3>1. /\ pending' = None /\ disk' = disk /\ owed' = owed
          /\ faults < MaxFaults /\ faults' = faults + 1 /\ behind' = TRUE
      BY <2>5 DEF WriteFails
    <3>2. Saved' = disk
      BY <3>1 DEF Saved
    <3>3. pc # "done" => LostOnlyEnded(disk, tasks)
      BY <1>1 DEF Losses
    <3>4. /\ LostOnlyEnded(disk, Saved)'
          /\ pc # "done" => LostOnlyEnded(disk, tasks)' /\ LostOnlyEnded(Saved, tasks)'
      BY <1>2, <2>1, <2>2, <3>1, <3>2, <3>3 DEF LostOnlyEnded
    <3>5. faults' \in 0..MaxFaults
      BY <1>1, <3>1, BoundAssumption DEF Typed
    <3>6. Saves'
      BY <3>1 DEF Saves
    <3>7. QED
      BY <1>1, <3>1, <3>2, <3>4, <3>5, <3>6 DEF Typed
  <2>6. QED
    BY <2>3, <2>4, <2>5
<1>4. Losses'
  BY <1>2, <1>3 DEF Losses
<1>5. SameTasks(tasks, tasks)
  BY <1>1, ListElements DEF SameTasks, Typed
<1>6. Copies'
  BY <1>1, <1>2, <1>3, <1>5 DEF Copies
<1>7. Late' /\ Removals' /\ Spaced'
  BY <1>1, <1>2 DEF Late, Removals, Spaced
<1>8. \A id \in Id : Fresh(id) => Fresh(id)'
  BY <1>2, <1>3 DEF Fresh
<1>9. NewIdsAreFresh'
  BY <1>1, <1>8, SameCommands
<1>10. Typed'
  BY <1>1, <1>3 DEF Typed, life, actor, client, history
<1>11. Places'
  BY <1>1, <1>2 DEF Places
<1>12. QED
  BY <1>3, <1>4, <1>6, <1>7, <1>9, <1>10, <1>11 DEF IInv

\* A life ends: the file is what remains.
LEMMA DieKeeps == IInv /\ Die => IInv'
<1> SUFFICES ASSUME IInv, Die PROVE IInv'
  OBVIOUS
<1>1. /\ Typed /\ NewIdsAreFresh /\ up' = FALSE /\ cancelled' = FALSE /\ owed' = FALSE
      /\ pc' = "missed" /\ tasks' = <<>> /\ missed' = <<>>
      /\ cmds' = <<>> /\ pending' = None /\ behind' = FALSE /\ wire' = <<>> /\ panel' = {}
      /\ lastFire' = [id \in Id |-> Never] /\ gone' = {} /\ ghosts' = {} /\ answered' = {}
      /\ UNCHANGED <<now, lives, disk, faults, logged, created, asked, everFired, deleted>>
  BY Zenon DEF IInv, Die
<1>2. Saved' = disk /\ disk' = disk /\ Range(missed') = {} /\ DOMAIN cmds' = {}
  BY <1>1 DEF Saved, Range
<1>3. /\ tasks' \in TaskList /\ ToSet(tasks') = {} /\ Ids(tasks') = {}
  BY <1>1, EmptyList
<1>4. Copies' /\ Late' /\ Removals' /\ Spaced' /\ Saves'
  BY <1>1, <1>2, <1>3 DEF Copies, SameTasks, Late, Removals, Spaced, Saves, Serving
<1>5. Losses'
  BY <1>1, <1>2 DEF Losses, LostOnlyEnded, Ids
<1>6. NewIdsAreFresh'
  BY <1>1, <1>2, <1>3 DEF NewIdsAreFresh, Fresh
<1>7. Typed'
  <2>1. /\ up' \in BOOLEAN /\ cancelled' \in BOOLEAN /\ owed' \in BOOLEAN
        /\ behind' \in BOOLEAN
    BY <1>1, Zenon
  <2>2. missed' \in Seq(Id) /\ cmds' \in Seq(Command) /\ wire' \in Seq(Note)
    BY <1>1
  <2>3. lastFire' \in [Id -> {Never} \cup 0..MaxTime]
    BY <1>1
  <2>4. QED
    BY <1>1, <1>3, <2>1, <2>2, <2>3 DEF Typed
<1>8. Places'
  BY <1>1 DEF Places
<1>9. QED
  BY <1>4, <1>5, <1>6, <1>7, <1>8 DEF IInv

\* A life begins with the tasks of the file.
LEMMA ResumeKeeps == IInv /\ Resume => IInv'
<1> SUFFICES ASSUME IInv, Resume PROVE IInv'
  OBVIOUS
<1>1. /\ Typed /\ Places /\ NewIdsAreFresh /\ Late /\ ~up /\ lives < MaxLives
      /\ up' = TRUE /\ lives' = lives + 1 /\ tasks' = disk /\ panel' = logged
      /\ ghosts' = logged \ Ids(disk)
      /\ UNCHANGED <<now, cancelled, pc, missed, cmds, owed, files, wire, logged, created,
                     asked, lastFire, everFired, deleted, gone, answered>>
  BY DEF IInv, Resume
<1>2. /\ pc = "missed" /\ missed = <<>> /\ Range(missed') = {}
      /\ pending = None /\ Saved = disk /\ Saved' = disk /\ disk' = disk
      /\ gone = {} /\ answered = {} /\ \A id \in Id : lastFire[id] = Never
  BY <1>1 DEF Places, Range, Saved, files
<1>3. disk \in TaskList /\ \A t \in ToSet(disk) : t.id \in Id
  BY <1>1, ListElements DEF Typed, Ids
<1>4. SameTasks(disk, disk)
  BY <1>3, ListElements DEF SameTasks
<1>5. Copies' /\ Losses'
  BY <1>1, <1>2, <1>4 DEF Copies, SameTasks, Losses, LostOnlyEnded, Ids
<1>6. Late' /\ Removals' /\ Saves'
  BY <1>1, <1>2 DEF Late, Removals, Saves
<1>7. Spaced'
  BY <1>1, <1>2, <1>3 DEF Spaced
<1>8. \A id \in Id : Fresh(id) => Fresh(id)'
  BY <1>1, <1>2 DEF Fresh
<1>9. NewIdsAreFresh'
  BY <1>1, <1>8, SameCommands
<1>10. Typed'
  <2>1. up' \in BOOLEAN
    BY <1>1, Zenon
  <2>2. lives' \in 1..MaxLives
    BY <1>1, BoundAssumption DEF Typed
  <2>3. QED
    BY <1>1, <1>3, <2>1, <2>2 DEF Typed, files
<1>11. Places'
  BY <1>1, <1>2 DEF Places
<1>12. QED
  BY <1>5, <1>6, <1>7, <1>9, <1>10, <1>11 DEF IInv

\* A step that changes nothing.
LEMMA StutterKeeps == IInv /\ UNCHANGED vars => IInv'
<1> SUFFICES ASSUME IInv, UNCHANGED vars PROVE IInv'
  OBVIOUS
<1>1. /\ UNCHANGED <<now, up, cancelled, lives, pc, tasks, missed, cmds, owed, pending, disk,
                     faults, behind, wire, logged, panel, created, asked, lastFire, everFired,
                     deleted, gone, ghosts, answered>>
      /\ Saved' = Saved
  BY DEF vars, life, actor, files, client, history, Saved
<1>2. Typed' /\ Places' /\ NewIdsAreFresh'
  BY <1>1 DEF IInv, Typed, Places, NewIdsAreFresh, Fresh
<1>3. Copies' /\ Losses'
  BY <1>1 DEF IInv, Copies, Losses, LostOnlyEnded, Ended, IsExpired
<1>4. Late' /\ Removals' /\ Spaced' /\ Saves'
  BY <1>1 DEF IInv, Late, Removals, Spaced, Saves, Serving
<1>5. QED
  BY <1>2, <1>3, <1>4 DEF IInv

\* Every step keeps the invariant.
LEMMA NextKeeps == IInv /\ [Next]_vars => IInv'
<1> SUFFICES ASSUME IInv, [Next]_vars PROVE IInv'
  OBVIOUS
<1>1. CASE Actor
  BY <1>1, FireMissedKeeps, PruneKeeps, AnnounceKeeps, HandleCreateKeeps, HandleDeleteKeeps,
     FireNextKeeps, DrainKeeps DEF Actor
<1>2. ASSUME NEW own \in BOOLEAN, NEW r \in Request, Create(r, own) PROVE IInv'
  BY <1>2, CreateKeeps
<1>3. ASSUME NEW own \in BOOLEAN, NEW id \in Id, Delete(id, own) PROVE IInv'
  BY <1>3, DeleteKeeps
<1>4. ASSUME NEW id \in Id, CancelFromPanel(id) PROVE IInv'
  <2>1. TRUE \in BOOLEAN
    OBVIOUS
  <2>2. QED
    BY <1>4, <2>1, DeleteKeeps
<1>5. CASE FinalizeOutput \/ WritePending \/ WriteFails
  BY <1>5, FileKeeps
<1>6. CASE Bridge \/ Tick \/ Cancel \/ DropCalls
  BY <1>6, BridgeKeeps, TickKeeps, CancelKeeps, DropKeeps
<1>7. CASE Die \/ Resume
  BY <1>7, DieKeeps, ResumeKeeps
<1>8. CASE UNCHANGED vars
  BY <1>8, StutterKeeps
<1>9. QED
  BY <1>1, <1>2, <1>3, <1>4, <1>5, <1>6, <1>7, <1>8 DEF Next

\* The invariant holds throughout.
LEMMA AlwaysIInv == Spec => []IInv
<1>1. Init => IInv
  BY InitIInv
<1>2. IInv /\ [Next]_vars => IInv'
  BY NextKeeps
<1>3. QED
  BY <1>1, <1>2, PTL DEF Spec

-----------------------------------------------------------------------------
(* What follows.                                                           *)

\* The types the runs check follow from it.
LEMMA TypesFollow == IInv => TypeOK
<1> SUFFICES ASSUME IInv PROVE TypeOK
  OBVIOUS
<1>1. Typed
  BY DEF IInv
<1>2. ASSUME NEW s \in TaskList PROVE IsTasks(s)
  <2>1. /\ s \in Seq(Task) /\ DOMAIN s = 1..Len(s) /\ Len(s) <= MaxTasks
        /\ OneOfEach(s) /\ ToSet(s) \subseteq Task
    BY ListElements DEF TaskList
  <2>2. Range(s) \subseteq Task
    BY <2>1 DEF Range, ToSet
  <2>3. IsInjective(IdSeq(s))
    BY <2>1 DEF IsInjective, IdSeq, OneOfEach
  <2>4. QED
    BY <2>1, <2>2, <2>3 DEF IsTasks
<1>3. IsTasks(tasks) /\ IsTasks(disk) /\ (pending # None => IsTasks(pending[1]))
  BY <1>1, <1>2 DEF Typed
<1>4. \A c \in Range(cmds) : c.op = "create" => c.task \in Task
  <2>1. cmds \in Seq(Command)
    BY <1>1 DEF Typed
  <2>2. \A i \in DOMAIN cmds : cmds[i] \in Command
    BY <2>1
  <2>3. QED
    BY <2>2 DEF Range, Command
<1>5. Range(wire) \subseteq [kind : {"Created", "Removed", "Fired", "FiredLate"}, id : Id]
  <2>1. wire \in Seq(Note)
    BY <1>1 DEF Typed
  <2>2. \A i \in DOMAIN wire : wire[i] \in Note
    BY <2>1
  <2>3. QED
    BY <2>2 DEF Range, Note
<1>6. {up, cancelled, owed, behind} \subseteq BOOLEAN
  BY <1>1, Zenon DEF Typed
<1>7. {logged, panel, everFired, deleted, gone, ghosts, answered} \subseteq SUBSET Id
  BY <1>1 DEF Typed
<1>8. QED
  BY <1>1, <1>3, <1>4, <1>5, <1>6, <1>7 DEF TypeOK, Typed

\* Once no tool call is about to save and the writer holds nothing, a task whose
\* creation was answered in this life is in the file, or the file is behind: a
\* call was dropped before its save or a write failed, and no call has saved
\* since (finalize_output, AbortOnDrop).  And every variable has its type.
THEOREM CreatedTasksAreSaved == Spec => []CreatedIsSaved
<1>1. IInv => CreatedIsSaved
  BY TypesFollow DEF IInv, Saves, CreatedIsSaved, Saved
<1>2. QED
  BY <1>1, AlwaysIInv, PTL

\* A task leaves the file only when it was deleted, has fired for the last time
\* or has expired: neither a shutdown nor a crash nor a restore takes it away.
THEOREM NoTaskIsLost == Spec => LeavesFileForCause
<1>1. ASSUME IInv, [Next]_vars, NEW t \in ToSet(disk), t.id \notin Ids(disk')
      PROVE  t.id \in deleted \/ (~t.recurring /\ t.id \in everFired) \/ IsExpired(t)
  <2>1. CASE disk' = disk
    BY <1>1, <2>1 DEF Ids
  <2>2. CASE WritePending
    <3>1. disk' = Saved
      BY <2>2 DEF WritePending, Saved
    <3>2. QED
      BY <1>1, <3>1 DEF IInv, Losses, LostOnlyEnded, Ended
  <2>3. disk' = disk \/ WritePending
    BY <1>1 DEF Next, Actor, FireMissed, PruneMissed, AnnounceExisting, HandleCreate,
       HandleDelete, FireNextTask, DrainTasks, Create, Delete, CancelFromPanel,
       FinalizeOutput, DropCalls, WriteFails, Bridge, Tick, Cancel, Die, Resume, files, vars
  <2>4. QED
    BY <2>1, <2>2, <2>3
<1>2. IInv /\ [Next]_vars =>
        [\A t \in ToSet(disk) : t.id \notin Ids(disk') =>
            \/ t.id \in deleted
            \/ ~t.recurring /\ t.id \in everFired
            \/ IsExpired(t)]_vars
  BY <1>1
<1>3. QED
  BY <1>2, AlwaysIInv, PTL DEF Spec, LeavesFileForCause

-----------------------------------------------------------------------------
(* What a step sends.                                                      *)

\* A task may fire: for the first time in this life, or an interval later.
MayFire(id) ==
    lastFire[id] # Never =>
        /\ TaskOf(id).recurring
        /\ now - lastFire[id] >= TaskOf(id).interval

\* What may be sent of a task, and whether anything but a fire is.
MaySend(n) == n.id \notin gone /\ (n.kind \in {"Fired", "FiredLate"} => MayFire(n.id))

\* A notification about tasks in memory, other than a fire, may be sent.
LEMMA MaySendNotes ==
  ASSUME IInv, NEW kind \in {"Created", "Removed"}, NEW ids \in Seq(Id),
         Range(ids) \cap gone = {}, wire' = wire \o Notes(kind, ids)
  PROVE  \A n \in Sent : MaySend(n)
<1>1. /\ Notes(kind, ids) \in Seq(Note)
      /\ \A n \in Range(Notes(kind, ids)) : n.kind = kind /\ n.id \in Range(ids)
  BY NotesProperties
<1>2. Sent \subseteq Range(Notes(kind, ids))
  BY <1>1, Sending DEF IInv, Typed
<1>3. QED
  BY <1>1, <1>2 DEF MaySend

\* The timer sends only what may be sent: its choice is due, so an interval has passed.
LEMMA FireNextSends == IInv /\ FireNextTask => \A n \in Sent : MaySend(n)
<1> SUFFICES ASSUME IInv, FireNextTask PROVE \A n \in Sent : MaySend(n)
  OBVIOUS
<1>1. PICK i \in DOMAIN tasks :
        /\ Listening /\ FirstDue(i)
        /\ wire' = wire \o FireNotes(tasks[i],
                            IF ~tasks[i].recurring \/ IsExpired(tasks[i])
                            THEN <<tasks[i].id>> ELSE <<>>)
  BY DEF FireNextTask
<1>2. PICK t : t = tasks[i]
  OBVIOUS
<1> DEFINE ends == IF ~t.recurring \/ IsExpired(t) THEN <<t.id>> ELSE <<>>
           fired == Notes("Fired", <<t.id>>)
           removed == Notes("Removed", ends)
<1>3. /\ Typed /\ Places /\ Removals /\ Spaced /\ pc = "loop"
      /\ wire' = wire \o (fired \o removed) /\ IsDue(t)
  BY <1>1, <1>2 DEF IInv, Listening, At, FireNotes, FirstDue
<1>4. /\ t \in Task /\ t.id \in Id /\ t \in ToSet(tasks) /\ t.id \in Ids(tasks)
      /\ t.id \notin gone
  BY <1>2, <1>3, ListElements DEF Typed, Removals, Ids, ToSet
<1>5. /\ <<t.id>> \in Seq(Id) /\ ends \in Seq(Id)
      /\ Range(<<t.id>>) = {t.id} /\ Range(ends) \subseteq {t.id}
  BY <1>4 DEF Range
<1> HIDE DEF ends
<1>6. /\ fired \in Seq(Note) /\ \A n \in Range(fired) : n.kind = "Fired" /\ n.id = t.id
      /\ removed \in Seq(Note) /\ \A n \in Range(removed) : n.kind = "Removed" /\ n.id = t.id
  BY <1>5, NotesProperties
<1> HIDE DEF fired, removed
<1>7. fired \o removed \in Seq(Note) /\ Range(fired \o removed) = Range(fired) \cup Range(removed)
  BY <1>6, JoinNotes
<1>8. Sent \subseteq Range(fired) \cup Range(removed)
  BY <1>3, <1>7, Sending DEF Typed
<1>9. MayFire(t.id)
  <2>1. SUFFICES ASSUME lastFire[t.id] # Never
                 PROVE  TaskOf(t.id).recurring /\ now - lastFire[t.id] >= TaskOf(t.id).interval
    BY DEF MayFire
  <2>2. TaskOf(t.id) = t
    <3>1. \A u \in ToSet(tasks) : u.id = t.id => u = t
      BY <1>3, <1>4, ListElements DEF Typed
    <3>2. QED
      BY <1>4, <3>1 DEF TaskOf
  <2>3. t.recurring /\ lastFire[t.id] <= t.anchor
    <3>1. Range(missed) = {}
      BY <1>3 DEF Places, Range
    <3>2. QED
      BY <1>3, <1>4, <2>1, <3>1 DEF Spaced
  <2>4. /\ t.anchor \in Int /\ t.interval \in Int /\ now \in Int /\ lastFire[t.id] \in Int
        /\ t.anchor + t.interval <= now
    BY <1>3, <1>4 DEF Task, Typed, IsDue, NextFireAt, Never
  <2>5. now - lastFire[t.id] >= t.interval
    BY <2>3, <2>4
  <2>6. QED
    BY <2>2, <2>3, <2>5
<1>10. QED
  BY <1>4, <1>6, <1>8, <1>9 DEF MaySend

\* No step sends what may not be sent.
LEMMA WhatIsSent == IInv /\ [Next]_vars => \A n \in Sent : MaySend(n)
<1> SUFFICES ASSUME IInv, [Next]_vars PROVE \A n \in Sent : MaySend(n)
  OBVIOUS
<1>1. /\ Typed /\ Places /\ NewIdsAreFresh /\ Late /\ Removals /\ tasks \in TaskList
      /\ wire \in Seq(Note)
  BY DEF IInv, Typed
<1>2. CASE FireMissed
  <2> DEFINE S == {t \in ToSet(tasks) : IsMissed(t)}
             late == IdSeq(Keep(tasks, S))
  <2>1. late \in Seq(Id) /\ wire' = wire \o Notes("FiredLate", late) /\ gone = {}
        /\ \A id \in Id : lastFire[id] = Never
    BY <1>1, <1>2, KeepTasks, IdSeqProperties DEF FireMissed, At, Places
  <2> HIDE DEF late
  <2>2. Notes("FiredLate", late) \in Seq(Note)
    BY <2>1, NotesProperties
  <2>3. Sent \subseteq Range(Notes("FiredLate", late))
    BY <1>1, <2>1, <2>2, Sending
  <2>4. \A n \in Range(Notes("FiredLate", late)) : n.id \in Id
    <3>1. \A j \in DOMAIN Notes("FiredLate", late) : Notes("FiredLate", late)[j] \in Note
      BY <2>2
    <3>2. QED
      BY <3>1 DEF Range, Note
  <2>5. QED
    BY <2>1, <2>3, <2>4 DEF MaySend, MayFire
<1>3. CASE PruneMissed
  <2>1. missed \in Seq(Id) /\ wire' = wire \o Notes("Removed", missed)
        /\ Range(missed) \cap gone = {}
    BY <1>1, <1>3 DEF PruneMissed, Late, Removals, Typed
  <2>2. QED
    BY <2>1, MaySendNotes
<1>4. CASE AnnounceExisting \/ DrainTasks
  <2>1. /\ IdSeq(tasks) \in Seq(Id) /\ Range(IdSeq(tasks)) \cap gone = {}
    BY <1>1, IdSeqProperties DEF Removals
  <2>2. PICK kind \in {"Created", "Removed"} : wire' = wire \o Notes(kind, IdSeq(tasks))
    BY <1>4 DEF AnnounceExisting, Announced, DrainTasks
  <2>3. QED
    BY <2>1, <2>2, MaySendNotes
<1>5. CASE HandleCreate
  <2>1. PICK cmd : cmd = Head(cmds)
    OBVIOUS
  <2>2. /\ cmds # <<>> /\ cmd.op = "create"
        /\ wire' = IF Room THEN wire \o Notes("Created", <<cmd.task.id>>) ELSE wire
    BY <1>5, <2>1 DEF HandleCreate, HasCommand
  <2>3. cmd.task.id \in Id /\ cmd.task.id \notin gone
    <3>1. cmds \in Seq(Command)
      BY <1>1 DEF Typed
    <3>2. 1 \in DOMAIN cmds /\ cmd = cmds[1]
      BY <2>1, <2>2, <3>1
    <3>3. QED
      BY <1>1, <2>2, <3>2, CommandIds DEF NewIdsAreFresh, Fresh
  <2>4. PICK id \in Id : id = cmd.task.id
    BY <2>3
  <2>5. <<id>> \in Seq(Id) /\ Range(<<id>>) \cap gone = {}
    BY <2>3, <2>4 DEF Range
  <2>6. CASE Room
    BY <2>2, <2>4, <2>5, <2>6, MaySendNotes
  <2>7. CASE ~Room
    BY <1>1, <2>2, <2>7, SendingNothing
  <2>8. QED
    BY <2>6, <2>7
<1>6. CASE HandleDelete
  <2> DEFINE cmd == Head(cmds)
             out == IF cmd.id \in Ids(tasks) THEN <<cmd.id>> ELSE <<>>
  <2>1. wire' = wire \o Notes("Removed", out)
    BY <1>6 DEF HandleDelete
  <2>2. out \in Seq(Id) /\ Range(out) \cap gone = {}
    <3>1. Ids(tasks) \subseteq Id
      BY <1>1, ListElements
    <3> HIDE DEF cmd
    <3>2. QED
      BY <1>1, <3>1 DEF Removals, Range
  <2>3. QED
    BY <2>1, <2>2, MaySendNotes
<1>7. CASE FireNextTask
  BY <1>7, FireNextSends
<1>8. CASE wire' = wire \/ (wire # <<>> /\ wire' = Tail(wire)) \/ wire' = <<>>
  BY <1>1, <1>8, SendingNothing
<1>9. \/ FireMissed \/ PruneMissed \/ AnnounceExisting \/ DrainTasks
      \/ HandleCreate \/ HandleDelete \/ FireNextTask
      \/ wire' = wire \/ (wire # <<>> /\ wire' = Tail(wire)) \/ wire' = <<>>
  BY DEF Next, Actor, Create, Delete, CancelFromPanel, FinalizeOutput, DropCalls, WritePending,
     WriteFails, Bridge, Tick, Cancel, Die, Resume, vars
<1>10. QED
  BY <1>2, <1>3, <1>4, <1>5, <1>6, <1>7, <1>8, <1>9

\* In one life nothing is heard of a task after its removal was announced.
THEOREM RemovalsAreFinal == Spec => RemovedIsFinal
<1>1. IInv /\ [Next]_vars => [\A id \in gone : ~ \E n \in Sent : n.id = id]_vars
  BY WhatIsSent DEF MaySend
<1>2. QED
  BY <1>1, AlwaysIInv, PTL DEF Spec, RemovedIsFinal

\* In one life a task does not fire again before its interval has passed, and a
\* one-shot fires once.
THEOREM TasksDoNotFireEarly == Spec => FiresAreSpaced
<1>1. IInv /\ [Next]_vars =>
        [\A id \in Id : Fires(id) /\ lastFire[id] # Never =>
            /\ TaskOf(id).recurring
            /\ now - lastFire[id] >= TaskOf(id).interval]_vars
  BY WhatIsSent DEF Fires, Sends, MaySend, MayFire
<1>2. QED
  BY <1>1, AlwaysIInv, PTL DEF Spec, FiresAreSpaced

-----------------------------------------------------------------------------
(* What the client sees.                                                   *)

Has(w, kinds, id) == \E j \in DOMAIN w : w[j].kind \in kinds /\ w[j].id = id
Deleting(id) == \E i \in DOMAIN cmds : cmds[i].op = "delete" /\ cmds[i].id = id

\* The notifications of w that show a row are about tasks of X, or a removal
\* of the row follows.
Shows(w, X) ==
    \A j \in DOMAIN w : w[j].kind \in {"Created", "Fired"} =>
        \/ w[j].id \in X
        \/ \E k \in DOMAIN w : k > j /\ w[k].kind = "Removed" /\ w[k].id = w[j].id

\* Each task has a row or will have one, unless it is about to be deleted, and
\* each row has a task, or a removal is on its way, or the log restored it.
View ==
    /\ \A id \in Id : Has(wire, {"Removed"}, id) => id \in gone
    /\ pc = "loop" => \A id \in Ids(tasks) :
        id \in panel \/ Has(wire, {"Created", "Fired"}, id) \/ Deleting(id)
    /\ \A id \in panel : id \in Ids(tasks) \cup ghosts \/ Has(wire, {"Removed"}, id)
    /\ Shows(wire, Ids(tasks))

\* What the notifications hold and show when some are appended.
LEMMA HasJoin ==
  ASSUME NEW w \in Seq(Note), NEW n \in Seq(Note), NEW X
  PROVE  /\ \A kinds, id : Has(w \o n, kinds, id) <=> Has(w, kinds, id) \/ Has(n, kinds, id)
         /\ (/\ Shows(n, X)
             /\ \A j \in DOMAIN w : w[j].kind \in {"Created", "Fired"} =>
                  \/ w[j].id \in X \/ Has(n, {"Removed"}, w[j].id)
                  \/ \E k \in DOMAIN w : k > j /\ w[k].kind = "Removed" /\ w[k].id = w[j].id)
              => Shows(w \o n, X)
<1> DEFINE z == w \o n
<1>1. /\ z \in Seq(Note) /\ Len(z) = Len(w) + Len(n) /\ Len(w) \in Nat /\ Len(n) \in Nat
      /\ \A j \in 1..Len(w) : z[j] = w[j]
      /\ \A j \in 1..Len(n) : z[Len(w) + j] = n[j]
  BY JoinPlaces
<1>2. DOMAIN z = 1..(Len(w) + Len(n)) /\ DOMAIN w = 1..Len(w) /\ DOMAIN n = 1..Len(n)
  BY <1>1
<1> HIDE DEF z
<1>3. \A j \in DOMAIN w : j \in DOMAIN z /\ z[j] = w[j]
  BY <1>1, <1>2
<1>4. \A j \in DOMAIN n : Len(w) + j \in DOMAIN z /\ z[Len(w) + j] = n[j]
  BY <1>1, <1>2
<1>5. ASSUME NEW j \in DOMAIN z, j \notin DOMAIN w
      PROVE  \E k \in DOMAIN n : j = Len(w) + k /\ z[j] = n[k]
  <2>1. j - Len(w) \in DOMAIN n /\ j = Len(w) + (j - Len(w))
    BY <1>1, <1>2, <1>5
  <2>2. z[j] = n[j - Len(w)]
    BY <1>4, <2>1
  <2>3. QED
    BY <2>1, <2>2
<1>6. ASSUME NEW kinds, NEW id
      PROVE  Has(z, kinds, id) <=> Has(w, kinds, id) \/ Has(n, kinds, id)
  <2>1. ASSUME Has(z, kinds, id) PROVE Has(w, kinds, id) \/ Has(n, kinds, id)
    <3>1. PICK j \in DOMAIN z : z[j].kind \in kinds /\ z[j].id = id
      BY <2>1 DEF Has
    <3>2. CASE j \in DOMAIN w
      BY <1>3, <3>1, <3>2 DEF Has
    <3>3. CASE j \notin DOMAIN w
      <4>1. PICK k \in DOMAIN n : z[j] = n[k]
        BY <1>5, <3>1, <3>3
      <4>2. QED
        BY <3>1, <4>1 DEF Has
    <3>4. QED
      BY <3>2, <3>3
  <2>2. ASSUME Has(w, kinds, id) PROVE Has(z, kinds, id)
    BY <1>3, <2>2 DEF Has
  <2>3. ASSUME Has(n, kinds, id) PROVE Has(z, kinds, id)
    BY <1>4, <2>3 DEF Has
  <2>4. QED
    BY <2>1, <2>2, <2>3
<1>7. ASSUME Shows(n, X),
             \A j \in DOMAIN w : w[j].kind \in {"Created", "Fired"} =>
               \/ w[j].id \in X \/ Has(n, {"Removed"}, w[j].id)
               \/ \E k \in DOMAIN w : k > j /\ w[k].kind = "Removed" /\ w[k].id = w[j].id
      PROVE  Shows(z, X)
  <2> SUFFICES ASSUME NEW j \in DOMAIN z, z[j].kind \in {"Created", "Fired"}, z[j].id \notin X
               PROVE  \E k \in DOMAIN z : k > j /\ z[k].kind = "Removed" /\ z[k].id = z[j].id
    BY DEF Shows
  <2>1. CASE j \in DOMAIN w
    <3>1. z[j] = w[j]
      BY <1>3, <2>1
    <3>2. CASE Has(n, {"Removed"}, w[j].id)
      <4>1. PICK k \in DOMAIN n : n[k].kind = "Removed" /\ n[k].id = w[j].id
        BY <3>2 DEF Has
      <4>2. Len(w) + k \in DOMAIN z /\ z[Len(w) + k] = n[k]
        BY <1>4
      <4>3. Len(w) + k > j
        BY <1>1, <1>2, <2>1
      <4>4. QED
        BY <3>1, <4>1, <4>2, <4>3
    <3>3. CASE \E k \in DOMAIN w : k > j /\ w[k].kind = "Removed" /\ w[k].id = w[j].id
      BY <1>3, <3>1, <3>3
    <3>4. QED
      BY <1>7, <2>1, <3>1, <3>2, <3>3
  <2>2. CASE j \notin DOMAIN w
    <3>1. PICK i \in DOMAIN n : j = Len(w) + i /\ z[j] = n[i]
      BY <1>5, <2>2
    <3>2. PICK k \in DOMAIN n : k > i /\ n[k].kind = "Removed" /\ n[k].id = n[i].id
      BY <1>7, <3>1 DEF Shows
    <3>3. Len(w) + k \in DOMAIN z /\ z[Len(w) + k] = n[k]
      BY <1>4
    <3>4. Len(w) + k > j
      BY <1>1, <1>2, <3>1, <3>2
    <3>5. QED
      BY <3>1, <3>2, <3>3, <3>4
  <2>3. QED
    BY <2>1, <2>2
<1>8. QED
  BY <1>6, <1>7 DEF z

\* The view, when a step of the actor sends n.
LEMMA ViewSends ==
  ASSUME IInv, View, NEW n \in Seq(Note),
         wire' = wire \o n, panel' = panel, ghosts' = ghosts, gone \subseteq gone',
         \A id \in Id : Has(n, {"Removed"}, id) => id \in gone',
         Shows(n, Ids(tasks')),
         \A id \in Ids(tasks) : id \in Ids(tasks') \/ Has(n, {"Removed"}, id),
         pc' = "loop" => \A id \in Ids(tasks') :
            \/ Has(n, {"Created", "Fired"}, id)
            \/ pc = "loop" /\ id \in Ids(tasks) /\ (Deleting(id) => Deleting(id)')
  PROVE  View'
<1>1. wire \in Seq(Note)
  BY DEF IInv, Typed
<1>2. \A kinds, id : Has(wire', kinds, id) <=> Has(wire, kinds, id) \/ Has(n, kinds, id)
  BY <1>1, HasJoin
<1>3. \A id \in Id : Has(wire', {"Removed"}, id) => id \in gone'
  BY <1>2 DEF View
<1>4. pc' = "loop" => \A id \in Ids(tasks') :
        id \in panel' \/ Has(wire', {"Created", "Fired"}, id) \/ Deleting(id)'
  BY <1>2 DEF View
<1>5. \A id \in panel' : id \in Ids(tasks') \cup ghosts' \/ Has(wire', {"Removed"}, id)
  BY <1>2 DEF View
<1>6. Shows(wire', Ids(tasks'))
  <2>1. \A j \in DOMAIN wire : wire[j].kind \in {"Created", "Fired"} =>
          \/ wire[j].id \in Ids(tasks') \/ Has(n, {"Removed"}, wire[j].id)
          \/ \E k \in DOMAIN wire : /\ k > j /\ wire[k].kind = "Removed"
                                    /\ wire[k].id = wire[j].id
    BY DEF View, Shows
  <2>2. QED
    BY <1>1, <2>1, HasJoin
<1>7. QED
  BY <1>3, <1>4, <1>5, <1>6 DEF View

\* The view, when nothing is sent: a row is dropped for a deletion only.
LEMMA ViewAlone ==
  ASSUME View, UNCHANGED <<wire, tasks, pc, gone, ghosts>>, panel' \subseteq panel,
         \A id : Deleting(id) => Deleting(id)',
         \A id \in panel : id \in panel' \/ Deleting(id)'
  PROVE  View'
  BY DEF View

\* What some notifications of one kind hold.
LEMMA HasNotes ==
  ASSUME NEW kind \in {"Created", "Removed", "Fired", "FiredLate"}, NEW ids \in Seq(Id)
  PROVE  /\ \A kinds, id : Has(Notes(kind, ids), kinds, id) <=> kind \in kinds /\ id \in Range(ids)
         /\ \A X : kind \notin {"Created", "Fired"} \/ Range(ids) \subseteq X
                     => Shows(Notes(kind, ids), X)
<1> DEFINE n == Notes(kind, ids)
<1>1. DOMAIN n = DOMAIN ids /\ \A j \in DOMAIN n : n[j].kind = kind /\ n[j].id = ids[j]
  BY DEF Notes
<1> HIDE DEF n
<1>2. ASSUME NEW kinds, NEW id
      PROVE  Has(n, kinds, id) <=> kind \in kinds /\ id \in Range(ids)
  BY <1>1 DEF Has, Range
<1>3. ASSUME NEW X, kind \notin {"Created", "Fired"} \/ Range(ids) \subseteq X
      PROVE  Shows(n, X)
  <2>1. \A j \in DOMAIN ids : ids[j] \in Range(ids)
    BY DEF Range
  <2>2. QED
    BY <1>1, <1>3, <2>1 DEF Shows
<1>4. QED
  BY <1>2, <1>3 DEF n

\* The notifications, when the first is taken.
LEMMA TailNotes ==
  ASSUME NEW w \in Seq(Note), w # <<>>
  PROVE  /\ Head(w) \in Note
         /\ \A kinds, id : Has(w, kinds, id) <=>
              Has(Tail(w), kinds, id) \/ (Head(w).kind \in kinds /\ Head(w).id = id)
         /\ \A X : Shows(w, X) =>
              /\ Shows(Tail(w), X)
              /\ Head(w).kind \in {"Created", "Fired"} =>
                   Head(w).id \in X \/ Has(Tail(w), {"Removed"}, Head(w).id)
<1> DEFINE z == Tail(w)
           h == Head(w)
<1>1. /\ h = w[1] /\ h \in Note /\ 1 \in DOMAIN w /\ DOMAIN w = 1..Len(w) /\ Len(w) \in Nat
      /\ DOMAIN z = 1..(Len(w) - 1) /\ \A j \in DOMAIN z : z[j] = w[j + 1]
  OBVIOUS
<1> HIDE DEF z, h
<1>2. \A j \in DOMAIN z : j + 1 \in DOMAIN w /\ j + 1 # 1 /\ j \in Nat
  BY <1>1
<1>3. \A k \in DOMAIN w : k > 1 => k - 1 \in DOMAIN z /\ z[k - 1] = w[k]
  BY <1>1
<1>4. \A k \in DOMAIN w : k = 1 \/ k > 1
  BY <1>1
<1>5. ASSUME NEW kinds, NEW id
      PROVE  Has(w, kinds, id) <=> Has(z, kinds, id) \/ (h.kind \in kinds /\ h.id = id)
  <2>1. ASSUME Has(w, kinds, id)
        PROVE  Has(z, kinds, id) \/ (h.kind \in kinds /\ h.id = id)
    <3>1. PICK k \in DOMAIN w : w[k].kind \in kinds /\ w[k].id = id
      BY <2>1 DEF Has
    <3>2. CASE k = 1
      BY <1>1, <3>1, <3>2
    <3>3. CASE k > 1
      BY <1>3, <3>1, <3>3 DEF Has
    <3>4. QED
      BY <1>4, <3>2, <3>3
  <2>2. ASSUME Has(z, kinds, id) PROVE Has(w, kinds, id)
    <3>1. PICK j \in DOMAIN z : z[j].kind \in kinds /\ z[j].id = id
      BY <2>2 DEF Has
    <3>2. w[j + 1] = z[j] /\ j + 1 \in DOMAIN w
      BY <1>1, <1>2
    <3>3. QED
      BY <3>1, <3>2 DEF Has
  <2>3. ASSUME h.kind \in kinds, h.id = id PROVE Has(w, kinds, id)
    BY <1>1, <2>3 DEF Has
  <2>4. QED
    BY <2>1, <2>2, <2>3
<1>6. ASSUME NEW X, Shows(w, X)
      PROVE  /\ Shows(z, X)
             /\ h.kind \in {"Created", "Fired"} => h.id \in X \/ Has(z, {"Removed"}, h.id)
  <2>1. ASSUME NEW j \in DOMAIN z, z[j].kind \in {"Created", "Fired"}, z[j].id \notin X
        PROVE  \E k \in DOMAIN z : k > j /\ z[k].kind = "Removed" /\ z[k].id = z[j].id
    <3>1. j + 1 \in DOMAIN w /\ w[j + 1] = z[j] /\ j \in Nat /\ j + 1 > 1
      BY <1>1, <1>2
    <3>2. PICK k \in DOMAIN w : k > j + 1 /\ w[k].kind = "Removed" /\ w[k].id = z[j].id
      BY <1>6, <2>1, <3>1 DEF Shows
    <3>3. k > 1 /\ k - 1 > j
      BY <1>1, <3>1, <3>2
    <3>4. QED
      BY <1>3, <3>2, <3>3
  <2>2. ASSUME h.kind \in {"Created", "Fired"}, h.id \notin X PROVE Has(z, {"Removed"}, h.id)
    <3>1. PICK k \in DOMAIN w : k > 1 /\ w[k].kind = "Removed" /\ w[k].id = h.id
      BY <1>1, <1>6, <2>2 DEF Shows
    <3>2. QED
      BY <1>3, <3>1 DEF Has
  <2>3. QED
    BY <2>1, <2>2 DEF Shows
<1>7. QED
  BY <1>1, <1>5, <1>6 DEF z, h

\* The bridge hands over what the actor sent, in order.
LEMMA BridgeView == IInv /\ View /\ Bridge => View'
<1> SUFFICES ASSUME IInv, View, Bridge PROVE View'
  OBVIOUS
<1>1. PICK note : note = Head(wire)
  OBVIOUS
<1>2. PICK w : w = wire
  OBVIOUS
<1>3. /\ w \in Seq(Note) /\ w # <<>> /\ wire' = Tail(w) /\ note = Head(w)
      /\ tasks' = tasks /\ pc' = pc /\ cmds' = cmds /\ gone' = gone /\ ghosts' = ghosts
      /\ Removals
      /\ panel' = CASE note.kind \in {"Created", "Fired"} -> panel \cup {note.id}
                    [] note.kind = "Removed" -> panel \ {note.id}
                    [] OTHER -> panel
  BY <1>1, <1>2 DEF IInv, Typed, Bridge, actor, history
<1>4. /\ \A id \in Id : Has(w, {"Removed"}, id) => id \in gone
      /\ pc = "loop" => \A id \in Ids(tasks) :
            id \in panel \/ Has(w, {"Created", "Fired"}, id) \/ Deleting(id)
      /\ \A id \in panel : id \in Ids(tasks) \cup ghosts \/ Has(w, {"Removed"}, id)
      /\ Shows(w, Ids(tasks))
  BY <1>2 DEF View
<1>5. PICK z : z = Tail(w)
  OBVIOUS
<1>6. /\ note \in Note
      /\ \A kinds, id : Has(w, kinds, id) <=>
              Has(z, kinds, id) \/ (note.kind \in kinds /\ note.id = id)
      /\ Shows(z, Ids(tasks))
      /\ note.kind \in {"Created", "Fired"} =>
           note.id \in Ids(tasks) \/ Has(z, {"Removed"}, note.id)
  BY <1>3, <1>4, <1>5, TailNotes
<1>7. wire' = z
  BY <1>3, <1>5
<1>8. Ids(tasks) \subseteq Id
  BY ListElements DEF IInv, Typed
<1>9. /\ note.kind \in {"Created", "Fired"} => panel' = panel \cup {note.id}
      /\ note.kind = "Removed" => panel' = panel \ {note.id}
      /\ note.kind \notin {"Created", "Fired", "Removed"} => panel' = panel
  BY <1>3
<1>10. \A id \in Id : Has(z, {"Removed"}, id) => id \in gone
  BY <1>4, <1>6
<1>11. ASSUME pc = "loop", NEW id \in Ids(tasks)
       PROVE  id \in panel' \/ Has(z, {"Created", "Fired"}, id) \/ Deleting(id)
  <2>1. ~(note.kind = "Removed" /\ note.id = id)
    <3>1. id \notin gone
      BY <1>3 DEF Removals
    <3>2. QED
      BY <1>4, <1>6, <1>8, <3>1
  <2>2. CASE id \in panel
    BY <1>9, <2>1, <2>2
  <2>3. CASE Has(w, {"Created", "Fired"}, id)
    BY <1>6, <1>9, <2>3
  <2>4. QED
    BY <1>4, <1>11, <2>2, <2>3
<1>12. ASSUME NEW id \in panel' PROVE id \in Ids(tasks) \cup ghosts \/ Has(z, {"Removed"}, id)
  <2>1. CASE note.kind \in {"Created", "Fired"} /\ id = note.id
    BY <1>6, <2>1
  <2>2. CASE ~(note.kind \in {"Created", "Fired"} /\ id = note.id)
    <3>1. id \in panel /\ ~(note.kind = "Removed" /\ note.id = id)
      BY <1>9, <1>12, <2>2
    <3>2. QED
      BY <1>4, <1>6, <3>1
  <2>3. QED
    BY <2>1, <2>2
<1>13. \A id : Deleting(id)' <=> Deleting(id)
  BY <1>3 DEF Deleting
<1>14. QED
  BY <1>3, <1>6, <1>7, <1>10, <1>11, <1>12, <1>13 DEF View

\* The steps that send nothing: a row is dropped only with a command to delete.
LEMMA AppendedCommands ==
  ASSUME Typed, NEW c \in Command, cmds' = Append(cmds, c)
  PROVE  /\ \A id : Deleting(id) => Deleting(id)'
         /\ c.op = "delete" => Deleting(c.id)'
<1>1. /\ Len(cmds) + 1 \in DOMAIN cmds' /\ cmds'[Len(cmds) + 1] = c
      /\ \A i \in DOMAIN cmds : i \in DOMAIN cmds' /\ cmds'[i] = cmds[i]
  BY AddCommand
<1>2. QED
  BY <1>1 DEF Deleting

\* The steps of the tools, the file, the clock and the client send nothing.
LEMMA QuietStepsView ==
  ASSUME IInv, View,
         \/ FinalizeOutput \/ WritePending \/ WriteFails \/ Tick \/ Cancel \/ UNCHANGED vars
         \/ DropCalls
         \/ \E own \in BOOLEAN : \/ \E r \in Request : Create(r, own)
                                 \/ \E id \in Id : Delete(id, own)
         \/ \E id \in Id : CancelFromPanel(id)
  PROVE  View'
<1>1. Typed
  BY DEF IInv
<1>2. CASE FinalizeOutput \/ WritePending \/ WriteFails \/ Tick \/ Cancel \/ UNCHANGED vars
  <2>1. UNCHANGED <<wire, tasks, pc, gone, ghosts, panel, cmds>>
    BY <1>2 DEF FinalizeOutput, WritePending, WriteFails, Tick, Cancel, vars, actor, history,
                client
  <2>2. \A id : Deleting(id) => Deleting(id)'
    BY <2>1 DEF Deleting
  <2>3. QED
    BY <2>1, <2>2, ViewAlone
<1>3. ASSUME NEW own \in BOOLEAN, NEW r \in Request, Create(r, own) PROVE View'
  <2>1. UNCHANGED <<wire, tasks, pc, gone, ghosts, panel>>
    BY <1>3 DEF Create, actor, history, client
  <2>2. \A id : Deleting(id) => Deleting(id)'
    <3>1. PICK c : cmds' = Append(cmds, c) /\ c.op = "create"
      BY <1>3 DEF Create, Asks
    <3>2. /\ \A i \in DOMAIN cmds : i \in DOMAIN cmds' /\ cmds'[i] = cmds[i]
      BY <1>1, <3>1 DEF Typed
    <3>3. QED
      BY <3>2 DEF Deleting
  <2>3. QED
    BY <2>1, <2>2, ViewAlone
<1>4. ASSUME NEW own \in BOOLEAN, NEW id \in Id, Delete(id, own) PROVE View'
  <2>1. UNCHANGED <<wire, tasks, pc, gone, ghosts, panel>>
    BY <1>4 DEF Delete, actor, history, client
  <2>2. PICK c \in Command : cmds' = Append(cmds, c)
    BY <1>4 DEF Delete, Asks, Command
  <2>3. QED
    BY <1>1, <2>1, <2>2, AppendedCommands, ViewAlone
<1>5. ASSUME NEW id \in Id, CancelFromPanel(id) PROVE View'
  <2>1. UNCHANGED <<wire, tasks, pc, gone, ghosts>> /\ panel' = panel \ {id}
    BY <1>5 DEF CancelFromPanel, actor, history
  <2>2. PICK c \in Command : cmds' = Append(cmds, c) /\ c.op = "delete" /\ c.id = id
    <3>1. PICK c : c = [op |-> "delete", id |-> id, saves |-> FALSE]
      OBVIOUS
    <3>2. cmds' = Append(cmds, c)
      BY <1>5, <3>1 DEF CancelFromPanel, Asks
    <3>3. c \in Command /\ c.op = "delete" /\ c.id = id
      BY <3>1 DEF Command
    <3>4. QED
      BY <3>2, <3>3
  <2>3. (\A k : Deleting(k) => Deleting(k)') /\ Deleting(id)'
    BY <1>1, <2>2, AppendedCommands
  <2>4. QED
    BY <2>1, <2>3, ViewAlone
<1>6. CASE DropCalls
  <2>1. UNCHANGED <<wire, tasks, pc, gone, ghosts, panel>>
    BY <1>6 DEF DropCalls, actor, history, client
  <2>2. /\ DOMAIN cmds' = DOMAIN cmds
        /\ \A i \in DOMAIN cmds : /\ cmds'[i].op = cmds[i].op
                                  /\ cmds[i].op = "delete" => cmds'[i].id = cmds[i].id
    <3>1. ASSUME NEW c \in Command
          PROVE  /\ [c EXCEPT !.saves = FALSE].op = c.op
                 /\ c.op = "delete" => [c EXCEPT !.saves = FALSE].id = c.id
      BY DEF Command
    <3>2. cmds \in Seq(Command)
      BY <1>1 DEF Typed
    <3>3. \A i \in DOMAIN cmds : cmds[i] \in Command
      BY <3>2
    <3>4. cmds' = [i \in DOMAIN cmds |-> [cmds[i] EXCEPT !.saves = FALSE]]
      BY <1>6 DEF DropCalls
    <3>5. QED
      BY <3>1, <3>3, <3>4
  <2>3. \A id : Deleting(id) => Deleting(id)'
    BY <2>2 DEF Deleting
  <2>4. QED
    BY <2>1, <2>3, ViewAlone
<1>7. QED
  BY <1>2, <1>3, <1>4, <1>5, <1>6

\* A life ends, and the next shows what the log left standing.
LEMMA LivesView == IInv /\ View /\ (Die \/ Resume) => View'
<1> SUFFICES ASSUME IInv, View, Die \/ Resume PROVE View'
  OBVIOUS
<1>1. /\ wire' = <<>> /\ pc' = "missed"
      /\ panel' \subseteq Ids(tasks') \cup ghosts'
  BY DEF IInv, Places, Die, Resume
<1>2. DOMAIN wire' = {}
  BY <1>1
<1>3. QED
  BY <1>1, <1>2 DEF View, Has, Shows

\* The steps of the actor at its start and at its end.
LEMMA StartView == IInv /\ View /\ (FireMissed \/ PruneMissed \/ AnnounceExisting) => View'
<1> SUFFICES ASSUME IInv, View, FireMissed \/ PruneMissed \/ AnnounceExisting PROVE View'
  OBVIOUS
<1>1. IInv'
  BY FireMissedKeeps, PruneKeeps, AnnounceKeeps
<1>2. tasks \in TaskList /\ missed \in Seq(Id) /\ missed' \in Seq(Id) /\ Ids(tasks) \subseteq Id
  BY <1>1, ListElements DEF IInv, Typed
<1>3. CASE FireMissed
  <2>1. PICK n : n = Notes("FiredLate", missed')
    OBVIOUS
  <2>2. /\ wire' = wire \o n /\ pc' # "loop"
        /\ UNCHANGED <<panel, ghosts, gone, tasks>>
    BY <1>3, <2>1 DEF FireMissed, client, At
  <2>3. PICK late \in Seq(Id) : late = missed'
    BY <1>2
  <2>4. /\ n \in Seq(Note) /\ Shows(n, Ids(tasks'))
        /\ \A id : ~Has(n, {"Removed"}, id)
    BY <2>1, <2>3, NotesProperties, HasNotes
  <2>5. QED
    BY <2>2, <2>4, ViewSends
<1>4. CASE PruneMissed
  <2>1. PICK ids \in Seq(Id) : ids = missed
    BY <1>2
  <2>2. PICK n : n = Notes("Removed", ids)
    OBVIOUS
  <2>3. /\ wire' = wire \o n /\ pc' # "loop" /\ UNCHANGED <<panel, ghosts>>
        /\ gone' = gone \cup Range(ids) /\ tasks' = KeepIds(tasks, Id \ Range(ids))
    BY <1>4, <2>1, <2>2 DEF PruneMissed, Pruned, Told, client
  <2>4. Ids(tasks') = Ids(tasks) \cap (Id \ Range(ids))
    BY <1>2, <2>3, KeepIdsTasks
  <2>5. /\ n \in Seq(Note) /\ Shows(n, Ids(tasks'))
        /\ \A id : Has(n, {"Removed"}, id) <=> id \in Range(ids)
    BY <2>2, NotesProperties, HasNotes
  <2>6. QED
    BY <1>2, <2>3, <2>4, <2>5, ViewSends
<1>5. CASE AnnounceExisting
  <2>1. PICK ids \in Seq(Id) : ids = IdSeq(tasks) /\ Range(ids) = Ids(tasks)
    BY <1>2, IdSeqProperties
  <2>2. PICK n : n = Notes("Created", ids)
    OBVIOUS
  <2>3. /\ wire' = wire \o n /\ UNCHANGED <<panel, ghosts, gone, tasks>>
    BY <1>5, <2>1, <2>2 DEF AnnounceExisting, Announced, client, history
  <2>4. /\ n \in Seq(Note) /\ Shows(n, Ids(tasks'))
        /\ \A id : ~Has(n, {"Removed"}, id)
        /\ \A id \in Ids(tasks') : Has(n, {"Created", "Fired"}, id)
    BY <2>1, <2>2, <2>3, NotesProperties, HasNotes
  <2>5. QED
    BY <2>3, <2>4, ViewSends
<1>6. QED
  BY <1>3, <1>4, <1>5

\* Taking a command loses no other request to delete.
LEMMA TakenCommands ==
  ASSUME Typed, cmds # <<>>, cmds' = Tail(cmds)
  PROVE  /\ Head(cmds) \in Command
         /\ \A id : Deleting(id) /\ ~(Head(cmds).op = "delete" /\ Head(cmds).id = id)
              => Deleting(id)'
<1> DEFINE h == Head(cmds)
<1>1. cmds \in Seq(Command)
  BY DEF Typed
<1>2. /\ h = cmds[1] /\ h \in Command /\ DOMAIN cmds = 1..Len(cmds) /\ Len(cmds) \in Nat
      /\ DOMAIN cmds' = 1..(Len(cmds) - 1) /\ \A i \in DOMAIN cmds' : cmds'[i] = cmds[i + 1]
  BY <1>1
<1> HIDE DEF h
<1>3. ASSUME NEW id, Deleting(id), ~(h.op = "delete" /\ h.id = id) PROVE Deleting(id)'
  <2>1. PICK i \in DOMAIN cmds : cmds[i].op = "delete" /\ cmds[i].id = id
    BY <1>3 DEF Deleting
  <2>2. i - 1 \in DOMAIN cmds' /\ cmds'[i - 1] = cmds[i]
    BY <1>2, <1>3, <2>1
  <2>3. QED
    BY <2>1, <2>2 DEF Deleting
<1>4. QED
  BY <1>2, <1>3 DEF h

\* A task that is created is announced; one that is refused is not.
LEMMA HandleCreateView == IInv /\ View /\ HandleCreate => View'
<1> SUFFICES ASSUME IInv, View, HandleCreate PROVE View'
  OBVIOUS
<1>1. PICK cmd : cmd = Head(cmds)
  OBVIOUS
<1>2. /\ Typed /\ cmds # <<>> /\ cmd.op = "create" /\ cmds' = Tail(cmds)
      /\ tasks' = IF Room THEN Append(tasks, cmd.task) ELSE tasks
      /\ wire' = IF Room THEN wire \o Notes("Created", <<cmd.task.id>>) ELSE wire
      /\ pc = "loop" /\ UNCHANGED <<pc, panel, gone, ghosts>>
  BY <1>1 DEF IInv, HandleCreate, HasCommand, Listening, At, client
<1>3. cmd \in Command /\ \A id : Deleting(id) => Deleting(id)'
  BY <1>1, <1>2, TakenCommands
<1>4. CASE ~Room
  BY <1>2, <1>3, <1>4, ViewAlone
<1>5. CASE Room
  <2>1. PICK t \in Task : t = cmd.task
    BY <1>2, <1>3 DEF Command
  <2>2. PICK one \in Seq(Id) : one = <<t.id>> /\ Range(one) = {t.id}
    <3>1. PICK k \in Id : k = t.id
      BY DEF Task
    <3>2. <<k>> \in Seq(Id) /\ DOMAIN <<k>> = {1} /\ <<k>>[1] = k
      OBVIOUS
    <3>3. Range(<<k>>) = {k}
      BY <3>2 DEF Range
    <3>4. QED
      BY <3>1, <3>2, <3>3
  <2>3. PICK n : n = Notes("Created", one)
    OBVIOUS
  <2>4. wire' = wire \o n /\ tasks' = Append(tasks, t)
    BY <1>2, <1>5, <2>1, <2>2, <2>3
  <2>5. Ids(tasks') = Ids(tasks) \cup {t.id}
    <3>1. tasks \in Seq(Task)
      BY <1>2, ListElements DEF Typed
    <3>2. ToSet(tasks') = ToSet(tasks) \cup {t}
      BY <2>4, <3>1, AppendElements
    <3>3. QED
      BY <3>2 DEF Ids
  <2>6. /\ n \in Seq(Note) /\ Shows(n, Ids(tasks'))
        /\ \A id : ~Has(n, {"Removed"}, id)
        /\ Has(n, {"Created", "Fired"}, t.id)
    <3>1. n \in Seq(Note) /\ \A id : ~Has(n, {"Removed"}, id)
      BY <2>3, NotesProperties, HasNotes
    <3>2. \A X : Range(one) \subseteq X => Shows(n, X)
      BY <2>3, HasNotes
    <3>3. Has(n, {"Created", "Fired"}, t.id)
      BY <2>2, <2>3, HasNotes
    <3>4. QED
      BY <2>2, <2>5, <3>1, <3>2, <3>3
  <2>7. QED
    BY <1>2, <1>3, <2>4, <2>5, <2>6, ViewSends
<1>6. QED
  BY <1>4, <1>5

\* A task that is deleted is announced as removed.
LEMMA HandleDeleteView == IInv /\ View /\ HandleDelete => View'
<1> SUFFICES ASSUME IInv, View, HandleDelete PROVE View'
  OBVIOUS
<1>1. PICK cmd : cmd = Head(cmds)
  OBVIOUS
<1>2. PICK out : out = IF cmd.id \in Ids(tasks) THEN <<cmd.id>> ELSE <<>>
  OBVIOUS
<1>3. PICK n : n = Notes("Removed", out)
  OBVIOUS
<1>4. /\ Typed /\ cmds # <<>> /\ cmd.op = "delete" /\ cmds' = Tail(cmds)
      /\ tasks' = KeepIds(tasks, Id \ {cmd.id}) /\ wire' = wire \o n
      /\ gone' = gone \cup Range(out)
      /\ pc = "loop" /\ UNCHANGED <<pc, panel, ghosts>>
  BY <1>1, <1>2, <1>3 DEF IInv, HandleDelete, HasCommand, Listening, At, client, Told
<1>5. cmd \in Command /\ \A id : Deleting(id) /\ id # cmd.id => Deleting(id)'
  BY <1>1, <1>4, TakenCommands
<1>6. cmd.id \in Id
  BY <1>4, <1>5 DEF Command
<1>7. out \in Seq(Id) /\ Range(out) = {cmd.id} \cap Ids(tasks)
  BY <1>2, <1>6 DEF Range
<1>8. tasks \in TaskList /\ Ids(tasks) \subseteq Id
  BY <1>4, ListElements DEF Typed
<1>9. Ids(tasks') = Ids(tasks) \cap (Id \ {cmd.id})
  BY <1>4, <1>8, KeepIdsTasks
<1>10. /\ n \in Seq(Note) /\ Shows(n, Ids(tasks'))
       /\ \A id : Has(n, {"Removed"}, id) <=> id \in Range(out)
  BY <1>3, <1>7, NotesProperties, HasNotes
<1>11. QED
  BY <1>4, <1>5, <1>7, <1>8, <1>9, <1>10, ViewSends

\* A task that fires gets a row; if it ends with that, the removal follows.
LEMMA FireNextView == IInv /\ View /\ FireNextTask => View'
<1> SUFFICES ASSUME IInv, View, FireNextTask PROVE View'
  OBVIOUS
<1>1. PICK i \in DOMAIN tasks :
        LET t == tasks[i]
            ends == IF ~t.recurring \/ IsExpired(t) THEN <<t.id>> ELSE <<>>
        IN
        /\ Listening
        /\ tasks' = IF ends = <<>> THEN [tasks EXCEPT ![i] = Refired(t)]
                    ELSE RemoveAt(tasks, i)
        /\ wire' = wire \o FireNotes(t, ends)
        /\ Told(ends)
        /\ UNCHANGED <<pc, cmds, client, ghosts>>
  BY DEF FireNextTask
<1>2. PICK t : t = tasks[i]
  OBVIOUS
<1>3. PICK ends : ends = IF ~t.recurring \/ IsExpired(t) THEN <<t.id>> ELSE <<>>
  OBVIOUS
<1>4. PICK f, r : f = Notes("Fired", <<t.id>>) /\ r = Notes("Removed", ends)
  OBVIOUS
<1>5. /\ tasks' = IF ends = <<>> THEN [tasks EXCEPT ![i] = Refired(t)]
                  ELSE RemoveAt(tasks, i)
      /\ wire' = wire \o (f \o r) /\ gone' = gone \cup Range(ends)
      /\ pc = "loop" /\ UNCHANGED <<pc, cmds, panel, ghosts>>
  BY <1>1, <1>2, <1>3, <1>4 DEF FireNotes, Told, Listening, At, client
<1>6. tasks \in TaskList /\ now \in Nat
  BY DEF IInv, Typed
<1>7. t \in Task /\ t.id \in Id /\ t.id \in Ids(tasks)
  BY <1>2, <1>6, ListElements DEF Ids, ToSet
<1>8. /\ <<t.id>> \in Seq(Id) /\ Range(<<t.id>>) = {t.id} /\ ends \in Seq(Id)
      /\ Range(ends) = IF ends = <<>> THEN {} ELSE {t.id}
  BY <1>3, <1>7 DEF Range
<1>9. Ids(tasks') = IF ends = <<>> THEN Ids(tasks) ELSE Ids(tasks) \ {t.id}
  <2>1. CASE ends = <<>>
    <3>1. PICK m \in Task : m = Refired(t) /\ m.id = t.id
      BY <1>6, <1>7, RefiredTask
    <3>2. tasks' = [tasks EXCEPT ![i] = m] /\ m.id = tasks[i].id
      BY <1>2, <1>5, <2>1, <3>1
    <3>3. QED
      BY <1>6, <2>1, <3>2, ReplaceTask
  <2>2. CASE ends # <<>>
    BY <1>2, <1>5, <1>6, <2>2, RemoveTask
  <2>3. QED
    BY <2>1, <2>2
<1>10. /\ f \in Seq(Note) /\ \A j \in DOMAIN f : f[j].id = t.id
       /\ \A id : ~Has(f, {"Removed"}, id)
  <2>1. PICK one \in Seq(Id) : one = <<t.id>>
    BY <1>8
  <2>2. f = Notes("Fired", one)
    BY <1>4, <2>1
  <2>3. f \in Seq(Note) /\ \A id : ~Has(f, {"Removed"}, id)
    BY <2>2, NotesProperties, HasNotes
  <2>4. DOMAIN one = {1} /\ one[1] = t.id
    BY <2>1
  <2>5. \A j \in DOMAIN f : f[j].id = t.id
    BY <2>2, <2>4 DEF Notes
  <2>6. QED
    BY <2>3, <2>5
<1>11. /\ r \in Seq(Note) /\ Shows(r, Ids(tasks'))
       /\ \A id : Has(r, {"Removed"}, id) <=> id \in Range(ends)
  BY <1>4, <1>8, NotesProperties, HasNotes
<1>12. PICK n : n = f \o r
  OBVIOUS
<1>13. n \in Seq(Note) /\ \A id : Has(n, {"Removed"}, id) <=> id \in Range(ends)
  BY <1>10, <1>11, <1>12, JoinNotes, HasJoin
<1>14. Shows(n, Ids(tasks'))
  <2>1. \A j \in DOMAIN f : f[j].id \in Ids(tasks') \/ Has(r, {"Removed"}, f[j].id)
    BY <1>7, <1>8, <1>9, <1>10, <1>11
  <2>2. PICK X : X = Ids(tasks')
    OBVIOUS
  <2>3. QED
    BY <1>10, <1>11, <1>12, <2>1, <2>2, HasJoin
<1>15. \A id : Deleting(id) => Deleting(id)'
  BY <1>5 DEF Deleting
<1>16. QED
  BY <1>5, <1>8, <1>9, <1>12, <1>13, <1>14, <1>15, ViewSends

\* The drain announces a removal of every task.
LEMMA DrainView == IInv /\ View /\ DrainTasks => View'
<1> SUFFICES ASSUME IInv, View, DrainTasks PROVE View'
  OBVIOUS
<1>1. tasks \in TaskList
  BY DEF IInv, Typed
<1>2. PICK ids \in Seq(Id) : ids = IdSeq(tasks) /\ Range(ids) = Ids(tasks)
  BY <1>1, IdSeqProperties
<1>3. PICK n : n = Notes("Removed", ids)
  OBVIOUS
<1>4. /\ wire' = wire \o n /\ pc' # "loop" /\ gone' = gone \cup Range(ids)
      /\ UNCHANGED <<panel, ghosts>>
  BY <1>2, <1>3 DEF DrainTasks, Told, client
<1>5. /\ n \in Seq(Note) /\ Shows(n, Ids(tasks'))
      /\ \A id : Has(n, {"Removed"}, id) <=> id \in Range(ids)
  BY <1>3, NotesProperties, HasNotes
<1>6. QED
  BY <1>2, <1>4, <1>5, ViewSends

\* Every step keeps the view.
LEMMA NextView == IInv /\ View /\ [Next]_vars => View'
BY StartView, HandleCreateView, HandleDeleteView, FireNextView, DrainView, BridgeView,
   LivesView, QuietStepsView DEF Next, Actor

\* Whenever the actor has nothing to do and the bridge is empty, the panel
\* shows every task there is (announce_existing_tasks, notification_bridge).
THEOREM PanelShowsEveryTask == Spec => []PanelShowsTasks
<1>1. Init => IInv /\ View
  <2>1. ASSUME Init PROVE View
    <3>1. wire = <<>> /\ DOMAIN wire = {} /\ panel = {} /\ pc # "loop"
      BY <2>1 DEF Init
    <3>2. QED
      BY <3>1 DEF View, Has, Shows
  <2>2. QED
    BY <2>1, InitIInv
<1>2. IInv /\ View /\ [Next]_vars => IInv' /\ View'
  BY NextKeeps, NextView
<1>3. View => PanelShowsTasks
  <2>1. SUFFICES ASSUME View, Quiet PROVE /\ Ids(tasks) \subseteq panel
                                          /\ panel \ Ids(tasks) \subseteq ghosts
    BY DEF PanelShowsTasks
  <2>2. pc = "loop" /\ DOMAIN wire = {} /\ DOMAIN cmds = {}
    BY <2>1 DEF Quiet, Listening, At
  <2>3. \A kinds, id : ~Has(wire, kinds, id) /\ ~Deleting(id)
    BY <2>2 DEF Has, Deleting
  <2>4. QED
    BY <2>1, <2>2, <2>3 DEF View
<1>4. QED
  BY <1>1, <1>2, <1>3, PTL DEF Spec

=============================================================================
