---------------------------- MODULE ListTheorems ----------------------------
(***************************************************************************)
(* Facts about every list: what is left of one that is filtered, and in    *)
(* which order; what a join, an insertion or a removal holds, whether it   *)
(* holds it once, and what comes before what in it.                        *)
(***************************************************************************)
EXTENDS Lists, TLAPS, SequenceTheorems, WellFoundedInduction

-----------------------------------------------------------------------------
(* Induction over a set of naturals, from the library's well-foundedness.  *)

\* A non-empty set of naturals has a least element.
LEMMA LeastNatural ==
  ASSUME NEW S, S \subseteq Nat, S # {}
  PROVE  \E n \in S : \A m \in S : n <= m
<1>1. IsWellFoundedOn(OpToRel(<, Nat), Nat)
  BY NatLessThanWellFounded
<1>2. PICK n \in S : \A m \in S : <<m, n>> \notin OpToRel(<, Nat)
  BY <1>1, WFMin
<1>3. \A m \in S : ~(m < n)
  BY <1>2 DEF OpToRel
<1>4. QED
  BY <1>3

\* A set that holds 0, and n + 1 with n, holds every natural.
LEMMA NatSetInduction ==
  ASSUME NEW S, 0 \in S, \A n \in Nat : n \in S => n + 1 \in S
  PROVE  Nat \subseteq S
<1> SUFFICES ASSUME Nat \ S # {} PROVE FALSE
  OBVIOUS
<1>1. PICK n \in Nat \ S : \A m \in Nat \ S : n <= m
  BY LeastNatural
<1>2. n - 1 \in Nat /\ n - 1 \in S
  BY <1>1
<1>3. QED
  BY <1>1, <1>2


-----------------------------------------------------------------------------
(* Keep.  Its recursive function exists, which makes its equation usable.  *)

\* f goes through the prefixes of q, up to the n-th.
KeepsUpTo(f, q, S, n) ==
  f = [i \in 0..n |-> IF i = 0 THEN <<>>
                      ELSE IF q[i] \in S THEN Append(f[i - 1], q[i])
                                         ELSE f[i - 1]]

Kept(q, S) == CHOOSE f : KeepsUpTo(f, q, S, Len(q))

\* Keep is the last value of its recursive function.
LEMMA KeepIsKept == \A q, S : Keep(q, S) = Kept(q, S)[Len(q)]
  BY DEF Keep, Kept, KeepsUpTo

\* There is such a function, for every length.
LEMMA KeptExists ==
  ASSUME NEW q, NEW S PROVE \A n \in Nat : \E f : KeepsUpTo(f, q, S, n)
<1> DEFINE D == {n \in Nat : \E f : KeepsUpTo(f, q, S, n)}
<1>1. 0 \in D
  <2>1. KeepsUpTo([i \in 0..0 |-> <<>>], q, S, 0)
    BY DEF KeepsUpTo
  <2>2. QED
    BY <2>1
<1>2. ASSUME NEW n \in Nat, n \in D PROVE n + 1 \in D
  <2>1. PICK f : KeepsUpTo(f, q, S, n)
    BY <1>2
  <2> DEFINE last == IF q[n + 1] \in S THEN Append(f[n], q[n + 1]) ELSE f[n]
             g == [i \in 0..(n + 1) |-> IF i = n + 1 THEN last ELSE f[i]]
             h == [i \in 0..(n + 1) |->
                     IF i = 0 THEN <<>>
                     ELSE IF q[i] \in S THEN Append(g[i - 1], q[i]) ELSE g[i - 1]]
  <2>2. ASSUME NEW i \in 0..(n + 1) PROVE g[i] = h[i]
    <3>1. CASE i = n + 1
      <4>1. g[i - 1] = f[n]
        BY <3>1
      <4>2. QED
        BY <3>1, <4>1
    <3>2. CASE i # n + 1
      <4>1. i \in 0..n /\ g[i] = f[i] /\ (i # 0 => i - 1 \in 0..n /\ g[i - 1] = f[i - 1])
        BY <3>2
      <4>2. f[i] = IF i = 0 THEN <<>>
                   ELSE IF q[i] \in S THEN Append(f[i - 1], q[i]) ELSE f[i - 1]
        BY <2>1, <4>1 DEF KeepsUpTo
      <4>3. QED
        BY <4>1, <4>2
    <3>3. QED
      BY <3>1, <3>2
  <2>3. g = h
    BY <2>2
  <2>4. KeepsUpTo(g, q, S, n + 1)
    BY <2>3 DEF KeepsUpTo
  <2>5. QED
    BY <2>4
<1>3. Nat \subseteq D
  <2> HIDE DEF D
  <2>1. QED
    BY <1>1, <1>2, NatSetInduction
<1>4. QED
  BY <1>3

\* The first element Keep looks at, then each later one.
LEMMA KeptEquation ==
  ASSUME NEW q, NEW S, Len(q) \in Nat
  PROVE  /\ Kept(q, S)[0] = <<>>
         /\ \A i \in 1..Len(q) :
              Kept(q, S)[i] = IF q[i] \in S THEN Append(Kept(q, S)[i - 1], q[i])
                                            ELSE Kept(q, S)[i - 1]
<1>1. KeepsUpTo(Kept(q, S), q, S, Len(q))
  BY KeptExists DEF Kept
<1> DEFINE f == Kept(q, S)
           n == Len(q)
<1>2. f = [i \in 0..n |-> IF i = 0 THEN <<>>
                          ELSE IF q[i] \in S THEN Append(f[i - 1], q[i])
                                             ELSE f[i - 1]]
  BY <1>1 DEF KeepsUpTo
<1> HIDE DEF f, n
<1>3. f[0] = <<>>
  <2>1. 0 \in 0..n
    BY DEF n
  <2>2. QED
    BY <1>2, <2>1
<1>4. ASSUME NEW i \in 1..n
      PROVE  f[i] = IF q[i] \in S THEN Append(f[i - 1], q[i]) ELSE f[i - 1]
  <2>1. i \in 0..n /\ i # 0
    BY DEF n
  <2>2. QED
    BY <1>2, <2>1
<1>5. QED
  BY <1>3, <1>4 DEF f, n

-----------------------------------------------------------------------------
(* What the filtered list holds.                                           *)

FrontIs(q, r) == q # <<>> /\ Head(q) = r

\* Keep returns items of q, all of S, and the front of q if S has it.
LEMMA KeepProperties ==
  ASSUME NEW T, NEW q \in Seq(T), NEW S
  PROVE  /\ Keep(q, S) \in Seq(T \cap S)
         /\ \A r \in S : FrontIs(q, r) => FrontIs(Keep(q, S), r)
<1> DEFINE f == Kept(q, S)
           n == Len(q)
           Good(i) == /\ f[i] \in Seq(T \cap S)
                      /\ i > 0 /\ q[1] \in S => f[i] # <<>> /\ f[i][1] = q[1]
           D == {i \in Nat : i <= n => Good(i)}
<1>1. n \in Nat
  OBVIOUS
<1>2. f[0] = <<>> /\ \A i \in 1..n :
        f[i] = IF q[i] \in S THEN Append(f[i - 1], q[i]) ELSE f[i - 1]
  BY <1>1, KeptEquation
<1>3. 0 \in D
  <2> HIDE DEF f, n
  <2>1. Good(0)
    BY <1>2
  <2>2. QED
    BY <2>1
<1>4. ASSUME NEW i \in Nat, i \in D PROVE i + 1 \in D
  <2> SUFFICES ASSUME i + 1 <= n PROVE Good(i + 1)
    OBVIOUS
  <2> HIDE DEF f
  <2>1. Good(i) /\ i + 1 \in 1..n /\ q[i + 1] \in T
    BY <1>1, <1>4
  <2>2. f[i + 1] = IF q[i + 1] \in S THEN Append(f[i], q[i + 1]) ELSE f[i]
    <3>1. (i + 1) - 1 = i
      OBVIOUS
    <3>2. QED
      BY <1>2, <2>1, <3>1
  <2>3. CASE q[i + 1] \in S
    <3>1. f[i + 1] = Append(f[i], q[i + 1]) /\ q[i + 1] \in T \cap S
      BY <2>1, <2>2, <2>3
    <3>2. f[i + 1] \in Seq(T \cap S) /\ f[i + 1] # <<>>
      BY SMTT(40), <2>1, <3>1
    <3>3. CASE i = 0
      <4>1. f[i + 1] = Append(<<>>, q[1])
        BY <1>2, <3>1, <3>3
      <4>2. f[i + 1][1] = q[1]
        BY <4>1
      <4>3. QED
        BY <3>2, <4>2
    <3>4. CASE i # 0
      <4>1. q[1] \in S => f[i + 1][1] = f[i][1]
        BY <2>1, <3>1, <3>4
      <4>2. QED
        BY <2>1, <3>2, <3>4, <4>1
    <3>5. QED
      BY <3>3, <3>4
  <2>4. CASE q[i + 1] \notin S
    BY <2>1, <2>2, <2>4
  <2>5. QED
    BY <2>3, <2>4
<1>5. n \in D
  <2> HIDE DEF D
  <2>1. QED
    BY <1>1, <1>3, <1>4, NatSetInduction
<1>6. Good(n) /\ Keep(q, S) = f[n]
  BY <1>1, <1>5, KeepIsKept
<1>7. ASSUME NEW r \in S, FrontIs(q, r) PROVE FrontIs(Keep(q, S), r)
  <2>1. n > 0 /\ q[1] = r
    BY <1>7 DEF FrontIs
  <2>2. Keep(q, S) # <<>> /\ Keep(q, S)[1] = r
    BY <1>6, <2>1
  <2>3. Head(Keep(q, S)) = Keep(q, S)[1]
    BY <1>6, <2>2
  <2>4. QED
    BY <2>2, <2>3 DEF FrontIs
<1>8. QED
  BY <1>6, <1>7

\* The elements of a list with one more at its end.
LEMMA AppendElements ==
  ASSUME NEW T, NEW s \in Seq(T), NEW e \in T
  PROVE  Append(s, e) \in Seq(T) /\ ToSet(Append(s, e)) = ToSet(s) \cup {e}
<1> DEFINE a == Append(s, e)
<1>1. /\ a \in Seq(T) /\ Len(a) = Len(s) + 1 /\ a[Len(s) + 1] = e
      /\ \A i \in 1..Len(s) : a[i] = s[i]
  OBVIOUS
<1>2. DOMAIN a = 1..(Len(s) + 1) /\ DOMAIN s = 1..Len(s) /\ Len(s) \in Nat
  BY <1>1
<1> HIDE DEF a
<1>3. ToSet(a) \subseteq ToSet(s) \cup {e}
  BY <1>1, <1>2 DEF ToSet
<1>4. ToSet(s) \cup {e} \subseteq ToSet(a)
  BY <1>1, <1>2 DEF ToSet
<1>5. QED
  BY <1>1, <1>3, <1>4 DEF a

\* Keep returns the elements of q that are in S, and no other.
LEMMA KeepElements ==
  ASSUME NEW T, NEW q \in Seq(T), NEW S
  PROVE  Keep(q, S) \in Seq(T) /\ ToSet(Keep(q, S)) = ToSet(q) \cap S
<1> DEFINE f == Kept(q, S)
           n == Len(q)
           Upto(i) == {q[j] : j \in 1..i}
           Good(i) == f[i] \in Seq(T) /\ ToSet(f[i]) = Upto(i) \cap S
           D == {i \in Nat : i <= n => Good(i)}
<1>1. n \in Nat /\ DOMAIN q = 1..n
  OBVIOUS
<1>2. f[0] = <<>> /\ \A i \in 1..n :
        f[i] = IF q[i] \in S THEN Append(f[i - 1], q[i]) ELSE f[i - 1]
  BY <1>1, KeptEquation
<1>3. 0 \in D
  <2> HIDE DEF f, n
  <2>1. <<>> \in Seq(T) /\ ToSet(<<>>) = {} /\ Upto(0) = {}
    BY DEF ToSet
  <2>2. QED
    BY <1>2, <2>1
<1>4. ASSUME NEW i \in Nat, i \in D PROVE i + 1 \in D
  <2> SUFFICES ASSUME i + 1 <= n PROVE Good(i + 1)
    OBVIOUS
  <2> HIDE DEF f
  <2>1. Good(i) /\ i + 1 \in 1..n /\ q[i + 1] \in T
    BY <1>1, <1>4
  <2>2. f[i + 1] = IF q[i + 1] \in S THEN Append(f[i], q[i + 1]) ELSE f[i]
    <3>1. (i + 1) - 1 = i
      OBVIOUS
    <3>2. QED
      BY <1>2, <2>1, <3>1
  <2>3. Upto(i + 1) = Upto(i) \cup {q[i + 1]}
    OBVIOUS
  <2> HIDE DEF Upto
  <2>4. CASE q[i + 1] \in S
    <3>1. f[i + 1] \in Seq(T) /\ ToSet(f[i + 1]) = ToSet(f[i]) \cup {q[i + 1]}
      BY <2>1, <2>2, <2>4, AppendElements
    <3>2. QED
      BY <2>1, <2>3, <2>4, <3>1
  <2>5. CASE q[i + 1] \notin S
    BY <2>1, <2>2, <2>3, <2>5
  <2>6. QED
    BY <2>4, <2>5
<1>5. n \in D
  <2> HIDE DEF D
  <2>1. QED
    BY <1>1, <1>3, <1>4, NatSetInduction
<1>6. Good(n) /\ Keep(q, S) = f[n] /\ Upto(n) = ToSet(q)
  BY <1>1, <1>5, KeepIsKept DEF ToSet
<1>7. QED
  BY <1>6

\* s holds elements of the first n of q, in their order.
Follows(s, q, n) ==
  /\ \A a \in 1..Len(s) : \E c \in 1..n : s[a] = q[c]
  /\ \A a, b \in 1..Len(s) : a < b =>
       \E c, d \in 1..n : c < d /\ s[a] = q[c] /\ s[b] = q[d]

\* It does so among n + 1, and may take the last of them.
LEMMA FollowsMore ==
  ASSUME NEW T, NEW s \in Seq(T), NEW q, NEW n \in Nat, q[n + 1] \in T, Follows(s, q, n)
  PROVE  Follows(s, q, n + 1) /\ Follows(Append(s, q[n + 1]), q, n + 1)
<1> DEFINE z == Append(s, q[n + 1])
<1>1. /\ Len(z) = Len(s) + 1 /\ Len(s) \in Nat
      /\ z[Len(s) + 1] = q[n + 1] /\ \A a \in 1..Len(s) : z[a] = s[a]
  OBVIOUS
<1> HIDE DEF z
<1>2. 1..n \subseteq 1..(n + 1) /\ n + 1 \in 1..(n + 1)
  OBVIOUS
<1>3. Follows(s, q, n + 1)
  <2>1. ASSUME NEW a \in 1..Len(s) PROVE \E c \in 1..(n + 1) : s[a] = q[c]
    BY <1>2 DEF Follows
  <2>2. ASSUME NEW a \in 1..Len(s), NEW b \in 1..Len(s), a < b
        PROVE  \E c, d \in 1..(n + 1) : c < d /\ s[a] = q[c] /\ s[b] = q[d]
    <3>1. PICK c \in 1..n, d \in 1..n : c < d /\ s[a] = q[c] /\ s[b] = q[d]
      BY <2>2 DEF Follows
    <3>2. QED
      BY <1>2, <3>1
  <2>3. QED
    BY <2>1, <2>2 DEF Follows
<1>4. ASSUME NEW a \in 1..Len(z) PROVE \E c \in 1..(n + 1) : z[a] = q[c]
  BY <1>1, <1>2 DEF Follows
<1>5. ASSUME NEW a \in 1..Len(z), NEW b \in 1..Len(z), a < b
      PROVE  \E c, d \in 1..(n + 1) : c < d /\ z[a] = q[c] /\ z[b] = q[d]
  <2>1. CASE b = Len(s) + 1
    <3>1. a \in 1..Len(s)
      BY <1>1, <1>5, <2>1
    <3>2. PICK c \in 1..n : s[a] = q[c]
      BY <3>1 DEF Follows
    <3>3. c < n + 1 /\ z[a] = q[c] /\ z[b] = q[n + 1] /\ c \in 1..(n + 1)
      BY <1>1, <2>1, <3>1, <3>2
    <3>4. QED
      BY <1>2, <3>3
  <2>2. CASE b # Len(s) + 1
    <3>1. a \in 1..Len(s) /\ b \in 1..Len(s)
      BY <1>1, <1>5, <2>2
    <3>2. PICK c \in 1..n, d \in 1..n : c < d /\ s[a] = q[c] /\ s[b] = q[d]
      BY <1>5, <3>1 DEF Follows
    <3>3. QED
      BY <1>1, <1>2, <3>1, <3>2
  <2>3. QED
    BY <2>1, <2>2
<1>6. Follows(z, q, n + 1)
  BY <1>4, <1>5 DEF Follows
<1>7. QED
  BY <1>3, <1>6 DEF z

\* Keep does not change the order, and adds nothing.
LEMMA KeepOrder ==
  ASSUME NEW T, NEW q \in Seq(T), NEW S
  PROVE  /\ Keep(q, S) \in Seq(T) /\ Len(Keep(q, S)) <= Len(q)
         /\ Follows(Keep(q, S), q, Len(q))
<1> DEFINE f == Kept(q, S)
           n == Len(q)
           Good(i) == f[i] \in Seq(T) /\ Len(f[i]) <= i /\ Follows(f[i], q, i)
           D == {i \in Nat : i <= n => Good(i)}
<1>1. n \in Nat /\ \A i \in 1..n : q[i] \in T
  OBVIOUS
<1>2. f[0] = <<>> /\ \A i \in 1..n :
        f[i] = IF q[i] \in S THEN Append(f[i - 1], q[i]) ELSE f[i - 1]
  BY <1>1, KeptEquation
<1>3. 0 \in D
  <2> HIDE DEF f, n
  <2>1. Follows(<<>>, q, 0) /\ <<>> \in Seq(T)
    BY DEF Follows
  <2>2. Good(0)
    BY <1>2, <2>1
  <2>3. QED
    BY <2>2
<1>4. ASSUME NEW i \in Nat, i \in D PROVE i + 1 \in D
  <2> SUFFICES ASSUME i + 1 <= n PROVE Good(i + 1)
    BY DEF D
  <2> HIDE DEF f
  <2>1. Good(i) /\ i + 1 \in 1..n /\ q[i + 1] \in T
    BY <1>1, <1>4
  <2>2. f[i + 1] = IF q[i + 1] \in S THEN Append(f[i], q[i + 1]) ELSE f[i]
    <3>1. (i + 1) - 1 = i
      OBVIOUS
    <3>2. QED
      BY <1>2, <2>1, <3>1
  <2>3. Follows(f[i], q, i + 1) /\ Follows(Append(f[i], q[i + 1]), q, i + 1)
    BY <2>1, FollowsMore
  <2>4. CASE q[i + 1] \in S
    <3>1. f[i + 1] \in Seq(T) /\ Len(f[i + 1]) = Len(f[i]) + 1
      BY <2>1, <2>2, <2>4
    <3>2. QED
      BY <2>1, <2>2, <2>3, <2>4, <3>1
  <2>5. CASE q[i + 1] \notin S
    <3>1. f[i + 1] = f[i]
      BY <2>2, <2>5
    <3>2. QED
      BY <2>1, <2>3, <3>1
  <2>6. QED
    BY <2>4, <2>5
<1>5. n \in D
  <2> HIDE DEF D
  <2>1. QED
    BY <1>1, <1>3, <1>4, NatSetInduction
<1>6. Good(n) /\ Keep(q, S) = f[n]
  BY <1>1, <1>5, KeepIsKept
<1>7. QED
  BY <1>6

\* The places of two lists joined.
LEMMA JoinPlaces ==
  ASSUME NEW T, NEW a \in Seq(T), NEW b \in Seq(T)
  PROVE  /\ a \o b \in Seq(T) /\ Len(a \o b) = Len(a) + Len(b)
         /\ \A j \in 1..Len(a) : (a \o b)[j] = a[j]
         /\ \A j \in 1..Len(b) : (a \o b)[Len(a) + j] = b[j]
<1>1. a \o b \in Seq(T) /\ Len(a \o b) = Len(a) + Len(b) /\ Len(a) \in Nat /\ Len(b) \in Nat
  OBVIOUS
<1>2. ASSUME NEW j \in 1..Len(a) PROVE (a \o b)[j] = a[j]
  OBVIOUS
<1>3. ASSUME NEW j \in 1..Len(b) PROVE (a \o b)[Len(a) + j] = b[j]
  OBVIOUS
<1>4. QED
  BY <1>1, <1>2, <1>3

\* Removing the element at a place moves the later ones up.
LEMMA RemoveAtProperties ==
  ASSUME NEW T, NEW q \in Seq(T), NEW i \in 1..Len(q)
  PROVE  /\ RemoveAt(q, i) \in Seq(T) /\ Len(RemoveAt(q, i)) = Len(q) - 1
         /\ \A j \in 1..(Len(q) - 1) :
              /\ j < i => RemoveAt(q, i)[j] = q[j]
              /\ j >= i => RemoveAt(q, i)[j] = q[j + 1]
<1> DEFINE a == SubSeq(q, 1, i - 1)
           b == SubSeq(q, i + 1, Len(q))
<1>1. a \in Seq(T) /\ Len(a) = i - 1 /\ \A j \in 1..(i - 1) : a[j] = q[j]
  OBVIOUS
<1>2. b \in Seq(T) /\ Len(b) = Len(q) - i /\ \A j \in 1..(Len(q) - i) : b[j] = q[j + i]
  OBVIOUS
<1>3. RemoveAt(q, i) = a \o b
  BY DEF RemoveAt
<1>4. Len(q) \in Nat
  OBVIOUS
<1> HIDE DEF a, b
<1> DEFINE z == a \o b
<1>5. /\ z \in Seq(T) /\ Len(z) = Len(q) - 1
      /\ \A j \in 1..Len(a) : z[j] = a[j]
      /\ \A j \in 1..Len(b) : z[Len(a) + j] = b[j]
  <2>1. a \in Seq(T) /\ b \in Seq(T)
    BY <1>1, <1>2
  <2>2. /\ z \in Seq(T) /\ Len(z) = Len(a) + Len(b)
        /\ \A j \in 1..Len(a) : z[j] = a[j]
        /\ \A j \in 1..Len(b) : z[Len(a) + j] = b[j]
    BY <2>1, JoinPlaces
  <2> HIDE DEF z
  <2>3. Len(z) = Len(q) - 1
    BY <1>1, <1>2, <1>4, <2>2
  <2>4. QED
    BY <2>2, <2>3
<1> HIDE DEF z
<1>6. ASSUME NEW j \in 1..(Len(q) - 1), j < i PROVE z[j] = q[j]
  BY <1>1, <1>5, <1>6
<1>7. ASSUME NEW j \in 1..(Len(q) - 1), j >= i PROVE z[j] = q[j + 1]
  <2>1. PICK k \in 1..Len(b) : j = Len(a) + k /\ k + i = j + 1
    <3>1. j - (i - 1) \in 1..(Len(q) - i)
      BY <1>4, <1>7
    <3>2. QED
      BY <1>1, <1>2, <1>4, <3>1
  <2>2. QED
    BY <1>2, <1>5, <2>1
<1>8. QED
  BY <1>3, <1>5, <1>6, <1>7 DEF z

-----------------------------------------------------------------------------
(* Which elements a list holds, and whether it holds each once.            *)

\* What a join holds, and when it holds nothing twice.
LEMMA JoinElements ==
  ASSUME NEW T, NEW a \in Seq(T), NEW b \in Seq(T)
  PROVE  /\ a \o b \in Seq(T)
         /\ ToSet(a \o b) = ToSet(a) \cup ToSet(b)
         /\ IsInjective(a \o b) <=>
              IsInjective(a) /\ IsInjective(b) /\ ToSet(a) \cap ToSet(b) = {}
<1> DEFINE z == a \o b
           n == Len(a)
           m == Len(b)
<1>1. /\ z \in Seq(T) /\ Len(z) = n + m /\ n \in Nat /\ m \in Nat
      /\ \A j \in 1..n : z[j] = a[j]
      /\ \A j \in 1..m : z[n + j] = b[j]
  BY JoinPlaces
<1>2. DOMAIN z = 1..(n + m) /\ DOMAIN a = 1..n /\ DOMAIN b = 1..m
  BY <1>1
<1> HIDE DEF z, n, m
<1>3. ASSUME NEW k \in 1..(n + m)
      PROVE  (k \in 1..n /\ z[k] = a[k]) \/ (k - n \in 1..m /\ z[k] = b[k - n])
  <2>1. CASE k <= n
    BY <1>1, <2>1
  <2>2. CASE ~(k <= n)
    <3>1. k - n \in 1..m /\ n + (k - n) = k
      BY <1>1, <2>2
    <3>2. z[n + (k - n)] = b[k - n]
      BY <1>1, <3>1
    <3>3. QED
      BY <3>1, <3>2
  <2>3. QED
    BY <2>1, <2>2
<1>4. ASSUME NEW j \in 1..n PROVE j \in 1..(n + m) /\ z[j] = a[j]
  BY <1>1
<1>5. ASSUME NEW j \in 1..m PROVE n + j \in 1..(n + m) /\ z[n + j] = b[j]
  BY <1>1
<1>6. ToSet(z) = ToSet(a) \cup ToSet(b)
  BY <1>2, <1>3, <1>4, <1>5 DEF ToSet
<1>7. ASSUME IsInjective(z)
      PROVE  IsInjective(a) /\ IsInjective(b) /\ ToSet(a) \cap ToSet(b) = {}
  <2>1. \A i, j \in 1..(n + m) : z[i] = z[j] => i = j
    BY <1>2, <1>7 DEF IsInjective
  <2>2. IsInjective(a)
    BY <1>2, <1>4, <2>1 DEF IsInjective
  <2>3. IsInjective(b)
    <3>1. ASSUME NEW i \in 1..m, NEW j \in 1..m, b[i] = b[j] PROVE i = j
      <4>1. n + i = n + j
        BY <1>5, <2>1, <3>1
      <4>2. QED
        BY <1>1, <4>1
    <3>2. QED
      BY <1>2, <3>1 DEF IsInjective
  <2>4. ASSUME NEW i \in 1..n, NEW j \in 1..m, a[i] = b[j] PROVE FALSE
    <3>1. i = n + j
      BY <1>4, <1>5, <2>1, <2>4
    <3>2. QED
      BY <1>1, <3>1
  <2>5. QED
    BY <1>2, <2>2, <2>3, <2>4 DEF ToSet
<1>8. ASSUME IsInjective(a), IsInjective(b), ToSet(a) \cap ToSet(b) = {}
      PROVE  IsInjective(z)
  <2>1. ASSUME NEW i \in 1..n, NEW j \in 1..m PROVE a[i] # b[j]
    BY <1>2, <1>8 DEF ToSet
  <2>2. ASSUME NEW i \in 1..(n + m), NEW j \in 1..(n + m), z[i] = z[j] PROVE i = j
    <3>1. CASE i \in 1..n /\ z[i] = a[i] /\ j \in 1..n /\ z[j] = a[j]
      BY <1>2, <1>8, <2>2, <3>1 DEF IsInjective
    <3>2. CASE /\ i - n \in 1..m /\ z[i] = b[i - n]
               /\ j - n \in 1..m /\ z[j] = b[j - n]
      <4>1. i - n = j - n
        BY <1>2, <1>8, <2>2, <3>2 DEF IsInjective
      <4>2. QED
        BY <1>1, <4>1
    <3>3. QED
      BY <1>3, <2>1, <2>2, <3>1, <3>2
  <2>3. QED
    BY <1>2, <2>2 DEF IsInjective
<1>9. QED
  BY <1>1, <1>6, <1>7, <1>8 DEF z

\* A list is what comes before a place and what comes after it.
LEMMA SplitList ==
  ASSUME NEW T, NEW q \in Seq(T), NEW k \in 0..Len(q)
  PROVE  /\ SubSeq(q, 1, k) \in Seq(T) /\ SubSeq(q, k + 1, Len(q)) \in Seq(T)
         /\ SubSeq(q, 1, k) \o SubSeq(q, k + 1, Len(q)) = q
<1> DEFINE a == SubSeq(q, 1, k)
           b == SubSeq(q, k + 1, Len(q))
           z == a \o b
           n == Len(q)
<1>1. n \in Nat /\ k \in Nat /\ k <= n
  OBVIOUS
<1>2. a \in Seq(T) /\ Len(a) = k /\ \A j \in 1..k : a[j] = q[j]
  OBVIOUS
<1>3. b \in Seq(T) /\ Len(b) = n - k /\ \A j \in 1..(n - k) : b[j] = q[k + j]
  OBVIOUS
<1> HIDE DEF a, b
<1>4. /\ z \in Seq(T) /\ Len(z) = n
      /\ \A j \in 1..k : z[j] = a[j]
      /\ \A j \in 1..(n - k) : z[k + j] = b[j]
  BY <1>1, <1>2, <1>3, JoinPlaces
<1> HIDE DEF z
<1>5. ASSUME NEW j \in 1..n PROVE z[j] = q[j]
  <2>1. CASE j <= k
    BY <1>1, <1>2, <1>4, <2>1
  <2>2. CASE ~(j <= k)
    <3>1. j - k \in 1..(n - k) /\ k + (j - k) = j
      BY <1>1, <2>2
    <3>2. z[k + (j - k)] = b[j - k] /\ b[j - k] = q[k + (j - k)]
      BY <1>3, <1>4, <3>1
    <3>3. QED
      BY <3>1, <3>2
  <2>3. QED
    BY <2>1, <2>2
<1>6. z = q
  BY <1>4, <1>5
<1>7. QED
  BY <1>2, <1>3, <1>6 DEF a, b, z

\* The empty list, and a list of one element.
LEMMA ShortLists ==
  /\ ToSet(<<>>) = {} /\ IsInjective(<<>>)
  /\ \A e : ToSet(<<e>>) = {e} /\ IsInjective(<<e>>)
<1>1. DOMAIN <<>> = {}
  OBVIOUS
<1>2. ASSUME NEW e PROVE ToSet(<<e>>) = {e} /\ IsInjective(<<e>>)
  <2>1. DOMAIN <<e>> = {1} /\ <<e>>[1] = e
    OBVIOUS
  <2>2. QED
    BY <2>1 DEF ToSet, IsInjective
<1>3. QED
  BY <1>1, <1>2 DEF ToSet, IsInjective

\* A list with one more at its end holds nothing twice if that one is new.
LEMMA AppendOnce ==
  ASSUME NEW T, NEW s \in Seq(T), NEW e \in T, IsInjective(s), e \notin ToSet(s)
  PROVE  IsInjective(Append(s, e))
<1>1. Append(s, e) = s \o <<e>> /\ <<e>> \in Seq(T)
  OBVIOUS
<1>2. ToSet(<<e>>) = {e} /\ IsInjective(<<e>>)
  BY ShortLists
<1>3. IsInjective(s \o <<e>>) <=>
        IsInjective(s) /\ IsInjective(<<e>>) /\ ToSet(s) \cap ToSet(<<e>>) = {}
  BY <1>1, JoinElements
<1>4. QED
  BY <1>1, <1>2, <1>3

\* A filtered list holds nothing twice if the list did not.
LEMMA KeepOnce ==
  ASSUME NEW T, NEW q \in Seq(T), NEW S, IsInjective(q)
  PROVE  IsInjective(Keep(q, S))
<1> DEFINE s == Keep(q, S)
<1>1. s \in Seq(T) /\ Follows(s, q, Len(q))
  BY KeepOrder
<1> HIDE DEF s
<1>2. DOMAIN s = 1..Len(s) /\ DOMAIN q = 1..Len(q) /\ Len(s) \in Nat
  BY <1>1
<1>3. ASSUME NEW a \in 1..Len(s), NEW b \in 1..Len(s), a < b PROVE s[a] # s[b]
  <2>1. PICK c \in 1..Len(q), d \in 1..Len(q) : c < d /\ s[a] = q[c] /\ s[b] = q[d]
    BY <1>1, <1>3 DEF Follows
  <2>2. q[c] # q[d]
    BY <1>2, <2>1 DEF IsInjective
  <2>3. QED
    BY <2>1, <2>2
<1>4. ASSUME NEW a \in 1..Len(s), NEW b \in 1..Len(s), s[a] = s[b] PROVE a = b
  <2>1. ~(a < b) /\ ~(b < a)
    BY <1>3, <1>4
  <2>2. QED
    BY <1>2, <2>1
<1>5. QED
  BY <1>2, <1>4 DEF IsInjective, s

\* A list is its first element and the rest.
LEMMA HeadAndTail ==
  ASSUME NEW T, NEW q \in Seq(T), q # <<>>
  PROVE  /\ Head(q) \in T /\ Tail(q) \in Seq(T)
         /\ ToSet(q) = {Head(q)} \cup ToSet(Tail(q))
         /\ IsInjective(q) <=> Head(q) \notin ToSet(Tail(q)) /\ IsInjective(Tail(q))
<1>1. Head(q) \in T /\ Tail(q) \in Seq(T) /\ q = <<Head(q)>> \o Tail(q)
  OBVIOUS
<1>2. <<Head(q)>> \in Seq(T)
  BY <1>1
<1> DEFINE h == <<Head(q)>>
           r == Tail(q)
<1>3. ToSet(h) = {Head(q)} /\ IsInjective(h)
  BY ShortLists
<1>4. h \in Seq(T) /\ r \in Seq(T) /\ q = h \o r
  BY <1>1, <1>2
<1> HIDE DEF h, r
<1>5. /\ ToSet(h \o r) = ToSet(h) \cup ToSet(r)
      /\ IsInjective(h \o r) <=>
           IsInjective(h) /\ IsInjective(r) /\ ToSet(h) \cap ToSet(r) = {}
  BY <1>4, JoinElements
<1>6. QED
  BY <1>1, <1>3, <1>4, <1>5 DEF r

\* Only the empty list holds nothing.
LEMMA NothingHeld ==
  ASSUME NEW T, NEW q \in Seq(T)
  PROVE  ToSet(q) = {} <=> q = <<>>
  BY HeadAndTail, ShortLists

\* What stands at the front of a list is of the list.
LEMMA FrontElements ==
  ASSUME NEW T, NEW q \in Seq(T)
  PROVE  ToSet(SubSeq(q, 1, IF q = <<>> THEN 0 ELSE 1)) \subseteq ToSet(q)
<1> DEFINE k == IF q = <<>> THEN 0 ELSE 1
           a == SubSeq(q, 1, k)
           b == SubSeq(q, k + 1, Len(q))
<1>1. k \in 0..Len(q)
  OBVIOUS
<1>2. a \in Seq(T) /\ b \in Seq(T)
  BY <1>1, SplitList
<1>3. a \o b = q
  BY <1>1, SplitList
<1>4. ToSet(a) \subseteq ToSet(a \o b)
  <2> HIDE DEF a, b
  <2>1. QED
    BY <1>2, JoinElements
<1>5. QED
  BY <1>3, <1>4

-----------------------------------------------------------------------------
(* What Keep makes of joins, of other sets, and of what it has kept.       *)

\* Two lists of which the same elements are kept, up to a place.
LEMMA KeptAlike ==
  ASSUME NEW p, NEW q, NEW S, NEW U, NEW n \in Nat, Len(p) \in Nat, Len(q) \in Nat,
         n <= Len(p), n <= Len(q),
         \A i \in 1..n : p[i] = q[i] /\ (p[i] \in S <=> q[i] \in U)
  PROVE  \A i \in 0..n : Kept(p, S)[i] = Kept(q, U)[i]
<1> DEFINE f == Kept(p, S)
           g == Kept(q, U)
           D == {i \in Nat : i <= n => f[i] = g[i]}
<1>1. /\ f[0] = <<>> /\ g[0] = <<>>
      /\ \A i \in 1..n : f[i] = IF p[i] \in S THEN Append(f[i - 1], p[i]) ELSE f[i - 1]
      /\ \A i \in 1..n : g[i] = IF q[i] \in U THEN Append(g[i - 1], q[i]) ELSE g[i - 1]
  <2>1. 1..n \subseteq 1..Len(p) /\ 1..n \subseteq 1..Len(q)
    OBVIOUS
  <2>2. /\ f[0] = <<>>
        /\ \A i \in 1..Len(p) : f[i] = IF p[i] \in S THEN Append(f[i - 1], p[i]) ELSE f[i - 1]
    BY KeptEquation
  <2>3. /\ g[0] = <<>>
        /\ \A i \in 1..Len(q) : g[i] = IF q[i] \in U THEN Append(g[i - 1], q[i]) ELSE g[i - 1]
    BY KeptEquation
  <2>4. QED
    BY <2>1, <2>2, <2>3
<1> HIDE DEF f, g
<1>2. 0 \in D
  BY <1>1
<1>3. ASSUME NEW i \in Nat, i \in D PROVE i + 1 \in D
  <2> SUFFICES ASSUME i + 1 <= n PROVE f[i + 1] = g[i + 1]
    OBVIOUS
  <2>1. f[i] = g[i] /\ i + 1 \in 1..n /\ (i + 1) - 1 = i
    BY <1>3
  <2>2. QED
    BY <1>1, <2>1
<1>4. Nat \subseteq D
  <2> HIDE DEF D
  <2>1. QED
    BY <1>2, <1>3, NatSetInduction
<1>5. QED
  BY <1>4 DEF f, g

\* It matters only which elements of the list a set holds.
LEMMA KeepAlike ==
  ASSUME NEW T, NEW q \in Seq(T), NEW S, NEW U, ToSet(q) \cap S = ToSet(q) \cap U
  PROVE  Keep(q, S) = Keep(q, U)
<1> DEFINE n == Len(q)
<1>1. n \in Nat /\ DOMAIN q = 1..n
  OBVIOUS
<1>2. \A i \in 1..n : q[i] \in S <=> q[i] \in U
  BY <1>1 DEF ToSet
<1>3. \A i \in 0..n : Kept(q, S)[i] = Kept(q, U)[i]
  <2> HIDE DEF n
  <2>1. n = Len(q)
    BY DEF n
  <2>2. QED
    BY <1>1, <1>2, <2>1, KeptAlike
<1>4. QED
  BY <1>1, <1>3, KeepIsKept

LEMMA KeepNothing ==
  ASSUME NEW T, NEW q \in Seq(T), NEW S, ToSet(q) \cap S = {}
  PROVE  Keep(q, S) = <<>>
BY KeepElements, NothingHeld

\* What is kept of a join is the join of what is kept.
LEMMA KeepJoin ==
  ASSUME NEW T, NEW a \in Seq(T), NEW b \in Seq(T), NEW S
  PROVE  Keep(a \o b, S) = Keep(a, S) \o Keep(b, S)
<1> DEFINE z == a \o b
           m == Len(a)
           n == Len(b)
           f == Kept(z, S)
           g == Kept(b, S)
           D == {i \in Nat : i <= n => g[i] \in Seq(T) /\ f[m + i] = Keep(a, S) \o g[i]}
<1>1. /\ m \in Nat /\ n \in Nat /\ z \in Seq(T) /\ Len(z) = m + n
      /\ \A j \in 1..m : z[j] = a[j]
      /\ \A j \in 1..n : z[m + j] = b[j] /\ b[j] \in T
  BY JoinPlaces
<1> HIDE DEF z
<1>2. \A i \in 1..(m + n) : f[i] = IF z[i] \in S THEN Append(f[i - 1], z[i]) ELSE f[i - 1]
  <2>1. Len(z) \in Nat
    BY <1>1
  <2>2. \A i \in 1..Len(z) : f[i] = IF z[i] \in S THEN Append(f[i - 1], z[i]) ELSE f[i - 1]
    BY <2>1, KeptEquation
  <2> HIDE DEF f, m, n
  <2>3. QED
    BY <1>1, <2>2
<1>3. /\ g[0] = <<>>
      /\ \A i \in 1..n : g[i] = IF b[i] \in S THEN Append(g[i - 1], b[i]) ELSE g[i - 1]
  BY <1>1, KeptEquation
<1>4. f[m] = Keep(a, S)
  <2> DEFINE h == Kept(a, S)
  <2>1. \A i \in 0..m : f[i] = h[i]
    <3>1. \A j \in 1..m : z[j] = a[j] /\ (z[j] \in S <=> a[j] \in S)
      BY <1>1
    <3>2. m \in Nat /\ Len(z) \in Nat /\ m <= Len(a) /\ m <= Len(z) /\ Len(a) = m
      BY <1>1
    <3> HIDE DEF m
    <3>3. QED
      BY <3>1, <3>2, KeptAlike
  <2>2. h[m] = Keep(a, S)
    BY KeepIsKept
  <2>3. m \in 0..m
    BY <1>1
  <2> HIDE DEF f, h, m
  <2>4. f[m] = h[m]
    BY <2>1, <2>3
  <2>5. QED
    BY <2>2, <2>4
<1>5. Keep(a, S) \in Seq(T)
  BY KeepElements
<1> HIDE DEF f, g, m, n
<1>6. 0 \in D
  <2>1. PICK s : s = Keep(a, S)
    OBVIOUS
  <2>2. s \o <<>> = s /\ <<>> \in Seq(T)
    BY <1>5, <2>1
  <2>3. m + 0 = m
    BY <1>1
  <2>4. QED
    BY <1>3, <1>4, <2>1, <2>2, <2>3
<1>7. ASSUME NEW i \in Nat, i \in D PROVE i + 1 \in D
  <2> SUFFICES ASSUME i + 1 <= n
               PROVE  g[i + 1] \in Seq(T) /\ f[m + (i + 1)] = Keep(a, S) \o g[i + 1]
    OBVIOUS
  <2>1. /\ g[i] \in Seq(T) /\ f[m + i] = Keep(a, S) \o g[i]
        /\ i + 1 \in 1..n /\ (i + 1) - 1 = i
        /\ m + (i + 1) \in 1..(m + n) /\ (m + (i + 1)) - 1 = m + i
    BY <1>1, <1>7
  <2>2. /\ g[i + 1] = IF b[i + 1] \in S THEN Append(g[i], b[i + 1]) ELSE g[i]
        /\ f[m + (i + 1)] =
             IF b[i + 1] \in S THEN Append(f[m + i], b[i + 1]) ELSE f[m + i]
        /\ b[i + 1] \in T
    BY <1>1, <1>2, <1>3, <2>1
  <2>3. PICK s, t, e : s = Keep(a, S) /\ t = g[i] /\ e = b[i + 1]
    OBVIOUS
  <2>4. Append(t, e) \in Seq(T) /\ Append(s \o t, e) = s \o Append(t, e)
    <3>1. s \in Seq(T) /\ t \in Seq(T) /\ e \in T /\ <<e>> \in Seq(T) /\ s \o t \in Seq(T)
      BY <1>5, <2>1, <2>2, <2>3
    <3>2. Append(t, e) \in Seq(T) /\ Append(t, e) = t \o <<e>>
      BY <3>1
    <3>3. Append(s \o t, e) = (s \o t) \o <<e>>
      <4>1. \A u \in Seq(T) : Append(u, e) = u \o <<e>>
        BY <3>1
      <4>2. QED
        BY <3>1, <4>1
    <3>4. PICK w : w = <<e>>
      OBVIOUS
    <3>5. (s \o t) \o w = s \o (t \o w)
      BY SMTT(40), <3>1, <3>4, ConcatAssociative
    <3>6. QED
      BY <3>2, <3>3, <3>4, <3>5
  <2>5. QED
    BY <2>1, <2>2, <2>3, <2>4
<1>8. n \in D
  <2> HIDE DEF D
  <2>1. QED
    BY <1>1, <1>6, <1>7, NatSetInduction
<1>9. f[m + n] = Keep(a, S) \o g[n]
  BY <1>1, <1>8
<1>10. Keep(z, S) = f[m + n] /\ Keep(b, S) = g[n]
  BY <1>1, KeepIsKept DEF f, g, n
<1>11. QED
  BY <1>9, <1>10 DEF z

\* Keeping twice keeps what is in both sets.
LEMMA KeepTwice ==
  ASSUME NEW T, NEW q \in Seq(T), NEW S, NEW U
  PROVE  Keep(Keep(q, S), U) = Keep(q, S \cap U)
<1> DEFINE n == Len(q)
           f == Kept(q, S)
           g == Kept(q, S \cap U)
           D == {i \in Nat : i <= n => f[i] \in Seq(T) /\ Keep(f[i], U) = g[i]}
<1>1. n \in Nat /\ \A i \in 1..n : q[i] \in T
  OBVIOUS
<1>2. /\ f[0] = <<>>
      /\ \A i \in 1..n : f[i] = IF q[i] \in S THEN Append(f[i - 1], q[i]) ELSE f[i - 1]
  BY <1>1, KeptEquation
<1>3. /\ g[0] = <<>>
      /\ \A i \in 1..n :
           g[i] = IF q[i] \in S \cap U THEN Append(g[i - 1], q[i]) ELSE g[i - 1]
  BY <1>1, KeptEquation
<1>4. /\ \A e \in T \cap U : Keep(<<e>>, U) = <<e>>
      /\ \A e \in T \ U : Keep(<<e>>, U) = <<>>
  <2>1. ASSUME NEW e \in T PROVE Keep(<<e>>, U) = IF e \in U THEN <<e>> ELSE <<>>
    <3>1. PICK p : p = <<e>>
      OBVIOUS
    <3>2. Len(p) = 1 /\ p[1] = e
      BY <3>1
    <3>3. Len(p) \in Nat /\ 1 \in 1..Len(p) /\ 1 - 1 = 0
      BY <3>2
    <3>4. Kept(p, U)[1] = IF e \in U THEN Append(<<>>, e) ELSE <<>>
      <4>1. /\ Kept(p, U)[0] = <<>>
            /\ Kept(p, U)[1] = IF p[1] \in U THEN Append(Kept(p, U)[1 - 1], p[1])
                                              ELSE Kept(p, U)[1 - 1]
        BY <3>3, KeptEquation
      <4>2. QED
        BY <3>2, <3>3, <4>1
    <3>5. Append(<<>>, e) = <<e>>
      OBVIOUS
    <3>6. QED
      BY <3>1, <3>2, <3>4, <3>5, KeepIsKept
  <2>2. QED
    BY <2>1
<1> HIDE DEF f, g, n
<1>5. 0 \in D
  <2>1. PICK s : s = <<>>
    OBVIOUS
  <2>2. s \in Seq(T) /\ ToSet(s) = {}
    BY <2>1, ShortLists
  <2>3. Keep(s, U) = <<>>
    BY <2>2, KeepNothing
  <2>4. QED
    BY <1>2, <1>3, <2>1, <2>2, <2>3
<1>6. ASSUME NEW i \in Nat, i \in D PROVE i + 1 \in D
  <2> SUFFICES ASSUME i + 1 <= n
               PROVE  f[i + 1] \in Seq(T) /\ Keep(f[i + 1], U) = g[i + 1]
    OBVIOUS
  <2>1. PICK e, s : e = q[i + 1] /\ s = f[i]
    OBVIOUS
  <2>2. /\ s \in Seq(T) /\ Keep(s, U) = g[i] /\ e \in T
        /\ i + 1 \in 1..n /\ (i + 1) - 1 = i
    BY <1>1, <1>6, <2>1
  <2>3. /\ f[i + 1] = IF e \in S THEN Append(s, e) ELSE s
        /\ g[i + 1] = IF e \in S \cap U THEN Append(Keep(s, U), e) ELSE Keep(s, U)
    BY <1>2, <1>3, <2>1, <2>2
  <2>4. Append(s, e) = s \o <<e>> /\ <<e>> \in Seq(T) /\ Append(s, e) \in Seq(T)
    BY <2>2
  <2>5. Keep(s \o <<e>>, U) = Keep(s, U) \o Keep(<<e>>, U)
    <3>1. PICK t : t = <<e>>
      OBVIOUS
    <3>2. s \in Seq(T) /\ t \in Seq(T)
      BY <2>2, <2>4, <3>1
    <3>3. Keep(s \o t, U) = Keep(s, U) \o Keep(t, U)
      BY <3>2, KeepJoin
    <3>4. QED
      BY <3>1, <3>3
  <2>6. PICK k : k = Keep(s, U)
    OBVIOUS
  <2>7. k \in Seq(T) /\ Append(k, e) = k \o <<e>> /\ k \o <<>> = k
    BY <2>2, <2>6, KeepElements
  <2>8. Keep(Append(s, e), U) = IF e \in U THEN Append(k, e) ELSE k
    BY <1>4, <2>2, <2>4, <2>5, <2>6, <2>7
  <2>9. QED
    BY <2>2, <2>3, <2>4, <2>6, <2>8
<1>7. n \in D
  <2> HIDE DEF D
  <2>1. QED
    BY <1>1, <1>5, <1>6, NatSetInduction
<1>8. Keep(f[n], U) = g[n]
  BY <1>1, <1>7
<1>9. f[n] = Keep(q, S) /\ g[n] = Keep(q, S \cap U)
  BY KeepIsKept DEF f, g, n
<1>10. QED
  BY <1>8, <1>9

-----------------------------------------------------------------------------
(* What comes before what in a list, in a join, and around an insertion.   *)

Before(q, a, b) == \E i, j \in 1..Len(q) : i < j /\ q[i] = a /\ q[j] = b

LEMMA BeforeIn ==
  ASSUME NEW T, NEW q \in Seq(T), NEW a, NEW b, Before(q, a, b)
  PROVE  a \in ToSet(q) /\ b \in ToSet(q)
BY DEF Before, ToSet

\* What comes before what, in a list of two parts.
LEMMA BeforeJoin ==
  ASSUME NEW T, NEW x \in Seq(T), NEW y \in Seq(T), NEW a, NEW b
  PROVE  /\ Before(x, a, b) => Before(x \o y, a, b)
         /\ Before(y, a, b) => Before(x \o y, a, b)
         /\ Before(x \o y, a, b) =>
              \/ Before(x, a, b) \/ Before(y, a, b) \/ (a \in ToSet(x) /\ b \in ToSet(y))
<1> DEFINE z == x \o y
<1>1. /\ Len(z) = Len(x) + Len(y) /\ Len(x) \in Nat /\ Len(y) \in Nat
      /\ \A j \in 1..Len(x) : z[j] = x[j]
      /\ \A j \in 1..Len(y) : z[Len(x) + j] = y[j]
  BY JoinPlaces
<1> HIDE DEF z
<1>2. ASSUME Before(x, a, b) PROVE Before(z, a, b)
  <2>1. PICK i \in 1..Len(x), j \in 1..Len(x) : i < j /\ x[i] = a /\ x[j] = b
    BY <1>2 DEF Before
  <2>2. i \in 1..Len(z) /\ j \in 1..Len(z) /\ z[i] = a /\ z[j] = b
    BY <1>1, <2>1
  <2>3. QED
    BY <2>1, <2>2 DEF Before
<1>3. ASSUME Before(y, a, b) PROVE Before(z, a, b)
  <2>1. PICK i \in 1..Len(y), j \in 1..Len(y) : i < j /\ y[i] = a /\ y[j] = b
    BY <1>3 DEF Before
  <2>2. /\ Len(x) + i \in 1..Len(z) /\ Len(x) + j \in 1..Len(z)
        /\ z[Len(x) + i] = a /\ z[Len(x) + j] = b /\ Len(x) + i < Len(x) + j
    BY <1>1, <2>1
  <2>3. QED
    BY <2>2 DEF Before
<1>4. ASSUME Before(z, a, b)
      PROVE  Before(x, a, b) \/ Before(y, a, b) \/ (a \in ToSet(x) /\ b \in ToSet(y))
  <2>1. PICK i \in 1..Len(z), j \in 1..Len(z) : i < j /\ z[i] = a /\ z[j] = b
    BY <1>4 DEF Before
  <2>2. CASE j <= Len(x)
    <3>1. i \in 1..Len(x) /\ j \in 1..Len(x)
      BY <1>1, <2>1, <2>2
    <3>2. QED
      BY <1>1, <2>1, <3>1 DEF Before
  <2>3. CASE i > Len(x)
    <3>0. i - Len(x) \in 1..Len(y) /\ j - Len(x) \in 1..Len(y)
      BY <1>1, <2>1, <2>3
    <3>1. PICK k \in 1..Len(y), l \in 1..Len(y) : k = i - Len(x) /\ l = j - Len(x)
      BY <3>0
    <3>2. k < l /\ y[k] = a /\ y[l] = b
      <4>1. Len(x) + k = i /\ Len(x) + l = j /\ k < l
        BY <1>1, <2>1, <3>1
      <4>2. QED
        BY <1>1, <2>1, <3>1, <4>1
    <3>3. QED
      BY <3>2 DEF Before
  <2>4. CASE i <= Len(x) /\ j > Len(x)
    <3>0. j - Len(x) \in 1..Len(y)
      BY <1>1, <2>1, <2>4
    <3>1. PICK l \in 1..Len(y) : l = j - Len(x)
      BY <3>0
    <3>2. Len(x) + l = j /\ i \in 1..Len(x)
      BY <1>1, <2>1, <2>4, <3>1
    <3>3. x[i] = a /\ y[l] = b
      BY <1>1, <2>1, <3>2
    <3>4. QED
      BY <3>2, <3>3 DEF ToSet
  <2>5. QED
    BY <1>1, <2>1, <2>2, <2>3, <2>4
<1>5. QED
  BY <1>2, <1>3, <1>4 DEF z

\* A list of one element has nothing before it.
LEMMA BeforeNothing ==
  ASSUME NEW q, NEW a, NEW b PROVE Len(q) \in 0..1 => ~Before(q, a, b)
BY DEF Before

\* What is put in at a place comes after what was before it, and before the rest.
LEMMA BeforeInsert ==
  ASSUME NEW T, NEW q \in Seq(T), NEW items \in Seq(T), NEW k \in 0..Len(q), NEW a, NEW b,
         Before(SubSeq(q, 1, k) \o items \o SubSeq(q, k + 1, Len(q)), a, b)
  PROVE  \/ Before(q, a, b)
         \/ a \in ToSet(items) /\ b \in ToSet(items) \cup ToSet(SubSeq(q, k + 1, Len(q)))
         \/ a \in ToSet(SubSeq(q, 1, k)) /\ b \in ToSet(items)
<1> DEFINE x == SubSeq(q, 1, k)
           y == SubSeq(q, k + 1, Len(q))
<1>1. x \in Seq(T) /\ y \in Seq(T) /\ x \o y = q
  BY SplitList
<1>2. Before(x \o items \o y, a, b)
  OBVIOUS
<1>4. x \in Seq(T) /\ y \in Seq(T)
  BY <1>1
<1>3. (Before(x, a, b) \/ Before(y, a, b) \/ (a \in ToSet(x) /\ b \in ToSet(y)))
        => Before(q, a, b)
  <2>1. ASSUME a \in ToSet(x), b \in ToSet(y) PROVE Before(x \o y, a, b)
    <3> HIDE DEF x, y
    <3>1. PICK i \in 1..Len(x), j \in 1..Len(y) : x[i] = a /\ y[j] = b
      BY <1>4, <2>1 DEF ToSet
    <3>3. /\ Len(x \o y) = Len(x) + Len(y) /\ Len(x) \in Nat /\ Len(y) \in Nat
          /\ (x \o y)[i] = x[i] /\ (x \o y)[Len(x) + j] = y[j]
      BY <1>4, JoinPlaces
    <3>4. i \in 1..Len(x \o y) /\ Len(x) + j \in 1..Len(x \o y) /\ i < Len(x) + j
      BY <3>3
    <3>5. QED
      BY <3>1, <3>3, <3>4 DEF Before
  <2> HIDE DEF x, y
  <2>3. (Before(x, a, b) \/ Before(y, a, b)) => Before(x \o y, a, b)
    BY <1>4, BeforeJoin
  <2>4. QED
    BY <1>1, <2>1, <2>3
<1> HIDE DEF x, y
<1>5. x \o items \in Seq(T) /\ ToSet(x \o items) = ToSet(x) \cup ToSet(items)
  BY <1>4, JoinElements
<1>6. \/ Before(x \o items, a, b) \/ Before(y, a, b)
      \/ a \in ToSet(x \o items) /\ b \in ToSet(y)
  <2>1. PICK w : w = x \o items
    OBVIOUS
  <2>2. w \in Seq(T) /\ Before(w \o y, a, b)
    BY <1>2, <1>5, <2>1
  <2>3. Before(w, a, b) \/ Before(y, a, b) \/ (a \in ToSet(w) /\ b \in ToSet(y))
    BY <1>4, <2>2, BeforeJoin
  <2>4. QED
    BY <2>1, <2>3
<1>7. Before(x \o items, a, b) =>
        Before(x, a, b) \/ Before(items, a, b) \/ (a \in ToSet(x) /\ b \in ToSet(items))
  BY <1>4, BeforeJoin
<1>8. Before(items, a, b) => a \in ToSet(items) /\ b \in ToSet(items)
  BY BeforeIn
<1>9. QED
  BY <1>3, <1>5, <1>6, <1>7, <1>8 DEF x, y

\* What is put last comes after the rest.
LEMMA BeforeAppend ==
  ASSUME NEW T, NEW q \in Seq(T), NEW p \in T, NEW a, NEW b, Before(Append(q, p), a, b)
  PROVE  Before(q, a, b) \/ b = p
<1>1. Append(q, p) = q \o <<p>> /\ <<p>> \in Seq(T) /\ Len(<<p>>) = 1
  OBVIOUS
<1>2. ToSet(<<p>>) = {p} /\ ~Before(<<p>>, a, b)
  BY <1>1, ShortLists, BeforeNothing
<1>3. \/ Before(q, a, b) \/ Before(<<p>>, a, b)
      \/ a \in ToSet(q) /\ b \in ToSet(<<p>>)
  <2>1. PICK one : one = <<p>>
    OBVIOUS
  <2>2. one \in Seq(T) /\ Before(q \o one, a, b)
    BY <1>1, <2>1
  <2>3. QED
    BY <2>1, <2>2, BeforeJoin
<1>4. QED
  BY <1>2, <1>3

\* A list of one item joined to a list of two.
LEMMA OneThenTwo ==
  ASSUME NEW T, NEW x \in T, NEW y \in T, NEW z \in T
  PROVE  <<x>> \o <<y, z>> = <<x, y, z>>
<1> DEFINE a == <<x>>
           b == <<y, z>>
           c == <<x, y, z>>
           d == a \o b
<1>1. a \in Seq(T) /\ Len(a) = 1 /\ a[1] = x
  OBVIOUS
<1>2. b \in Seq(T) /\ Len(b) = 2 /\ b[1] = y /\ b[2] = z
  OBVIOUS
<1>3. c \in Seq(T) /\ Len(c) = 3 /\ c[1] = x /\ c[2] = y /\ c[3] = z
  OBVIOUS
<1> HIDE DEF a, b, c
<1>4. /\ d \in Seq(T) /\ Len(d) = Len(a) + Len(b)
      /\ \A i \in 1..(Len(a) + Len(b)) : d[i] = IF i <= Len(a) THEN a[i] ELSE b[i - Len(a)]
  BY <1>1, <1>2, ConcatProperties
<1> HIDE DEF d
<1>5. d[1] = a[1] /\ d[2] = b[1] /\ d[3] = b[2]
  BY <1>1, <1>2, <1>4
<1>6. \A i \in 1..3 : d[i] = c[i]
  <2>1. \A i \in 1..3 : i = 1 \/ i = 2 \/ i = 3
    OBVIOUS
  <2>2. QED
    BY <1>1, <1>2, <1>3, <1>5, <2>1
<1>7. d = c
  BY <1>1, <1>2, <1>3, <1>4, <1>6, SeqEqual
<1>8. QED
  BY <1>7 DEF a, b, c, d
=============================================================================
