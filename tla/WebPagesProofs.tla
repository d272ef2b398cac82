---------------------------- MODULE WebPagesProofs ----------------------------
(***************************************************************************)
(* What the pages guarantee for any sizes and numbers of their parts.  A   *)
(* step of the composition is a step of one part and leaves the others     *)
(* alone, so what a part does on its own it does in the page.              *)
(*                                                                         *)
(* The charts.  ChartInv follows a reading on its two ways: as long as no  *)
(* choices crossed, a reading of the device that the stream is for is      *)
(* drawn, lost for a named reason, ahead of the cursor of a stream that    *)
(* will bring it, or brought by the answer that is awaited.                *)
(*                                                                         *)
(* The feed.  FeedInv accounts for every row the table should show         *)
(* (Accounted): it was drawn, is on its way by one of the three ways, is   *)
(* newer than anything a page without an open stream has drawn, or is      *)
(* excused.  What renderRow makes of a list of rows is proved by           *)
(* induction on the list (DrawAllKeeps).                                   *)
(*                                                                         *)
(* The upload of shell output.  A line is in one place at a time: the      *)
(* queue, a request, or the log.  InPlaces says that these places are in   *)
(* order, except where a request was given up; CreditsAgree says what is   *)
(* known of the board that printed a line while it is on its way.          *)
(*                                                                         *)
(* A lemma <Action>Keeps says that the action keeps its part's invariant.  *)
(***************************************************************************)
EXTENDS WebPages, FiniteSetTheorems, SequenceTheorems, WellFoundedInduction, TLAPS

-----------------------------------------------------------------------------
(* Sets and lists.                                                         *)

\* Induction on the natural numbers.
LEMMA NatSetInduction ==
  ASSUME NEW S, 0 \in S, \A n \in Nat : n \in S => n + 1 \in S
  PROVE  Nat \subseteq S
<1> DEFINE R == OpToRel(<, Nat)
           T == Nat \ S
<1> SUFFICES ASSUME T # {} PROVE FALSE
  OBVIOUS
<1>1. IsWellFoundedOn(R, Nat)
  BY NatLessThanWellFounded
<1> HIDE DEF R
<1>2. PICK x \in T : \A y \in T : ~ (<<y, x>> \in R)
  BY <1>1, WFMin, T \subseteq Nat
<1>3. x \in Nat /\ x # 0
  OBVIOUS
<1>4. x - 1 \in Nat /\ x - 1 < x
  BY <1>3
<1>5. <<x - 1, x>> \in R
  BY <1>3, <1>4 DEF R, OpToRel
<1>6. x - 1 \in S
  BY <1>2, <1>4, <1>5
<1>7. (x - 1) + 1 \in S
  BY <1>4, <1>6
<1> QED
  BY <1>7, <1>3

\* Every bounded set of naturals can be listed in order.
LEMMA SortedListing ==
  ASSUME NEW b \in Nat, NEW S, S \subseteq 0 .. b
  PROVE  /\ Cardinality(S) \in Nat
         /\ \E s \in [1 .. Cardinality(S) -> S] :
               /\ \A i, j \in DOMAIN s : i < j => s[i] < s[j]
               /\ S = {s[i] : i \in DOMAIN s}
<1> DEFINE Increasing(s) == \A i, j \in DOMAIN s : i < j => s[i] < s[j]
           Listed(U) == /\ IsFiniteSet(U) /\ Cardinality(U) \in Nat
                        /\ \E s \in [1 .. Cardinality(U) -> U] :
                              Increasing(s) /\ U = {s[i] : i \in DOMAIN s}
           T == {n \in Nat : \A U \in SUBSET (0 .. n - 1) : Listed(U)}
<1>1. 0 \in T
  <2> SUFFICES ASSUME NEW U \in SUBSET (0 .. -1) PROVE Listed(U)
    OBVIOUS
  <2>1. U = {} /\ IsFiniteSet(U) /\ Cardinality(U) = 0
    <3>1. U = {}
      OBVIOUS
    <3> QED
      BY <3>1, FS_EmptySet
  <2> DEFINE e == [i \in 1 .. Cardinality(U) |-> 0]
  <2>2. e \in [1 .. Cardinality(U) -> U] /\ DOMAIN e = {}
    BY <2>1
  <2>3. Increasing(e) /\ U = {e[i] : i \in DOMAIN e}
    BY <2>1, <2>2
  <2> HIDE DEF Increasing, e
  <2>4. \E s \in [1 .. Cardinality(U) -> U] : Increasing(s) /\ U = {s[i] : i \in DOMAIN s}
    BY <2>2, <2>3
  <2>5. IsFiniteSet(U) /\ Cardinality(U) \in Nat
    BY <2>1
  <2> QED
    BY <2>4, <2>5
<1>2. ASSUME NEW n \in Nat, n \in T PROVE n + 1 \in T
  <2> SUFFICES ASSUME NEW U \in SUBSET (0 .. n) PROVE Listed(U)
    BY (n + 1) - 1 = n
  <2>1. CASE n \notin U
    <3>1. U \in SUBSET (0 .. n - 1)
      BY <2>1
    <3> QED
      BY <3>1, <1>2
  <2>2. CASE n \in U
    <3> DEFINE V == U \ {n}
               c == Cardinality(V)
    <3>1. V \in SUBSET (0 .. n - 1)
      OBVIOUS
    <3>2. Listed(V)
      BY <3>1, <1>2
    <3>3. U = V \cup {n} /\ n \notin V
      BY <2>2
    <3> HIDE DEF V
    <3>4. IsFiniteSet(U) /\ Cardinality(U) = c + 1 /\ c \in Nat
      BY <3>2, <3>3, FS_AddElement
    <3>5. PICK s \in [1 .. c -> V] : Increasing(s) /\ V = {s[i] : i \in DOMAIN s}
      BY <3>2
    <3> HIDE DEF c
    <3> DEFINE t == [i \in 1 .. c + 1 |-> IF i = c + 1 THEN n ELSE s[i]]
    <3>6. t \in [1 .. c + 1 -> U]
      BY <3>3, <3>4, <3>5
    <3>7. Increasing(t)
      <4> SUFFICES ASSUME NEW i \in 1 .. c + 1, NEW j \in 1 .. c + 1, i < j PROVE t[i] < t[j]
        BY <3>4
      <4>1. i \in 1 .. c /\ s[i] \in V /\ t[i] = s[i]
        BY <3>4, <3>5
      <4>2. s[i] \in 0 .. n - 1
        BY <3>1, <4>1
      <4>3. CASE j = c + 1
        BY <4>1, <4>2, <4>3
      <4>4. CASE j # c + 1
        <5>1. j \in 1 .. c /\ t[j] = s[j]
          BY <3>4, <4>4
        <5>2. DOMAIN s = 1 .. c
          BY <3>5
        <5>3. s[i] < s[j]
          BY <3>5, <4>1, <5>1, <5>2
        <5> QED
          BY <4>1, <5>1, <5>3
      <4> QED
        BY <4>3, <4>4
    <3>8. U = {t[i] : i \in DOMAIN t}
      <4>1. \A i \in 1 .. c : t[i] = s[i] /\ i \in 1 .. c + 1
        BY <3>4
      <4>2. t[c + 1] = n /\ c + 1 \in 1 .. c + 1 /\ DOMAIN t = 1 .. c + 1 /\ DOMAIN s = 1 .. c
        BY <3>4, <3>5
      <4>3. \A i \in 1 .. c + 1 : i \in 1 .. c \/ i = c + 1
        BY <3>4
      <4> HIDE DEF t
      <4>4. ASSUME NEW x \in U PROVE \E i \in DOMAIN t : x = t[i]
        BY <3>3, <3>5, <4>1, <4>2
      <4>5. ASSUME NEW i \in DOMAIN t PROVE t[i] \in U
        BY <3>6, <4>2
      <4> QED
        BY <4>4, <4>5
    <3>9. IsFiniteSet(U) /\ Cardinality(U) \in Nat /\ t \in [1 .. Cardinality(U) -> U]
      BY <3>4, <3>6
    <3> HIDE DEF t, Increasing
    <3> QED
      BY <3>7, <3>8, <3>9
  <2> QED
    BY <2>1, <2>2
<1> HIDE DEF T
<1>3. Nat \subseteq T
  BY <1>1, <1>2, NatSetInduction
<1>4. b + 1 \in T /\ (b + 1) - 1 = b
  BY <1>3
<1> QED
  BY <1>4 DEF T

\* An increasing list as long as a set lists all of it.
LEMMA RisingIsOnto ==
  ASSUME NEW S, IsFiniteSet(S), S \subseteq Nat, NEW s \in [1 .. Cardinality(S) -> S],
         \A i, j \in DOMAIN s : i < j => s[i] < s[j]
  PROVE  S = {s[i] : i \in DOMAIN s}
<1> DEFINE n == Cardinality(S)
<1>1. n \in Nat
  BY FS_CardinalityType
<1>2. IsFiniteSet(1 .. n) /\ Cardinality(1 .. n) = n
  BY <1>1, FS_Interval
<1> HIDE DEF n
<1>3. s \in [1 .. n -> S]
  BY DEF n
<1>4. \A x, y \in 1 .. n : s[x] = s[y] => x = y
  <2> SUFFICES ASSUME NEW x \in 1 .. n, NEW y \in 1 .. n, s[x] = s[y], x # y PROVE FALSE
    OBVIOUS
  <2>1. s[x] \in Nat /\ s[y] \in Nat /\ x \in DOMAIN s /\ y \in DOMAIN s
    BY <1>3
  <2>2. x < y \/ y < x
    BY <1>1
  <2> QED
    BY <2>1, <2>2
<1>5. s \in Injection(1 .. n, S)
  BY <1>3, <1>4 DEF Injection, IsInjective
<1>6. s \in Surjection(1 .. n, S)
  BY <1>2, <1>5, FS_Injection DEF n
<1> QED
  BY <1>3, <1>6 DEF Surjection

\* What InOrder makes of a set.
Ordered(S, s) ==
    /\ s \in Seq(S) /\ S = {s[i] : i \in DOMAIN s}
    /\ \A i, j \in DOMAIN s : i < j => s[i] < s[j]

LEMMA InOrderLists ==
  ASSUME NEW b \in Nat, NEW S, S \subseteq 0 .. b
  PROVE  Ordered(S, InOrder(S))
<1> DEFINE n == Cardinality(S)
           Rising(s) == \A i, j \in DOMAIN s : i < j => s[i] < s[j]
           order == InOrder(S)
<1>1. IsFiniteSet(S) /\ S \subseteq Nat
  <2>1. IsFiniteSet(0 .. b)
    BY FS_Interval
  <2>2. IsFiniteSet(S)
    BY <2>1, FS_Subset
  <2> QED
    BY <2>2
<1>2. n \in Nat /\ \E s \in [1 .. n -> S] : Rising(s)
  BY SortedListing
<1>3. order = CHOOSE s \in [1 .. n -> S] : Rising(s)
  BY DEF InOrder
<1> HIDE DEF n, order, Rising
<1>4. order \in [1 .. n -> S] /\ Rising(order)
  BY <1>2, <1>3
<1>5. S = {order[i] : i \in DOMAIN order}
  BY <1>1, <1>4, RisingIsOnto DEF n, Rising
<1>6. order \in Seq(S)
  BY <1>2, <1>4
<1> QED
  BY <1>4, <1>5, <1>6 DEF Ordered, Rising, order

\* A list without its member k.
LEMMA Removed ==
  ASSUME NEW S, NEW s \in Seq(S), NEW k \in 1 .. Len(s)
  PROVE  /\ RemoveAt(s, k) \in Seq(S) /\ Len(RemoveAt(s, k)) = Len(s) - 1
         /\ \A i \in DOMAIN RemoveAt(s, k) : \E j \in DOMAIN s : RemoveAt(s, k)[i] = s[j]
         /\ \A j \in DOMAIN s : j # k => \E i \in DOMAIN RemoveAt(s, k) : RemoveAt(s, k)[i] = s[j]
<1> DEFINE a == SubSeq(s, 1, k - 1)
           c == SubSeq(s, k + 1, Len(s))
           t == a \o c
<1>1. a \in Seq(S) /\ Len(a) = k - 1 /\ \A i \in 1 .. k - 1 : a[i] = s[i]
  OBVIOUS
<1>2. c \in Seq(S) /\ Len(c) = Len(s) - k /\ \A i \in 1 .. Len(s) - k : c[i] = s[i + k]
  OBVIOUS
<1>3. RemoveAt(s, k) = t
  BY DEF RemoveAt
<1> HIDE DEF a, c
<1>4. t \in Seq(S) /\ Len(t) = Len(s) - 1 /\ DOMAIN t = 1 .. Len(s) - 1 /\ DOMAIN s = 1 .. Len(s)
  <2>1. t \in Seq(S)
    BY <1>1, <1>2
  <2>2. Len(t) = Len(a) + Len(c)
    BY <1>1, <1>2, ConcatProperties
  <2>3. DOMAIN t = 1 .. Len(t)
    BY <2>1
  <2> QED
    BY <1>1, <1>2, <2>1, <2>2, <2>3
<1>5. \A i \in 1 .. Len(s) - 1 : t[i] = IF i < k THEN s[i] ELSE s[i + 1]
  BY <1>1, <1>2
<1> HIDE DEF t
<1>6. ASSUME NEW i \in DOMAIN t PROVE \E j \in DOMAIN s : t[i] = s[j]
  BY <1>4, <1>5
<1>7. ASSUME NEW j \in DOMAIN s, j # k PROVE \E i \in DOMAIN t : t[i] = s[j]
  <2>1. CASE j < k
    BY <1>4, <1>5, <2>1
  <2>2. CASE j > k
    <3>1. j - 1 \in DOMAIN t /\ ~(j - 1 < k) /\ (j - 1) + 1 = j
      BY <1>4, <2>2
    <3> QED
      BY <1>4, <1>5, <3>1
  <2> QED
    BY <1>4, <1>7, <2>1, <2>2
<1> QED
  BY <1>3, <1>4, <1>6, <1>7

\* The members of a list.
LEMMA RangeOfList ==
  ASSUME NEW S, NEW s \in Seq(S)
  PROVE  Range(s) \subseteq S
<1> SUFFICES ASSUME NEW i \in DOMAIN s PROVE s[i] \in S
  BY DEF Range
<1> QED
  OBVIOUS

LEMMA RangeAppended ==
  ASSUME NEW S, NEW s \in Seq(S), NEW x \in S
  PROVE  Append(s, x) \in Seq(S) /\ Range(Append(s, x)) = Range(s) \cup {x}
<1> DEFINE t == Append(s, x)
<1>1. /\ t \in Seq(S) /\ Len(s) \in Nat /\ DOMAIN s = 1 .. Len(s) /\ DOMAIN t = 1 .. Len(s) + 1
      /\ \A i \in 1 .. Len(s) : t[i] = s[i]
      /\ t[Len(s) + 1] = x
  OBVIOUS
<1> HIDE DEF t
<1>2. ASSUME NEW i \in DOMAIN t PROVE t[i] \in Range(s) \cup {x}
  <2>1. i = Len(s) + 1 \/ i \in 1 .. Len(s)
    BY <1>1
  <2> QED
    BY <1>1, <2>1 DEF Range
<1>3. ASSUME NEW i \in DOMAIN s PROVE s[i] \in Range(t)
  <2>1. i \in DOMAIN t /\ t[i] = s[i]
    BY <1>1
  <2> QED
    BY <2>1 DEF Range
<1>4. x \in Range(t)
  <2>1. Len(s) + 1 \in DOMAIN t
    BY <1>1
  <2> QED
    BY <1>1, <2>1 DEF Range
<1>5. Range(t) \subseteq Range(s) \cup {x}
  BY <1>2 DEF Range
<1>6. Range(s) \subseteq Range(t)
  BY <1>3 DEF Range
<1> QED
  BY <1>1, <1>4, <1>5, <1>6 DEF t

LEMMA RangeTail ==
  ASSUME NEW S, NEW s \in Seq(S), s # <<>>
  PROVE  /\ Tail(s) \in Seq(S) /\ Head(s) \in Range(s) /\ Head(s) \in S
         /\ Range(Tail(s)) \subseteq Range(s) /\ Range(s) \subseteq Range(Tail(s)) \cup {Head(s)}
<1> DEFINE t == Tail(s)
           h == Head(s)
<1>1. /\ t \in Seq(S) /\ Len(s) \in Nat /\ Len(s) >= 1 /\ DOMAIN s = 1 .. Len(s) /\ DOMAIN t = 1 .. Len(s) - 1
      /\ \A i \in 1 .. Len(s) - 1 : t[i] = s[i + 1]
      /\ h = s[1] /\ h \in S
  OBVIOUS
<1> HIDE DEF t, h
<1>2. ASSUME NEW i \in DOMAIN t PROVE t[i] \in Range(s)
  <2>1. i + 1 \in DOMAIN s /\ t[i] = s[i + 1]
    BY <1>1
  <2> QED
    BY <2>1 DEF Range
<1>3. ASSUME NEW i \in DOMAIN s PROVE s[i] \in Range(t) \cup {h}
  <2>1. CASE i = 1
    BY <1>1, <2>1
  <2>2. CASE i # 1
    <3>1. i - 1 \in DOMAIN t /\ t[i - 1] = s[i]
      BY <1>1, <2>2
    <3> QED
      BY <3>1 DEF Range
  <2> QED
    BY <2>1, <2>2
<1>4. h \in Range(s)
  <2>1. 1 \in DOMAIN s
    BY <1>1
  <2> QED
    BY <1>1, <2>1 DEF Range
<1>5. Range(t) \subseteq Range(s)
  BY <1>2 DEF Range
<1>6. Range(s) \subseteq Range(t) \cup {h}
  BY <1>3 DEF Range
<1> QED
  BY <1>1, <1>4, <1>5, <1>6 DEF t, h

\* A list cut in two.
LEMMA RangeCut ==
  ASSUME NEW S, NEW s \in Seq(S), NEW c \in 0 .. Len(s)
  PROVE  /\ SubSeq(s, c + 1, Len(s)) \in Seq(S)
         /\ Range(SubSeq(s, 1, c)) \subseteq Range(s) /\ Range(SubSeq(s, c + 1, Len(s))) \subseteq Range(s)
         /\ Range(s) \subseteq Range(SubSeq(s, 1, c)) \cup Range(SubSeq(s, c + 1, Len(s)))
<1> DEFINE a == SubSeq(s, 1, c)
           b == SubSeq(s, c + 1, Len(s))
           n == Len(s)
<1>1. n \in Nat /\ DOMAIN s = 1 .. n /\ c \in Nat /\ c <= n
  OBVIOUS
<1>2. a \in Seq(S) /\ Len(a) = c /\ DOMAIN a = 1 .. c /\ \A i \in 1 .. c : a[i] = s[i]
  <2>1. a \in Seq(S) /\ Len(a) = c /\ \A i \in 1 .. c : a[i] = s[i]
    OBVIOUS
  <2> HIDE DEF a
  <2> QED
    BY <2>1
<1>3. b \in Seq(S) /\ Len(b) = n - c /\ DOMAIN b = 1 .. n - c /\ \A i \in 1 .. n - c : b[i] = s[i + c]
  <2>1. b \in Seq(S) /\ Len(b) = n - c /\ \A i \in 1 .. n - c : b[i] = s[i + c]
    OBVIOUS
  <2> HIDE DEF b
  <2> QED
    BY <2>1
<1> HIDE DEF a, b, n
<1>4. ASSUME NEW i \in DOMAIN a PROVE a[i] \in Range(s)
  <2>1. i \in DOMAIN s /\ a[i] = s[i]
    BY <1>1, <1>2
  <2> QED
    BY <2>1 DEF Range
<1>5. ASSUME NEW i \in DOMAIN b PROVE b[i] \in Range(s)
  <2>1. i + c \in DOMAIN s /\ b[i] = s[i + c]
    BY <1>1, <1>3
  <2> QED
    BY <2>1 DEF Range
<1>6. ASSUME NEW i \in DOMAIN s PROVE s[i] \in Range(a) \cup Range(b)
  <2>1. CASE i <= c
    <3>1. i \in DOMAIN a /\ a[i] = s[i]
      BY <1>1, <1>2, <2>1
    <3> QED
      BY <3>1 DEF Range
  <2>2. CASE i > c
    <3>1. i - c \in DOMAIN b /\ b[i - c] = s[i]
      BY <1>1, <1>3, <2>2
    <3> QED
      BY <3>1 DEF Range
  <2> QED
    BY <1>1, <2>1, <2>2
<1>7. Range(a) \subseteq Range(s) /\ Range(b) \subseteq Range(s)
  BY <1>4, <1>5 DEF Range
<1>8. Range(s) \subseteq Range(a) \cup Range(b)
  BY <1>6 DEF Range
<1> QED
  BY <1>3, <1>7, <1>8 DEF a, b, n

LEMMA RangeOfFew == Range(<<>>) = {} /\ \A x : Range(<<x>>) = {x}
<1>1. Range(<<>>) = {}
  BY DEF Range
<1>2. ASSUME NEW x PROVE Range(<<x>>) = {x}
  <2>1. DOMAIN <<x>> = {1} /\ (<<x>>)[1] = x
    OBVIOUS
  <2> QED
    BY <2>1 DEF Range
<1> QED
  BY <1>1, <1>2

-----------------------------------------------------------------------------
(* The charts: the inductive invariant, and that every action keeps it.    *)

Load == [device : Sensors, moves : BOOLEAN, read : Int]
Streams == [at : {"connecting", "open", "down"}, device : Sensors, since : Nat, queue : Seq(Nat)]
Queue == {stream.queue[q] : q \in DOMAIN stream.queue}

ChartTyped ==
    /\ uplinks \in Seq(Sensors) /\ saved \in 0 .. Len(uplinks)
    /\ pub \in [at : {"idle", "numbered", "saved"}, heard : BOOLEAN]
    /\ selected \in Sensors /\ range \in {"live", "history"}
    /\ chart \subseteq 1 .. Len(uplinks) /\ gone \subseteq 1 .. Len(uplinks) /\ cursor \in 0 .. Len(uplinks)
    /\ loads \in Seq(Load) /\ \A k \in DOMAIN loads : loads[k].read \in Unread .. saved
    /\ stream \in Streams
    /\ stream.since <= Len(uplinks) /\ \A q \in DOMAIN stream.queue : stream.queue[q] \in 1 .. Len(uplinks)

\* A publish() under way, and who listens to it.
Publishing ==
    /\ IF pub.at = "numbered" THEN Len(uplinks) = saved + 1 ELSE saved = Len(uplinks)
    /\ pub.heard => pub.at # "idle" /\ stream.at = "open" /\ cursor < Len(uplinks)

\* Of choices that did not cross the last is drawn, or is the one that is being asked for.
LastChoice ==
    ~crossed => \/ loads = <<>> /\ \A i \in chart : uplinks[i] = selected
                \/ Len(loads) = 1 /\ loads[1].device = selected /\ range = "history"

\* A stream of another device is one that an answer will move.
StreamFollows == stream.device # selected => \E k \in DOMAIN loads : loads[k].moves

\* The stream brings what lies behind the cursor, in order.
StreamInOrder ==
    /\ stream.at = "connecting" => stream.since = cursor
    /\ stream.at # "open" => stream.queue = <<>>
    /\ \A q \in DOMAIN stream.queue :
          /\ uplinks[stream.queue[q]] = stream.device /\ stream.queue[q] > cursor
          /\ pub.heard => stream.queue[q] < Len(uplinks)
    /\ \A q, r \in DOMAIN stream.queue : q < r => stream.queue[q] < stream.queue[r]

\* The stream will bring reading i, or has it replayed.
OnItsWay(i) == stream.at # "open" \/ i \in Queue \/ (pub.heard /\ i = Len(uplinks))

\* What is drawn ahead of the cursor came from the database.
DrawnFromStore == \A i \in chart : i > cursor => i <= saved
DrawnBeforeRead ==
    ~crossed /\ loads # <<>> /\ loads[1].read # Unread => \A i \in chart : i > cursor => i <= loads[1].read

\* What an answer will not bring the stream does, or its loss has a reason.
LaterComes ==
    ~crossed /\ loads # <<>> /\ loads[1].read # Unread =>
        \A i \in Of(stream.device, 1 .. Len(uplinks)) :
            i > cursor /\ i > loads[1].read => OnItsWay(i) \/ i \in gone
UnsavedComes ==
    \A i \in Of(stream.device, 1 .. Len(uplinks)) : i > cursor /\ i > saved => OnItsWay(i) \/ i \in gone

\* Once the answer is drawn nothing is missing but what is on its way.
NoneMissed ==
    ~crossed /\ range = "history" /\ loads = <<>> =>
        \A i \in Of(selected, 1 .. Len(uplinks)) : i \in chart \cup gone \/ (i > cursor /\ OnItsWay(i))

ChartInv ==
    /\ ChartTyped /\ Publishing /\ LastChoice /\ StreamFollows /\ StreamInOrder
    /\ DrawnFromStore /\ DrawnBeforeRead /\ LaterComes /\ UnsavedComes /\ NoneMissed

\* The charts begin so.
LEMMA ChartsStart == ChartsInit => ChartInv
<1> SUFFICES ASSUME ChartsInit PROVE ChartInv
  OBVIOUS
<1> USE DEF ChartsInit, Published, Connecting, Of, Queue, OnItsWay
<1>1. ChartTyped
  BY DEF ChartTyped, Load, Streams
<1>2. Publishing
  BY DEF Publishing, Load
<1>3. LastChoice
  BY DEF LastChoice, Load
<1>4. StreamFollows
  BY DEF StreamFollows, Load
<1>5. StreamInOrder
  BY DEF StreamInOrder, Load
<1>6. DrawnFromStore
  BY DEF DrawnFromStore, Load
<1>7. DrawnBeforeRead
  BY DEF DrawnBeforeRead, Load
<1>8. LaterComes
  BY DEF LaterComes, Load
<1>9. UnsavedComes
  BY DEF UnsavedComes, Load
<1>10. NoneMissed
  BY DEF NoneMissed, Load
<1> QED
  BY <1>1, <1>2, <1>3, <1>4, <1>5, <1>6, <1>7, <1>8, <1>9, <1>10 DEF ChartInv

\* The stream with another queue.
LEMMA StreamQueued ==
  ASSUME stream \in Streams, NEW q \in Seq(Nat), stream' = [stream EXCEPT !.queue = q]
  PROVE  /\ stream' \in Streams /\ stream'.at = stream.at /\ stream'.queue = q
         /\ stream'.device = stream.device /\ stream'.since = stream.since
<1> DEFINE Q == Seq(Nat)
<1>1. stream \in [at : {"connecting", "open", "down"}, device : Sensors, since : Nat, queue : Q] /\ q \in Q
  BY DEF Streams
<1> HIDE DEF Q
<1>2. stream' \in [at : {"connecting", "open", "down"}, device : Sensors, since : Nat, queue : Q]
  BY <1>1
<1>3. stream'.at = stream.at /\ stream'.queue = q /\ stream'.device = stream.device /\ stream'.since = stream.since
  BY <1>1
<1> QED
  BY <1>2, <1>3 DEF Q, Streams

LEMMA StreamMoved ==
  ASSUME stream \in Streams, NEW a \in {"connecting", "open", "down"}, NEW q \in Seq(Nat),
         stream' = [stream EXCEPT !.at = a, !.queue = q]
  PROVE  /\ stream' \in Streams /\ stream'.at = a /\ stream'.queue = q
         /\ stream'.device = stream.device /\ stream'.since = stream.since
<1> DEFINE Q == Seq(Nat)
<1>1. stream \in [at : {"connecting", "open", "down"}, device : Sensors, since : Nat, queue : Q] /\ q \in Q
  BY DEF Streams
<1> HIDE DEF Q
<1>2. stream' \in [at : {"connecting", "open", "down"}, device : Sensors, since : Nat, queue : Q]
  BY <1>1
<1>3. stream'.at = a /\ stream'.queue = q /\ stream'.device = stream.device /\ stream'.since = stream.since
  BY <1>1
<1> QED
  BY <1>2, <1>3 DEF Q, Streams

LEMMA NumberUplinkKeeps ==
  ASSUME ChartInv, NEW d \in Sensors, NumberUplink(d)
  PROVE  ChartInv'
<1> USE DEF ChartInv, ChartTyped
<1> DEFINE open == stream.at = "open"
<1>1. /\ pub.at = "idle" /\ uplinks' = Append(uplinks, d) /\ pub' = [at |-> "numbered", heard |-> open]
      /\ UNCHANGED <<saved, selected, range, loads, chart, stream, cursor, crossed, gone>>
  BY DEF NumberUplink, choice
<1>2. open \in BOOLEAN /\ (open <=> stream.at = "open")
  OBVIOUS
<1> HIDE DEF open
<1>3. pub'.at = "numbered" /\ (pub'.heard <=> stream.at = "open") /\ saved = Len(uplinks) /\ ~pub.heard
  BY <1>1, <1>2 DEF Publishing
<1>4. /\ uplinks' \in Seq(Sensors) /\ Len(uplinks') = Len(uplinks) + 1
      /\ \A i \in 1 .. Len(uplinks) : uplinks'[i] = uplinks[i]
  BY <1>1
<1>5. ASSUME NEW i \in 1 .. Len(uplinks') PROVE i = Len(uplinks') \/ i \in 1 .. Len(uplinks)
  BY <1>4
<1>6. \A i : OnItsWay(i) => OnItsWay(i)'
  BY <1>1, <1>3 DEF OnItsWay, Queue
<1>7. OnItsWay(Len(uplinks))'
  BY <1>1, <1>3 DEF OnItsWay
<1>8. ChartTyped'
  BY <1>1, <1>2, <1>4 DEF Streams
<1>9. Publishing'
  BY <1>1, <1>3, <1>4 DEF Publishing
<1>10. LastChoice'
  BY <1>1, <1>4 DEF LastChoice
<1>11. StreamFollows'
  BY <1>1 DEF StreamFollows
<1>12. StreamInOrder'
  BY <1>1, <1>3, <1>4 DEF StreamInOrder
<1>13. DrawnFromStore' /\ DrawnBeforeRead'
  BY <1>1 DEF DrawnFromStore, DrawnBeforeRead
<1>14. LaterComes'
  BY <1>1, <1>4, <1>5, <1>6, <1>7 DEF LaterComes, Of
<1>15. UnsavedComes'
  BY <1>1, <1>3, <1>4, <1>5, <1>7 DEF UnsavedComes, Of
<1>16. NoneMissed'
  <2>1. cursor < Len(uplinks')
    BY <1>4
  <2> QED
    BY <1>1, <1>4, <1>5, <1>6, <1>7, <2>1 DEF NoneMissed, Of
<1> QED
  BY <1>8, <1>9, <1>10, <1>11, <1>12, <1>13, <1>14, <1>15, <1>16

LEMMA SaveReadingKeeps ==
  ASSUME ChartInv, SaveReading
  PROVE  ChartInv'
<1> USE DEF ChartInv, SaveReading, source, choice, Apply, MoveStream, KeepStream, Connecting, Published, Unread, ChartTyped
<1>1. ChartTyped'
  BY DEF Load, Streams
<1>2. Publishing'
  BY DEF Publishing, Of, Queue, OnItsWay, Publishing, StreamInOrder, LastChoice, Load
<1>3. LastChoice'
  BY DEF LastChoice, Of, Queue, OnItsWay, Publishing, StreamInOrder, LastChoice, Load
<1>4. StreamFollows'
  BY DEF StreamFollows, Of, Queue, OnItsWay, Publishing, StreamInOrder, LastChoice, Load
<1>5. StreamInOrder'
  BY DEF StreamInOrder, Of, Queue, OnItsWay, Publishing, StreamInOrder, LastChoice, Load
<1>6. DrawnFromStore'
  BY DEF DrawnFromStore, Of, Queue, OnItsWay, Publishing, StreamInOrder, LastChoice, Load
<1>7. DrawnBeforeRead'
  BY DEF DrawnBeforeRead, Of, Queue, OnItsWay, Publishing, StreamInOrder, LastChoice, Load
<1>8. LaterComes'
  BY DEF LaterComes, Of, Queue, OnItsWay, Publishing, StreamInOrder, LastChoice, Load
<1>9. UnsavedComes'
  BY DEF UnsavedComes, Of, Queue, OnItsWay, Publishing, StreamInOrder, LastChoice, Load
<1>10. NoneMissed'
  BY DEF NoneMissed, Of, Queue, OnItsWay, Publishing, StreamInOrder, LastChoice, Load
<1> QED
  BY <1>1, <1>2, <1>3, <1>4, <1>5, <1>6, <1>7, <1>8, <1>9, <1>10 DEF ChartInv

LEMMA PutUplinkKeeps ==
  ASSUME ChartInv, PutUplink
  PROVE  ChartInv'
<1> USE DEF ChartInv, ChartTyped
<1> DEFINE n == Len(uplinks)
           hit == pub.heard /\ uplinks[n] = stream.device
<1>1. /\ pub.at = "saved" /\ pub' = Published
      /\ stream' = IF hit THEN [stream EXCEPT !.queue = Append(@, n)] ELSE stream
      /\ UNCHANGED <<uplinks, saved, selected, range, loads, chart, cursor, crossed, gone>>
  BY DEF PutUplink, source, choice, Last
<1>2. n \in Nat /\ saved = n /\ (pub.heard => stream.at = "open" /\ cursor < n)
  BY <1>1 DEF Publishing
<1>3. pub'.at = "idle" /\ ~pub'.heard /\ pub' \in [at : {"idle", "numbered", "saved"}, heard : BOOLEAN]
  BY <1>1 DEF Published
<1>4. /\ stream'.at = stream.at /\ stream'.device = stream.device /\ stream'.since = stream.since
      /\ stream'.queue = IF hit THEN Append(stream.queue, n) ELSE stream.queue
      /\ stream' \in Streams
  <2>1. CASE hit
    <3>1. stream' = [stream EXCEPT !.queue = Append(stream.queue, n)] /\ Append(stream.queue, n) \in Seq(Nat)
      BY <1>1, <1>2, <2>1 DEF Streams
    <3>3. stream \in Streams
      OBVIOUS
    <3>4. stream' \in Streams /\ stream'.at = stream.at /\ stream'.queue = Append(stream.queue, n)
          /\ stream'.device = stream.device /\ stream'.since = stream.since
      <4> HIDE DEF n, hit, ChartTyped
      <4> QED
        BY <3>1, <3>3, StreamQueued
    <3> QED
      BY <2>1, <3>4
  <2>2. CASE ~hit
    BY <1>1, <2>2
  <2> QED
    BY <2>1, <2>2
<1>5. CASE hit
  <2>1. /\ stream'.queue \in Seq(Nat) /\ Len(stream'.queue) = Len(stream.queue) + 1
        /\ \A q \in 1 .. Len(stream.queue) : stream'.queue[q] = stream.queue[q]
        /\ stream'.queue[Len(stream.queue) + 1] = n
        /\ DOMAIN stream'.queue = 1 .. Len(stream.queue) + 1 /\ DOMAIN stream.queue = 1 .. Len(stream.queue)
        /\ Len(stream.queue) \in Nat
    <3>1. stream.queue \in Seq(Nat) /\ stream'.queue = Append(stream.queue, n)
      BY <1>4, <1>5 DEF Streams
    <3> QED
      BY <1>2, <3>1
  <2>2. n \in 1 .. n
    BY <1>2, <1>5
  <2>3. \A i : OnItsWay(i) => OnItsWay(i)'
    <3>1. \A q \in DOMAIN stream.queue : q \in DOMAIN stream'.queue /\ stream'.queue[q] = stream.queue[q]
      <4> HIDE DEF n, hit, ChartTyped, ChartInv
      <4> QED
        BY <2>1
    <3>2. \A i \in Queue : i \in Queue'
      BY <3>1 DEF Queue
    <3>3. n \in Queue'
      <4>1. Len(stream.queue) + 1 \in DOMAIN stream'.queue
        BY <2>1
      <4> HIDE DEF n, ChartTyped
      <4> QED
        BY <2>1, <4>1 DEF Queue
    <3> QED
      BY <1>1, <1>4, <3>2, <3>3 DEF OnItsWay
  <2>4. ChartTyped'
    <3>1. \A q \in DOMAIN stream'.queue : q \in DOMAIN stream.queue \/ q = Len(stream.queue) + 1
      BY <2>1
    <3>2. \A q \in DOMAIN stream'.queue : stream'.queue[q] \in 1 .. Len(uplinks)
      BY <2>1, <2>2, <3>1
    <3> QED
      BY <1>1, <1>3, <1>4, <3>2
  <2>5. StreamInOrder'
    <3>1. \A q \in DOMAIN stream'.queue : q \in DOMAIN stream.queue \/ q = Len(stream.queue) + 1
      BY <2>1
    <3>2. stream.at = "open" /\ cursor < n /\ uplinks[n] = stream.device /\ pub.heard
      BY <1>2, <1>5
    <3>5. \A q \in DOMAIN stream.queue : stream'.queue[q] = stream.queue[q] /\ q < Len(stream.queue) + 1
                                            /\ stream.queue[q] < n
      <4>1. \A q \in DOMAIN stream.queue : stream.queue[q] < n
        BY <3>2 DEF StreamInOrder
      <4> HIDE DEF n, hit, ChartTyped, ChartInv
      <4>2. \A q \in DOMAIN stream.queue : stream'.queue[q] = stream.queue[q] /\ q < Len(stream.queue) + 1
        BY <2>1
      <4> QED
        BY <4>1, <4>2
    <3>6. stream'.queue[Len(stream.queue) + 1] = n
      BY <2>1
    <3> HIDE DEF n, ChartTyped
    <3>3. \A q \in DOMAIN stream'.queue : uplinks[stream'.queue[q]] = stream.device /\ stream'.queue[q] > cursor
      BY <3>1, <3>2, <3>5, <3>6 DEF StreamInOrder
    <3>4. \A q, r \in DOMAIN stream'.queue : q < r => stream'.queue[q] < stream'.queue[r]
      BY <2>1, <3>1, <3>5, <3>6 DEF StreamInOrder
    <3> QED
      BY <1>1, <1>3, <1>4, <3>2, <3>3, <3>4 DEF StreamInOrder
  <2> QED
    <3> HIDE DEF n, hit, ChartTyped
    <3>1. Publishing' /\ LastChoice' /\ StreamFollows'
      BY <1>1, <1>2, <1>3, <1>4 DEF Publishing, LastChoice, StreamFollows, n
    <3>2. DrawnFromStore' /\ DrawnBeforeRead' /\ NoneMissed'
      BY <1>1, <2>3 DEF DrawnFromStore, DrawnBeforeRead, NoneMissed, Of
    <3>3. LaterComes' /\ UnsavedComes'
      BY <1>1, <1>4, <2>3 DEF LaterComes, UnsavedComes, Of
    <3> QED
      BY <2>4, <2>5, <3>1, <3>2, <3>3
<1>6. CASE ~hit
  <2>1. stream' = stream
    BY <1>1, <1>6
  <2>2. \A i : OnItsWay(i) /\ uplinks[i] = stream.device => OnItsWay(i)'
    BY <1>1, <1>6, <2>1 DEF OnItsWay, Queue
  <2>3. ChartTyped'
    BY <1>1, <1>3, <2>1
  <2> HIDE DEF n, hit, ChartTyped
  <2>4. Publishing' /\ LastChoice' /\ StreamFollows' /\ StreamInOrder'
    BY <1>1, <1>2, <1>3, <2>1 DEF Publishing, LastChoice, StreamFollows, StreamInOrder, n
  <2>5. DrawnFromStore' /\ DrawnBeforeRead'
    BY <1>1 DEF DrawnFromStore, DrawnBeforeRead
  <2>6. LaterComes' /\ UnsavedComes'
    BY <1>1, <2>1, <2>2 DEF LaterComes, UnsavedComes, Of
  <2>7. NoneMissed'
    <3>1. loads = <<>> => selected = stream.device
      BY DEF StreamFollows
    <3> QED
      BY <1>1, <2>1, <2>2, <3>1 DEF NoneMissed, Of
  <2> QED
    BY <2>3, <2>4, <2>5, <2>6, <2>7
<1> QED
  BY <1>5, <1>6

LEMMA BreakChartsKeeps ==
  ASSUME ChartInv, BreakCharts
  PROVE  ChartInv'
<1> USE DEF ChartInv, BreakCharts, source, choice, Apply, MoveStream, KeepStream, Connecting, Published, Unread, ChartTyped
<1>1. ChartTyped'
  <2>1. stream' = [stream EXCEPT !.at = "down", !.queue = <<>>] /\ pub' = [pub EXCEPT !.heard = FALSE]
        /\ UNCHANGED <<uplinks, saved, selected, range, chart, loads, gone, cursor>>
    OBVIOUS
  <2>0. <<>> \in Seq(Nat) /\ stream \in Streams
    OBVIOUS
  <2>2. /\ stream' \in Streams
        /\ stream'.since = stream.since /\ stream'.queue = <<>>
    <3> HIDE DEF ChartTyped, BreakCharts, ChartInv
    <3>1. "down" \in {"connecting", "open", "down"}
      OBVIOUS
    <3> QED
      BY <2>1, <2>0, <3>1, StreamMoved
  <2>3. pub' \in [at : {"idle", "numbered", "saved"}, heard : BOOLEAN]
    BY <2>1
  <2> QED
    BY <2>1, <2>2, <2>3
<1>2. Publishing'
  BY DEF Publishing, Of, Queue, OnItsWay, Publishing, StreamInOrder, LastChoice, Load
<1>3. LastChoice'
  BY DEF LastChoice, Of, Queue, OnItsWay, Publishing, StreamInOrder, LastChoice, Load
<1>4. StreamFollows'
  BY DEF StreamFollows, Of, Queue, OnItsWay, Publishing, StreamInOrder, LastChoice, Load
<1>5. StreamInOrder'
  BY DEF StreamInOrder, Of, Queue, OnItsWay, Publishing, StreamInOrder, LastChoice, Load
<1>6. DrawnFromStore'
  BY DEF DrawnFromStore, Of, Queue, OnItsWay, Publishing, StreamInOrder, LastChoice, Load
<1>7. DrawnBeforeRead'
  BY DEF DrawnBeforeRead, Of, Queue, OnItsWay, Publishing, StreamInOrder, LastChoice, Load
<1>8. LaterComes'
  BY DEF LaterComes, Of, Queue, OnItsWay, Publishing, StreamInOrder, LastChoice, Load
<1>9. UnsavedComes'
  BY DEF UnsavedComes, Of, Queue, OnItsWay, Publishing, StreamInOrder, LastChoice, Load
<1>10. NoneMissed'
  BY DEF NoneMissed, Of, Queue, OnItsWay, Publishing, StreamInOrder, LastChoice, Load
<1> QED
  BY <1>1, <1>2, <1>3, <1>4, <1>5, <1>6, <1>7, <1>8, <1>9, <1>10 DEF ChartInv

LEMMA DeliverUplinkKeeps ==
  ASSUME ChartInv, DeliverUplink
  PROVE  ChartInv'
<1> USE DEF ChartInv, ChartTyped
<1> DEFINE h == Head(stream.queue)
<1>1. /\ stream.at = "open" /\ stream.queue # <<>> /\ chart' = chart \cup {h}
      /\ cursor' = IF h > cursor THEN h ELSE cursor
      /\ stream' = [stream EXCEPT !.queue = Tail(@)]
      /\ UNCHANGED <<uplinks, saved, pub, selected, range, loads, crossed, gone>>
  BY DEF DeliverUplink, source, choice
<1>2. /\ stream.queue \in Seq(Nat) /\ Len(stream.queue) > 0 /\ h = stream.queue[1] /\ 1 \in DOMAIN stream.queue
      /\ h \in 1 .. Len(uplinks) /\ uplinks[h] = stream.device /\ h > cursor /\ h \in Nat
      /\ pub.heard => h < Len(uplinks)
  <2>1. stream.queue \in Seq(Nat) /\ Len(stream.queue) > 0 /\ h = stream.queue[1] /\ 1 \in DOMAIN stream.queue
    BY <1>1 DEF Streams
  <2> QED
    BY <2>1 DEF StreamInOrder
<1>3. /\ stream'.at = "open" /\ stream'.device = stream.device /\ stream'.since = stream.since
      /\ stream'.queue = Tail(stream.queue)
      /\ stream' \in Streams
  <2>1. stream' = [stream EXCEPT !.queue = Tail(stream.queue)] /\ Tail(stream.queue) \in Seq(Nat)
    BY <1>1, <1>2
  <2>3. stream \in Streams
    OBVIOUS
  <2> HIDE DEF ChartTyped, h
  <2> QED
    BY <1>1, <2>1, <2>3, StreamQueued
<1>4. /\ stream'.queue \in Seq(Nat) /\ Len(stream'.queue) = Len(stream.queue) - 1
      /\ DOMAIN stream'.queue = 1 .. Len(stream.queue) - 1
      /\ \A q \in DOMAIN stream'.queue : stream'.queue[q] = stream.queue[q + 1] /\ q + 1 \in DOMAIN stream.queue
  BY <1>1, <1>2, <1>3
<1>5. \A q \in DOMAIN stream.queue : q = 1 \/ (q - 1 \in DOMAIN stream'.queue /\ stream'.queue[q - 1] = stream.queue[q])
  <2> SUFFICES ASSUME NEW q \in DOMAIN stream.queue, q # 1
               PROVE  q - 1 \in DOMAIN stream'.queue /\ stream'.queue[q - 1] = stream.queue[q]
    OBVIOUS
  <2>1. q \in Nat /\ q - 1 \in 1 .. Len(stream.queue) - 1 /\ (q - 1) + 1 = q
    BY <1>2
  <2> QED
    BY <1>4, <2>1
<1>6. cursor' = h
  BY <1>1, <1>2
<1> HIDE DEF h
<1>7. \A i : OnItsWay(i) => i = h \/ OnItsWay(i)'
  <2>1. \A i \in Queue : i = h \/ i \in Queue'
    <3> HIDE DEF ChartTyped
    <3> SUFFICES ASSUME NEW q \in DOMAIN stream.queue PROVE stream.queue[q] = h \/ stream.queue[q] \in Queue'
      BY DEF Queue
    <3> QED
      BY <1>2, <1>5 DEF Queue
  <2> QED
    BY <1>1, <2>1 DEF OnItsWay
<1>8. ChartTyped'
  BY <1>1, <1>2, <1>3, <1>4, <1>6
<1>9. Publishing'
  BY <1>1, <1>2, <1>3, <1>6 DEF Publishing
<1>10. LastChoice'
  <2>1. loads = <<>> => uplinks[h] = selected
    BY <1>2 DEF StreamFollows
  <2> QED
    BY <1>1, <2>1 DEF LastChoice
<1>11. StreamFollows'
  BY <1>1, <1>3 DEF StreamFollows
<1>12. StreamInOrder'
  <2>1. \A q \in DOMAIN stream'.queue : 1 < q + 1
    BY <1>4
  <2>2. \A q \in DOMAIN stream'.queue : stream'.queue[q] > h
    BY <1>2, <1>4, <2>1 DEF StreamInOrder
  <2>3. \A q, r \in DOMAIN stream'.queue : q < r => stream'.queue[q] < stream'.queue[r]
    <3>1. \A q, r \in DOMAIN stream'.queue : q < r => q + 1 < r + 1
      BY <1>4
    <3> QED
      BY <1>4, <3>1 DEF StreamInOrder
  <2>4. \A q \in DOMAIN stream'.queue : uplinks[stream'.queue[q]] = stream.device
                                            /\ (pub.heard => stream'.queue[q] < Len(uplinks))
    BY <1>4 DEF StreamInOrder
  <2> HIDE DEF ChartTyped
  <2> QED
    BY <1>1, <1>3, <1>6, <2>2, <2>3, <2>4 DEF StreamInOrder
<1>13. DrawnFromStore' /\ DrawnBeforeRead'
  <2>1. \A i \in chart' : i > cursor' => i \in chart /\ i > cursor
    BY <1>1, <1>2, <1>6
  <2> QED
    BY <1>1, <2>1 DEF DrawnFromStore, DrawnBeforeRead
<1>14. \A i \in 1 .. Len(uplinks) : i > cursor' => i > cursor /\ i # h
  BY <1>2, <1>6
<1>15. LaterComes' /\ UnsavedComes'
  BY <1>1, <1>3, <1>7, <1>14 DEF LaterComes, UnsavedComes, Of
<1>16. NoneMissed'
  <2>1. \A i \in 1 .. Len(uplinks) : i # h /\ OnItsWay(i) => i > cursor' \/ i \in chart'
    <3> SUFFICES ASSUME NEW i \in 1 .. Len(uplinks), i # h, OnItsWay(i) PROVE i > h
      BY <1>6
    <3>1. CASE i \in Queue
      <4>1. PICK q \in DOMAIN stream.queue : i = stream.queue[q]
        BY <3>1 DEF Queue
      <4>2. 1 < q
        BY <1>2, <4>1
      <4> QED
        BY <1>2, <4>1, <4>2 DEF StreamInOrder
    <3>2. CASE pub.heard /\ i = Len(uplinks)
      BY <1>2, <3>2
    <3> QED
      BY <1>1, <3>1, <3>2 DEF OnItsWay
  <2> QED
    BY <1>1, <1>7, <2>1 DEF NoneMissed, Of
<1> QED
  BY <1>8, <1>9, <1>10, <1>11, <1>12, <1>13, <1>15, <1>16

LEMMA ReconnectChartsKeeps ==
  ASSUME ChartInv, ReconnectCharts
  PROVE  ChartInv'
<1> USE DEF ChartInv, ReconnectCharts, source, choice, Apply, MoveStream, KeepStream, Connecting, Published, Unread, ChartTyped
<1>1. ChartTyped'
  BY DEF Load, Streams
<1>2. Publishing'
  BY DEF Publishing, Of, Queue, OnItsWay, Publishing, StreamInOrder, LastChoice, Load
<1>3. LastChoice'
  BY DEF LastChoice, Of, Queue, OnItsWay, Publishing, StreamInOrder, LastChoice, Load
<1>4. StreamFollows'
  BY DEF StreamFollows, Of, Queue, OnItsWay, Publishing, StreamInOrder, LastChoice, Load
<1>5. StreamInOrder'
  BY DEF StreamInOrder, Of, Queue, OnItsWay, Publishing, StreamInOrder, LastChoice, Load
<1>6. DrawnFromStore'
  BY DEF DrawnFromStore, Of, Queue, OnItsWay, Publishing, StreamInOrder, LastChoice, Load
<1>7. DrawnBeforeRead'
  BY DEF DrawnBeforeRead, Of, Queue, OnItsWay, Publishing, StreamInOrder, LastChoice, Load
<1>8. LaterComes'
  BY DEF LaterComes, Of, Queue, OnItsWay, Publishing, StreamInOrder, LastChoice, Load
<1>9. UnsavedComes'
  BY DEF UnsavedComes, Of, Queue, OnItsWay, Publishing, StreamInOrder, LastChoice, Load
<1>10. NoneMissed'
  BY DEF NoneMissed, Of, Queue, OnItsWay, Publishing, StreamInOrder, LastChoice, Load
<1> QED
  BY <1>1, <1>2, <1>3, <1>4, <1>5, <1>6, <1>7, <1>8, <1>9, <1>10 DEF ChartInv

\* A choice is asked for, or draws nothing.
Asks(d, r, yes) ==
    /\ \/ r = "live" /\ chart' = {} /\ loads' = loads
       \/ /\ r = "history" /\ chart' = chart /\ loads' \in Seq(Load) /\ Len(loads') = Len(loads) + 1
          /\ \A k \in DOMAIN loads : loads'[k] = loads[k]
          /\ loads'[Len(loads) + 1] = [device |-> d, moves |-> yes, read |-> Unread]
    /\ crossed' <=> loads # <<>>

\* applySensorRange does so.
LEMMA ApplyAsks ==
  ASSUME ChartTyped, NEW d \in Sensors, NEW r \in {"live", "history"}, NEW yes \in BOOLEAN, Apply(d, r, yes)
  PROVE  Asks(d, r, yes)
<1> DEFINE e == [device |-> d, moves |-> yes, read |-> Unread]
<1>1. /\ crossed' <=> loads # <<>>
      /\ IF r = "live" THEN chart' = {} /\ loads' = loads ELSE loads' = Append(loads, e) /\ chart' = chart
  BY DEF Apply
<1>2. e \in Load /\ loads \in Seq(Load)
  BY DEF Load, Unread, ChartTyped
<1> HIDE DEF e
<1>3. /\ Append(loads, e) \in Seq(Load) /\ Len(Append(loads, e)) = Len(loads) + 1
      /\ \A k \in DOMAIN loads : Append(loads, e)[k] = loads[k]
      /\ Append(loads, e)[Len(loads) + 1] = e
  BY <1>2
<1> QED
  BY <1>1, <1>3 DEF Asks, e

\* What a choice does to the requests and to what is drawn.
LEMMA AsksFacts ==
  ASSUME ChartInv, NEW d \in Sensors, NEW r \in {"live", "history"}, NEW yes \in BOOLEAN, Asks(d, r, yes),
         UNCHANGED <<uplinks, saved, gone>>, selected' = d, range' = r, stream'.device = d \/ (r = "history" /\ yes)
              \/ (stream' = stream /\ selected' = selected),
         cursor' = cursor \/ r = "live"
  PROVE  /\ loads' \in Seq(Load) /\ \A k \in DOMAIN loads' : loads'[k].read \in Unread .. saved'
         /\ chart' \subseteq 1 .. Len(uplinks')
         /\ LastChoice' /\ StreamFollows' /\ DrawnFromStore' /\ DrawnBeforeRead' /\ LaterComes' /\ NoneMissed'
<1> USE DEF ChartInv, ChartTyped, Asks
<1> DEFINE e == [device |-> d, moves |-> yes, read |-> Unread]
<1>1. /\ loads \in Seq(Load) /\ saved \in Nat /\ Unread \in Int /\ Unread < 0 /\ ~(Unread > 0)
      /\ \A k \in DOMAIN loads : loads[k].read \in Unread .. saved
  BY DEF Unread
<1>2. e.device = d /\ e.moves = yes /\ e.read = Unread
  OBVIOUS
<1>3. CASE r = "live"
  <2>1. chart' = {} /\ loads' = loads
    BY <1>3
  <2>2. LastChoice'
    BY <2>1 DEF LastChoice
  <2>3. StreamFollows'
    BY <1>3, <2>1 DEF StreamFollows
  <2>4. DrawnFromStore' /\ DrawnBeforeRead' /\ LaterComes' /\ NoneMissed'
    BY <1>3, <2>1 DEF DrawnFromStore, DrawnBeforeRead, LaterComes, NoneMissed
  <2> QED
    BY <1>1, <2>1, <2>2, <2>3, <2>4
<1>4. CASE r = "history"
  <2> HIDE DEF e
  <2>1. /\ chart' = chart /\ loads' \in Seq(Load) /\ Len(loads') = Len(loads) + 1
        /\ \A k \in DOMAIN loads : loads'[k] = loads[k]
        /\ loads'[Len(loads) + 1] = e /\ cursor' = cursor
    BY <1>4 DEF e
  <2>2. \A k \in DOMAIN loads' : k \in DOMAIN loads \/ k = Len(loads) + 1
    BY <1>1, <2>1
  <2>3. \A k \in DOMAIN loads' : loads'[k].read \in Unread .. saved
    <3>1. Unread \in Unread .. saved
      BY <1>1
    <3> QED
      BY <1>1, <1>2, <2>1, <2>2, <3>1
  <2>4. ~crossed' => Len(loads') = 1 /\ loads'[1] = e
    BY <1>1, <2>1
  <2>5. loads' # <<>>
    BY <1>1, <2>1
  <2>6. LastChoice'
    BY <1>2, <1>4, <2>4 DEF LastChoice
  <2>7. Len(loads) + 1 \in DOMAIN loads' /\ \A k \in DOMAIN loads : k \in DOMAIN loads'
    BY <1>1, <2>1
  <2>8. StreamFollows'
    <3>1. CASE yes
      BY <1>2, <2>1, <2>7, <3>1 DEF StreamFollows
    <3>2. CASE ~yes
      BY <2>1, <2>7, <3>2 DEF StreamFollows
    <3> QED
      BY <3>1, <3>2
  <2>9. DrawnFromStore' /\ NoneMissed'
    BY <2>1, <2>5 DEF DrawnFromStore, NoneMissed
  <2>10. DrawnBeforeRead' /\ LaterComes'
    BY <1>2, <2>4 DEF DrawnBeforeRead, LaterComes
  <2> QED
    BY <2>1, <2>3, <2>6, <2>8, <2>9, <2>10
<1> QED
  BY <1>3, <1>4

LEMMA ChooseRangeKeeps ==
  ASSUME ChartInv, NEW r \in {"live", "history"}, ChooseRange(r)
  PROVE  ChartInv'
<1> DEFINE no == FALSE
<1>1. /\ range' = r /\ Apply(selected, r, no)
      /\ UNCHANGED <<uplinks, saved, selected, stream, cursor, pub, gone>> /\ no \in BOOLEAN
  BY DEF ChooseRange, KeepStream, source
<1> HIDE DEF no
<1>2. selected \in Sensors /\ selected' = selected
  BY <1>1 DEF ChartInv, ChartTyped
<1>3. Asks(selected, r, no)
  BY <1>1, <1>2, ApplyAsks DEF ChartInv
<1>4. /\ loads' \in Seq(Load) /\ \A k \in DOMAIN loads' : loads'[k].read \in Unread .. saved'
      /\ chart' \subseteq 1 .. Len(uplinks')
      /\ LastChoice' /\ StreamFollows' /\ DrawnFromStore' /\ DrawnBeforeRead' /\ LaterComes' /\ NoneMissed'
  BY <1>1, <1>2, <1>3, AsksFacts
<1>5. ChartTyped'
  BY <1>1, <1>4 DEF ChartInv, ChartTyped
<1>6. Publishing' /\ StreamInOrder'
  BY <1>1 DEF ChartInv, Publishing, StreamInOrder
<1>7. UnsavedComes'
  BY <1>1 DEF ChartInv, UnsavedComes, Of, OnItsWay, Queue
<1> QED
  BY <1>4, <1>5, <1>6, <1>7 DEF ChartInv

\* A stream that is made anew brings everything.
LEMMA Reconnecting ==
  ASSUME ChartInv, NEW d \in Sensors, MoveStream(d), UNCHANGED <<uplinks, saved>>
  PROVE  /\ stream' \in Streams
         /\ stream'.since <= Len(uplinks') /\ stream'.queue = <<>> /\ stream'.at = "connecting"
         /\ stream'.device = d /\ cursor' \in 0 .. Len(uplinks')
         /\ pub' \in [at : {"idle", "numbered", "saved"}, heard : BOOLEAN]
         /\ Publishing' /\ StreamInOrder' /\ UnsavedComes' /\ cursor' = 0
         /\ \A i : OnItsWay(i)'
<1> USE DEF ChartInv, ChartTyped
<1>1. /\ stream' = [at |-> "connecting", device |-> d, since |-> 0, queue |-> <<>>] /\ cursor' = 0
      /\ pub' = [pub EXCEPT !.heard = FALSE]
  BY DEF MoveStream, Connecting
<1>2. pub'.at = pub.at /\ ~pub'.heard /\ pub' \in [at : {"idle", "numbered", "saved"}, heard : BOOLEAN]
  BY <1>1
<1>3. stream'.at = "connecting" /\ stream'.device = d /\ stream'.since = 0 /\ stream'.queue = <<>>
  BY <1>1
<1>4. \A i : OnItsWay(i)'
  BY <1>3 DEF OnItsWay
<1>5. Publishing'
  BY <1>2 DEF Publishing
<1>6. StreamInOrder'
  BY <1>1, <1>3 DEF StreamInOrder
<1>7. UnsavedComes'
  BY <1>4 DEF UnsavedComes
<1>8. stream' \in Streams
  BY <1>1 DEF Streams
<1>9. 0 \in 0 .. Len(uplinks') /\ 0 <= Len(uplinks')
  OBVIOUS
<1> QED
  BY <1>1, <1>2, <1>3, <1>4, <1>5, <1>6, <1>7, <1>8, <1>9

LEMMA ChooseDeviceKeeps ==
  ASSUME ChartInv, NEW d \in Sensors, ChooseDevice(d)
  PROVE  ChartInv'
<1> DEFINE sure == TRUE
<1>1. /\ selected' = d /\ Apply(d, range, sure) /\ UNCHANGED <<uplinks, saved, range, gone>> /\ sure \in BOOLEAN
      /\ IF range = "live" THEN MoveStream(d) ELSE UNCHANGED <<stream, cursor, pub>>
  BY DEF ChooseDevice, KeepStream, source
<1>2. sure
  OBVIOUS
<1> HIDE DEF sure
<1>3. range \in {"live", "history"} /\ range' = range
  BY <1>1 DEF ChartInv, ChartTyped
<1>4. Asks(d, range, sure)
  BY <1>1, <1>3, ApplyAsks DEF ChartInv
<1>5. CASE range = "live"
  <2>1. MoveStream(d) /\ stream'.device = d /\ UNCHANGED <<uplinks, saved>>
    BY <1>1, <1>5, Reconnecting
  <2>2. /\ loads' \in Seq(Load) /\ \A k \in DOMAIN loads' : loads'[k].read \in Unread .. saved'
        /\ chart' \subseteq 1 .. Len(uplinks')
        /\ LastChoice' /\ StreamFollows' /\ DrawnFromStore' /\ DrawnBeforeRead' /\ LaterComes' /\ NoneMissed'
    BY <1>1, <1>3, <1>4, <1>5, <2>1, AsksFacts
  <2>3. /\ stream' \in Streams
        /\ stream'.since <= Len(uplinks') /\ stream'.queue = <<>>
        /\ cursor' \in 0 .. Len(uplinks')
        /\ pub' \in [at : {"idle", "numbered", "saved"}, heard : BOOLEAN]
        /\ Publishing' /\ StreamInOrder' /\ UnsavedComes'
    BY <2>1, Reconnecting
  <2>4. ChartTyped'
    BY <1>1, <2>2, <2>3 DEF ChartInv, ChartTyped
  <2> QED
    BY <2>2, <2>3, <2>4 DEF ChartInv
<1>6. CASE range = "history"
  <2>1. UNCHANGED <<stream, cursor, pub>>
    BY <1>1, <1>6
  <2>2. /\ loads' \in Seq(Load) /\ \A k \in DOMAIN loads' : loads'[k].read \in Unread .. saved'
        /\ chart' \subseteq 1 .. Len(uplinks')
        /\ LastChoice' /\ StreamFollows' /\ DrawnFromStore' /\ DrawnBeforeRead' /\ LaterComes' /\ NoneMissed'
    BY <1>1, <1>2, <1>3, <1>4, <1>6, <2>1, AsksFacts
  <2>3. ChartTyped'
    BY <1>1, <2>1, <2>2 DEF ChartInv, ChartTyped
  <2>4. Publishing' /\ StreamInOrder'
    BY <1>1, <2>1 DEF ChartInv, Publishing, StreamInOrder
  <2>5. UnsavedComes'
    BY <1>1, <2>1 DEF ChartInv, UnsavedComes, Of, OnItsWay, Queue
  <2> QED
    BY <2>2, <2>3, <2>4, <2>5 DEF ChartInv
<1> QED
  BY <1>3, <1>5, <1>6

LEMMA OpenChartsKeeps ==
  ASSUME ChartInv, OpenCharts
  PROVE  ChartInv'
<1> USE DEF ChartInv
<1> DEFINE n == Len(uplinks)
           trimmed == n - Backlog
           V == Of(stream.device, (trimmed + 1 .. n) \cap (stream.since + 1 .. n))
           T == Of(stream.device, (1 .. trimmed) \cap (stream.since + 1 .. n))
           q == InOrder(V)
<1>1. /\ stream.at = "connecting" /\ stream' = [stream EXCEPT !.at = "open", !.queue = q]
      /\ gone' = gone \cup (T \ chart)
      /\ UNCHANGED <<uplinks, saved, pub, selected, range, loads, chart, cursor, crossed>>
  BY DEF OpenCharts, source, choice
<1>2. n \in Nat /\ stream \in Streams /\ cursor \in Nat /\ stream.since = cursor /\ ~pub.heard /\ trimmed \in Int
  <2>1. n \in Nat /\ stream \in Streams /\ cursor \in Nat
    BY DEF ChartTyped
  <2>2. Backlog \in Nat
    BY ChartParameters
  <2> QED
    BY <1>1, <2>1, <2>2 DEF StreamInOrder, Publishing
<1>3. V \subseteq 0 .. n /\ V \subseteq 1 .. n /\ T \subseteq 1 .. n
  <2>1. \A i \in stream.since + 1 .. n : i \in 1 .. n /\ i \in 0 .. n
    BY <1>2
  <2> QED
    BY <2>1 DEF Of
<1>4. \A i \in Of(stream.device, 1 .. n) : i > cursor => i \in V \/ i \in T
  BY <1>2 DEF Of
<1>5. \A i \in V : uplinks[i] = stream.device /\ i > cursor
  BY <1>2 DEF Of
<1> HIDE DEF V, T, q, n, trimmed
<1>6. Ordered(V, q)
  BY <1>2, <1>3, InOrderLists DEF q
<1>7. q \in Seq(Nat)
  <2>1. q \in Seq(V)
    BY <1>6 DEF Ordered
  <2>2. V \subseteq Nat
    BY <1>3
  <2> QED
    BY <2>1, <2>2, SeqMonotonic
<1>8. /\ stream' \in Streams /\ stream'.at = "open" /\ stream'.queue = q
      /\ stream'.device = stream.device /\ stream'.since = stream.since
  <2> "open" \in {"connecting", "open", "down"}
    OBVIOUS
  <2> HIDE DEF ChartInv
  <2> QED
    BY <1>1, <1>2, <1>7, StreamMoved
<1>9. /\ Queue' = V /\ \A x, y \in DOMAIN q : x < y => q[x] < q[y]
      /\ \A x \in DOMAIN q : q[x] \in V
  BY <1>6, <1>8 DEF Ordered, Queue
<1>10. ChartTyped'
  <2>1. gone' \subseteq 1 .. Len(uplinks)
    BY <1>1, <1>3 DEF ChartTyped, n
  <2> QED
    BY <1>1, <1>3, <1>8, <1>9, <2>1 DEF ChartTyped, n
<1>11. Publishing' /\ LastChoice' /\ StreamFollows' /\ DrawnFromStore' /\ DrawnBeforeRead'
  BY <1>1, <1>2, <1>8 DEF Publishing, LastChoice, StreamFollows, DrawnFromStore, DrawnBeforeRead
<1>12. StreamInOrder'
  BY <1>1, <1>2, <1>5, <1>8, <1>9 DEF StreamInOrder
<1>13. \A i \in Of(stream.device, 1 .. n) : i > cursor => OnItsWay(i)' \/ i \in gone' \/ i \in chart
  BY <1>1, <1>4, <1>9 DEF OnItsWay
<1>14. LaterComes' /\ UnsavedComes'
  <2>1. \A i \in Of(stream.device, 1 .. n) : i \in 1 .. n
    BY DEF Of
  <2>2. ~crossed /\ loads # <<>> => Len(loads) = 1 /\ 1 \in DOMAIN loads
    BY DEF LastChoice, ChartTyped
  <2>3. loads # <<>> /\ ~crossed => loads[1].read \in Int
    BY <2>2 DEF ChartTyped, Unread
  <2>4. saved \in Int
    BY DEF ChartTyped
  <2>5. UnsavedComes'
    BY <1>1, <1>8, <1>13, <2>1, <2>4 DEF UnsavedComes, DrawnFromStore, Of, n
  <2>6. LaterComes'
    BY <1>1, <1>8, <1>13, <2>1, <2>3 DEF LaterComes, DrawnBeforeRead, Of, n
  <2> QED
    BY <2>5, <2>6
<1>15. NoneMissed'
  <2>1. loads = <<>> => selected = stream.device
    BY DEF StreamFollows, ChartTyped
  <2> QED
    BY <1>1, <1>13, <2>1 DEF NoneMissed, Of, n
<1> QED
  BY <1>10, <1>11, <1>12, <1>14, <1>15

LEMMA ReadHistoryKeeps ==
  ASSUME ChartInv, NEW k \in DOMAIN loads, ReadHistory(k)
  PROVE  ChartInv'
<1> USE DEF ChartInv
<1>1. /\ loads' = [loads EXCEPT ![k].read = saved]
      /\ UNCHANGED <<uplinks, saved, pub, selected, range, chart, stream, cursor, crossed, gone>>
  BY DEF ReadHistory, source, choice
<1>2. loads \in Seq(Load) /\ saved \in Nat /\ loads[k] \in Load /\ \A i \in DOMAIN loads : loads[i].read \in Unread .. saved
  BY DEF ChartTyped
<1>3. saved \in Unread .. saved
  BY <1>2 DEF Unread
<1>4. /\ loads' \in Seq(Load) /\ Len(loads') = Len(loads) /\ DOMAIN loads' = DOMAIN loads
      /\ \A i \in DOMAIN loads : /\ loads'[i].moves = loads[i].moves /\ loads'[i].device = loads[i].device
                                 /\ loads'[i].read = IF i = k THEN saved ELSE loads[i].read
  <2>1. [loads[k] EXCEPT !.read = saved] \in Load
    BY <1>2 DEF Load
  <2> DEFINE L == Load
  <2>2. loads \in Seq(L) /\ loads' = [loads EXCEPT ![k] = [loads[k] EXCEPT !.read = saved]]
    BY <1>1, <1>2
  <2>3. loads' \in Seq(Load) /\ Len(loads') = Len(loads) /\ DOMAIN loads' = DOMAIN loads
    <3> HIDE DEF L
    <3>1. loads' \in Seq(L)
      BY <2>1, <2>2 DEF L
    <3> QED
      BY <2>2, <3>1 DEF L
  <2>4. \A i \in DOMAIN loads : loads'[i] = IF i = k THEN [loads[k] EXCEPT !.read = saved] ELSE loads[i]
    BY <1>2, <2>2
  <2>5. /\ ([loads[k] EXCEPT !.read = saved]).moves = loads[k].moves
        /\ ([loads[k] EXCEPT !.read = saved]).device = loads[k].device
        /\ ([loads[k] EXCEPT !.read = saved]).read = saved
    BY <1>2 DEF Load
  <2> QED
    BY <2>3, <2>4, <2>5
<1>5. ChartTyped'
  BY <1>1, <1>3, <1>4 DEF ChartTyped
<1>6. loads # <<>> /\ loads' # <<>> /\ (~crossed => Len(loads) = 1 /\ k = 1 /\ 1 \in DOMAIN loads)
  BY <1>2, <1>4 DEF LastChoice
<1>7. Publishing' /\ StreamInOrder' /\ DrawnFromStore' /\ UnsavedComes' /\ NoneMissed'
  BY <1>1, <1>6 DEF Publishing, StreamInOrder, DrawnFromStore, UnsavedComes, NoneMissed, Of, OnItsWay, Queue
<1>8. LastChoice'
  BY <1>1, <1>4, <1>6 DEF LastChoice
<1>9. StreamFollows'
  BY <1>1, <1>4 DEF StreamFollows
<1>10. ~crossed => loads'[1].read = saved
  BY <1>4, <1>6
<1>11. DrawnBeforeRead'
  BY <1>1, <1>10 DEF DrawnBeforeRead, DrawnFromStore
<1>12. LaterComes'
  BY <1>1, <1>10 DEF LaterComes, UnsavedComes, Of, OnItsWay, Queue
<1> QED
  BY <1>5, <1>7, <1>8, <1>9, <1>11, <1>12

\* A request that has ended, and where it leaves the others.
LEMMA RequestEnded ==
  ASSUME ChartInv, NEW k \in DOMAIN loads, loads' = RemoveAt(loads, k), UNCHANGED <<saved, selected, range, crossed>>
  PROVE  /\ loads' \in Seq(Load) /\ \A j \in DOMAIN loads' : loads'[j].read \in Unread .. saved'
         /\ ~crossed => /\ loads' = <<>> /\ k = 1 /\ loads # <<>>
                        /\ range = "history" /\ loads[k].device = selected
         /\ (\E j \in DOMAIN loads : loads[j].moves) => loads[k].moves \/ \E j \in DOMAIN loads' : loads'[j].moves
         /\ (~crossed /\ ~loads[k].moves) => stream.device = selected
<1>1. loads \in Seq(Load) /\ k \in 1 .. Len(loads) /\ \A j \in DOMAIN loads : loads[j].read \in Unread .. saved
  BY DEF ChartInv, ChartTyped
<1>2. /\ loads' \in Seq(Load) /\ Len(loads') = Len(loads) - 1
      /\ \A i \in DOMAIN loads' : \E j \in DOMAIN loads : loads'[i] = loads[j]
      /\ \A j \in DOMAIN loads : j # k => \E i \in DOMAIN loads' : loads'[i] = loads[j]
  BY <1>1, Removed
<1>3. \A j \in DOMAIN loads' : loads'[j].read \in Unread .. saved'
  BY <1>1, <1>2
<1>4. ASSUME ~crossed PROVE /\ loads' = <<>> /\ k = 1 /\ loads # <<>> /\ DOMAIN loads = {1}
                            /\ range = "history" /\ loads[k].device = selected
  <2>1. loads # <<>>
    BY <1>1
  <2>2. Len(loads) = 1 /\ loads[1].device = selected /\ range = "history"
    BY <1>4, <2>1 DEF ChartInv, LastChoice
  <2>3. k = 1 /\ Len(loads') = 0 /\ DOMAIN loads = {1}
    BY <1>1, <1>2, <2>2
  <2> QED
    BY <1>2, <2>1, <2>2, <2>3
<1>5. ASSUME \E j \in DOMAIN loads : loads[j].moves PROVE loads[k].moves \/ \E j \in DOMAIN loads' : loads'[j].moves
  BY <1>2, <1>5
<1>6. ASSUME ~crossed, ~loads[k].moves PROVE stream.device = selected
  BY <1>4, <1>6 DEF ChartInv, StreamFollows
<1> QED
  BY <1>2, <1>3, <1>4, <1>5, <1>6

LEMMA AnswerHistoryKeeps ==
  ASSUME ChartInv, NEW k \in DOMAIN loads, AnswerHistory(k)
  PROVE  ChartInv'
<1> DEFINE load == loads[k]
<1>1. /\ load.read # Unread /\ chart' = Of(load.device, 1 .. load.read) /\ loads' = RemoveAt(loads, k)
      /\ IF load.moves THEN MoveStream(selected) /\ gone' = {}
         ELSE UNCHANGED <<stream, cursor, pub>> /\ gone' = {i \in (1 .. cursor) \cup gone : i > load.read}
      /\ UNCHANGED <<uplinks, saved, selected, range, crossed>>
  BY DEF AnswerHistory, LoadHistory, KeepStream, source, choice
<1>2. /\ loads' \in Seq(Load) /\ \A j \in DOMAIN loads' : loads'[j].read \in Unread .. saved'
      /\ ~crossed => loads' = <<>> /\ k = 1 /\ loads # <<>> /\ range = "history" /\ load.device = selected
      /\ (\E j \in DOMAIN loads : loads[j].moves) => load.moves \/ \E j \in DOMAIN loads' : loads'[j].moves
      /\ (~crossed /\ ~load.moves) => stream.device = selected
  BY <1>1, RequestEnded
<1> USE DEF ChartInv
<1>3. /\ load.read \in 0 .. saved /\ saved \in 0 .. Len(uplinks) /\ Len(uplinks) \in Nat /\ cursor \in 0 .. Len(uplinks)
      /\ load.device \in Sensors /\ gone \subseteq 1 .. Len(uplinks) /\ load.moves \in BOOLEAN /\ selected \in Sensors
  <2>1. load \in Load /\ load.read \in Unread .. saved /\ saved \in 0 .. Len(uplinks) /\ Len(uplinks) \in Nat
    BY DEF ChartTyped
  <2> QED
    BY <1>1, <2>1 DEF ChartTyped, Load, Unread
<1> HIDE DEF load
<1>4. chart' \subseteq 1 .. Len(uplinks) /\ \A i \in chart' : i <= saved /\ uplinks[i] = load.device
  BY <1>1, <1>3 DEF Of
<1>5. LastChoice' /\ DrawnFromStore' /\ DrawnBeforeRead' /\ LaterComes'
  BY <1>1, <1>2, <1>4 DEF LastChoice, DrawnFromStore, DrawnBeforeRead, LaterComes
<1>6. CASE load.moves
  <2>1. MoveStream(selected) /\ gone' = {} /\ UNCHANGED <<uplinks, saved>>
    BY <1>1, <1>6
  <2>2. /\ stream' \in Streams
        /\ stream'.since <= Len(uplinks') /\ stream'.queue = <<>> /\ stream'.at = "connecting"
        /\ stream'.device = selected /\ cursor' \in 0 .. Len(uplinks')
        /\ pub' \in [at : {"idle", "numbered", "saved"}, heard : BOOLEAN]
        /\ Publishing' /\ StreamInOrder' /\ UnsavedComes' /\ cursor' = 0
        /\ \A i : OnItsWay(i)'
    <3> HIDE DEF ChartInv
    <3> QED
      BY <1>3, <2>1, Reconnecting
  <2>3. ChartTyped'
    BY <1>1, <1>2, <1>4, <2>1, <2>2 DEF ChartTyped
  <2>4. StreamFollows'
    BY <1>1, <2>2 DEF StreamFollows
  <2>5. NoneMissed'
    BY <1>1, <1>3, <2>2 DEF NoneMissed, Of
  <2> QED
    BY <1>5, <2>2, <2>3, <2>4, <2>5
<1>7. CASE ~load.moves
  <2>1. UNCHANGED <<stream, cursor, pub>> /\ gone' = {i \in (1 .. cursor) \cup gone : i > load.read}
    BY <1>1, <1>7
  <2>2. gone' \subseteq 1 .. Len(uplinks)
    <3>1. \A i \in 1 .. cursor : i \in 1 .. Len(uplinks)
      BY <1>3
    <3> QED
      BY <1>3, <2>1, <3>1
  <2>3. ChartTyped'
    BY <1>1, <1>2, <1>4, <2>1, <2>2 DEF ChartTyped
  <2>4. StreamFollows'
    BY <1>1, <1>2, <1>7, <2>1 DEF StreamFollows
  <2>5. Publishing' /\ StreamInOrder'
    BY <1>1, <2>1 DEF Publishing, StreamInOrder
  <2>6. \A i : OnItsWay(i)' <=> OnItsWay(i)
    BY <1>1, <2>1 DEF OnItsWay, Queue
  <2>7. UnsavedComes'
    <3> SUFFICES ASSUME NEW i \in Of(stream.device, 1 .. Len(uplinks)), i > cursor, i > saved
                 PROVE  OnItsWay(i) \/ i \in gone'
      BY <1>1, <2>1, <2>6 DEF UnsavedComes, Of
    <3>1. OnItsWay(i) \/ i \in gone
      BY DEF UnsavedComes
    <3>2. i > load.read
      BY <1>3 DEF Of
    <3> QED
      BY <2>1, <3>1, <3>2
  <2>8. NoneMissed'
    <3> SUFFICES ASSUME ~crossed, NEW i \in Of(selected, 1 .. Len(uplinks))
                 PROVE  i \in chart' \/ i \in gone' \/ (i > cursor /\ OnItsWay(i))
      BY <1>1, <2>1, <2>6 DEF NoneMissed, Of
    <3>1. i \in 1 .. Len(uplinks) /\ uplinks[i] = selected /\ stream.device = selected /\ load.device = selected /\ k = 1
          /\ loads # <<>>
      BY <1>2, <1>7 DEF Of
    <3>2. CASE i <= load.read
      BY <1>1, <1>3, <3>1, <3>2 DEF Of
    <3>3. CASE i > load.read /\ i <= cursor
      BY <1>3, <2>1, <3>1, <3>3
    <3>4. CASE i > load.read /\ i > cursor
      <4>1. loads[1].read # Unread /\ i > loads[1].read /\ i \in Of(stream.device, 1 .. Len(uplinks))
        BY <1>1, <3>1, <3>4 DEF load, Of
      <4>2. OnItsWay(i) \/ i \in gone
        BY <3>1, <3>4, <4>1 DEF LaterComes
      <4> QED
        BY <2>1, <3>4, <4>2
    <3> QED
      BY <1>3, <3>1, <3>2, <3>3, <3>4
  <2> QED
    BY <1>5, <2>3, <2>4, <2>5, <2>7, <2>8
<1> QED
  BY <1>6, <1>7

LEMMA FailHistoryKeeps ==
  ASSUME ChartInv, NEW k \in DOMAIN loads, FailHistory(k)
  PROVE  ChartInv'
<1> DEFINE load == loads[k]
<1>1. /\ chart' = {} /\ loads' = RemoveAt(loads, k) /\ gone' = DOMAIN uplinks
      /\ IF load.moves THEN MoveStream(selected) ELSE UNCHANGED <<stream, cursor, pub>>
      /\ UNCHANGED <<uplinks, saved, selected, range, crossed>>
  BY DEF FailHistory, KeepStream, source, choice
<1>2. /\ loads' \in Seq(Load) /\ \A j \in DOMAIN loads' : loads'[j].read \in Unread .. saved'
      /\ ~crossed => loads' = <<>> /\ k = 1 /\ loads # <<>> /\ range = "history" /\ load.device = selected
      /\ (\E j \in DOMAIN loads : loads[j].moves) => load.moves \/ \E j \in DOMAIN loads' : loads'[j].moves
      /\ (~crossed /\ ~load.moves) => stream.device = selected
  BY <1>1, RequestEnded
<1> HIDE DEF load
<1> USE DEF ChartInv
<1>3. gone' = 1 .. Len(uplinks) /\ selected \in Sensors
  BY <1>1 DEF ChartTyped
<1>4. LastChoice' /\ DrawnFromStore' /\ DrawnBeforeRead' /\ LaterComes' /\ NoneMissed'
  BY <1>1, <1>2, <1>3 DEF LastChoice, DrawnFromStore, DrawnBeforeRead, LaterComes, NoneMissed, Of
<1>5. CASE load.moves
  <2>1. MoveStream(selected) /\ UNCHANGED <<uplinks, saved>>
    BY <1>1, <1>5
  <2>2. /\ stream' \in Streams
        /\ stream'.since <= Len(uplinks') /\ stream'.queue = <<>> /\ stream'.at = "connecting"
        /\ stream'.device = selected /\ cursor' \in 0 .. Len(uplinks')
        /\ pub' \in [at : {"idle", "numbered", "saved"}, heard : BOOLEAN]
        /\ Publishing' /\ StreamInOrder' /\ UnsavedComes' /\ cursor' = 0
        /\ \A i : OnItsWay(i)'
    <3> HIDE DEF ChartInv
    <3> QED
      BY <1>3, <2>1, Reconnecting
  <2>3. ChartTyped'
    BY <1>1, <1>2, <1>3, <2>1, <2>2 DEF ChartTyped
  <2>4. StreamFollows'
    BY <1>1, <2>2 DEF StreamFollows
  <2> QED
    BY <1>4, <2>2, <2>3, <2>4
<1>6. CASE ~load.moves
  <2>1. UNCHANGED <<stream, cursor, pub>>
    BY <1>1, <1>6
  <2>2. ChartTyped'
    BY <1>1, <1>2, <1>3, <2>1 DEF ChartTyped
  <2>3. StreamFollows'
    BY <1>1, <1>2, <1>6, <2>1 DEF StreamFollows
  <2>4. Publishing' /\ StreamInOrder' /\ UnsavedComes'
    BY <1>1, <1>3, <2>1 DEF Publishing, StreamInOrder, UnsavedComes, Of
  <2> QED
    BY <1>4, <2>2, <2>3, <2>4
<1> QED
  BY <1>5, <1>6

\* No step of the charts breaks their invariant.
LEMMA ChartsStep == ChartInv /\ [ChartsNext]_chartVars => ChartInv'
<1>1. CASE ChartInv /\ ChartsNext
  <2> USE <1>1 DEF ChartsNext
  <2>1. ASSUME NEW d \in Sensors, NumberUplink(d) PROVE ChartInv'
    BY <2>1, NumberUplinkKeeps
  <2>2. ASSUME NEW d \in Sensors, ChooseDevice(d) PROVE ChartInv'
    BY <2>2, ChooseDeviceKeeps
  <2>3. ASSUME NEW r \in {"live", "history"}, ChooseRange(r) PROVE ChartInv'
    BY <2>3, ChooseRangeKeeps
  <2>4. ASSUME NEW k \in DOMAIN loads, ReadHistory(k) PROVE ChartInv'
    BY <2>4, ReadHistoryKeeps
  <2>5. ASSUME NEW k \in DOMAIN loads, AnswerHistory(k) PROVE ChartInv'
    BY <2>5, AnswerHistoryKeeps
  <2>6. ASSUME NEW k \in DOMAIN loads, FailHistory(k) PROVE ChartInv'
    BY <2>6, FailHistoryKeeps
  <2>7. CASE SaveReading
    BY <2>7, SaveReadingKeeps
  <2>8. CASE PutUplink
    BY <2>8, PutUplinkKeeps
  <2>9. CASE OpenCharts
    BY <2>9, OpenChartsKeeps
  <2>10. CASE BreakCharts
    BY <2>10, BreakChartsKeeps
  <2>11. CASE DeliverUplink
    BY <2>11, DeliverUplinkKeeps
  <2>12. CASE ReconnectCharts
    BY <2>12, ReconnectChartsKeeps
  <2> QED
    BY <2>1, <2>2, <2>3, <2>4, <2>5, <2>6, <2>7, <2>8, <2>9, <2>10, <2>11, <2>12
<1>2. CASE ChartInv /\ UNCHANGED chartVars
  <2>1. UNCHANGED <<uplinks, saved, pub, selected, range, loads, chart, stream, cursor, crossed, gone>>
    BY <1>2 DEF chartVars
  <2>2. ChartTyped' /\ Publishing' /\ LastChoice' /\ StreamFollows' /\ StreamInOrder'
    BY <1>2, <2>1 DEF ChartInv, ChartTyped, Publishing, LastChoice, StreamFollows, StreamInOrder
  <2>3. DrawnFromStore' /\ DrawnBeforeRead' /\ LaterComes' /\ UnsavedComes' /\ NoneMissed'
    BY <1>2, <2>1 DEF ChartInv, DrawnFromStore, DrawnBeforeRead, LaterComes, UnsavedComes, NoneMissed, OnItsWay, Queue, Of
  <2> QED
    BY <2>2, <2>3 DEF ChartInv
<1> QED
  BY <1>1, <1>2

\* What the invariant of the charts is for.
LEMMA ChartsMean == ChartInv => ChartsTypeOK /\ ChartIsTrue
<1> SUFFICES ASSUME ChartInv PROVE ChartsTypeOK /\ ChartIsTrue
  OBVIOUS
<1> USE DEF ChartInv
<1>1. ChartsTypeOK
  <2>1. DOMAIN uplinks = 1 .. Len(uplinks)
    BY DEF ChartTyped
  <2>2. \A k \in DOMAIN loads : loads[k] \in [device : Sensors, moves : BOOLEAN, read : Unread .. saved]
    <3> SUFFICES ASSUME NEW k \in DOMAIN loads
                 PROVE  loads[k] \in [device : Sensors, moves : BOOLEAN, read : Unread .. saved]
      OBVIOUS
    <3>1. loads[k] \in Load /\ loads[k].read \in Unread .. saved
      BY DEF ChartTyped
    <3> QED
      BY <3>1 DEF Load
  <2>3. stream \in [at : {"connecting", "open", "down"}, device : Sensors,
                    since : 0 .. Len(uplinks), queue : Seq(DOMAIN uplinks)]
    <3> DEFINE I == 0 .. Len(uplinks)
               Q == Seq(DOMAIN uplinks)
               N == Seq(Nat)
    <3>1. stream \in [at : {"connecting", "open", "down"}, device : Sensors, since : Nat, queue : N]
      BY DEF ChartTyped, Streams
    <3>2. stream.since \in I
      BY <3>1 DEF ChartTyped
    <3>3. stream.queue \in Q
      <4>1. stream.queue \in Seq(Nat) /\ \A q \in DOMAIN stream.queue : stream.queue[q] \in DOMAIN uplinks
        BY <2>1, <3>1 DEF ChartTyped
      <4> QED
        BY <4>1
    <3> HIDE DEF I, Q, N
    <3>4. stream \in [at : {"connecting", "open", "down"}, device : Sensors, since : I, queue : Q]
      BY <3>1, <3>2, <3>3
    <3> QED
      BY <3>4 DEF I, Q
  <2> QED
    BY <2>1, <2>2, <2>3 DEF ChartTyped, ChartsTypeOK
<1>2. ChartIsTrue
  <2> SUFFICES ASSUME ChartsQuiet, ~crossed
               PROVE  /\ \A i \in chart : uplinks[i] = selected
                      /\ range = "history" => Of(selected, 1 .. saved) \subseteq chart \cup gone
    BY DEF ChartIsTrue
  <2>1. loads = <<>> /\ stream.at = "open" /\ stream.queue = <<>> /\ ~pub.heard
    BY DEF ChartsQuiet, Publishing
  <2>2. \A i \in chart : uplinks[i] = selected
    BY <2>1 DEF LastChoice
  <2>3. \A i : ~OnItsWay(i)
    BY <2>1 DEF OnItsWay, Queue
  <2>4. range = "history" => Of(selected, 1 .. saved) \subseteq chart \cup gone
    <3>1. \A i \in Of(selected, 1 .. saved) : i \in Of(selected, 1 .. Len(uplinks))
      BY DEF ChartTyped, Of
    <3> QED
      BY <2>1, <2>3, <3>1 DEF NoneMissed
  <2> QED
    BY <2>2, <2>4
<1> QED
  BY <1>1, <1>2

-----------------------------------------------------------------------------
(* A Memfault panel.                                                       *)

Panels == [device : Devices \cup {Nothing}, health : Devices \cup {Nothing},
           view : Devices \cup {Nothing, "error", "not configured"},
           active : BOOLEAN, timer : BOOLEAN, quick : BOOLEAN]
Calls == [Devices -> [BOOLEAN -> 0 .. MaxCalls]]

\* A panel polls only on the screen, and for health it has.
MayPoll(p) == p.timer => p.active /\ ready /\ p.health # Nothing

PanelInv ==
    /\ kind \in {"health", "analytics"} /\ ready \in BOOLEAN /\ picked \in Devices
    /\ panel \in Panels /\ MayPoll(panel) /\ calls \in Calls

\* A panel begins so.
LEMMA PanelStarts == PanelInit => PanelInv
<1> SUFFICES ASSUME PanelInit PROVE PanelInv
  OBVIOUS
<1> DEFINE no == FALSE
<1>1. no \in BOOLEAN /\ ~no
  OBVIOUS
<1>2. panel = [device |-> Nothing, health |-> Nothing, view |-> Nothing,
               active |-> no, timer |-> no, quick |-> no]
  BY DEF PanelInit
<1> HIDE DEF no
<1>3. panel \in Panels /\ panel.timer = no
  BY <1>1, <1>2 DEF Panels
<1>4. calls \in Calls
  BY PanelParameters DEF PanelInit, Calls
<1> QED
  BY <1>1, <1>3, <1>4 DEF PanelInit, PanelInv, MayPoll

\* One request more or fewer.
LEMMA CallsFacts ==
  ASSUME calls \in Calls, NEW d \in Devices, NEW first \in BOOLEAN, Fetch(d, first) \/ Ended(d, first)
  PROVE  calls' \in Calls
<1>1. calls[d][first] \in 0 .. MaxCalls /\ MaxCalls \in Nat
  BY PanelParameters DEF Calls
<1>2. PICK n \in 0 .. MaxCalls : calls' = [calls EXCEPT ![d] = [calls[d] EXCEPT ![first] = n]]
  <2>1. CASE Fetch(d, first)
    <3>1. calls[d][first] + 1 \in 0 .. MaxCalls
      BY <1>1, <2>1 DEF Fetch
    <3> QED
      BY <2>1, <3>1 DEF Fetch
  <2>2. CASE Ended(d, first)
    <3>1. calls[d][first] - 1 \in 0 .. MaxCalls
      BY <1>1, <2>2 DEF Ended
    <3> QED
      BY <2>2, <3>1 DEF Ended
  <2> QED
    BY <2>1, <2>2
<1>3. [calls[d] EXCEPT ![first] = n] \in [BOOLEAN -> 0 .. MaxCalls]
  BY DEF Calls
<1> QED
  BY <1>2, <1>3 DEF Calls

\* The finally of a request sets the timer only when it may.
LEMMA PollMayStart ==
  ASSUME ready \in BOOLEAN, NEW p \in Panels, MayPoll(p), NEW first \in BOOLEAN
  PROVE  Finally(p, first) \in Panels /\ MayPoll(Finally(p, first))
<1> DEFINE t == p.timer \/ (first /\ p.active /\ ready /\ p.health # Nothing)
<1>1. Finally(p, first) = [p EXCEPT !.timer = t]
  BY DEF Finally
<1>2. t => p.active /\ ready /\ p.health # Nothing
  BY DEF MayPoll
<1>3. t \in BOOLEAN
  OBVIOUS
<1> HIDE DEF t
<1> DEFINE r == [p EXCEPT !.timer = t]
<1>4. r \in Panels /\ r.timer = t /\ r.active = p.active /\ r.health = p.health
  BY <1>3 DEF Panels
<1> HIDE DEF r
<1>5. MayPoll(r)
  BY <1>2, <1>4 DEF MayPoll
<1> QED
  BY <1>1, <1>4, <1>5 DEF r

\* No step of a panel breaks its invariant.
LEMMA PanelStep == PanelInv /\ [PanelNext]_panelVars => PanelInv'
<1> SUFFICES ASSUME PanelInv, [PanelNext]_panelVars PROVE PanelInv'
  OBVIOUS
<1> DEFINE sure == TRUE
           no == FALSE
<1>1. sure \in BOOLEAN /\ sure /\ no \in BOOLEAN /\ ~no
  OBVIOUS
<1>2. CASE ActivateTab
  <2>1. panel' = [Synced EXCEPT !.active = sure] /\ Fetch(picked, sure) /\ UNCHANGED <<kind, ready, picked>>
    BY <1>2 DEF ActivateTab, setting
  <2>2. Synced = panel \/ \E v \in Devices \cup {Nothing, "error", "not configured"} :
            Synced = [panel EXCEPT !.device = picked, !.health = Nothing, !.timer = no, !.view = v]
    <3>1. panel.view \in Devices \cup {Nothing, "error", "not configured"}
      BY DEF PanelInv, Panels
    <3> DEFINE v == IF kind = "analytics" THEN Nothing ELSE panel.view
    <3>2. v \in Devices \cup {Nothing, "error", "not configured"}
      BY <3>1
    <3>3. Synced = IF picked = panel.device THEN panel
                   ELSE [panel EXCEPT !.device = picked, !.health = Nothing, !.timer = no, !.view = v]
      BY DEF Synced
    <3> HIDE DEF v, no
    <3> QED
      BY <3>2, <3>3
  <2> HIDE DEF sure, no
  <2>3. picked \in Devices /\ panel \in Panels /\ MayPoll(panel) /\ calls \in Calls /\ ready \in BOOLEAN
    BY DEF PanelInv
  <2>4. Synced \in Panels /\ MayPoll(Synced)
    <3>1. CASE Synced = panel
      BY <2>3, <3>1
    <3>2. ASSUME NEW v \in Devices \cup {Nothing, "error", "not configured"},
                 Synced = [panel EXCEPT !.device = picked, !.health = Nothing, !.timer = no, !.view = v]
          PROVE  Synced \in Panels /\ MayPoll(Synced)
      <4>1. Synced \in Panels /\ Synced.timer = no
        BY <1>1, <2>3, <3>2 DEF Panels
      <4> QED
        BY <1>1, <4>1 DEF MayPoll
    <3> QED
      BY <2>2, <3>1, <3>2
  <2> DEFINE q == Synced
  <2>5. q \in Panels /\ MayPoll(q) /\ panel' = [q EXCEPT !.active = sure]
    BY <2>1, <2>4
  <2> HIDE DEF q
  <2>6. panel' \in Panels /\ panel'.active = sure /\ panel'.timer = q.timer /\ panel'.health = q.health
    BY <1>1, <2>5 DEF Panels
  <2>7. MayPoll(panel)'
    BY <1>1, <2>1, <2>5, <2>6 DEF MayPoll
  <2>8. calls' \in Calls
    BY <1>1, <2>1, <2>3, CallsFacts
  <2> QED
    BY <2>1, <2>6, <2>7, <2>8 DEF PanelInv
<1>3. CASE LeaveTab
  <2>1. panel' = [panel EXCEPT !.active = no, !.timer = no, !.quick = no] /\ UNCHANGED <<kind, ready, picked, calls>>
    BY <1>3 DEF LeaveTab, setting
  <2> HIDE DEF no
  <2>2. panel' \in Panels /\ panel'.timer = no
    BY <1>1, <2>1 DEF PanelInv, Panels
  <2> QED
    BY <1>1, <2>1, <2>2 DEF PanelInv, MayPoll
<1>4. CASE Poll
  <2>1. Fetch(panel.device, no) /\ panel.timer /\ UNCHANGED <<kind, ready, picked, panel>>
    BY <1>4 DEF Poll, setting
  <2> HIDE DEF no
  <2>2. calls' \in Calls
    <3>1. panel.device \in Devices \/ panel.device = Nothing
      BY DEF PanelInv, Panels
    <3>2. CASE panel.device \in Devices
      BY <1>1, <2>1, <3>2, CallsFacts DEF PanelInv
    <3>3. CASE panel.device = Nothing
      BY <1>1, <2>1, <3>3, NothingIsNoDevice DEF PanelInv, Calls, Fetch
    <3> QED
      BY <3>1, <3>2, <3>3
  <2> QED
    BY <2>1, <2>2 DEF PanelInv, MayPoll
<1>5. CASE Nudge
  <2>1. panel' = [panel EXCEPT !.quick = sure] /\ UNCHANGED <<kind, ready, picked, calls>>
    BY <1>5 DEF Nudge, setting
  <2> HIDE DEF sure
  <2>2. panel' \in Panels /\ panel'.timer = panel.timer /\ panel'.active = panel.active /\ panel'.health = panel.health
    BY <1>1, <2>1 DEF PanelInv, Panels
  <2> QED
    BY <2>1, <2>2 DEF PanelInv, MayPoll
<1>6. CASE QuickRefresh
  <2>1. panel' = [panel EXCEPT !.quick = no] /\ Fetch(panel.device, no) /\ UNCHANGED <<kind, ready, picked>>
    BY <1>6 DEF QuickRefresh, setting
  <2> HIDE DEF no
  <2>2. panel' \in Panels /\ panel'.timer = panel.timer /\ panel'.active = panel.active /\ panel'.health = panel.health
    BY <1>1, <2>1 DEF PanelInv, Panels
  <2>3. calls' \in Calls
    <3>1. panel.device \in Devices \/ panel.device = Nothing
      BY DEF PanelInv, Panels
    <3>2. CASE panel.device \in Devices
      BY <1>1, <2>1, <3>2, CallsFacts DEF PanelInv
    <3>3. CASE panel.device = Nothing
      BY <1>1, <2>1, <3>3, NothingIsNoDevice DEF PanelInv, Calls, Fetch
    <3> QED
      BY <3>1, <3>2, <3>3
  <2> QED
    BY <2>1, <2>2, <2>3 DEF PanelInv, MayPoll
<1>7. ASSUME NEW d \in Devices, PickDevice(d) PROVE PanelInv'
  BY <1>7 DEF PickDevice, PanelInv, MayPoll
<1>8. ASSUME NEW d \in Devices, NEW first \in BOOLEAN, AnswerHealth(d, first) PROVE PanelInv'
  <2> DEFINE v == IF ready THEN d ELSE "not configured"
             p == [panel EXCEPT !.health = d, !.view = v]
  <2>1. panel' = Finally(p, first) /\ Ended(d, first) /\ UNCHANGED <<kind, ready, picked>>
    BY <1>8 DEF AnswerHealth, setting
  <2>2. v \in Devices \cup {Nothing, "error", "not configured"} /\ d # Nothing
    BY NothingIsNoDevice
  <2> HIDE DEF v
  <2>3. p \in Panels /\ p.timer = panel.timer /\ p.active = panel.active /\ p.health = d
    BY <2>2 DEF PanelInv, Panels
  <2> HIDE DEF p
  <2>4. MayPoll(p)
    BY <2>2, <2>3 DEF MayPoll, PanelInv
  <2>5. panel' \in Panels /\ MayPoll(panel')
    BY <2>1, <2>3, <2>4, PollMayStart DEF PanelInv
  <2>6. calls' \in Calls
    BY <2>1, CallsFacts DEF PanelInv
  <2> QED
    BY <2>1, <2>5, <2>6 DEF PanelInv, MayPoll
<1>9. ASSUME NEW d \in Devices, NEW first \in BOOLEAN, FailHealth(d, first) PROVE PanelInv'
  <2> DEFINE p == [panel EXCEPT !.view = "error"]
  <2>1. panel' = Finally(p, first) /\ Ended(d, first) /\ UNCHANGED <<kind, ready, picked>>
    BY <1>9 DEF FailHealth, setting
  <2>3. p \in Panels /\ p.timer = panel.timer /\ p.active = panel.active /\ p.health = panel.health
    BY DEF PanelInv, Panels
  <2> HIDE DEF p
  <2>4. MayPoll(p)
    BY <2>3 DEF MayPoll, PanelInv
  <2>5. panel' \in Panels /\ MayPoll(panel')
    BY <2>1, <2>3, <2>4, PollMayStart DEF PanelInv
  <2>6. calls' \in Calls
    BY <2>1, CallsFacts DEF PanelInv
  <2> QED
    BY <2>1, <2>5, <2>6 DEF PanelInv, MayPoll
<1>10. CASE UNCHANGED panelVars
  BY <1>10 DEF panelVars, PanelInv, MayPoll
<1> QED
  BY <1>2, <1>3, <1>4, <1>5, <1>6, <1>7, <1>8, <1>9, <1>10 DEF PanelNext

\* What the invariant of a panel is for.
LEMMA PanelMeans == PanelInv => PanelTypeOK
  BY DEF PanelInv, PanelTypeOK, Panels, Calls, MayPoll

-----------------------------------------------------------------------------
(* The administrator's feed: the inductive invariant.                      *)

Filters == Sources \cup {"all"}
Sends == [at : {"idle", "taken", "stored", "putting"}, id : Nat, heard : BOOLEAN]
Feeds == [at : {"closed", "connecting", "half", "registered", "open"}, wire : Seq(Nat)]
Fills == [on : BOOLEAN, after : Nat, filter : Filters, upto : Nat, got : Seq(Nat), read : BOOLEAN]

FeedTyped ==
    /\ rows \in Seq(Sources) /\ filter \in Filters /\ stale \in BOOLEAN
    /\ sending \in [Sources -> Sends] /\ \A s \in Sources : sending[s].id <= Len(rows)
    /\ feed \in Feeds /\ Range(feed.wire) \subseteq 1 .. Len(rows)
    /\ fill \in Fills /\ fill.upto <= Len(rows) /\ Range(fill.got) \subseteq 1 .. Len(rows)
    /\ seen \subseteq 1 .. Len(rows) /\ excused \subseteq 1 .. Len(rows)

\* The table is among the ids that are remembered, no row twice, and both keep to their limits.
TableTyped ==
    /\ table \in Seq(1 .. Len(rows)) /\ IsInjective(table) /\ Len(table) <= MaxTable
    /\ Range(table) \subseteq rendered /\ rendered \subseteq 1 .. Len(rows)
    /\ Cardinality(rendered) <= IdMemory /\ newest \in 0 .. Len(rows)

\* Who is at which step of publish().
SendsInStep ==
    /\ sending["sidewalk"].at # "stored" /\ sending["ble"].at # "taken"
    /\ \A s \in Sources : sending[s].at \in {"stored", "putting"} => sending[s].id >= 1

\* But for a reset that was not made, what is drawn and what is asked for passes the filters that stand.
FiltersKept ==
    ~stale => /\ \A i \in DOMAIN table : Passes(table[i], filter)
              /\ fill.on => fill.filter = filter
GotPasses == fill.on /\ fill.read => \A id \in Range(fill.got) : Passes(id, fill.filter)

NewestSeen == newest = 0 \/ newest \in seen

\* An answer brings rows between the cursor it was asked with and the newest row it read ...
GotWithin ==
    fill.on => /\ fill.after <= newest
               /\ fill.read => \A id \in Range(fill.got) : fill.after < id /\ id <= fill.upto
\* ... and all of them, but for what the limit cut.
GotComplete ==
    fill.on /\ fill.read /\ ~stale =>
        \A id \in 1 .. fill.upto : fill.after < id /\ Passes(id, filter) => id \in Range(fill.got) \cup excused

Sending(id) == \E s \in Sources : sending[s].id = id /\ sending[s].at \in {"stored", "putting"}
Filling(id) == fill.on /\ IF fill.read THEN id \in Range(fill.got) ELSE id > fill.after

\* A row that the table should show was drawn, is on its way, is ahead of a page
\* whose stream is not open, or is missing for a named reason.
Accounted(id) ==
    \/ id \in seen \/ id \in excused
    \/ id \in Range(feed.wire) \/ Sending(id) \/ Filling(id)
    \/ feed.at # "open" /\ id > newest
AllAccounted == ~stale => \A id \in 1 .. Len(rows) : Passes(id, filter) => Accounted(id)

FeedInv ==
    /\ FeedTyped /\ TableTyped /\ SendsInStep
    /\ FiltersKept /\ GotPasses /\ NewestSeen /\ GotWithin /\ GotComplete /\ AllAccounted

-----------------------------------------------------------------------------
(* What renderRow makes of the table.                                      *)

\* What renderRow makes of a view: its rows are ids it has drawn, none twice.
View(v, n) ==
    /\ v.table \in Seq(1 .. n) /\ IsInjective(v.table) /\ Len(v.table) <= MaxTable
    /\ Range(v.table) \subseteq v.rendered /\ v.rendered \subseteq 1 .. n
    /\ Cardinality(v.rendered) <= IdMemory /\ v.newest \in 0 .. n

\* renderRow keeps a view one, and adds at most its own row.
LEMMA DrawKeeps ==
  ASSUME NEW n \in Nat, NEW v, View(v, n), NEW id \in 1 .. n
  PROVE  LET w == Draw(v, id)
         IN  /\ View(w, n) /\ w.newest >= v.newest /\ (w.newest = v.newest \/ w.newest = id)
             /\ Range(w.table) \subseteq Range(v.table) \cup {id}
<1> DEFINE w == Draw(v, id)
<1> SUFFICES /\ View(w, n) /\ w.newest >= v.newest /\ (w.newest = v.newest \/ w.newest = id)
             /\ Range(w.table) \subseteq Range(v.table) \cup {id}
  OBVIOUS
<1>0. /\ v.table \in Seq(1 .. n) /\ Len(v.table) \in Nat /\ DOMAIN v.table = 1 .. Len(v.table)
      /\ v.newest \in Nat /\ id \in Nat /\ MaxTable \in Nat \ {0} /\ IdMemory \in Nat /\ MaxTable <= IdMemory
  BY FeedParameters DEF View
<1>1. CASE id \in v.rendered
  <2>1. w = v
    BY <1>1 DEF Draw
  <2> HIDE DEF w
  <2> QED
    BY <1>0, <2>1
<1>2. CASE id \notin v.rendered
  <2> DEFINE longer == <<id>> \o v.table
             m == IF Len(longer) > MaxTable THEN MaxTable ELSE Len(longer)
             shown == SubSeq(longer, 1, m)
             ids1 == v.rendered \cup {id}
             kept == IF Cardinality(ids1) > IdMemory THEN Range(shown) ELSE ids1
             new == IF id > v.newest THEN id ELSE v.newest
  <2>1. w = [table |-> shown, rendered |-> kept, newest |-> new]
    BY <1>2 DEF Draw
  <2>2. w.table = shown /\ w.rendered = kept /\ w.newest = new
    <3> HIDE DEF w, longer, m, shown, ids1, kept, new
    <3> QED
      BY <2>1
  <2> HIDE DEF w
  <2>3. /\ longer \in Seq(1 .. n) /\ Len(longer) = Len(v.table) + 1
        /\ longer[1] = id /\ \A i \in 2 .. Len(v.table) + 1 : longer[i] = v.table[i - 1]
    <3>1. <<id>> \in Seq(1 .. n) /\ Len(<<id>>) = 1
      OBVIOUS
    <3>2. longer \in Seq(1 .. n) /\ Len(longer) = Len(v.table) + 1
      BY <1>0, <3>1, ConcatProperties
    <3> QED
      BY <1>0, <3>1, <3>2
  <2> HIDE DEF longer
  <2>4. m \in Nat /\ m <= MaxTable /\ m <= Len(v.table) + 1 /\ m >= 1
    BY <1>0, <2>3
  <2>5. /\ shown \in Seq(1 .. n) /\ Len(shown) = m /\ DOMAIN shown = 1 .. m
        /\ \A i \in 1 .. m : shown[i] = longer[i]
    <3>1. m \in 1 .. Len(longer) /\ Len(longer) \in Nat
      BY <1>0, <2>3, <2>4
    <3> HIDE DEF m
    <3>2. shown \in Seq(1 .. n) /\ Len(shown) = m /\ \A i \in 1 .. m : shown[i] = longer[i]
      BY <2>3, <2>4, <3>1, SubSeqProperties
    <3> QED
      BY <3>2
  <2> HIDE DEF m, shown
  <2>6. \A i \in 1 .. m : i = 1 \/ (i \in 2 .. Len(v.table) + 1 /\ i - 1 \in DOMAIN v.table)
    BY <1>0, <2>4
  <2>7. \A i \in 1 .. m : shown[i] = IF i = 1 THEN id ELSE v.table[i - 1]
    BY <2>3, <2>4, <2>5, <2>6
  <2>8. Range(shown) \subseteq Range(v.table) \cup {id}
    <3> SUFFICES ASSUME NEW i \in 1 .. m PROVE shown[i] \in Range(v.table) \cup {id}
      BY <2>5 DEF Range
    <3>1. i = 1 \/ (i - 1 \in DOMAIN v.table /\ shown[i] = v.table[i - 1])
      BY <2>6, <2>7
    <3> QED
      BY <2>7, <3>1 DEF Range
  <2>9. id \notin Range(v.table)
    BY <1>2 DEF View
  <2>10. IsInjective(shown)
    <3> SUFFICES ASSUME NEW i \in 1 .. m, NEW j \in 1 .. m, shown[i] = shown[j], i # j PROVE FALSE
      BY <2>5 DEF IsInjective
    <3>1. CASE i = 1
      <4>1. shown[j] = v.table[j - 1] /\ j - 1 \in DOMAIN v.table /\ shown[i] = id
        BY <2>6, <2>7, <3>1
      <4> QED
        BY <2>9, <4>1 DEF Range
    <3>2. CASE j = 1
      <4>1. shown[i] = v.table[i - 1] /\ i - 1 \in DOMAIN v.table /\ shown[j] = id
        BY <2>6, <2>7, <3>2
      <4> QED
        BY <2>9, <4>1 DEF Range
    <3>3. CASE i # 1 /\ j # 1
      <4>1. shown[i] = v.table[i - 1] /\ shown[j] = v.table[j - 1] /\ i - 1 \in DOMAIN v.table /\ j - 1 \in DOMAIN v.table
        BY <2>6, <2>7, <3>3
      <4>2. i - 1 = j - 1
        BY <4>1 DEF View, IsInjective
      <4> QED
        BY <2>4, <4>2
    <3> QED
      BY <3>1, <3>2, <3>3
  <2>11. Range(shown) \subseteq kept /\ kept \subseteq 1 .. n
    <3>1. Range(shown) \subseteq 1 .. n
      BY <2>5 DEF Range
    <3> QED
      BY <2>8, <3>1 DEF View
  <2>12. Cardinality(kept) <= IdMemory
    <3>1. CASE Cardinality(ids1) > IdMemory
      <4>1. IsFiniteSet(1 .. m) /\ Cardinality(1 .. m) = m
        BY <2>4, FS_Interval
      <4>2. shown \in Surjection(1 .. m, Range(shown))
        BY <2>5 DEF Surjection, Range
      <4>3. IsFiniteSet(Range(shown)) /\ Cardinality(Range(shown)) <= m
        BY <4>1, <4>2, FS_Surjection
      <4>4. Cardinality(Range(shown)) \in Nat
        BY <4>3, FS_CardinalityType
      <4> QED
        BY <1>0, <2>4, <3>1, <4>3, <4>4
    <3>2. CASE ~(Cardinality(ids1) > IdMemory)
      <4>1. IsFiniteSet(1 .. n)
        BY FS_Interval
      <4>2. ids1 \in SUBSET (1 .. n)
        BY DEF View
      <4>3. Cardinality(ids1) \in Nat
        BY <4>1, <4>2, FS_Subset, FS_CardinalityType
      <4> HIDE DEF ids1
      <4> QED
        BY <1>0, <3>2, <4>3
    <3> QED
      BY <3>1, <3>2
  <2>13. new \in 0 .. n /\ new >= v.newest /\ (new = v.newest \/ new = id)
    BY <1>0 DEF View
  <2> HIDE DEF kept, new
  <2> QED
    BY <2>2, <2>4, <2>5, <2>8, <2>10, <2>11, <2>12, <2>13 DEF View
<1> QED
  BY <1>1, <1>2

\* FoldLeft(Draw, ...) as a function on the sets of places in the list.
DrawStep(v, ids, g, s) == IF s = {} THEN v ELSE Draw(g[s \ {Max(s)}], ids[Max(s)])
DrawFold(v, ids, D, g) == g = [s \in SUBSET D |-> DrawStep(v, ids, g, s)]
DrawIter(v, ids) == CHOOSE g : DrawFold(v, ids, DOMAIN ids, g)

\* What the first i ids have made of the view.
DrawState(v, ids, i) == DrawIter(v, ids)[1 .. i]

\* Such a function exists.
LEMMA DrawFoldExists ==
  ASSUME NEW v, NEW ids, NEW n \in Nat
  PROVE  \E g : DrawFold(v, ids, 1 .. n, g)
<1> DEFINE T == {m \in Nat : \E g : DrawFold(v, ids, 1 .. m, g)}
<1>1. 0 \in T
  <2> DEFINE g == [s \in SUBSET (1 .. 0) |-> v]
  <2>1. \A s \in SUBSET (1 .. 0) : DrawStep(v, ids, g, s) = v
    BY DEF DrawStep
  <2>2. DrawFold(v, ids, 1 .. 0, g)
    BY <2>1 DEF DrawFold
  <2> QED
    BY <2>2
<1>2. ASSUME NEW m \in Nat, m \in T PROVE m + 1 \in T
  <2>1. PICK g : DrawFold(v, ids, 1 .. m, g)
    BY <1>2
  <2> DEFINE h == [s \in SUBSET (1 .. m + 1) |->
                      IF m + 1 \in s THEN Draw(g[s \ {m + 1}], ids[m + 1]) ELSE g[s]]
  <2>2. ASSUME NEW s \in SUBSET (1 .. m + 1) PROVE h[s] = DrawStep(v, ids, h, s)
    <3>1. CASE m + 1 \in s
      <4>1. Max(s) = m + 1
        <5>1. \A y \in s : m + 1 >= y
          OBVIOUS
        <5>2. \A x \in s : (\A y \in s : x >= y) => x = m + 1
          BY <3>1
        <5> QED
          BY <3>1, <5>1, <5>2 DEF Max
      <4>2. s \ {m + 1} \in SUBSET (1 .. m + 1) /\ m + 1 \notin s \ {m + 1} /\ s # {}
        BY <3>1
      <4>3. h[s \ {m + 1}] = g[s \ {m + 1}]
        BY <4>2
      <4> QED
        BY <3>1, <4>1, <4>2, <4>3 DEF DrawStep
    <3>2. CASE m + 1 \notin s
      <4>1. s \in SUBSET (1 .. m)
        BY <3>2
      <4>2. h[s] = g[s] /\ g[s] = DrawStep(v, ids, g, s)
        BY <2>1, <3>2, <4>1 DEF DrawFold
      <4>3. s \ {Max(s)} \in SUBSET (1 .. m + 1) /\ m + 1 \notin s \ {Max(s)}
        BY <3>2
      <4>4. h[s \ {Max(s)}] = g[s \ {Max(s)}]
        BY <4>3
      <4> QED
        BY <4>2, <4>4 DEF DrawStep
    <3> QED
      BY <3>1, <3>2
  <2>3. DrawFold(v, ids, 1 .. m + 1, h)
    BY <2>2 DEF DrawFold
  <2> QED
    BY <2>3
<1> HIDE DEF T
<1>3. Nat \subseteq T
  BY <1>1, <1>2, NatSetInduction
<1> QED
  BY <1>3 DEF T

\* The ids are drawn in order, one renderRow each.
LEMMA DrawStateUnfolds ==
  ASSUME NEW v, NEW S, NEW ids \in Seq(S)
  PROVE  /\ DrawState(v, ids, 0) = v
         /\ \A i \in 1 .. Len(ids) : DrawState(v, ids, i) = Draw(DrawState(v, ids, i - 1), ids[i])
         /\ FoldLeft(Draw, v, ids) = DrawState(v, ids, Len(ids))
<1> DEFINE n == Len(ids)
           g == DrawIter(v, ids)
<1>1. n \in Nat /\ DOMAIN ids = 1 .. n
  OBVIOUS
<1>2. DrawFold(v, ids, 1 .. n, g)
  <2>1. \E h : DrawFold(v, ids, 1 .. n, h)
    BY <1>1, DrawFoldExists
  <2> QED
    BY <1>1, <2>1 DEF DrawIter
<1>3. FoldLeft(Draw, v, ids) = g[DOMAIN ids]
  BY DEF FoldLeft, MapThenFoldSet, DrawIter, DrawFold, DrawStep
<1> HIDE DEF g, n
<1>4. \A s \in SUBSET (1 .. n) : g[s] = DrawStep(v, ids, g, s)
  BY <1>2 DEF DrawFold
<1>5. g[1 .. 0] = v
  <2>1. 1 .. 0 \in SUBSET (1 .. n) /\ 1 .. 0 = {}
    BY <1>1
  <2>2. g[1 .. 0] = DrawStep(v, ids, g, 1 .. 0)
    BY <2>1, <1>4
  <2> QED
    BY <2>1, <2>2 DEF DrawStep
<1>6. ASSUME NEW i \in 1 .. n PROVE g[1 .. i] = Draw(g[1 .. i - 1], ids[i])
  <2>1. i \in 1 .. i /\ \A y \in 1 .. i : i >= y
    BY <1>1
  <2>2. Max(1 .. i) = i
    <3>1. \A x \in 1 .. i : (\A y \in 1 .. i : x >= y) => x = i
      BY <2>1
    <3> QED
      BY <2>1, <3>1 DEF Max
  <2>3. (1 .. i) \ {i} = 1 .. i - 1 /\ 1 .. i # {} /\ 1 .. i \in SUBSET (1 .. n)
    BY <1>1
  <2>4. g[1 .. i] = DrawStep(v, ids, g, 1 .. i)
    BY <1>4, <2>3
  <2> QED
    BY <2>2, <2>3, <2>4 DEF DrawStep
<1> QED
  BY <1>1, <1>3, <1>5, <1>6 DEF DrawState, g, n

\* What the ids of a list make of a view.
DrawnFrom(v, n, S, w) ==
    /\ View(w, n) /\ w.newest >= v.newest /\ (w.newest = v.newest \/ w.newest \in S)
    /\ Range(w.table) \subseteq Range(v.table) \cup S

\* Rows drawn one after the other keep a view one, and add at most themselves.
LEMMA DrawAllKeeps ==
  ASSUME NEW n \in Nat, NEW v, View(v, n), NEW ids \in Seq(1 .. n)
  PROVE  DrawnFrom(v, n, Range(ids), FoldLeft(Draw, v, ids))
<1> DEFINE S == Range(ids)
           T == {i \in Nat : i <= Len(ids) => DrawnFrom(v, n, S, DrawState(v, ids, i))}
<1>1. /\ DrawState(v, ids, 0) = v
      /\ \A i \in 1 .. Len(ids) : DrawState(v, ids, i) = Draw(DrawState(v, ids, i - 1), ids[i])
      /\ FoldLeft(Draw, v, ids) = DrawState(v, ids, Len(ids))
  BY DrawStateUnfolds
<1>2. Len(ids) \in Nat /\ \A i \in 1 .. Len(ids) : ids[i] \in 1 .. n /\ ids[i] \in S
  BY DEF Range
<1> HIDE DEF S
<1>3. v.newest \in Nat
  BY DEF View
<1>4. 0 \in T
  BY <1>1, <1>3 DEF DrawnFrom
<1>5. ASSUME NEW i \in Nat, i \in T PROVE i + 1 \in T
  <2> SUFFICES ASSUME i + 1 <= Len(ids) PROVE DrawnFrom(v, n, S, DrawState(v, ids, i + 1))
    OBVIOUS
  <2> DEFINE u == DrawState(v, ids, i)
             w == DrawState(v, ids, i + 1)
             id == ids[i + 1]
  <2>1. i + 1 \in 1 .. Len(ids) /\ (i + 1) - 1 = i
    BY <1>2
  <2>2. w = Draw(u, id) /\ id \in 1 .. n /\ id \in S
    BY <1>1, <1>2, <2>1
  <2>3. DrawnFrom(v, n, S, u)
    BY <1>2, <1>5
  <2> HIDE DEF u, w, id
  <2>4. View(u, n) /\ u.newest \in Nat /\ u.newest >= v.newest
    BY <2>3 DEF DrawnFrom, View
  <2>5. /\ View(w, n) /\ w.newest >= u.newest /\ (w.newest = u.newest \/ w.newest = id)
        /\ Range(w.table) \subseteq Range(u.table) \cup {id}
    BY <2>2, <2>4, DrawKeeps
  <2>6. w.newest \in Nat
    BY <2>5 DEF View
  <2>7. w.newest >= v.newest
    BY <1>3, <2>4, <2>5, <2>6
  <2> QED
    BY <2>2, <2>3, <2>5, <2>7 DEF DrawnFrom, w
<1> HIDE DEF T
<1>6. Nat \subseteq T
  BY <1>4, <1>5, NatSetInduction
<1>7. DrawnFrom(v, n, S, DrawState(v, ids, Len(ids)))
  BY <1>2, <1>6 DEF T
<1> QED
  BY <1>1, <1>7 DEF S

-----------------------------------------------------------------------------
(* Every action of the feed keeps its invariant.                           *)

\* The stream with other rows on the wire, or in another state.
LEMMA WireWith ==
  ASSUME feed \in Feeds, NEW w \in Seq(Nat), feed' = [feed EXCEPT !.wire = w]
  PROVE  feed' \in Feeds /\ feed'.at = feed.at /\ feed'.wire = w
<1> DEFINE N == Seq(Nat)
<1>1. feed \in [at : {"closed", "connecting", "half", "registered", "open"}, wire : N] /\ w \in N
  BY DEF Feeds
<1> HIDE DEF N
<1>2. feed' \in [at : {"closed", "connecting", "half", "registered", "open"}, wire : N]
  BY <1>1
<1>3. feed'.at = feed.at /\ feed'.wire = w
  BY <1>1
<1> QED
  BY <1>2, <1>3 DEF N, Feeds

LEMMA FeedAt ==
  ASSUME feed \in Feeds, NEW a \in {"closed", "connecting", "half", "registered", "open"}, feed' = [feed EXCEPT !.at = a]
  PROVE  feed' \in Feeds /\ feed'.at = a /\ feed'.wire = feed.wire
<1> DEFINE N == Seq(Nat)
<1>1. feed \in [at : {"closed", "connecting", "half", "registered", "open"}, wire : N]
  BY DEF Feeds
<1> HIDE DEF N
<1>2. feed' \in [at : {"closed", "connecting", "half", "registered", "open"}, wire : N]
  BY <1>1
<1>3. feed'.at = a /\ feed'.wire = feed.wire
  BY <1>1
<1> QED
  BY <1>2, <1>3 DEF N, Feeds

\* No backfill.
LEMMA NoFillTyped ==
  NoFill \in Fills /\ ~NoFill.on /\ ~NoFill.read /\ NoFill.upto = 0 /\ NoFill.got = <<>>
<1> DEFINE no == FALSE
           N == Seq(Nat)
<1>1. no \in BOOLEAN /\ ~no /\ <<>> \in N /\ "all" \in Filters
  BY DEF Filters
<1>2. NoFill = [on |-> no, after |-> 0, filter |-> "all", upto |-> 0, got |-> <<>>, read |-> no]
  BY DEF NoFill
<1> HIDE DEF no, N
<1>3. NoFill \in [on : BOOLEAN, after : Nat, filter : Filters, upto : Nat, got : N, read : BOOLEAN]
  BY <1>1, <1>2
<1> QED
  BY <1>1, <1>2, <1>3 DEF Fills, N

\* The feed begins so.
LEMMA FeedStarts == FeedInit => FeedInv
<1> SUFFICES ASSUME FeedInit PROVE FeedInv
  OBVIOUS
<1> DEFINE no == FALSE
<1>1. no \in BOOLEAN /\ ~no
  OBVIOUS
<1>2. NotSending = [at |-> "idle", id |-> 0, heard |-> no]
  BY DEF NotSending
<1>3. rows = <<>> /\ sending = [s \in Sources |-> NotSending] /\ feed = [at |-> "closed", wire |-> <<>>] /\ fill = NoFill
      /\ newest = 0 /\ rendered = {} /\ table = <<>> /\ filter = "all" /\ seen = {} /\ stale = no /\ excused = {}
  BY DEF FeedInit
<1> HIDE DEF no
<1>4. NotSending \in Sends /\ NotSending.at = "idle" /\ NotSending.id = 0
  BY <1>1, <1>2 DEF Sends
<1>5. feed \in Feeds /\ feed.wire = <<>>
  BY <1>3 DEF Feeds
<1>6. Len(rows) = 0 /\ rows \in Seq(Sources) /\ 1 .. 0 = {}
  BY <1>3
<1>7. FeedTyped
  <2>1. sending \in [Sources -> Sends] /\ \A s \in Sources : sending[s].id <= Len(rows)
    BY <1>3, <1>4, <1>6
  <2> QED
    BY <1>1, <1>3, <1>5, <1>6, <2>1, NoFillTyped, RangeOfFew DEF FeedTyped, Filters
<1>8. TableTyped
  <2>1. Cardinality(rendered) = 0
    BY <1>3, FS_EmptySet
  <2> QED
    BY <1>3, <1>6, <2>1, RangeOfFew, FeedParameters DEF TableTyped, IsInjective
<1>9. SendsInStep
  BY <1>3, <1>4 DEF SendsInStep, Sources
<1>10. FiltersKept /\ GotPasses /\ NewestSeen /\ GotWithin /\ GotComplete
  BY <1>3, NoFillTyped DEF FiltersKept, GotPasses, NewestSeen, GotWithin, GotComplete
<1>11. AllAccounted
  BY <1>6 DEF AllAccounted
<1> QED
  BY <1>7, <1>8, <1>9, <1>10, <1>11 DEF FeedInv

LEMMA TakeListenersKeeps ==
  ASSUME FeedInv, NEW s \in Sources, TakeListeners(s)
  PROVE  FeedInv'
<1> DEFINE h == Hears(s)
           a == IF s = "sidewalk" THEN "taken" ELSE "putting"
<1>1. /\ sending[s].at = (IF s = "sidewalk" THEN "idle" ELSE "stored")
      /\ sending' = [sending EXCEPT ![s] = [sending[s] EXCEPT !.heard = h, !.at = a]]
      /\ UNCHANGED <<rows, feed, fill, newest, rendered, table, seen, filter, stale, excused>>
  BY DEF TakeListeners, drawn
<1>2. h \in BOOLEAN
  BY DEF Hears
<1> HIDE DEF h
<1>3. sending \in [Sources -> Sends] /\ \A t \in Sources : sending[t].id <= Len(rows)
  BY DEF FeedInv, FeedTyped
<1> DEFINE e == [sending[s] EXCEPT !.heard = h, !.at = a]
<1>4. e \in Sends /\ e.at = a /\ e.id = sending[s].id
  BY <1>2, <1>3 DEF Sends
<1> HIDE DEF e
<1>5. sending' = [sending EXCEPT ![s] = e]
  BY <1>1 DEF e
<1>6. /\ sending' \in [Sources -> Sends] /\ \A t \in Sources : sending'[t].id = sending[t].id
      /\ \A t \in Sources : sending'[t].at = IF t = s THEN a ELSE sending[t].at
  BY <1>3, <1>4, <1>5
<1>7. FeedTyped'
  BY <1>1, <1>3, <1>6 DEF FeedInv, FeedTyped
<1>8. SendsInStep'
  <2>1. "sidewalk" \in Sources /\ "ble" \in Sources
    BY DEF Sources
  <2> QED
    BY <1>1, <1>6, <2>1 DEF FeedInv, SendsInStep, Sources
<1>9. \A id : Sending(id) => Sending(id)'
  <2> SUFFICES ASSUME NEW t \in Sources, sending[t].at \in {"stored", "putting"}
               PROVE  sending'[t].at \in {"stored", "putting"}
    BY <1>6 DEF Sending
  <2> QED
    BY <1>1, <1>6
<1>10. TableTyped' /\ FiltersKept' /\ GotPasses' /\ NewestSeen' /\ GotWithin' /\ GotComplete'
  BY <1>1 DEF FeedInv, TableTyped, FiltersKept, GotPasses, NewestSeen, GotWithin, GotComplete, Passes
<1>11. AllAccounted'
  BY <1>1, <1>9 DEF FeedInv, AllAccounted, Accounted, Filling, Passes
<1> QED
  BY <1>7, <1>8, <1>10, <1>11 DEF FeedInv

LEMMA RecordMessageKeeps ==
  ASSUME FeedInv, NEW s \in Sources, RecordMessage(s)
  PROVE  FeedInv'
<1>0. PICK n : n = Len(rows)
  OBVIOUS
<1> DEFINE a == IF s = "sidewalk" THEN "putting" ELSE "stored"
<1>1. /\ sending[s].at = (IF s = "sidewalk" THEN "taken" ELSE "idle")
      /\ rows' = Append(rows, s)
      /\ sending' = [sending EXCEPT ![s] = [sending[s] EXCEPT !.id = n + 1, !.at = a]]
      /\ UNCHANGED <<feed, fill, newest, rendered, table, seen, filter, stale, excused>>
  BY <1>0 DEF RecordMessage, drawn
<1>2. rows \in Seq(Sources) /\ n \in Nat /\ sending \in [Sources -> Sends] /\ \A t \in Sources : sending[t].id <= n
  BY <1>0 DEF FeedInv, FeedTyped
<1>3. rows' \in Seq(Sources) /\ Len(rows') = n + 1 /\ \A i \in 1 .. n : rows'[i] = rows[i]
  BY <1>0, <1>1, <1>2
<1> DEFINE e == [sending[s] EXCEPT !.id = n + 1, !.at = a]
<1>4. e \in Sends /\ e.at = a /\ e.id = n + 1
  <2>1. n + 1 \in Nat /\ a \in {"idle", "taken", "stored", "putting"} /\ sending[s] \in Sends
    BY <1>2
  <2> HIDE DEF a
  <2> QED
    BY <2>1 DEF Sends
<1> HIDE DEF e
<1>5. sending' = [sending EXCEPT ![s] = e]
  BY <1>1 DEF e
<1>6. /\ sending' \in [Sources -> Sends] /\ \A t \in Sources : t # s => sending'[t] = sending[t]
      /\ sending'[s] = e
  BY <1>2, <1>4, <1>5
<1>7. \A t \in Sources : sending[t].id \in Nat
  BY <1>2 DEF Sends
<1>8. FeedTyped'
  <2>1. \A t \in Sources : sending'[t].id <= n + 1
    BY <1>2, <1>4, <1>6, <1>7
  <2>2. n + 1 = Len(rows') /\ \A i \in 1 .. n : i \in 1 .. n + 1
    BY <1>0, <1>2, <1>3
  <2>3. fill.upto <= n + 1
    BY <1>0, <1>2 DEF FeedInv, FeedTyped, Fills
  <2> QED
    BY <1>0, <1>1, <1>3, <1>6, <2>1, <2>2, <2>3 DEF FeedInv, FeedTyped
<1>9. TableTyped'
  <2>1. table' \in Seq(1 .. Len(rows'))
    BY <1>0, <1>1, <1>2, <1>3, SeqMonotonic DEF FeedInv, TableTyped
  <2>2. newest' \in 0 .. Len(rows')
    BY <1>0, <1>1, <1>2, <1>3 DEF FeedInv, TableTyped
  <2>3. rendered' \subseteq 1 .. Len(rows')
    BY <1>0, <1>1, <1>2, <1>3 DEF FeedInv, TableTyped
  <2> QED
    BY <1>1, <2>1, <2>2, <2>3 DEF FeedInv, TableTyped
<1>10. SendsInStep'
  <2>1. "sidewalk" \in Sources /\ "ble" \in Sources /\ n + 1 >= 1
    BY <1>2 DEF Sources
  <2> QED
    BY <1>1, <1>4, <1>6, <2>1 DEF FeedInv, SendsInStep, Sources
<1>11. \A i \in 1 .. n : \A f : Passes(i, f)' <=> Passes(i, f)
  BY <1>3 DEF Passes
<1>12. \A i \in 1 .. n : Passes(i, filter)' <=> Passes(i, filter)
  BY <1>1, <1>3 DEF Passes
<1>13. FiltersKept'
  <2>1. \A i \in DOMAIN table : table[i] \in 1 .. n
    BY <1>0 DEF FeedInv, TableTyped
  <2> QED
    BY <1>1, <1>12, <2>1 DEF FeedInv, FiltersKept
<1>14. GotPasses'
  <2>1. \A id \in Range(fill.got) : id \in 1 .. n
    BY <1>0 DEF FeedInv, FeedTyped
  <2>2. \A i \in 1 .. n : Passes(i, fill.filter)' <=> Passes(i, fill.filter)
    BY <1>1, <1>3 DEF Passes
  <2> QED
    BY <1>1, <2>1, <2>2 DEF FeedInv, GotPasses
<1>15. NewestSeen' /\ GotWithin'
  BY <1>1 DEF FeedInv, NewestSeen, GotWithin
<1>16. GotComplete'
  <2>1. \A i \in 1 .. fill.upto : i \in 1 .. n
    BY <1>0, <1>2 DEF FeedInv, FeedTyped, Fills
  <2> QED
    BY <1>1, <1>12, <2>1 DEF FeedInv, GotComplete
<1>17. Sending(n + 1)'
  BY <1>4, <1>6 DEF Sending
<1>18. \A id : Sending(id) => Sending(id)'
  <2> SUFFICES ASSUME NEW t \in Sources, sending[t].at \in {"stored", "putting"}
               PROVE  sending'[t] = sending[t]
    BY DEF Sending
  <2> QED
    BY <1>1, <1>6
<1>19. AllAccounted'
  <2>1. \A i \in 1 .. n + 1 : i = n + 1 \/ i \in 1 .. n
    BY <1>2
  <2>2. \A i \in 1 .. n : Accounted(i) => Accounted(i)'
    BY <1>1, <1>18 DEF Accounted, Filling
  <2>3. Accounted(n + 1)'
    BY <1>17 DEF Accounted
  <2>4. Len(rows') = n + 1
    BY <1>3
  <2> QED
    BY <1>0, <1>1, <1>12, <2>1, <2>2, <2>3, <2>4 DEF FeedInv, AllAccounted
<1> QED
  BY <1>8, <1>9, <1>10, <1>13, <1>14, <1>15, <1>16, <1>19 DEF FeedInv

LEMMA PutMessageKeeps ==
  ASSUME FeedInv, NEW s \in Sources, PutMessage(s)
  PROVE  FeedInv'
<1>0. PICK id : id = sending[s].id
  OBVIOUS
<1> DEFINE heard == sending[s].heard
           left == ~heard /\ (Hears(s) \/ id < newest)
<1>1. /\ sending[s].at = "putting" /\ sending' = [sending EXCEPT ![s] = NotSending]
      /\ feed' = IF heard THEN [feed EXCEPT !.wire = Append(@, id)] ELSE feed
      /\ excused' = IF left THEN excused \cup {id} ELSE excused
      /\ UNCHANGED <<rows, fill, newest, rendered, table, seen, filter, stale>>
  BY <1>0 DEF PutMessage, drawn
<1>2. /\ sending \in [Sources -> Sends] /\ \A t \in Sources : sending[t].id <= Len(rows) /\ sending[t].id \in Nat
      /\ feed \in Feeds /\ feed.wire \in Seq(Nat) /\ id \in Nat /\ Len(rows) \in Nat
  BY <1>0 DEF FeedInv, FeedTyped, Sends, Feeds
<1>3. id \in 1 .. Len(rows)
  BY <1>0, <1>1, <1>2 DEF FeedInv, SendsInStep
<1>4. NotSending \in Sends /\ NotSending.at = "idle" /\ NotSending.id = 0
  <2> DEFINE no == FALSE
  <2>1. NotSending = [at |-> "idle", id |-> 0, heard |-> no] /\ no \in BOOLEAN
    BY DEF NotSending
  <2> HIDE DEF no
  <2> QED
    BY <2>1 DEF Sends
<1>5. /\ sending' \in [Sources -> Sends] /\ \A t \in Sources : t # s => sending'[t] = sending[t]
      /\ sending'[s] = NotSending
  BY <1>1, <1>2, <1>4
<1>6. /\ feed' \in Feeds /\ feed'.at = feed.at
      /\ Range(feed'.wire) = IF heard THEN Range(feed.wire) \cup {id} ELSE Range(feed.wire)
  <2> HIDE DEF left
  <2>1. CASE heard
    <3>1. Append(feed.wire, id) \in Seq(Nat) /\ Range(Append(feed.wire, id)) = Range(feed.wire) \cup {id}
      BY <1>2, RangeAppended
    <3>2. feed' = [feed EXCEPT !.wire = Append(feed.wire, id)]
      BY <1>1, <2>1
    <3>3. feed' \in Feeds /\ feed'.at = feed.at /\ feed'.wire = Append(feed.wire, id)
      BY <1>2, <3>1, <3>2, WireWith
    <3> QED
      BY <2>1, <3>1, <3>3
  <2>2. CASE ~heard
    BY <1>1, <1>2, <2>2
  <2> QED
    BY <2>1, <2>2
<1> HIDE DEF heard, left
<1>7. FeedTyped'
  <2>1. \A t \in Sources : sending'[t].id <= Len(rows)
    BY <1>2, <1>4, <1>5
  <2>2. Range(feed'.wire) \subseteq 1 .. Len(rows) /\ excused' \subseteq 1 .. Len(rows)
    BY <1>1, <1>3, <1>6 DEF FeedInv, FeedTyped
  <2> QED
    BY <1>1, <1>5, <1>6, <2>1, <2>2 DEF FeedInv, FeedTyped
<1>8. SendsInStep'
  <2>1. "sidewalk" \in Sources /\ "ble" \in Sources
    BY DEF Sources
  <2> QED
    BY <1>4, <1>5, <2>1 DEF FeedInv, SendsInStep
<1>9. TableTyped' /\ FiltersKept' /\ GotPasses' /\ NewestSeen' /\ GotWithin'
  BY <1>1 DEF FeedInv, TableTyped, FiltersKept, GotPasses, NewestSeen, GotWithin, Passes
<1>10. GotComplete'
  BY <1>1 DEF FeedInv, GotComplete, Passes
<1>11. ASSUME NEW i \in 1 .. Len(rows), Sending(i) PROVE Sending(i)' \/ i = id
  BY <1>0, <1>5, <1>11 DEF Sending
<1>12. Accounted(id)'
  <2>1. CASE heard
    <3>1. id \in Range(feed'.wire)
      BY <1>6, <2>1
    <3> QED
      BY <3>1 DEF Accounted
  <2>2. CASE ~heard /\ (Hears(s) \/ id < newest)
    <3>1. id \in excused'
      BY <1>1, <2>2 DEF left
    <3> QED
      BY <3>1 DEF Accounted
  <2>3. CASE ~Hears(s) /\ ~(id < newest)
    <3>1. feed.at # "open"
      BY <2>3 DEF Hears
    <3>2. newest \in Nat
      BY DEF FeedInv, TableTyped
    <3>3. id > newest \/ (id = newest /\ newest # 0)
      BY <1>2, <1>3, <2>3, <3>2
    <3>4. feed'.at # "open" /\ newest' = newest /\ seen' = seen
      BY <1>1, <1>6, <3>1
    <3>5. id > newest \/ id \in seen
      BY <3>3 DEF FeedInv, NewestSeen
    <3> QED
      BY <3>4, <3>5 DEF Accounted
  <2> QED
    BY <2>1, <2>2, <2>3
<1>13. AllAccounted'
  <2>1. \A i \in 1 .. Len(rows) : Accounted(i) => Accounted(i)'
    <3> SUFFICES ASSUME NEW i \in 1 .. Len(rows), Accounted(i), i # id PROVE Accounted(i)'
      BY <1>12
    <3>1. i \in Range(feed.wire) => i \in Range(feed'.wire)
      BY <1>6
    <3>2. i \in excused => i \in excused'
      BY <1>1
    <3> QED
      BY <1>1, <1>6, <1>11, <3>1, <3>2 DEF Accounted, Filling
  <2> QED
    BY <1>1, <2>1 DEF FeedInv, AllAccounted, Passes
<1> QED
  BY <1>7, <1>8, <1>9, <1>10, <1>13 DEF FeedInv

LEMMA RegisterFeedKeeps ==
  ASSUME FeedInv, RegisterFeed
  PROVE  FeedInv'
<1> DEFINE a == IF feed.at = "connecting" THEN "half" ELSE "registered"
<1>1. /\ feed.at # "open" /\ feed' = [feed EXCEPT !.at = a]
      /\ UNCHANGED <<rows, sending, fill, newest, rendered, table, seen, filter, stale, excused>>
  BY DEF RegisterFeed, drawn
<1>2. feed \in Feeds /\ a \in {"closed", "connecting", "half", "registered", "open"} /\ a # "open"
  BY DEF FeedInv, FeedTyped
<1> HIDE DEF a
<1>3. feed' \in Feeds /\ feed'.at = a /\ feed'.wire = feed.wire
  BY <1>1, <1>2, FeedAt
<1>4. FeedTyped'
  BY <1>1, <1>3 DEF FeedInv, FeedTyped
<1>5. SendsInStep' /\ TableTyped' /\ FiltersKept' /\ GotPasses' /\ NewestSeen' /\ GotWithin' /\ GotComplete'
  BY <1>1 DEF FeedInv, SendsInStep, TableTyped, FiltersKept, GotPasses, NewestSeen, GotWithin, GotComplete, Passes
<1>6. AllAccounted'
  BY <1>1, <1>2, <1>3 DEF FeedInv, AllAccounted, Accounted, Sending, Filling, Passes
<1> QED
  BY <1>4, <1>5, <1>6 DEF FeedInv

LEMMA ListMessagesKeeps ==
  ASSUME FeedInv, ListMessages
  PROVE  FeedInv'
<1> DEFINE P == {id \in fill.after + 1 .. Len(rows) : Passes(id, fill.filter)}
           found == InOrder(P)
           cut == IF Len(found) > PageLimit THEN Len(found) - PageLimit ELSE 0
           left == SubSeq(found, 1, cut)
           got == SubSeq(found, cut + 1, Len(found))
           sure == TRUE
<1>1. /\ fill.on /\ ~fill.read
      /\ fill' = [fill EXCEPT !.read = sure, !.upto = Len(rows), !.got = got]
      /\ excused' = excused \cup Range(left)
      /\ UNCHANGED <<rows, sending, feed, newest, rendered, table, seen, filter, stale>>
  BY DEF ListMessages, drawn
<1>2. /\ fill \in Fills /\ fill.after \in Nat /\ Len(rows) \in Nat /\ fill.filter \in Filters /\ PageLimit \in Nat
      /\ sure \in BOOLEAN /\ sure
  BY FeedParameters DEF FeedInv, FeedTyped, Fills
<1> HIDE DEF sure
<1>3. PICK A : A = P
  OBVIOUS
<1>4. \A id : id \in A <=> id \in 1 .. Len(rows) /\ id > fill.after /\ Passes(id, fill.filter)
  BY <1>2, <1>3
<1>5. A \subseteq 0 .. Len(rows) /\ A \subseteq 1 .. Len(rows)
  BY <1>2, <1>4
<1> HIDE DEF P
<1>6. found \in Seq(A) /\ Range(found) = A
  <2>1. Ordered(A, found)
    BY <1>2, <1>3, <1>5, InOrderLists
  <2> HIDE DEF found
  <2> QED
    BY <2>1 DEF Ordered, Range
<1> HIDE DEF found
<1>7. cut \in 0 .. Len(found)
  <2>1. Len(found) \in Nat
    BY <1>6
  <2> QED
    BY <1>2, <2>1
<1> HIDE DEF cut
<1>8. got \in Seq(A) /\ Range(left) \subseteq A /\ Range(got) \subseteq A /\ A \subseteq Range(left) \cup Range(got)
  BY <1>6, <1>7, RangeCut
<1>9. got \in Seq(Nat)
  <2>1. A \subseteq Nat
    BY <1>5
  <2> HIDE DEF got
  <2> QED
    BY <1>8, <2>1, SeqMonotonic
<1>10. PICK g : g = got
  OBVIOUS
<1> HIDE DEF got, left
<1>11. /\ fill' \in Fills /\ fill'.on = fill.on /\ fill'.read = sure /\ fill'.upto = Len(rows) /\ fill'.got = g
       /\ fill'.after = fill.after /\ fill'.filter = fill.filter
  <2> DEFINE N == Seq(Nat)
  <2>1. fill \in [on : BOOLEAN, after : Nat, filter : Filters, upto : Nat, got : N, read : BOOLEAN] /\ g \in N
    BY <1>2, <1>9, <1>10 DEF Fills
  <2> HIDE DEF N
  <2>2. fill' = [fill EXCEPT !.read = sure, !.upto = Len(rows), !.got = g]
    BY <1>1, <1>10
  <2>3. fill' \in [on : BOOLEAN, after : Nat, filter : Filters, upto : Nat, got : N, read : BOOLEAN]
    BY <1>2, <2>1, <2>2
  <2>4. /\ fill'.on = fill.on /\ fill'.read = sure /\ fill'.upto = Len(rows) /\ fill'.got = g
        /\ fill'.after = fill.after /\ fill'.filter = fill.filter
    BY <2>1, <2>2
  <2> QED
    BY <2>3, <2>4 DEF Fills, N
<1>12. Range(fill'.got) \subseteq A /\ \A id \in A : id \in Range(fill'.got) \/ id \in excused'
  BY <1>1, <1>8, <1>10, <1>11
<1>13. excused' \subseteq 1 .. Len(rows) /\ excused \subseteq excused'
  BY <1>1, <1>5, <1>8 DEF FeedInv, FeedTyped
<1>14. FeedTyped'
  <2>1. Range(fill'.got) \subseteq 1 .. Len(rows)
    BY <1>5, <1>12
  <2> QED
    BY <1>1, <1>2, <1>11, <1>13, <2>1 DEF FeedInv, FeedTyped
<1>15. SendsInStep' /\ TableTyped' /\ NewestSeen'
  BY <1>1 DEF FeedInv, SendsInStep, TableTyped, NewestSeen
<1>16. FiltersKept'
  BY <1>1, <1>11 DEF FeedInv, FiltersKept, Passes
<1>17. GotPasses'
  BY <1>1, <1>4, <1>11, <1>12 DEF GotPasses, Passes
<1>18. GotWithin'
  BY <1>1, <1>2, <1>4, <1>11, <1>12 DEF FeedInv, GotWithin
<1>19. ~stale => fill.filter = filter
  BY <1>1 DEF FeedInv, FiltersKept
<1>20. GotComplete'
  BY <1>1, <1>4, <1>11, <1>12, <1>19 DEF GotComplete, Passes
<1>21. AllAccounted'
  <2> SUFFICES ASSUME ~stale, NEW id \in 1 .. Len(rows), Passes(id, filter) PROVE Accounted(id)'
    BY <1>1 DEF AllAccounted, Passes
  <2>1. Accounted(id)
    BY DEF FeedInv, AllAccounted
  <2>2. CASE Filling(id)
    <3>1. id \in A
      BY <1>1, <1>4, <1>19, <2>2 DEF Filling
    <3>2. id \in Range(fill'.got) \/ id \in excused'
      BY <1>12, <3>1
    <3> QED
      BY <1>1, <1>2, <1>11, <3>2 DEF Accounted, Filling
  <2>3. CASE ~Filling(id)
    BY <1>1, <1>13, <2>1, <2>3 DEF Accounted, Sending
  <2> QED
    BY <2>2, <2>3
<1> QED
  BY <1>14, <1>15, <1>16, <1>17, <1>18, <1>20, <1>21 DEF FeedInv

\* A backfill that starts, with the filters f, and from an empty table after a reset.
Starts(reset, f) ==
    /\ fill' \in Fills /\ fill'.on /\ ~fill'.read /\ fill'.after = newest' /\ fill'.filter = f
    /\ fill'.upto = 0 /\ fill'.got = <<>>
    /\ IF reset THEN newest' = 0 /\ rendered' = {} /\ table' = <<>> /\ seen' = {}
       ELSE UNCHANGED <<newest, rendered, table, seen>>

\* backfill() does so when none is under way.
LEMMA BackfillStarts ==
  ASSUME TableTyped, NEW reset, NEW f \in Filters, Backfill(reset, f), ~fill.on
  PROVE  Starts(reset, f)
<1> DEFINE sure == TRUE
<1>1. /\ IF reset THEN newest' = 0 /\ rendered' = {} /\ table' = <<>> /\ seen' = {}
         ELSE UNCHANGED <<newest, rendered, table, seen>>
  BY DEF Backfill, Wiped
<1>2. fill' = [NoFill EXCEPT !.on = sure, !.after = newest', !.filter = f] /\ sure \in BOOLEAN /\ sure
  BY DEF Backfill
<1> HIDE DEF sure
<1>3. newest' \in Nat
  BY <1>1 DEF TableTyped
<1> DEFINE N == Seq(Nat)
<1>4. NoFill \in [on : BOOLEAN, after : Nat, filter : Filters, upto : Nat, got : N, read : BOOLEAN]
      /\ ~NoFill.read /\ NoFill.upto = 0 /\ NoFill.got = <<>>
  BY NoFillTyped DEF Fills
<1> HIDE DEF N
<1>5. fill' \in [on : BOOLEAN, after : Nat, filter : Filters, upto : Nat, got : N, read : BOOLEAN]
  BY <1>2, <1>3, <1>4
<1>6. /\ fill'.on = sure /\ fill'.read = NoFill.read /\ fill'.after = newest' /\ fill'.filter = f
      /\ fill'.upto = NoFill.upto /\ fill'.got = NoFill.got
  BY <1>2, <1>3, <1>4
<1> QED
  BY <1>1, <1>2, <1>4, <1>5, <1>6 DEF Starts, Fills, N

\* What a backfill that starts leaves true.
LEMMA StartedKeeps ==
  ASSUME FeedTyped, TableTyped, NewestSeen, NEW reset, NEW f \in Filters, Starts(reset, f), UNCHANGED rows, filter' = f
  PROVE  /\ fill' \in Fills /\ fill'.upto <= Len(rows') /\ Range(fill'.got) \subseteq 1 .. Len(rows')
         /\ seen' \subseteq 1 .. Len(rows')
         /\ TableTyped' /\ NewestSeen' /\ GotPasses' /\ GotWithin' /\ GotComplete'
         /\ (fill'.on /\ fill'.filter = filter')
         /\ \A id : Filling(id)' <=> id > newest'
<1>1. Len(rows) \in Nat /\ newest \in Nat
  BY DEF FeedTyped, TableTyped
<1>2. fill' \in Fills /\ fill'.upto <= Len(rows') /\ Range(fill'.got) \subseteq 1 .. Len(rows')
  BY <1>1, RangeOfFew DEF Starts
<1>3. CASE reset
  <2>1. newest' = 0 /\ rendered' = {} /\ table' = <<>> /\ seen' = {}
    BY <1>3 DEF Starts
  <2>2. Cardinality(rendered') = 0
    BY <2>1, FS_EmptySet
  <2>3. TableTyped'
    BY <1>1, <2>1, <2>2, RangeOfFew, FeedParameters DEF TableTyped, IsInjective
  <2>4. GotPasses' /\ GotWithin' /\ GotComplete' /\ NewestSeen'
    BY <1>1, <2>1 DEF Starts, GotPasses, GotWithin, GotComplete, NewestSeen
  <2> QED
    BY <1>2, <2>1, <2>3, <2>4 DEF Starts, Filling
<1>4. CASE ~reset
  <2>1. UNCHANGED <<newest, rendered, table, seen>>
    BY <1>4 DEF Starts
  <2>2. TableTyped' /\ NewestSeen'
    BY <2>1 DEF TableTyped, NewestSeen
  <2>3. GotPasses' /\ GotWithin' /\ GotComplete'
    BY <1>1, <2>1 DEF Starts, GotPasses, GotWithin, GotComplete
  <2> QED
    BY <1>2, <2>1, <2>2, <2>3 DEF Starts, Filling, FeedTyped
<1> QED
  BY <1>3, <1>4

LEMMA EnterMessagesKeeps ==
  ASSUME FeedInv, EnterMessages
  PROVE  FeedInv'
<1> DEFINE reset == newest = 0
<1>1. /\ Backfill(reset, filter) /\ feed' = IF feed.at = "closed" THEN [feed EXCEPT !.at = "connecting"] ELSE feed
      /\ UNCHANGED <<rows, sending, filter, stale, excused>>
  BY DEF EnterMessages
<1>2. reset <=> newest = 0
  OBVIOUS
<1> HIDE DEF reset
<1>3. feed \in Feeds /\ filter \in Filters
  BY DEF FeedInv, FeedTyped
<1>4. /\ feed' \in Feeds /\ feed'.wire = feed.wire /\ (feed'.at # "open" <=> feed.at # "open")
  <2>1. CASE feed.at = "closed"
    <3>1. feed' = [feed EXCEPT !.at = "connecting"] /\ "connecting" \in {"closed", "connecting", "half", "registered", "open"}
      BY <1>1, <2>1
    <3>2. feed' \in Feeds /\ feed'.at = "connecting" /\ feed'.wire = feed.wire
      BY <1>3, <3>1, FeedAt
    <3> QED
      BY <2>1, <3>2
  <2>2. CASE feed.at # "closed"
    BY <1>1, <1>3, <2>2
  <2> QED
    BY <2>1, <2>2
<1>5. SendsInStep'
  BY <1>1 DEF FeedInv, SendsInStep
<1>6. CASE fill.on
  <2>1. UNCHANGED <<fill, newest, rendered, table, seen>>
    BY <1>1, <1>6 DEF Backfill, drawn
  <2>2. FeedTyped'
    BY <1>1, <1>4, <2>1 DEF FeedInv, FeedTyped
  <2>3. TableTyped' /\ FiltersKept' /\ GotPasses' /\ NewestSeen' /\ GotWithin' /\ GotComplete'
    BY <1>1, <2>1 DEF FeedInv, TableTyped, FiltersKept, GotPasses, NewestSeen, GotWithin, GotComplete, Passes
  <2>4. AllAccounted'
    BY <1>1, <1>4, <2>1 DEF FeedInv, AllAccounted, Accounted, Sending, Filling, Passes
  <2> QED
    BY <1>5, <2>2, <2>3, <2>4 DEF FeedInv
<1>7. CASE ~fill.on
  <2>1. Starts(reset, filter)
    BY <1>1, <1>3, <1>7, BackfillStarts DEF FeedInv
  <2>2. /\ fill' \in Fills /\ fill'.upto <= Len(rows') /\ Range(fill'.got) \subseteq 1 .. Len(rows')
        /\ seen' \subseteq 1 .. Len(rows')
        /\ TableTyped' /\ NewestSeen' /\ GotPasses' /\ GotWithin' /\ GotComplete'
        /\ (fill'.on /\ fill'.filter = filter')
        /\ \A id : Filling(id)' <=> id > newest'
    BY <1>1, <1>3, <2>1, StartedKeeps DEF FeedInv
  <2>3. FeedTyped'
    BY <1>1, <1>4, <2>2 DEF FeedInv, FeedTyped
  <2>4. newest' = newest /\ (table' = <<>> \/ table' = table) /\ (reset \/ seen' = seen)
    BY <1>2, <2>1 DEF Starts
  <2>5. FiltersKept'
    BY <1>1, <2>2, <2>4 DEF FeedInv, FiltersKept, Passes
  <2>6. AllAccounted'
    <3> SUFFICES ASSUME ~stale, NEW id \in 1 .. Len(rows), Passes(id, filter) PROVE Accounted(id)'
      BY <1>1 DEF AllAccounted, Passes
    <3>1. Accounted(id) /\ ~Filling(id)
      BY <1>7 DEF FeedInv, AllAccounted, Filling
    <3>2. CASE reset
      <4>1. id > newest'
        BY <1>2, <2>4, <3>2 DEF FeedInv, FeedTyped
      <4> QED
        BY <2>2, <4>1 DEF Accounted
    <3>3. CASE ~reset
      BY <1>1, <1>4, <2>4, <3>1, <3>3 DEF Accounted, Sending
    <3> QED
      BY <3>2, <3>3
  <2> QED
    BY <1>5, <2>2, <2>3, <2>5, <2>6 DEF FeedInv
<1> QED
  BY <1>6, <1>7

\* The queue goes, and what was in it is excused or will be asked for.
LEMMA GoneKeeps ==
  ASSUME FeedInv, NEW a \in {"closed", "connecting"}, Gone(a), UNCHANGED <<rows, fill, drawn, filter, stale>>
  PROVE  FeedInv'
<1> DEFINE no == FALSE
           left == {id \in Range(feed.wire) : id < newest}
<1>1. /\ feed' = [at |-> a, wire |-> <<>>] /\ sending' = [s \in Sources |-> [sending[s] EXCEPT !.heard = no]]
      /\ excused' = excused \cup left
      /\ UNCHANGED <<rows, fill, newest, rendered, table, seen, filter, stale>>
  BY DEF Gone, drawn
<1>2. no \in BOOLEAN
  OBVIOUS
<1> HIDE DEF no
<1>3. feed' \in Feeds /\ feed'.at = a /\ feed'.at # "open" /\ feed'.wire = <<>> /\ Range(feed'.wire) = {}
  BY <1>1, RangeOfFew DEF Feeds
<1>4. sending \in [Sources -> Sends]
  BY DEF FeedInv, FeedTyped
<1>5. \A s \in Sources : [sending[s] EXCEPT !.heard = no] \in Sends /\ ([sending[s] EXCEPT !.heard = no]).at = sending[s].at
                             /\ ([sending[s] EXCEPT !.heard = no]).id = sending[s].id
  BY <1>2, <1>4 DEF Sends
<1>6. /\ sending' \in [Sources -> Sends]
      /\ \A s \in Sources : sending'[s].at = sending[s].at /\ sending'[s].id = sending[s].id
  BY <1>1, <1>5
<1>7. left \subseteq 1 .. Len(rows)
  BY DEF FeedInv, FeedTyped
<1>8. FeedTyped'
  <2> HIDE DEF left
  <2> QED
    BY <1>1, <1>3, <1>6, <1>7 DEF FeedInv, FeedTyped
<1>9. SendsInStep'
  <2>1. "sidewalk" \in Sources /\ "ble" \in Sources
    BY DEF Sources
  <2> QED
    BY <1>6, <2>1 DEF FeedInv, SendsInStep
<1>10. TableTyped' /\ FiltersKept' /\ GotPasses' /\ NewestSeen' /\ GotWithin'
  BY <1>1 DEF FeedInv, TableTyped, FiltersKept, GotPasses, NewestSeen, GotWithin, Passes
<1>11. GotComplete'
  BY <1>1 DEF FeedInv, GotComplete, Passes
<1>12. AllAccounted'
  <2> SUFFICES ASSUME ~stale, NEW id \in 1 .. Len(rows), Passes(id, filter) PROVE Accounted(id)'
    BY <1>1 DEF AllAccounted, Passes
  <2>1. Accounted(id) /\ newest \in Nat /\ id \in Nat
    BY DEF FeedInv, AllAccounted, FeedTyped, TableTyped
  <2>2. CASE id \in Range(feed.wire)
    <3>1. CASE id < newest
      BY <1>1, <2>2, <3>1 DEF Accounted
    <3>2. CASE id = newest
      BY <1>1, <2>1, <3>2 DEF FeedInv, NewestSeen, Accounted
    <3>3. CASE id > newest
      BY <1>1, <1>3, <3>3 DEF Accounted
    <3> QED
      BY <2>1, <3>1, <3>2, <3>3
  <2>3. CASE id \notin Range(feed.wire)
    BY <1>1, <1>3, <1>6, <2>1, <2>3 DEF Accounted, Sending, Filling
  <2> QED
    BY <2>2, <2>3
<1> QED
  BY <1>8, <1>9, <1>10, <1>11, <1>12 DEF FeedInv

LEMMA OpenFeedKeeps ==
  ASSUME FeedInv, OpenFeed
  PROVE  FeedInv'
<1> DEFINE no == FALSE
           left == IF fill.on /\ fill.read THEN fill.upto + 1 .. Len(rows) ELSE {}
<1>1. /\ feed' = [feed EXCEPT !.at = "open"] /\ Backfill(no, filter)
      /\ excused' = IF fill.on /\ fill.read THEN excused \cup (fill.upto + 1 .. Len(rows)) ELSE excused
      /\ UNCHANGED <<rows, sending, filter, stale>>
  BY DEF OpenFeed, OnOpen
<1>2. ~no
  OBVIOUS
<1> HIDE DEF no
<1>3. /\ feed \in Feeds /\ filter \in Filters /\ fill \in Fills /\ fill.upto \in Nat /\ Len(rows) \in Nat
      /\ "open" \in {"closed", "connecting", "half", "registered", "open"}
  BY DEF FeedInv, FeedTyped, Fills
<1>4. feed' \in Feeds /\ feed'.at = "open" /\ feed'.wire = feed.wire
  BY <1>1, <1>3, FeedAt
<1>5. excused \subseteq excused' /\ excused' \subseteq 1 .. Len(rows)
  <2>1. excused' = excused \cup left
    BY <1>1
  <2>2. left \subseteq 1 .. Len(rows)
    BY <1>3
  <2> QED
    BY <2>1, <2>2 DEF FeedInv, FeedTyped
<1>6. SendsInStep'
  BY <1>1 DEF FeedInv, SendsInStep
<1>7. CASE fill.on
  <2>1. UNCHANGED <<fill, newest, rendered, table, seen>>
    BY <1>1, <1>7 DEF Backfill, drawn
  <2>2. FeedTyped'
    BY <1>1, <1>4, <1>5, <2>1 DEF FeedInv, FeedTyped
  <2>3. TableTyped' /\ FiltersKept' /\ GotPasses' /\ NewestSeen' /\ GotWithin'
    BY <1>1, <2>1 DEF FeedInv, TableTyped, FiltersKept, GotPasses, NewestSeen, GotWithin, Passes
  <2>4. GotComplete'
    BY <1>1, <1>5, <2>1 DEF FeedInv, GotComplete, Passes
  <2>5. AllAccounted'
    <3> SUFFICES ASSUME ~stale, NEW id \in 1 .. Len(rows), Passes(id, filter) PROVE Accounted(id)'
      BY <1>1 DEF AllAccounted, Passes
    <3>1. Accounted(id)
      BY DEF FeedInv, AllAccounted
    <3>2. CASE id > newest
      <4>1. id > fill.after /\ fill.after \in Nat /\ newest \in Nat /\ id \in Nat
        BY <1>3, <1>7, <3>2 DEF FeedInv, GotWithin, TableTyped, Fills
      <4>2. CASE ~fill.read
        BY <1>7, <2>1, <4>1, <4>2 DEF Accounted, Filling
      <4>3. CASE fill.read /\ id > fill.upto
        <5>1. id \in excused'
          BY <1>1, <1>3, <1>7, <4>3
        <5> QED
          BY <5>1 DEF Accounted
      <4>4. CASE fill.read /\ id <= fill.upto
        <5>1. id \in 1 .. fill.upto
          BY <1>3, <4>4
        <5>2. id \in Range(fill.got) \/ id \in excused
          BY <1>7, <4>1, <4>4, <5>1 DEF FeedInv, GotComplete
        <5> QED
          BY <1>5, <1>7, <2>1, <4>4, <5>2 DEF Accounted, Filling
      <4> QED
        BY <1>3, <4>1, <4>2, <4>3, <4>4
    <3>3. CASE ~(id > newest)
      BY <1>1, <1>4, <1>5, <2>1, <3>1, <3>3 DEF Accounted, Sending, Filling
    <3> QED
      BY <3>2, <3>3
  <2> QED
    BY <1>6, <2>2, <2>3, <2>4, <2>5 DEF FeedInv
<1>8. CASE ~fill.on
  <2>1. Starts(no, filter)
    BY <1>1, <1>3, <1>8, BackfillStarts DEF FeedInv
  <2>2. /\ fill' \in Fills /\ fill'.upto <= Len(rows') /\ Range(fill'.got) \subseteq 1 .. Len(rows')
        /\ seen' \subseteq 1 .. Len(rows')
        /\ TableTyped' /\ NewestSeen' /\ GotPasses' /\ GotWithin' /\ GotComplete'
        /\ (fill'.on /\ fill'.filter = filter')
        /\ \A id : Filling(id)' <=> id > newest'
    BY <1>1, <1>3, <2>1, StartedKeeps DEF FeedInv
  <2>3. UNCHANGED <<newest, rendered, table, seen>>
    BY <1>2, <2>1 DEF Starts
  <2>4. FeedTyped'
    BY <1>1, <1>4, <1>5, <2>2 DEF FeedInv, FeedTyped
  <2>5. FiltersKept'
    BY <1>1, <2>2, <2>3 DEF FeedInv, FiltersKept, Passes
  <2>6. AllAccounted'
    <3> SUFFICES ASSUME ~stale, NEW id \in 1 .. Len(rows), Passes(id, filter) PROVE Accounted(id)'
      BY <1>1 DEF AllAccounted, Passes
    <3>1. Accounted(id) /\ ~Filling(id)
      BY <1>8 DEF FeedInv, AllAccounted, Filling
    <3>2. CASE id > newest
      BY <2>2, <2>3, <3>2 DEF Accounted
    <3>3. CASE ~(id > newest)
      BY <1>1, <1>4, <1>5, <2>3, <3>1, <3>3 DEF Accounted, Sending
    <3> QED
      BY <3>2, <3>3
  <2> QED
    BY <1>6, <2>2, <2>4, <2>5, <2>6 DEF FeedInv
<1> QED
  BY <1>7, <1>8

LEMMA ChooseFilterKeeps ==
  ASSUME FeedInv, NEW f \in Filters, ChooseFilter(f)
  PROVE  FeedInv'
<1> DEFINE sure == TRUE
           b == IF fill.on THEN stale \/ f # filter ELSE FALSE
<1>1. /\ filter' = f /\ Backfill(sure, f) /\ stale' = b
      /\ excused' = IF fill.on THEN excused ELSE {}
      /\ UNCHANGED <<rows, sending, feed>>
  BY DEF ChooseFilter
<1>2. sure /\ b \in BOOLEAN /\ (b <=> fill.on /\ (stale \/ f # filter))
  BY DEF FeedInv, FeedTyped
<1> HIDE DEF sure, b
<1>3. SendsInStep'
  BY <1>1 DEF FeedInv, SendsInStep
<1>4. CASE fill.on
  <2>1. UNCHANGED <<fill, newest, rendered, table, seen, excused>> /\ (stale' <=> stale \/ f # filter)
    BY <1>1, <1>2, <1>4 DEF Backfill, drawn
  <2>2. FeedTyped'
    BY <1>1, <1>2, <2>1 DEF FeedInv, FeedTyped
  <2>3. TableTyped' /\ GotPasses' /\ NewestSeen' /\ GotWithin'
    BY <1>1, <2>1 DEF FeedInv, TableTyped, GotPasses, NewestSeen, GotWithin, Passes
  <2>4. ~stale' => ~stale /\ filter' = filter
    BY <1>1, <2>1
  <2>5. FiltersKept' /\ GotComplete'
    BY <1>1, <2>1, <2>4 DEF FeedInv, FiltersKept, GotComplete, Passes
  <2>6. AllAccounted'
    BY <1>1, <2>1, <2>4 DEF FeedInv, AllAccounted, Accounted, Sending, Filling, Passes
  <2> QED
    BY <1>3, <2>2, <2>3, <2>5, <2>6 DEF FeedInv
<1>5. CASE ~fill.on
  <2>1. Starts(sure, f)
    BY <1>1, <1>5, BackfillStarts DEF FeedInv
  <2>2. /\ fill' \in Fills /\ fill'.upto <= Len(rows') /\ Range(fill'.got) \subseteq 1 .. Len(rows')
        /\ seen' \subseteq 1 .. Len(rows')
        /\ TableTyped' /\ NewestSeen' /\ GotPasses' /\ GotWithin' /\ GotComplete'
        /\ (fill'.on /\ fill'.filter = filter')
        /\ \A id : Filling(id)' <=> id > newest'
    BY <1>1, <2>1, StartedKeeps DEF FeedInv
  <2>3. newest' = 0 /\ table' = <<>> /\ excused' = {}
    BY <1>1, <1>2, <1>5, <2>1 DEF Starts
  <2>4. FeedTyped'
    BY <1>1, <1>2, <2>2, <2>3 DEF FeedInv, FeedTyped
  <2>5. FiltersKept'
    BY <2>2, <2>3 DEF FiltersKept
  <2>6. AllAccounted'
    <3>1. \A id \in 1 .. Len(rows') : Filling(id)'
      BY <2>2, <2>3, <2>4 DEF FeedTyped
    <3> QED
      BY <3>1 DEF AllAccounted, Accounted
  <2> QED
    BY <1>3, <2>2, <2>4, <2>5, <2>6 DEF FeedInv
<1> QED
  BY <1>4, <1>5

\* What drawing a list of rows does to the table.
LEMMA DrawnFacts ==
  ASSUME FeedTyped, TableTyped, NewestSeen, NEW ids \in Seq(1 .. Len(rows)), Drawn(ids), UNCHANGED rows
  PROVE  /\ TableTyped' /\ NewestSeen' /\ newest' >= newest /\ (newest' = newest \/ newest' \in Range(ids))
         /\ Range(table') \subseteq Range(table) \cup Range(ids)
         /\ seen' = seen \cup Range(ids) /\ seen' \subseteq 1 .. Len(rows)
<1> DEFINE v == [table |-> table, rendered |-> rendered, newest |-> newest]
           w == FoldLeft(Draw, v, ids)
           n == Len(rows)
<1>1. table' = w.table /\ rendered' = w.rendered /\ newest' = w.newest /\ seen' = seen \cup Range(ids)
  BY DEF Drawn
<1>2. n \in Nat
  BY DEF FeedTyped
<1>3. v.table = table /\ v.rendered = rendered /\ v.newest = newest
  OBVIOUS
<1> HIDE DEF v, w
<1>4. View(v, n)
  BY <1>3 DEF View, TableTyped
<1>5. DrawnFrom(v, n, Range(ids), w)
  BY <1>2, <1>4, DrawAllKeeps DEF w
<1>6. TableTyped'
  BY <1>1, <1>5 DEF DrawnFrom, View, TableTyped
<1>7. newest' >= newest /\ (newest' = newest \/ newest' \in Range(ids))
  BY <1>1, <1>3, <1>5 DEF DrawnFrom
<1>8. Range(table') \subseteq Range(table) \cup Range(ids)
  BY <1>1, <1>3, <1>5 DEF DrawnFrom
<1>9. NewestSeen'
  BY <1>1, <1>7 DEF NewestSeen
<1>10. seen' \subseteq 1 .. n
  <2>1. Range(ids) \subseteq 1 .. n
    BY RangeOfList
  <2> QED
    BY <1>1, <2>1 DEF FeedTyped
<1> QED
  BY <1>1, <1>6, <1>7, <1>8, <1>9, <1>10

LEMMA ShowMessagesKeeps ==
  ASSUME FeedInv, ShowMessages
  PROVE  FeedInv'
<1>1. /\ fill.on /\ fill.read /\ Drawn(fill.got) /\ fill' = NoFill
      /\ UNCHANGED <<rows, sending, feed, filter, stale, excused>>
  BY DEF ShowMessages
<1>2. fill.got \in Seq(1 .. Len(rows))
  <2>1. fill.got \in Seq(Nat) /\ Range(fill.got) \subseteq 1 .. Len(rows)
    BY DEF FeedInv, FeedTyped, Fills
  <2>2. \A i \in DOMAIN fill.got : fill.got[i] \in 1 .. Len(rows)
    BY <2>1 DEF Range
  <2> QED
    BY <2>1, <2>2
<1>3. /\ TableTyped' /\ NewestSeen' /\ newest' >= newest /\ (newest' = newest \/ newest' \in Range(fill.got))
      /\ Range(table') \subseteq Range(table) \cup Range(fill.got)
      /\ seen' = seen \cup Range(fill.got) /\ seen' \subseteq 1 .. Len(rows)
  BY <1>1, <1>2, DrawnFacts DEF FeedInv
<1>4. FeedTyped'
  BY <1>1, <1>3, NoFillTyped, RangeOfFew DEF FeedInv, FeedTyped
<1>5. SendsInStep' /\ GotPasses' /\ GotWithin' /\ GotComplete'
  BY <1>1, NoFillTyped DEF FeedInv, SendsInStep, GotPasses, GotWithin, GotComplete
<1>6. ~stale => fill.filter = filter
  BY <1>1 DEF FeedInv, FiltersKept
<1>7. FiltersKept'
  <2>1. \A i \in DOMAIN table' : table'[i] \in Range(table) \cup Range(fill.got)
    BY <1>3 DEF Range
  <2>2. ~stale => \A id \in Range(table) : Passes(id, filter)
    BY DEF FeedInv, FiltersKept, Range
  <2>3. ~stale => \A id \in Range(fill.got) : Passes(id, filter)
    BY <1>1, <1>6 DEF FeedInv, GotPasses
  <2> QED
    BY <1>1, <2>1, <2>2, <2>3, NoFillTyped DEF FiltersKept, Passes
<1>8. AllAccounted'
  <2> SUFFICES ASSUME ~stale, NEW id \in 1 .. Len(rows), Passes(id, filter) PROVE Accounted(id)'
    BY <1>1 DEF AllAccounted, Passes
  <2>1. Accounted(id) /\ newest \in Nat /\ newest' \in Nat /\ id \in Nat /\ fill.after \in Nat /\ fill.upto \in Nat
    BY <1>3 DEF FeedInv, AllAccounted, FeedTyped, TableTyped, Fills
  <2>2. CASE id \in Range(fill.got)
    BY <1>3, <2>2 DEF Accounted
  <2>3. CASE id \notin Range(fill.got) /\ feed.at # "open" /\ id > newest
    <3>1. CASE id > newest'
      BY <1>1, <2>3, <3>1 DEF Accounted
    <3>2. CASE id <= newest'
      <4>1. newest' \in Range(fill.got)
        BY <1>3, <2>1, <2>3, <3>2
      <4>2. newest' <= fill.upto /\ fill.after <= newest
        BY <1>1, <4>1 DEF FeedInv, GotWithin
      <4>3. id \in 1 .. fill.upto /\ fill.after < id
        BY <2>1, <2>3, <3>2, <4>2
      <4>4. id \in excused
        BY <1>1, <2>3, <4>3 DEF FeedInv, GotComplete
      <4> QED
        BY <1>1, <4>4 DEF Accounted
    <3> QED
      BY <2>1, <3>1, <3>2
  <2>4. CASE id \notin Range(fill.got) /\ ~(feed.at # "open" /\ id > newest)
    <3>1. ~Filling(id)
      BY <1>1, <2>4 DEF Filling
    <3> QED
      BY <1>1, <1>3, <2>1, <2>4, <3>1 DEF Accounted, Sending
  <2> QED
    BY <2>2, <2>3, <2>4
<1> QED
  BY <1>3, <1>4, <1>5, <1>7, <1>8 DEF FeedInv

LEMMA FailBackfillKeeps ==
  ASSUME FeedInv, FailBackfill
  PROVE  FeedInv'
<1>1. /\ fill.on /\ fill' = NoFill /\ excused' = excused \cup (fill.after + 1 .. Len(rows))
      /\ UNCHANGED <<rows, sending, feed, newest, rendered, table, seen, filter, stale>>
  BY DEF FailBackfill, drawn
<1>2. fill.after \in Nat /\ fill.upto \in Nat /\ fill.upto <= Len(rows) /\ Len(rows) \in Nat
  BY DEF FeedInv, FeedTyped, Fills
<1>3. excused' \subseteq 1 .. Len(rows)
  <2>1. fill.after + 1 .. Len(rows) \subseteq 1 .. Len(rows)
    BY <1>2
  <2> QED
    BY <1>1, <2>1 DEF FeedInv, FeedTyped
<1>4. FeedTyped'
  BY <1>1, <1>2, <1>3, NoFillTyped, RangeOfFew DEF FeedInv, FeedTyped
<1>5. SendsInStep' /\ TableTyped' /\ NewestSeen' /\ GotPasses' /\ GotWithin' /\ GotComplete'
  BY <1>1, NoFillTyped DEF FeedInv, SendsInStep, TableTyped, NewestSeen, GotPasses, GotWithin, GotComplete
<1>6. FiltersKept'
  BY <1>1, NoFillTyped DEF FeedInv, FiltersKept, Passes
<1>7. AllAccounted'
  <2> SUFFICES ASSUME ~stale, NEW id \in 1 .. Len(rows), Passes(id, filter) PROVE Accounted(id)'
    BY <1>1 DEF AllAccounted, Passes
  <2>1. Accounted(id) /\ id \in Nat
    BY DEF FeedInv, AllAccounted
  <2>2. CASE Filling(id)
    <3>1. id > fill.after
      BY <1>1, <1>2, <2>2 DEF FeedInv, Filling, GotWithin
    <3>2. id \in excused'
      BY <1>1, <1>2, <3>1
    <3> QED
      BY <3>2 DEF Accounted
  <2>3. CASE ~Filling(id)
    BY <1>1, <2>1, <2>3 DEF Accounted, Sending
  <2> QED
    BY <2>2, <2>3
<1> QED
  BY <1>4, <1>5, <1>6, <1>7 DEF FeedInv

LEMMA DeliverMessageKeeps ==
  ASSUME FeedInv, DeliverMessage
  PROVE  FeedInv'
<1>0. PICK h : h = Head(feed.wire)
  OBVIOUS
<1>1. /\ feed.at = "open" /\ feed.wire # <<>> /\ feed' = [feed EXCEPT !.wire = Tail(@)]
      /\ IF Passes(h, filter) THEN Drawn(<<h>>) ELSE UNCHANGED <<newest, rendered, table, seen>>
      /\ UNCHANGED <<rows, sending, fill, filter, stale, excused>>
  BY <1>0 DEF DeliverMessage, drawn
<1>2. feed \in Feeds /\ feed.wire \in Seq(Nat) /\ Range(feed.wire) \subseteq 1 .. Len(rows)
  BY DEF FeedInv, FeedTyped, Feeds
<1>3. /\ Tail(feed.wire) \in Seq(Nat) /\ h \in Range(feed.wire)
      /\ Range(Tail(feed.wire)) \subseteq Range(feed.wire) /\ Range(feed.wire) \subseteq Range(Tail(feed.wire)) \cup {h}
  BY <1>0, <1>1, <1>2, RangeTail
<1>4. feed' \in Feeds /\ feed'.at = "open" /\ feed'.wire = Tail(feed.wire)
  <2>1. feed' = [feed EXCEPT !.wire = Tail(feed.wire)]
    BY <1>1, <1>2
  <2> QED
    BY <1>1, <1>2, <1>3, <2>1, WireWith
<1>5. h \in 1 .. Len(rows)
  BY <1>2, <1>3
<1>6. /\ TableTyped' /\ NewestSeen' /\ newest' >= newest
      /\ Range(table') \subseteq Range(table) \cup (IF Passes(h, filter) THEN {h} ELSE {})
      /\ seen' = seen \cup (IF Passes(h, filter) THEN {h} ELSE {}) /\ seen' \subseteq 1 .. Len(rows)
  <2>1. CASE Passes(h, filter)
    <3>1. <<h>> \in Seq(1 .. Len(rows)) /\ Range(<<h>>) = {h}
      BY <1>5, RangeOfFew
    <3>2. Drawn(<<h>>)
      BY <1>1, <2>1
    <3>3. /\ TableTyped' /\ NewestSeen' /\ newest' >= newest
          /\ Range(table') \subseteq Range(table) \cup Range(<<h>>)
          /\ seen' = seen \cup Range(<<h>>) /\ seen' \subseteq 1 .. Len(rows)
      BY <1>1, <3>1, <3>2, DrawnFacts DEF FeedInv
    <3> QED
      BY <2>1, <3>1, <3>3
  <2>2. CASE ~Passes(h, filter)
    <3>1. UNCHANGED <<newest, rendered, table, seen>>
      BY <1>1, <2>2
    <3>2. TableTyped' /\ NewestSeen'
      BY <1>1, <3>1 DEF FeedInv, TableTyped, NewestSeen
    <3>3. newest' >= newest /\ seen' \subseteq 1 .. Len(rows)
      BY <3>1 DEF FeedInv, TableTyped, FeedTyped
    <3> QED
      BY <2>2, <3>1, <3>2, <3>3
  <2> QED
    BY <2>1, <2>2
<1>7. FeedTyped'
  BY <1>1, <1>2, <1>3, <1>4, <1>6 DEF FeedInv, FeedTyped
<1>8. SendsInStep' /\ GotPasses' /\ GotComplete'
  BY <1>1 DEF FeedInv, SendsInStep, GotPasses, GotComplete, Passes
<1>9. GotWithin'
  <2>1. fill.after \in Nat /\ newest \in Nat /\ newest' \in Nat
    BY <1>6 DEF FeedInv, FeedTyped, Fills, TableTyped
  <2> QED
    BY <1>1, <1>6, <2>1 DEF FeedInv, GotWithin
<1>10. FiltersKept'
  <2>1. \A i \in DOMAIN table' : table'[i] \in Range(table) \/ (table'[i] = h /\ Passes(h, filter))
    BY <1>6 DEF Range
  <2>2. ~stale => \A id \in Range(table) : Passes(id, filter)
    BY DEF FeedInv, FiltersKept, Range
  <2> QED
    BY <1>1, <2>1, <2>2 DEF FeedInv, FiltersKept, Passes
<1>11. AllAccounted'
  <2> SUFFICES ASSUME ~stale, NEW id \in 1 .. Len(rows), Passes(id, filter) PROVE Accounted(id)'
    BY <1>1 DEF AllAccounted, Passes
  <2>1. Accounted(id)
    BY DEF FeedInv, AllAccounted
  <2>2. CASE id = h
    BY <1>6, <2>2 DEF Accounted
  <2>3. CASE id # h
    <3>1. id \in Range(feed.wire) => id \in Range(feed'.wire)
      BY <1>3, <1>4, <2>3
    <3> QED
      BY <1>1, <1>6, <2>1, <3>1 DEF Accounted, Sending, Filling
  <2> QED
    BY <2>2, <2>3
<1> QED
  BY <1>6, <1>7, <1>8, <1>9, <1>10, <1>11 DEF FeedInv

\* No step of the feed breaks its invariant.
LEMMA FeedStep == FeedInv /\ [FeedNext]_feedVars => FeedInv'
<1>1. CASE FeedInv /\ FeedNext
  <2> USE <1>1
  <2>1. ASSUME NEW s \in Sources, TakeListeners(s) PROVE FeedInv'
    BY <2>1, TakeListenersKeeps
  <2>2. ASSUME NEW s \in Sources, RecordMessage(s) PROVE FeedInv'
    BY <2>2, RecordMessageKeeps
  <2>3. ASSUME NEW s \in Sources, PutMessage(s) PROVE FeedInv'
    BY <2>3, PutMessageKeeps
  <2>4. CASE RegisterFeed
    BY <2>4, RegisterFeedKeeps
  <2>5. CASE ListMessages
    BY <2>5, ListMessagesKeeps
  <2>6. CASE EnterMessages
    BY <2>6, EnterMessagesKeeps
  <2>7. CASE LeaveMessages
    <3>1. "closed" \in {"closed", "connecting"} /\ Gone("closed") /\ UNCHANGED <<rows, fill, drawn, filter, stale>>
      BY <2>7 DEF LeaveMessages
    <3> QED
      BY <3>1, GoneKeeps
  <2>8. CASE BreakFeed
    <3>1. "connecting" \in {"closed", "connecting"} /\ Gone("connecting") /\ UNCHANGED <<rows, fill, drawn, filter, stale>>
      BY <2>8 DEF BreakFeed
    <3> QED
      BY <3>1, GoneKeeps
  <2>9. CASE OpenFeed
    BY <2>9, OpenFeedKeeps
  <2>10. ASSUME NEW f \in Sources \cup {"all"}, ChooseFilter(f) PROVE FeedInv'
    BY <2>10, ChooseFilterKeeps DEF Filters
  <2>11. CASE ShowMessages
    BY <2>11, ShowMessagesKeeps
  <2>12. CASE FailBackfill
    BY <2>12, FailBackfillKeeps
  <2>13. CASE DeliverMessage
    BY <2>13, DeliverMessageKeeps
  <2> QED
    BY <2>1, <2>2, <2>3, <2>4, <2>5, <2>6, <2>7, <2>8, <2>9, <2>10, <2>11, <2>12, <2>13 DEF FeedNext
<1>2. CASE FeedInv /\ UNCHANGED feedVars
  <2>1. UNCHANGED <<rows, sending, feed, fill, newest, rendered, table, filter, seen, stale, excused>>
    BY <1>2 DEF feedVars
  <2>2. FeedTyped' /\ TableTyped' /\ SendsInStep' /\ FiltersKept' /\ GotPasses' /\ NewestSeen' /\ GotWithin' /\ GotComplete'
    BY <1>2, <2>1 DEF FeedInv, FeedTyped, TableTyped, SendsInStep, FiltersKept, GotPasses, NewestSeen, GotWithin,
                      GotComplete, Passes
  <2>3. AllAccounted'
    BY <1>2, <2>1 DEF FeedInv, AllAccounted, Accounted, Sending, Filling, Passes
  <2> QED
    BY <2>2, <2>3 DEF FeedInv
<1> QED
  BY <1>1, <1>2

\* What the invariant of the feed is for.
LEMMA FeedMeans == FeedInv => FeedTypeOK /\ FeedIsTrue
<1> SUFFICES ASSUME FeedInv PROVE FeedTypeOK /\ FeedIsTrue
  OBVIOUS
<1>1. FeedTypeOK
  <2>1. DOMAIN rows = 1 .. Len(rows) /\ Len(rows) \in Nat
    BY DEF FeedInv, FeedTyped
  <2>2. feed.at \in {"closed", "connecting", "half", "registered", "open"} /\ fill.upto \in 0 .. Len(rows)
    BY <2>1 DEF FeedInv, FeedTyped, Feeds, Fills
  <2>3. \A s \in Sources : sending[s].id \in 0 .. Len(rows)
    BY <2>1 DEF FeedInv, FeedTyped, Sends
  <2>4. rendered \cup seen \cup excused \cup Range(table) \cup Range(feed.wire) \subseteq DOMAIN rows
    BY <2>1 DEF FeedInv, FeedTyped, TableTyped
  <2> QED
    BY <2>2, <2>3, <2>4 DEF FeedInv, FeedTyped, TableTyped, FeedTypeOK, Filters
<1>2. FeedIsTrue
  <2> SUFFICES ASSUME FeedQuiet, ~stale
               PROVE  /\ IsInjective(table) /\ \A id \in Range(table) : Passes(id, filter)
                      /\ \A id \in DOMAIN rows : Passes(id, filter) => id \in seen \cup excused
    BY DEF FeedIsTrue
  <2>1. \A id \in Range(table) : Passes(id, filter)
    BY DEF FeedInv, FiltersKept, Range
  <2>2. feed.at = "open" /\ Range(feed.wire) = {} /\ ~fill.on /\ \A s \in Sources : sending[s].at = "idle"
    BY RangeOfFew DEF FeedQuiet
  <2>3. \A id : Accounted(id) => id \in seen \cup excused
    BY <2>2 DEF Accounted, Sending, Filling
  <2>4. DOMAIN rows = 1 .. Len(rows)
    BY DEF FeedInv, FeedTyped
  <2> QED
    BY <2>1, <2>3, <2>4 DEF FeedInv, AllAccounted, TableTyped
<1> QED
  BY <1>1, <1>2

-----------------------------------------------------------------------------
(* The upload of shell output.                                             *)

LogSpec == LogInit /\ [][LogNext]_logVars

-----------------------------------------------------------------------------
(* The inductive invariant.                                                 *)

Lines == 1..Len(printed)
Credits == Boards \cup {Nobody}
Requests == [lines : Seq(Nat), credit : Credits, awaited : BOOLEAN]

Typed ==
    /\ board \in Credits /\ last \in Credits /\ credit \in Credits
    /\ setups \subseteq Boards /\ partial \subseteq Boards
    /\ writing \in BOOLEAN /\ timer \in BOOLEAN /\ misnamed \in BOOLEAN
    /\ printed \in Seq(SUBSET Boards)
    /\ queue \in Seq(Nat) /\ posts \in Seq(Requests) /\ stored \in Seq(Nat \X Credits)

\* Lines that wait, travel or are stored have been printed; the queue and the
\* batches keep to their sizes.
Printed ==
    /\ Len(queue) <= MaxQueue /\ \A n \in DOMAIN queue : queue[n] \in Lines
    /\ \A k \in DOMAIN posts :
          /\ Len(posts[k].lines) <= MaxBatch
          /\ \A m \in DOMAIN posts[k].lines : posts[k].lines[m] \in Lines
    /\ \A j \in DOMAIN stored : stored[j][1] \in Lines
    /\ unsure \subseteq Lines /\ slow \subseteq Lines

QueueInOrder == \A m, n \in DOMAIN queue : m < n => queue[m] < queue[n]

BatchesInOrder ==
    \A k \in DOMAIN posts : \A m, n \in DOMAIN posts[k].lines :
        m < n => posts[k].lines[m] < posts[k].lines[n]

\* Requests are sent one after the other: only the last may still be awaited.
RequestsInOrder ==
    \A j, k \in DOMAIN posts : j < k =>
        /\ ~posts[j].awaited
        /\ \A m \in DOMAIN posts[j].lines, n \in DOMAIN posts[k].lines :
              posts[j].lines[m] < posts[k].lines[n]

GivenUpIsSlow ==
    \A k \in DOMAIN posts : ~posts[k].awaited =>
        \A m \in DOMAIN posts[k].lines : posts[k].lines[m] \in slow

RequestsBeforeQueue ==
    \A k \in DOMAIN posts : \A m \in DOMAIN posts[k].lines :
        \A n \in DOMAIN queue : posts[k].lines[m] < queue[n]

\* Line j came before line l, or l was overtaken after its request was given up.
Precedes(j, l) == j < l \/ (j > l /\ l \in slow)

LogBeforeRequests ==
    \A j \in DOMAIN stored : \A k \in DOMAIN posts : \A m \in DOMAIN posts[k].lines :
        Precedes(stored[j][1], posts[k].lines[m])

LogBeforeQueue == \A j \in DOMAIN stored : \A n \in DOMAIN queue : stored[j][1] < queue[n]

InPlaces ==
    /\ QueueInOrder /\ BatchesInOrder /\ RequestsInOrder /\ GivenUpIsSlow
    /\ RequestsBeforeQueue /\ LogBeforeRequests /\ LogBeforeQueue

\* The board on the line is the last one; so is the one that is credited, unless
\* automatic setup or the wizard said otherwise.
Names == board \in {Nobody, last} /\ (misnamed \/ credit \in {Nobody, last})

\* A line that waits was printed by the last board, and a line that travels by the
\* device it is credited to, unless that is known to be unsure.
QueueIsLast == \A n \in DOMAIN queue : printed[queue[n]] = {last} \/ queue[n] \in unsure

Earned(l, c) == c = Nobody \/ printed[l] = {c} \/ l \in unsure

RequestsAreEarned ==
    \A k \in DOMAIN posts : \A m \in DOMAIN posts[k].lines : Earned(posts[k].lines[m], posts[k].credit)

CreditsAgree == Names /\ QueueIsLast /\ RequestsAreEarned

\* The three parts of BleLogIsTrue.
LogInOrder == \A j, k \in DOMAIN stored : j < k => Precedes(stored[j][1], stored[k][1])
LogIsEarned == \A k \in DOMAIN stored : Earned(stored[k][1], stored[k][2])
QueueIsSeen == queue # <<>> => timer \/ InFlight(posts)

LogInv ==
    /\ Typed /\ Printed /\ InPlaces /\ CreditsAgree
    /\ LogInOrder /\ LogIsEarned /\ QueueIsSeen

-----------------------------------------------------------------------------
(* Sequences.                                                               *)

LEMMA SubSeqElements ==
    ASSUME NEW S, NEW s \in Seq(S), NEW m \in 1..(Len(s) + 1), NEW n \in (m - 1)..Len(s)
    PROVE  /\ SubSeq(s, m, n) \in Seq(S) /\ Len(SubSeq(s, m, n)) = n - m + 1
           /\ DOMAIN SubSeq(s, m, n) = 1..(n - m + 1)
           /\ \A i \in 1..(n - m + 1) : SubSeq(s, m, n)[i] = s[m + i - 1]
OBVIOUS

LEMMA ConcatElements ==
    ASSUME NEW S, NEW s \in Seq(S), NEW t \in Seq(S)
    PROVE  /\ s \o t \in Seq(S) /\ Len(s \o t) = Len(s) + Len(t)
           /\ DOMAIN (s \o t) = 1..(Len(s) + Len(t))
           /\ \A i \in 1..(Len(s) + Len(t)) : (s \o t)[i] = IF i <= Len(s) THEN s[i] ELSE t[i - Len(s)]
OBVIOUS

LEMMA RemoveAtElements ==
    ASSUME NEW S, NEW s \in Seq(S), NEW k \in DOMAIN s, NEW r, r = RemoveAt(s, k)
    PROVE  /\ r \in Seq(S) /\ Len(r) = Len(s) - 1 /\ DOMAIN r = 1..(Len(s) - 1)
           /\ \A i \in DOMAIN r : r[i] = s[IF i < k THEN i ELSE i + 1]
<1> DEFINE a == SubSeq(s, 1, k - 1)
           b == SubSeq(s, k + 1, Len(s))
<1>0. k \in 1..Len(s) /\ Len(s) \in Nat
  OBVIOUS
<1>1. a \in Seq(S) /\ Len(a) = k - 1 /\ \A i \in 1..(k - 1) : a[i] = s[i]
  <2>1. 1 \in 1..(Len(s) + 1) /\ k - 1 \in (1 - 1)..Len(s)
    BY <1>0
  <2> QED BY <2>1, <1>0, SubSeqElements
<1>2. b \in Seq(S) /\ Len(b) = Len(s) - k /\ \A i \in 1..(Len(s) - k) : b[i] = s[k + i]
  <2>1. k + 1 \in 1..(Len(s) + 1) /\ Len(s) \in (k + 1 - 1)..Len(s)
    BY <1>0
  <2> QED BY <2>1, <1>0, SubSeqElements
<1>3. r = a \o b
  BY DEF RemoveAt
<1> HIDE DEF a, b
<1>4. /\ r \in Seq(S) /\ Len(r) = Len(s) - 1 /\ DOMAIN r = 1..(Len(s) - 1)
      /\ \A i \in 1..(Len(s) - 1) : r[i] = IF i <= k - 1 THEN a[i] ELSE b[i - (k - 1)]
  <2>1. /\ a \o b \in Seq(S) /\ DOMAIN (a \o b) = 1..(Len(a) + Len(b)) /\ Len(a \o b) = Len(a) + Len(b)
        /\ \A i \in 1..(Len(a) + Len(b)) : (a \o b)[i] = IF i <= Len(a) THEN a[i] ELSE b[i - Len(a)]
    BY <1>1, <1>2, ConcatElements
  <2>2. Len(a) + Len(b) = Len(s) - 1 /\ Len(a) = k - 1
    BY <1>0, <1>1, <1>2
  <2> QED BY <2>1, <2>2, <1>3
<1>5. ASSUME NEW i \in 1..(Len(s) - 1)
      PROVE  r[i] = s[IF i < k THEN i ELSE i + 1]
  <2>1. CASE i < k
    BY <2>1, <1>0, <1>1, <1>4
  <2>2. CASE ~(i < k)
    <3>1. i - (k - 1) \in 1..(Len(s) - k) /\ k + (i - (k - 1)) = i + 1
      BY <2>2, <1>0
    <3> QED BY <3>1, <2>2, <1>0, <1>2, <1>4
  <2> QED BY <2>1, <2>2
<1> QED BY <1>4, <1>5
-----------------------------------------------------------------------------
(* One lemma per kind of step.                                              *)

\* Steps that move no line: what is excused only grows.
LEMMA QuietStep ==
    ASSUME LogInv, UNCHANGED <<queue, posts, stored, printed, slow>>,
           unsure \subseteq unsure', unsure' \subseteq Lines, timer => timer',
           Typed', Names', QueueIsLast'
    PROVE  LogInv'
<1>1. Printed'
  BY DEF LogInv, Printed, Lines
<1>2. InPlaces' /\ LogInOrder'
  BY DEF LogInv, InPlaces, QueueInOrder, BatchesInOrder, RequestsInOrder, GivenUpIsSlow,
         RequestsBeforeQueue, LogBeforeRequests, LogBeforeQueue, LogInOrder, Precedes
<1>3. RequestsAreEarned' /\ LogIsEarned'
  BY DEF LogInv, CreditsAgree, RequestsAreEarned, LogIsEarned, Earned
<1>4. QueueIsSeen'
  BY DEF LogInv, QueueIsSeen, InFlight
<1> QED BY <1>1, <1>2, <1>3, <1>4 DEF LogInv, CreditsAgree

LEMMA ConnectStep ==
    ASSUME LogInv, NEW b \in Boards, ConnectBoard(b)
    PROVE  LogInv'
<1> USE DEF ConnectBoard, link, waiting, server, excuse
<1>1. UNCHANGED <<queue, posts, stored, printed, slow, timer>>
  OBVIOUS
<1>2. Typed'
  BY DEF LogInv, Typed, Credits
<1>3. unsure \subseteq unsure' /\ unsure' \subseteq Lines
  BY DEF LogInv, Printed, Typed, Range
<1>4. Names'
  BY DEF Names
<1>5. QueueIsLast'
  <2>1. CASE b = last
    BY <2>1 DEF LogInv, CreditsAgree, QueueIsLast
  <2>2. CASE b # last
    BY <2>2 DEF QueueIsLast, Range
  <2> QED BY <2>1, <2>2
<1> HIDE DEF ConnectBoard
<1> QED BY <1>1, <1>2, <1>3, <1>4, <1>5, QuietStep

\* Identify, BeginSetup, SetupAnswers, WizardNames, SetWriting, PrintSome, Disconnect.
LEMMA OtherQuietSteps ==
    ASSUME LogInv,
           \/ \E b \in Boards : SetupAnswers(b) \/ WizardNames(b)
           \/ \E on \in BOOLEAN : SetWriting(on)
           \/ Identify \/ BeginSetup \/ PrintSome \/ Disconnect
    PROVE  LogInv'
<1> USE DEF link, waiting, server, excuse
<1>1. UNCHANGED <<queue, posts, stored, printed, slow, unsure, last>> /\ (timer => timer')
  BY DEF SetupAnswers, WizardNames, SetWriting, Identify, BeginSetup, PrintSome, Disconnect
<1>2. Typed'
  BY DEF LogInv, Typed, Credits, SetupAnswers, WizardNames, SetWriting, Identify, BeginSetup, PrintSome, Disconnect
<1>3. unsure \subseteq unsure' /\ unsure' \subseteq Lines
  BY <1>1 DEF LogInv, Printed
<1>4. Names'
  BY DEF LogInv, CreditsAgree, Names, SetupAnswers, WizardNames, SetWriting, Identify, BeginSetup, PrintSome, Disconnect
<1>5. QueueIsLast'
  BY <1>1 DEF LogInv, CreditsAgree, QueueIsLast
<1> QED BY <1>1, <1>2, <1>3, <1>4, <1>5, QuietStep

\* A new line is greater than every line so far, and goes to the end of the queue.
LEMMA PrintLineStep ==
    ASSUME LogInv, PrintLine
    PROVE  LogInv'
<1> DEFINE line == Len(printed) + 1
           longer == Append(queue, line)
           d == IF Len(longer) > MaxQueue THEN 1 ELSE 0
<1>t. /\ queue \in Seq(Nat) /\ Len(queue) \in Nat /\ DOMAIN queue = 1..Len(queue)
      /\ printed \in Seq(SUBSET Boards) /\ Len(printed) \in Nat /\ line \in Nat \ {0}
      /\ Len(queue) <= MaxQueue /\ MaxQueue \in Nat \ {0}
  BY UploaderParameters DEF LogInv, Typed, Printed
<1>a. /\ UNCHANGED <<board, last, credit, setups, writing, posts, stored, slow, misnamed>>
      /\ board # Nobody /\ timer' = TRUE /\ partial' = {}
      /\ printed' = Append(printed, partial \cup {board})
      /\ queue' = SubSeq(longer, d + 1, Len(longer))
      /\ unsure' = IF partial \subseteq {board} THEN unsure ELSE unsure \cup {line}
  BY DEF PrintLine, link, server
<1>p. /\ Len(printed') = line /\ printed' \in Seq(SUBSET Boards)
      /\ \A l \in Lines : printed'[l] = printed[l]
      /\ printed'[line] = partial \cup {board}
      /\ Lines' = 1..line /\ Lines = 1..(line - 1)
  BY <1>t, <1>a DEF LogInv, Typed, Credits, Lines
<1>q. /\ queue' \in Seq(Nat) /\ Len(queue') = Len(queue) + 1 - d /\ DOMAIN queue' = 1..Len(queue')
      /\ Len(queue') \in Nat
      /\ \A n \in DOMAIN queue' : \/ n + d \in DOMAIN queue /\ queue'[n] = queue[n + d]
                                  \/ n = Len(queue') /\ queue'[n] = line
  <2>1. longer \in Seq(Nat) /\ Len(longer) = Len(queue) + 1
        /\ \A n \in 1..(Len(queue) + 1) : longer[n] = IF n <= Len(queue) THEN queue[n] ELSE line
    BY <1>t
  <2>2. d \in 0..1 /\ d + 1 \in 1..(Len(longer) + 1) /\ Len(longer) \in (d + 1 - 1)..Len(longer)
    BY <1>t, <2>1
  <2> HIDE DEF longer, d
  <2>3. /\ queue' \in Seq(Nat) /\ Len(queue') = Len(longer) - d /\ DOMAIN queue' = 1..(Len(longer) - d)
        /\ \A n \in 1..(Len(longer) - d) : queue'[n] = longer[n + d]
    <3>1. /\ queue' \in Seq(Nat) /\ Len(queue') = Len(longer) - (d + 1) + 1
          /\ DOMAIN queue' = 1..(Len(longer) - (d + 1) + 1)
          /\ \A n \in 1..(Len(longer) - (d + 1) + 1) : queue'[n] = longer[(d + 1) + n - 1]
      BY <2>1, <2>2, <1>a, SubSeqElements
    <3>2. Len(longer) - (d + 1) + 1 = Len(longer) - d /\ \A n \in Nat : (d + 1) + n - 1 = n + d
      BY <2>1, <2>2, <1>t
    <3> QED BY <3>1, <3>2
  <2>4. ASSUME NEW n \in 1..(Len(longer) - d)
        PROVE  \/ n + d \in DOMAIN queue /\ queue'[n] = queue[n + d]
               \/ n = Len(queue') /\ queue'[n] = line
    <3>1. n + d \in 1..(Len(queue) + 1)
      BY <1>t, <2>1, <2>2
    <3>2. CASE n + d <= Len(queue)
      BY <3>1, <3>2, <1>t, <2>1, <2>3
    <3>3. CASE n + d = Len(queue) + 1
      BY <3>1, <3>3, <1>t, <2>1, <2>2, <2>3
    <3> QED BY <3>1, <3>2, <3>3, <1>t
  <2>5. Len(longer) - d = Len(queue) + 1 - d /\ Len(longer) - d \in Nat
    BY <1>t, <2>1, <2>2
  <2> QED BY <2>3, <2>4, <2>5
<1>d. d \in 0..1 /\ Len(queue') <= MaxQueue
  <2>1. Len(longer) = Len(queue) + 1
    BY <1>t
  <2> QED BY <1>t, <1>q, <2>1
<1> HIDE DEF longer, d, line
<1>1. Typed'
  BY <1>a, <1>p, <1>q DEF LogInv, Typed, Credits
<1>2. Printed'
  <2>1. Lines \subseteq Lines' /\ line \in Lines'
    BY <1>t, <1>p
  <2>2. unsure' \subseteq Lines' /\ slow' \subseteq Lines'
    BY <1>a, <2>1 DEF LogInv, Printed
  <2>3. \A n \in DOMAIN queue' : queue'[n] \in Lines'
    BY <1>q, <2>1 DEF LogInv, Printed
  <2>4. \A k \in DOMAIN posts' :
          /\ Len(posts'[k].lines) <= MaxBatch
          /\ \A m \in DOMAIN posts'[k].lines : posts'[k].lines[m] \in Lines'
    BY <1>a, <2>1 DEF LogInv, Printed
  <2>5. \A j \in DOMAIN stored' : stored'[j][1] \in Lines'
    BY <1>a, <2>1 DEF LogInv, Printed
  <2> QED BY <2>2, <2>3, <2>4, <2>5, <1>d DEF Printed
<1>3. QueueInOrder'
  <2> SUFFICES ASSUME NEW m \in DOMAIN queue', NEW n \in DOMAIN queue', m < n
               PROVE  queue'[m] < queue'[n]
    BY DEF QueueInOrder
  <2>1. m # Len(queue') /\ m \in Nat /\ n \in Nat
    BY ONLY <1>q, m \in DOMAIN queue', n \in DOMAIN queue', m < n
  <2>2. m + d \in DOMAIN queue /\ queue'[m] = queue[m + d]
    BY <2>1, <1>q
  <2>3. CASE n + d \in DOMAIN queue /\ queue'[n] = queue[n + d]
    <3>1. m + d < n + d
      BY <2>1, <1>d
    <3> QED BY <3>1, <2>2, <2>3 DEF LogInv, InPlaces, QueueInOrder
  <2>4. CASE queue'[n] = line
    BY <2>2, <2>4, <1>p, <1>t DEF LogInv, Printed
  <2> QED BY <2>3, <2>4, <1>q
<1>4. BatchesInOrder' /\ RequestsInOrder' /\ GivenUpIsSlow' /\ LogBeforeRequests' /\ LogInOrder'
  BY <1>a DEF LogInv, InPlaces, BatchesInOrder, RequestsInOrder, GivenUpIsSlow, LogBeforeRequests,
              LogInOrder, Precedes
<1>5. RequestsBeforeQueue'
  <2> SUFFICES ASSUME NEW k \in DOMAIN posts, NEW m \in DOMAIN posts[k].lines, NEW n \in DOMAIN queue'
               PROVE  posts[k].lines[m] < queue'[n]
    BY <1>a DEF RequestsBeforeQueue
  <2>1. posts[k].lines[m] \in Lines
    BY DEF LogInv, Printed
  <2>2. CASE n + d \in DOMAIN queue /\ queue'[n] = queue[n + d]
    BY <2>2 DEF LogInv, InPlaces, RequestsBeforeQueue
  <2>3. CASE queue'[n] = line
    BY <2>1, <2>3, <1>p, <1>t
  <2> QED BY <2>2, <2>3, <1>q
<1>6. LogBeforeQueue'
  <2> SUFFICES ASSUME NEW j \in DOMAIN stored, NEW n \in DOMAIN queue'
               PROVE  stored[j][1] < queue'[n]
    BY <1>a DEF LogBeforeQueue
  <2>1. stored[j][1] \in Lines
    BY DEF LogInv, Printed
  <2>2. CASE n + d \in DOMAIN queue /\ queue'[n] = queue[n + d]
    BY <2>2 DEF LogInv, InPlaces, LogBeforeQueue
  <2>3. CASE queue'[n] = line
    BY <2>1, <2>3, <1>p, <1>t
  <2> QED BY <2>2, <2>3, <1>q
<1>7. unsure \subseteq unsure'
  BY <1>a
<1>8. Names'
  BY <1>a DEF LogInv, CreditsAgree, Names
<1>9. QueueIsLast'
  <2> SUFFICES ASSUME NEW n \in DOMAIN queue'
               PROVE  printed'[queue'[n]] = {last} \/ queue'[n] \in unsure'
    BY <1>a DEF QueueIsLast
  <2>1. CASE n + d \in DOMAIN queue /\ queue'[n] = queue[n + d]
    BY <2>1, <1>7, <1>p DEF LogInv, Printed, CreditsAgree, QueueIsLast
  <2>2. CASE queue'[n] = line
    <3>1. board = last
      BY <1>a DEF LogInv, CreditsAgree, Names
    <3>2. CASE partial \subseteq {board}
      BY <3>1, <3>2, <2>2, <1>p
    <3>3. CASE ~(partial \subseteq {board})
      BY <3>3, <2>2, <1>a
    <3> QED BY <3>2, <3>3
  <2> QED BY <2>1, <2>2, <1>q
<1>10. RequestsAreEarned'
  BY <1>a, <1>p, <1>7 DEF LogInv, Printed, CreditsAgree, RequestsAreEarned, Earned
<1>11. LogIsEarned'
  BY <1>a, <1>p, <1>7 DEF LogInv, Printed, LogIsEarned, Earned
<1>12. QueueIsSeen'
  BY <1>a DEF QueueIsSeen
<1> QED BY <1>1, <1>2, <1>3, <1>4, <1>5, <1>6, <1>8, <1>9, <1>10, <1>11, <1>12
        DEF LogInv, InPlaces, CreditsAgree

\* What flushBleLog does up to its await: nothing, or a new last request takes the
\* first lines of the queue.
LEMMA FlushStep ==
    ASSUME LogInv, Flush, board' \in {board, Nobody},
           UNCHANGED <<last, credit, setups, writing, partial, stored, slow, printed, misnamed>>
    PROVE  LogInv'
<1> USE DEF LogInv
<1>t. /\ queue \in Seq(Nat) /\ Len(queue) \in Nat /\ DOMAIN queue = 1..Len(queue)
      /\ posts \in Seq(Requests) /\ Len(posts) \in Nat /\ DOMAIN posts = 1..Len(posts)
      /\ MaxBatch \in Nat \ {0} /\ Lines' = Lines /\ credit \in Credits
  BY UploaderParameters DEF Typed, Lines
<1>n. Names'
  BY DEF CreditsAgree, Names
<1>1. CASE InFlight(posts) \/ queue = <<>>
  <2>1. UNCHANGED <<queue, posts, unsure>> /\ timer' = FALSE
    BY <1>1 DEF Flush
  <2>2. Typed' /\ Printed'
    BY <2>1, <1>t DEF Typed, Printed, Credits
  <2>3. InPlaces' /\ LogInOrder'
    BY <2>1 DEF InPlaces, QueueInOrder, BatchesInOrder, RequestsInOrder, GivenUpIsSlow,
           RequestsBeforeQueue, LogBeforeRequests, LogBeforeQueue, LogInOrder, Precedes
  <2>4. QueueIsLast' /\ RequestsAreEarned' /\ LogIsEarned'
    BY <2>1 DEF CreditsAgree, QueueIsLast, RequestsAreEarned, LogIsEarned, Earned
  <2>5. QueueIsSeen'
    BY <2>1, <1>1 DEF QueueIsSeen, InFlight
  <2> QED BY <2>2, <2>3, <2>4, <2>5, <1>n DEF CreditsAgree
<1>2. CASE ~(InFlight(posts) \/ queue = <<>>)
  <2> DEFINE n == IF Len(queue) > MaxBatch THEN MaxBatch ELSE Len(queue)
             batch == SubSeq(queue, 1, n)
             e == Len(posts) + 1
  <2>a. /\ posts' = Append(posts, [lines |-> batch, credit |-> credit, awaited |-> TRUE])
        /\ queue' = SubSeq(queue, n + 1, Len(queue)) /\ timer' = FALSE
        /\ unsure' = unsure \cup (IF misnamed THEN Range(batch) ELSE {})
        /\ \A k \in DOMAIN posts : ~posts[k].awaited
    BY <1>2 DEF Flush, InFlight
  <2>n. n \in 1..Len(queue) /\ n <= MaxBatch
    BY <1>2, <1>t
  <2>b. /\ batch \in Seq(Nat) /\ Len(batch) = n /\ DOMAIN batch = 1..n
        /\ \A m \in DOMAIN batch : batch[m] = queue[m]
    <3> HIDE DEF n
    <3>1. 1 \in 1..(Len(queue) + 1) /\ n \in (1 - 1)..Len(queue) /\ n - 1 + 1 = n
          /\ \A m \in 1..n : 1 + m - 1 = m
      BY <1>t, <2>n
    <3> HIDE DEF batch
    <3>2. /\ batch \in Seq(Nat) /\ Len(batch) = n - 1 + 1 /\ DOMAIN batch = 1..(n - 1 + 1)
          /\ \A m \in 1..(n - 1 + 1) : batch[m] = queue[1 + m - 1]
      BY <1>t, <3>1, SubSeqElements DEF batch
    <3> QED BY <3>1, <3>2
  <2>q. /\ queue' \in Seq(Nat) /\ Len(queue') = Len(queue) - n /\ DOMAIN queue' = 1..(Len(queue) - n)
        /\ \A m \in DOMAIN queue' : queue'[m] = queue[m + n] /\ m + n \in DOMAIN queue
    <3> HIDE DEF n
    <3>1. n + 1 \in 1..(Len(queue) + 1) /\ Len(queue) \in (n + 1 - 1)..Len(queue)
          /\ Len(queue) - (n + 1) + 1 = Len(queue) - n
          /\ \A m \in 1..(Len(queue) - n) : (n + 1) + m - 1 = m + n /\ m + n \in 1..Len(queue)
      BY <1>t, <2>n
    <3>2. /\ queue' \in Seq(Nat) /\ Len(queue') = Len(queue) - (n + 1) + 1
          /\ DOMAIN queue' = 1..(Len(queue) - (n + 1) + 1)
          /\ \A m \in 1..(Len(queue) - (n + 1) + 1) : queue'[m] = queue[(n + 1) + m - 1]
      <4>1. queue \in Seq(Nat) /\ queue' = SubSeq(queue, n + 1, Len(queue))
        BY <1>t, <2>a
      <4> HIDE DEF batch
      <4> QED BY ONLY <4>1, <3>1, SubSeqElements
    <3> QED BY <1>t, <3>1, <3>2
  <2> HIDE DEF n, batch
  <2>p. /\ posts' \in Seq(Requests) /\ DOMAIN posts' = 1..e
        /\ \A k \in DOMAIN posts : posts'[k] = posts[k]
        /\ posts'[e].lines = batch /\ posts'[e].credit = credit /\ posts'[e].awaited
        /\ \A k \in DOMAIN posts' : k \in DOMAIN posts \/ k = e
    <3>1. [lines |-> batch, credit |-> credit, awaited |-> TRUE] \in Requests
      BY <1>t, <2>b DEF Requests
    <3> QED BY <3>1, <1>t, <2>a
  <2>e. e \in Nat /\ \A k \in DOMAIN posts : k < e /\ k \in Nat
    BY <1>t
  <2>f. e \in DOMAIN posts'
    BY <1>t, <2>p
  <2> HIDE DEF e
  <2>m. \A m \in DOMAIN batch : m \in DOMAIN queue
    BY <2>n, <2>b, <1>t
  <2>1. Typed'
    BY <1>t, <2>a, <2>p, <2>q DEF Typed, Credits
  <2>2. Printed'
    <3>1. Len(queue') <= MaxQueue
      BY <1>t, <2>n, <2>q, UploaderParameters DEF Printed
    <3>2. \A m \in DOMAIN queue' : queue'[m] \in Lines'
      BY <2>q, <1>t DEF Printed
    <3>3. Range(batch) \subseteq Lines
      BY <2>b, <2>m DEF Range, Printed
    <3>4. \A k \in DOMAIN posts' :
            /\ Len(posts'[k].lines) <= MaxBatch
            /\ \A m \in DOMAIN posts'[k].lines : posts'[k].lines[m] \in Lines'
      <4> TAKE k \in DOMAIN posts'
      <4>1. CASE k \in DOMAIN posts
        BY <4>1, <2>p, <1>t DEF Printed
      <4>2. CASE k = e
        BY <4>2, <2>p, <2>b, <2>m, <2>n, <1>t DEF Printed
      <4> QED BY <4>1, <4>2, <2>p
    <3>5. unsure' \subseteq Lines' /\ slow' \subseteq Lines'
      BY <2>a, <3>3, <1>t DEF Printed
    <3>6. \A j \in DOMAIN stored' : stored'[j][1] \in Lines'
      BY <1>t DEF Printed
    <3> QED BY <3>1, <3>2, <3>4, <3>5, <3>6 DEF Printed
  <2>3. QueueInOrder'
    <3> SUFFICES ASSUME NEW i \in DOMAIN queue', NEW j \in DOMAIN queue', i < j
                 PROVE  queue'[i] < queue'[j]
      BY DEF QueueInOrder
    <3>1. i + n < j + n
      BY <2>q, <2>n, <1>t
    <3> QED BY <3>1, <2>q DEF InPlaces, QueueInOrder
  <2>4. BatchesInOrder'
    <3> SUFFICES ASSUME NEW k \in DOMAIN posts', NEW i \in DOMAIN posts'[k].lines,
                        NEW j \in DOMAIN posts'[k].lines, i < j
                 PROVE  posts'[k].lines[i] < posts'[k].lines[j]
      BY DEF BatchesInOrder
    <3>1. CASE k \in DOMAIN posts
      BY <3>1, <2>p DEF InPlaces, BatchesInOrder
    <3>2. CASE k = e
      BY <3>2, <2>p, <2>b, <2>m DEF InPlaces, QueueInOrder
    <3> QED BY <3>1, <3>2, <2>p
  <2>5. RequestsInOrder'
    <3> SUFFICES ASSUME NEW j \in DOMAIN posts', NEW k \in DOMAIN posts', j < k
                 PROVE  /\ ~posts'[j].awaited
                        /\ \A x \in DOMAIN posts'[j].lines, y \in DOMAIN posts'[k].lines :
                              posts'[j].lines[x] < posts'[k].lines[y]
      BY DEF RequestsInOrder
    <3>1. j \in DOMAIN posts
      BY <2>p, <2>e
    <3>2. CASE k \in DOMAIN posts
      BY <3>1, <3>2, <2>p DEF InPlaces, RequestsInOrder
    <3>3. CASE k = e
      BY <3>1, <3>3, <2>a, <2>p, <2>b, <2>m DEF InPlaces, RequestsBeforeQueue
    <3> QED BY <3>2, <3>3, <2>p
  <2>6. GivenUpIsSlow'
    BY <2>p DEF InPlaces, GivenUpIsSlow
  <2>7. RequestsBeforeQueue'
    <3> SUFFICES ASSUME NEW k \in DOMAIN posts', NEW i \in DOMAIN posts'[k].lines, NEW j \in DOMAIN queue'
                 PROVE  posts'[k].lines[i] < queue'[j]
      BY DEF RequestsBeforeQueue
    <3>1. CASE k \in DOMAIN posts
      BY <3>1, <2>p, <2>q DEF InPlaces, RequestsBeforeQueue
    <3>2. CASE k = e
      <4>1. i \in DOMAIN batch /\ i < j + n
        BY <3>2, <2>p, <2>b, <2>q, <2>n, <1>t
      <4> QED BY <4>1, <3>2, <2>p, <2>b, <2>m, <2>q DEF InPlaces, QueueInOrder
    <3> QED BY <3>1, <3>2, <2>p
  <2>8. LogBeforeRequests'
    <3> SUFFICES ASSUME NEW j \in DOMAIN stored, NEW k \in DOMAIN posts', NEW i \in DOMAIN posts'[k].lines
                 PROVE  Precedes(stored[j][1], posts'[k].lines[i])
      BY DEF LogBeforeRequests, Precedes
    <3>1. CASE k \in DOMAIN posts
      BY <3>1, <2>p DEF InPlaces, LogBeforeRequests
    <3>2. CASE k = e
      BY <3>2, <2>p, <2>b, <2>m DEF InPlaces, LogBeforeQueue, Precedes
    <3> QED BY <3>1, <3>2, <2>p
  <2>9. LogBeforeQueue' /\ LogInOrder'
    BY <2>q DEF InPlaces, LogBeforeQueue, LogInOrder, Precedes
  <2>10. unsure \subseteq unsure'
    BY <2>a
  <2>11. QueueIsLast'
    BY <2>q, <2>10 DEF CreditsAgree, QueueIsLast
  <2>12. RequestsAreEarned'
    <3> SUFFICES ASSUME NEW k \in DOMAIN posts', NEW i \in DOMAIN posts'[k].lines
                 PROVE  \/ posts'[k].credit = Nobody
                        \/ printed[posts'[k].lines[i]] = {posts'[k].credit}
                        \/ posts'[k].lines[i] \in unsure'
      BY DEF RequestsAreEarned, Earned
    <3>1. CASE k \in DOMAIN posts
      BY <3>1, <2>p, <2>10 DEF CreditsAgree, RequestsAreEarned, Earned
    <3>2. CASE k = e
      <4>1. i \in DOMAIN batch /\ posts'[k].lines[i] = queue[i] /\ i \in DOMAIN queue
        BY <3>2, <2>p, <2>b, <2>m
      <4>2. CASE misnamed
        BY <4>1, <4>2, <2>a, <2>b DEF Range, Earned
      <4>3. CASE ~misnamed
        BY <4>1, <4>3, <3>2, <2>p, <2>10 DEF CreditsAgree, Names, QueueIsLast, Earned
      <4> QED BY <4>2, <4>3
    <3> QED BY <3>1, <3>2, <2>p
  <2>13. LogIsEarned'
    BY <2>10 DEF LogIsEarned, Earned
  <2>14. QueueIsSeen'
    BY <2>p, <2>f DEF QueueIsSeen, InFlight
  <2> QED BY <2>1, <2>2, <2>3, <2>4, <2>5, <2>6, <2>7, <2>8, <2>9, <2>11, <2>12, <2>13, <2>14, <1>n
          DEF InPlaces, CreditsAgree
<1> QED BY <1>1, <1>2

\* A request leaves: it was answered or refused.  Those after it move up.
LEMMA RequestLeavesStep ==
    ASSUME LogInv, NEW k \in DOMAIN posts, posts' = RemoveAt(posts, k),
           Settled(posts[k].awaited), UNCHANGED <<stored, slow>>
    PROVE  LogInv'
<1> USE DEF LogInv
<1> DEFINE old(i) == IF i < k THEN i ELSE i + 1
<1>t. /\ posts \in Seq(Requests) /\ Len(posts) \in Nat /\ DOMAIN posts = 1..Len(posts)
      /\ k \in 1..Len(posts) /\ Lines' = Lines
  BY DEF Typed, Lines, Settled
<1>a. /\ UNCHANGED <<board, last, credit, setups, writing, partial, queue, printed, stored, slow>>
      /\ UNCHANGED <<misnamed, unsure>>
      /\ timer' = (timer \/ (posts[k].awaited /\ queue # <<>>))
  BY DEF Settled, link, excuse
<1>p. /\ posts' \in Seq(Requests) /\ DOMAIN posts' = 1..(Len(posts) - 1)
      /\ \A i \in DOMAIN posts' : posts'[i] = posts[old(i)]
  <2> HIDE DEF old
  <2>1. /\ posts' \in Seq(Requests) /\ DOMAIN posts' = 1..(Len(posts) - 1)
        /\ \A i \in DOMAIN posts' : posts'[i] = posts[IF i < k THEN i ELSE i + 1]
    <3>1. posts \in Seq(Requests) /\ k \in DOMAIN posts /\ posts' = RemoveAt(posts, k)
      BY <1>t
    <3> QED BY ONLY <3>1, RemoveAtElements
  <2> QED BY <2>1 DEF old
<1>o. \A i \in DOMAIN posts' : old(i) \in DOMAIN posts /\ \A j \in DOMAIN posts' : i < j => old(i) < old(j)
  BY <1>t, <1>p
<1> HIDE DEF old
<1>1. Typed'
  BY <1>a, <1>p, <1>t DEF Typed, Credits
<1>2. Printed'
  BY <1>a, <1>p, <1>o, <1>t DEF Printed
<1>3. BatchesInOrder' /\ RequestsInOrder' /\ GivenUpIsSlow' /\ RequestsBeforeQueue'
  BY <1>a, <1>p, <1>o DEF InPlaces, BatchesInOrder, RequestsInOrder, GivenUpIsSlow, RequestsBeforeQueue
<1>4. LogBeforeRequests'
  BY <1>a, <1>p, <1>o DEF InPlaces, LogBeforeRequests, Precedes
<1>5. QueueInOrder' /\ LogBeforeQueue' /\ LogInOrder'
  BY <1>a DEF InPlaces, QueueInOrder, LogBeforeQueue, LogInOrder, Precedes
<1>6. Names' /\ QueueIsLast' /\ LogIsEarned'
  BY <1>a DEF CreditsAgree, Names, QueueIsLast, LogIsEarned, Earned
<1>7. RequestsAreEarned'
  <2> SUFFICES ASSUME NEW i \in DOMAIN posts', NEW m \in DOMAIN posts'[i].lines
               PROVE  Earned(posts'[i].lines[m], posts'[i].credit)
    BY <1>a DEF RequestsAreEarned, Earned
  <2> QED BY <1>p, <1>o DEF CreditsAgree, RequestsAreEarned
<1>8. QueueIsSeen'
  <2>1. CASE queue = <<>> \/ timer \/ posts[k].awaited
    BY <2>1, <1>a DEF QueueIsSeen
  <2>2. CASE ~(queue = <<>> \/ timer \/ posts[k].awaited)
    <3>1. PICK a \in DOMAIN posts : posts[a].awaited
      BY <2>2 DEF QueueIsSeen, InFlight
    <3>2. a # k
      BY <2>2, <3>1
    <3>3. \E i \in DOMAIN posts' : old(i) = a
      <4>1. CASE a < k
        BY <4>1, <1>t, <1>p DEF old
      <4>2. CASE a > k
        <5>1. a - 1 \in DOMAIN posts' /\ old(a - 1) = a
          BY <4>2, <1>t, <1>p DEF old
        <5> QED BY <5>1
      <4> QED BY <3>2, <4>1, <4>2, <1>t
    <3> QED BY <3>1, <3>3, <1>p DEF QueueIsSeen, InFlight
  <2> QED BY <2>1, <2>2
<1> QED BY <1>1, <1>2, <1>3, <1>4, <1>5, <1>6, <1>7, <1>8 DEF InPlaces, CreditsAgree

\* The page gives a request up: its lines may now be overtaken.
LEMMA UnansweredStep ==
    ASSUME LogInv, NEW k \in DOMAIN posts, PostUnanswered(k)
    PROVE  LogInv'
<1> USE DEF LogInv
<1>t. posts \in Seq(Requests) /\ DOMAIN posts = 1..Len(posts) /\ posts[k] \in Requests /\ Lines' = Lines
  BY DEF Typed, Lines, Settled, PostUnanswered
<1>a. /\ UNCHANGED <<board, last, credit, setups, writing, partial, queue, printed, stored, misnamed, unsure>>
      /\ timer' = (timer \/ queue # <<>>) /\ slow' = slow \cup Range(posts[k].lines)
      /\ posts' = [posts EXCEPT ![k].awaited = FALSE]
  BY DEF PostUnanswered, Settled, link, excuse
<1>p. /\ posts' \in Seq(Requests) /\ DOMAIN posts' = DOMAIN posts
      /\ \A i \in DOMAIN posts : /\ posts'[i].lines = posts[i].lines /\ posts'[i].credit = posts[i].credit
                                 /\ posts'[i].awaited => posts[i].awaited
                                 /\ i # k => posts'[i].awaited = posts[i].awaited
  <2>1. /\ posts[k].lines \in Seq(Nat) /\ posts[k].credit \in Credits
        /\ posts'[k].lines = posts[k].lines /\ posts'[k].credit = posts[k].credit /\ ~posts'[k].awaited
        /\ \A i \in DOMAIN posts : i # k => posts'[i] = posts[i]
    BY <1>t, <1>a DEF Requests
  <2>2. posts' \in Seq(Requests) /\ DOMAIN posts' = DOMAIN posts
    <3>1. [posts[k] EXCEPT !.awaited = FALSE] \in Requests
      BY <1>t DEF Requests
    <3> QED BY <3>1, <1>t, <1>a
  <2> QED BY <2>1, <2>2
<1>s. slow \subseteq slow' /\ \A m \in DOMAIN posts[k].lines : posts[k].lines[m] \in slow'
  BY <1>a DEF Range
<1>1. Typed'
  BY <1>a, <1>p DEF Typed, Credits
<1>2. Printed'
  <2>1. slow' \subseteq Lines
    BY <1>a DEF Printed, Range
  <2> QED BY <2>1, <1>a, <1>p, <1>t DEF Printed
<1>3. BatchesInOrder' /\ RequestsInOrder' /\ RequestsBeforeQueue'
  BY <1>a, <1>p DEF InPlaces, BatchesInOrder, RequestsInOrder, RequestsBeforeQueue
<1>4. GivenUpIsSlow'
  <2> SUFFICES ASSUME NEW i \in DOMAIN posts, ~posts'[i].awaited, NEW m \in DOMAIN posts[i].lines
               PROVE  posts[i].lines[m] \in slow'
    BY <1>p DEF GivenUpIsSlow
  <2>1. CASE i = k
    BY <2>1, <1>s
  <2>2. CASE i # k
    BY <2>2, <1>p, <1>s DEF InPlaces, GivenUpIsSlow
  <2> QED BY <2>1, <2>2
<1>5. LogBeforeRequests' /\ LogInOrder'
  BY <1>a, <1>p, <1>s DEF InPlaces, LogBeforeRequests, LogInOrder, Precedes
<1>6. QueueInOrder' /\ LogBeforeQueue' /\ Names' /\ QueueIsLast' /\ LogIsEarned'
  BY <1>a DEF InPlaces, CreditsAgree, QueueInOrder, LogBeforeQueue, Names, QueueIsLast, LogIsEarned, Earned
<1>7. RequestsAreEarned'
  <2> SUFFICES ASSUME NEW i \in DOMAIN posts', NEW m \in DOMAIN posts'[i].lines
               PROVE  Earned(posts'[i].lines[m], posts'[i].credit)
    BY <1>a DEF RequestsAreEarned, Earned
  <2> QED BY <1>p DEF CreditsAgree, RequestsAreEarned
<1>8. QueueIsSeen'
  BY <1>a DEF QueueIsSeen
<1> QED BY <1>1, <1>2, <1>3, <1>4, <1>5, <1>6, <1>7, <1>8 DEF InPlaces, CreditsAgree

\* The server stores the first line of a request.
LEMMA StoreLineStep ==
    ASSUME LogInv, NEW k \in DOMAIN posts, StoreLine(k)
    PROVE  LogInv'
<1> USE DEF LogInv
<1> DEFINE batch == posts[k].lines
           line == Head(batch)
           c == posts[k].credit
           e == Len(stored) + 1
<1>t. /\ posts \in Seq(Requests) /\ DOMAIN posts = 1..Len(posts) /\ posts[k] \in Requests /\ Lines' = Lines
      /\ batch \in Seq(Nat) /\ c \in Credits /\ stored \in Seq(Nat \X Credits)
      /\ Len(stored) \in Nat /\ DOMAIN stored = 1..Len(stored)
  <2>1. posts \in Seq(Requests) /\ stored \in Seq(Nat \X Credits)
    BY DEF Typed
  <2>2. Lines' = Lines
    BY DEF Lines, StoreLine
  <2>3. posts[k] \in Requests
    BY <2>1
  <2>4. batch \in Seq(Nat) /\ c \in Credits
    BY <2>3 DEF Requests
  <2> QED BY <2>1, <2>2, <2>3, <2>4
<1>a. /\ UNCHANGED <<board, last, credit, setups, writing, partial, queue, timer, printed, slow>>
      /\ UNCHANGED <<misnamed, unsure>>
      /\ batch # <<>> /\ posts' = [posts EXCEPT ![k].lines = Tail(batch)]
      /\ stored' = Append(stored, <<line, c>>)
  BY DEF StoreLine, link, waiting, excuse
<1>l. /\ 1 \in DOMAIN batch /\ line = batch[1] /\ Tail(batch) \in Seq(Nat) /\ Len(batch) \in Nat
      /\ Len(Tail(batch)) = Len(batch) - 1 /\ DOMAIN Tail(batch) = 1..(Len(batch) - 1)
      /\ \A m \in DOMAIN Tail(batch) : /\ Tail(batch)[m] = batch[m + 1] /\ m + 1 \in DOMAIN batch
                                       /\ m \in Nat /\ 1 < m + 1
  BY <1>t, <1>a
<1>p. /\ posts' \in Seq(Requests) /\ DOMAIN posts' = DOMAIN posts
      /\ \A i \in DOMAIN posts : /\ posts'[i].credit = posts[i].credit /\ posts'[i].awaited = posts[i].awaited
                                 /\ i # k => posts'[i].lines = posts[i].lines
      /\ posts'[k].lines = Tail(batch)
  <2>1. [posts[k] EXCEPT !.lines = Tail(batch)] \in Requests
    BY <1>t, <1>l DEF Requests
  <2>2. posts' = [posts EXCEPT ![k] = [posts[k] EXCEPT !.lines = Tail(batch)]]
    BY <1>a
  <2>3. /\ posts'[k] = [posts[k] EXCEPT !.lines = Tail(batch)]
        /\ \A i \in DOMAIN posts : i # k => posts'[i] = posts[i]
    BY <2>2, <1>t
  <2>4. posts' \in Seq(Requests) /\ DOMAIN posts' = DOMAIN posts
    BY <2>1, <2>2, <1>t
  <2>5. /\ posts'[k].lines = Tail(batch) /\ posts'[k].credit = posts[k].credit
        /\ posts'[k].awaited = posts[k].awaited
    BY <2>3, <1>t DEF Requests
  <2> QED BY <2>3, <2>4, <2>5
<1>s. /\ stored' \in Seq(Nat \X Credits) /\ DOMAIN stored' = 1..e /\ e \notin DOMAIN stored
      /\ \A j \in DOMAIN stored : stored'[j] = stored[j] /\ j < e /\ j \in Nat
      /\ stored'[e][1] = line /\ stored'[e][2] = c
      /\ \A j \in DOMAIN stored' : (j \in DOMAIN stored \/ j = e) /\ j <= e
  <2>1. <<line, c>> \in Nat \X Credits
    BY <1>t, <1>l
  <2> QED BY <2>1, <1>t, <1>a
<1> HIDE DEF e
\* The lines that are left of a request were lines of it before.
<1>m. \A i \in DOMAIN posts :
        /\ Len(posts'[i].lines) <= Len(posts[i].lines)
        /\ \A m \in DOMAIN posts'[i].lines : \E n \in DOMAIN posts[i].lines :
              posts'[i].lines[m] = posts[i].lines[n] /\ (i = k => 1 < n)
  <2> TAKE i \in DOMAIN posts
  <2>1. CASE i = k
    BY <2>1, <1>p, <1>l
  <2>2. CASE i # k
    BY <2>2, <1>p, <1>t DEF Requests
  <2> QED BY <2>1, <2>2
<1>n. line \in Lines /\ e \in Nat
  BY <1>l, <1>t DEF Printed, e
<1> HIDE DEF line, c, batch
<1>1. Typed'
  BY <1>a, <1>p, <1>s DEF Typed, Credits
<1>2. Printed'
  <2>1. \A i \in DOMAIN posts' :
          /\ Len(posts'[i].lines) <= MaxBatch
          /\ \A m \in DOMAIN posts'[i].lines : posts'[i].lines[m] \in Lines'
    <3> TAKE i \in DOMAIN posts'
    <3>0. i \in DOMAIN posts /\ posts'[i] \in Requests /\ posts[i] \in Requests
      BY <1>p, <1>t
    <3>1. i \in DOMAIN posts /\ posts'[i].lines \in Seq(Nat) /\ posts[i].lines \in Seq(Nat)
      BY <3>0 DEF Requests
    <3>2. Len(posts'[i].lines) \in Nat /\ Len(posts[i].lines) \in Nat
      BY <3>1
    <3>3. Len(posts'[i].lines) <= MaxBatch
      BY <3>1, <3>2, <1>m, UploaderParameters DEF Printed
    <3>4. \A m \in DOMAIN posts'[i].lines : posts'[i].lines[m] \in Lines'
      BY <3>1, <1>m, <1>t DEF Printed
    <3> QED BY <3>3, <3>4
  <2>2. \A j \in DOMAIN stored' : stored'[j][1] \in Lines'
    BY <1>s, <1>n, <1>t DEF Printed
  <2> QED BY <2>1, <2>2, <1>a, <1>t DEF Printed
<1>3. BatchesInOrder'
  <2> SUFFICES ASSUME NEW i \in DOMAIN posts, NEW m \in DOMAIN posts'[i].lines,
                      NEW n \in DOMAIN posts'[i].lines, m < n
               PROVE  posts'[i].lines[m] < posts'[i].lines[n]
    BY <1>p DEF BatchesInOrder
  <2>1. CASE i = k
    <3>1. m \in DOMAIN Tail(batch) /\ n \in DOMAIN Tail(batch) /\ m + 1 < n + 1
      BY <2>1, <1>p, <1>l
    <3> QED BY <2>1, <3>1, <1>p, <1>l DEF InPlaces, BatchesInOrder, batch
  <2>2. CASE i # k
    BY <2>2, <1>p DEF InPlaces, BatchesInOrder
  <2> QED BY <2>1, <2>2
<1>4. RequestsInOrder' /\ GivenUpIsSlow' /\ RequestsBeforeQueue'
  <2>1. RequestsInOrder'
    <3> SUFFICES ASSUME NEW i \in DOMAIN posts, NEW j \in DOMAIN posts, i < j,
                        NEW m \in DOMAIN posts'[i].lines, NEW n \in DOMAIN posts'[j].lines
                 PROVE  posts'[i].lines[m] < posts'[j].lines[n]
      BY <1>p DEF InPlaces, RequestsInOrder
    <3> QED BY <1>m DEF InPlaces, RequestsInOrder
  <2>2. GivenUpIsSlow'
    BY <1>p, <1>m, <1>a DEF InPlaces, GivenUpIsSlow
  <2>3. RequestsBeforeQueue'
    BY <1>p, <1>m, <1>a DEF InPlaces, RequestsBeforeQueue
  <2> QED BY <2>1, <2>2, <2>3
<1>5. LogBeforeRequests'
  <2> SUFFICES ASSUME NEW j \in DOMAIN stored', NEW i \in DOMAIN posts, NEW m \in DOMAIN posts'[i].lines
               PROVE  Precedes(stored'[j][1], posts'[i].lines[m])
    BY <1>p, <1>a DEF LogBeforeRequests, Precedes
  <2>1. PICK n \in DOMAIN posts[i].lines : posts'[i].lines[m] = posts[i].lines[n] /\ (i = k => 1 < n)
    BY <1>m
  <2>2. CASE j \in DOMAIN stored
    BY <2>1, <2>2, <1>s DEF InPlaces, LogBeforeRequests, Precedes
  <2>3. CASE j = e /\ i = k
    BY <2>1, <2>3, <1>s, <1>l DEF InPlaces, BatchesInOrder, Precedes, batch
  <2>4. CASE j = e /\ i < k
    BY <2>1, <2>4, <1>s, <1>l, <1>t, <1>n DEF InPlaces, RequestsInOrder, GivenUpIsSlow, Precedes, batch
  <2>5. CASE j = e /\ k < i
    BY <2>1, <2>5, <1>s, <1>l, <1>t DEF InPlaces, RequestsInOrder, Precedes, batch
  <2>6. i = k \/ i < k \/ k < i
    BY <1>t
  <2> QED BY <2>2, <2>3, <2>4, <2>5, <2>6, <1>s
<1>6. QueueInOrder' /\ Names' /\ QueueIsLast' /\ QueueIsSeen'
  <2>1. QueueInOrder' /\ Names' /\ QueueIsLast'
    BY <1>a DEF InPlaces, CreditsAgree, QueueInOrder, Names, QueueIsLast
  <2>2. QueueIsSeen'
    BY <1>a, <1>p DEF QueueIsSeen, InFlight
  <2> QED BY <2>1, <2>2
<1>7. LogBeforeQueue'
  BY <1>a, <1>s, <1>l DEF InPlaces, LogBeforeQueue, RequestsBeforeQueue, batch
<1>8. LogInOrder'
  <2> SUFFICES ASSUME NEW i \in DOMAIN stored', NEW j \in DOMAIN stored', i < j
               PROVE  Precedes(stored'[i][1], stored'[j][1])
    BY <1>a DEF LogInOrder, Precedes
  <2>1. i \in DOMAIN stored
    BY <1>s, <1>n
  <2>2. CASE j \in DOMAIN stored
    BY <2>1, <2>2, <1>s DEF LogInOrder
  <2>3. CASE j = e
    BY <2>1, <2>3, <1>s, <1>l DEF InPlaces, LogBeforeRequests, batch
  <2> QED BY <2>2, <2>3, <1>s
<1>9. RequestsAreEarned'
  <2> SUFFICES ASSUME NEW i \in DOMAIN posts, NEW m \in DOMAIN posts'[i].lines
               PROVE  Earned(posts'[i].lines[m], posts'[i].credit)
    BY <1>a DEF RequestsAreEarned, Earned
  <2> QED BY <1>m, <1>p DEF CreditsAgree, RequestsAreEarned
<1>10. LogIsEarned'
  <2>1. \A j \in DOMAIN stored : Earned(stored[j][1], stored[j][2])
    BY DEF LogIsEarned
  <2>2. Earned(line, c)
    BY <1>l DEF CreditsAgree, RequestsAreEarned, batch, c
  <2> QED BY <2>1, <2>2, <1>a, <1>s DEF LogIsEarned, Earned
<1> QED BY <1>1, <1>2, <1>3, <1>4, <1>5, <1>6, <1>7, <1>8, <1>9, <1>10 DEF InPlaces, CreditsAgree

-----------------------------------------------------------------------------
(* The theorems.                                                            *)

LEMMA LogStarts == LogInit => LogInv
<1> SUFFICES ASSUME LogInit PROVE LogInv
  OBVIOUS
<1> USE DEF LogInit
<1>1. Typed
  <2>1. <<>> \in Seq(Nat) /\ <<>> \in Seq(Requests) /\ <<>> \in Seq(Nat \X Credits)
        /\ <<>> \in Seq(SUBSET Boards)
    OBVIOUS
  <2> QED BY <2>1 DEF Typed, Credits
<1>2. Printed
  BY UploaderParameters DEF Printed
<1>3. InPlaces
  BY DEF InPlaces, QueueInOrder, BatchesInOrder, RequestsInOrder, GivenUpIsSlow,
         RequestsBeforeQueue, LogBeforeRequests, LogBeforeQueue
<1>4. CreditsAgree
  BY DEF CreditsAgree, Names, QueueIsLast, RequestsAreEarned
<1>5. LogInOrder /\ LogIsEarned /\ QueueIsSeen
  BY DEF LogInOrder, LogIsEarned, QueueIsSeen
<1> QED BY <1>1, <1>2, <1>3, <1>4, <1>5 DEF LogInv

LEMMA LogStep ==
    ASSUME LogInv, LogNext
    PROVE  LogInv'
<1>1. ASSUME NEW b \in Boards, ConnectBoard(b) PROVE LogInv'
  BY <1>1, ConnectStep
<1>2. CASE \/ \E b \in Boards : SetupAnswers(b) \/ WizardNames(b)
           \/ \E on \in BOOLEAN : SetWriting(on)
           \/ Identify \/ BeginSetup \/ PrintSome \/ Disconnect
  BY <1>2, OtherQuietSteps
<1>3. CASE PrintLine
  BY <1>3, PrintLineStep
<1>4. CASE FlushTimer \/ LinkDrops
  <2>1. Flush /\ board' \in {board, Nobody}
    BY <1>4 DEF FlushTimer, LinkDrops, link
  <2>2. UNCHANGED <<last, credit, setups, writing, partial, stored, slow, printed, misnamed>>
    BY <1>4 DEF FlushTimer, LinkDrops, link
  <2> QED BY <2>1, <2>2, FlushStep
<1>5. ASSUME NEW k \in DOMAIN posts, StoreLine(k) PROVE LogInv'
  BY <1>5, StoreLineStep
<1>6. ASSUME NEW k \in DOMAIN posts, PostEnds(k) \/ PostRefused(k) PROVE LogInv'
  BY <1>6, RequestLeavesStep DEF PostEnds, PostRefused
<1>7. ASSUME NEW k \in DOMAIN posts, PostUnanswered(k) PROVE LogInv'
  BY <1>7, UnansweredStep
<1> QED BY <1>1, <1>2, <1>3, <1>4, <1>5, <1>6, <1>7 DEF LogNext

LEMMA LogStutters ==
    ASSUME LogInv, UNCHANGED logVars
    PROVE  LogInv'
<1>1. UNCHANGED <<queue, posts, stored, printed, slow, unsure, timer, last, board, credit, setups, writing,
                  partial, misnamed>>
  BY DEF logVars
<1>2. Typed' /\ Names' /\ QueueIsLast'
  BY <1>1 DEF LogInv, CreditsAgree, Typed, Credits, Names, QueueIsLast
<1>3. unsure' \subseteq Lines
  BY <1>1 DEF LogInv, Printed
<1> QED BY <1>1, <1>2, <1>3, QuietStep

LEMMA LogInvGives == LogInv => LogTypeOK /\ BleLogIsTrue
<1> SUFFICES ASSUME LogInv PROVE LogTypeOK /\ BleLogIsTrue
  OBVIOUS
<1>1. LogTypeOK
  <2>1. DOMAIN printed = Lines /\ stored \in Seq(Nat \X Credits)
    BY DEF LogInv, Typed, Lines
  <2>2. \A j \in DOMAIN stored : stored[j] \in (DOMAIN printed) \X (Boards \cup {Nobody})
    <3> TAKE j \in DOMAIN stored
    <3>1. stored[j] \in Nat \X Credits /\ stored[j][1] \in Lines
      BY <2>1 DEF LogInv, Printed
    <3> QED BY <2>1, <3>1 DEF Credits
  <2>3. Range(queue) \cup unsure \cup slow \subseteq DOMAIN printed
    BY <2>1 DEF LogInv, Printed, Range
  <2> QED BY <2>2, <2>3 DEF LogInv, Typed, Printed, LogTypeOK, Credits
<1>2. BleLogIsTrue
  BY DEF LogInv, BleLogIsTrue, LogInOrder, LogIsEarned, QueueIsSeen, Precedes, Earned
<1> QED BY <1>1, <1>2

\* Lines stay in their places, and what is known of their boards stays true.
THEOREM LogInvariance == LogSpec => []LogInv
<1>1. LogInv /\ [LogNext]_logVars => LogInv'
  BY LogStep, LogStutters
<1> QED BY <1>1, LogStarts, PTL DEF LogSpec

\* The uploader's state keeps its types, whatever the sizes: the queue and the
\* batches never exceed their limits, and only printed lines are on their way.
THEOREM LogTyping == LogSpec => []LogTypeOK
BY LogInvariance, LogInvGives, PTL

\* What the administrator reads of boards is in the order of print, credited to
\* the board that printed it unless a named race excuses it, and no line is
\* forgotten in the queue: flushBleLog and its timer, on their own.
THEOREM LogIsTrue == LogSpec => []BleLogIsTrue
BY LogInvariance, LogInvGives, PTL

-----------------------------------------------------------------------------
(* The pages.                                                              *)

\* A part of the page does in the page what it does on its own.
LEMMA PartsSteps ==
  [Next]_vars => [ChartsNext]_chartVars /\ [PanelNext]_panelVars /\ [FeedNext]_feedVars /\ [LogNext]_logVars
<1> SUFFICES ASSUME [Next]_vars
             PROVE  [ChartsNext]_chartVars /\ [PanelNext]_panelVars /\ [FeedNext]_feedVars /\ [LogNext]_logVars
  OBVIOUS
<1>1. CASE Next
  BY <1>1 DEF Next
<1>2. CASE UNCHANGED vars
  BY <1>2 DEF vars
<1> QED BY <1>1, <1>2

\* Seen through the uploader's variables the page does what the uploader does.
THEOREM PageUploads == Spec => LogSpec
<1>1. Init => LogInit
  BY DEF Init
<1>2. [Next]_vars => [LogNext]_logVars
  BY PartsSteps
<1> QED BY <1>1, <1>2, PTL DEF Spec, LogSpec

\* The shell log of the administrator's page is in order and credited to the
\* boards that printed it, but for named races, for any boards and limits.
THEOREM BleLogTrue == Spec => []BleLogIsTrue
BY PageUploads, LogIsTrue, PTL

\* Where every reading of the charts is, through applySensorRange, the history
\* answers, the event stream and its reconnections.
THEOREM ChartInvariance == Spec => []ChartInv
<1>1. Init => ChartInv
  BY ChartsStart DEF Init
<1>2. ChartInv /\ [Next]_vars => ChartInv'
  BY PartsSteps, ChartsStep
<1> QED BY <1>1, <1>2, PTL DEF Spec

\* When nothing is on its way the charts of app.js draw the selected device only, and
\* under a range every stored reading of it, but for crossed choices and named losses.
THEOREM ChartsTrue == Spec => []ChartIsTrue
BY ChartInvariance, ChartsMean, PTL

\* Where every row is that the administrator's table should show, through backfill,
\* the merged stream, the filters and the table's own limits.
THEOREM FeedInvariance == Spec => []FeedInv
<1>1. Init => FeedInv
  BY FeedStarts DEF Init
<1>2. FeedInv /\ [Next]_vars => FeedInv'
  BY PartsSteps, FeedStep
<1> QED BY <1>1, <1>2, PTL DEF Spec

\* When nothing is on its way the table of admin.js shows what the filters let
\* through, no row twice, and every such row was drawn but for those missed for a named reason.
THEOREM FeedTrue == Spec => []FeedIsTrue
BY FeedInvariance, FeedMeans, PTL

\* A panel polls only on the screen, with credentials, and for health it has.
THEOREM PanelInvariance == Spec => []PanelInv
<1>1. Init => PanelInv
  BY PanelStarts DEF Init
<1>2. PanelInv /\ [Next]_vars => PanelInv'
  BY PartsSteps, PanelStep
<1> QED BY <1>1, <1>2, PTL DEF Spec

\* The charts, the panels, the feed and the uploader keep their types and limits,
\* whatever MAX_ROWS, ID_MEMORY, the page limits and the queues are.
THEOREM PagesTyping == Spec => []TypeOK
<1>1. ChartInv /\ PanelInv /\ FeedInv /\ LogTypeOK => TypeOK
  BY ChartsMean, PanelMeans, FeedMeans DEF TypeOK
<1>2. Spec => []LogTypeOK
  BY PageUploads, LogTyping, PTL
<1> QED BY <1>1, <1>2, ChartInvariance, PanelInvariance, FeedInvariance, PTL
=============================================================================
