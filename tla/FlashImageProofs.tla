-------------------------- MODULE FlashImageProofs --------------------------
(***************************************************************************)
(* What the parsers of the flashing tools make of a file, for every file,  *)
(* and what writing and reading back its parts makes of a memory.          *)
(*                                                                         *)
(* The parsers fold over the records of a file, so what they make of one   *)
(* is proved record by record.  The folds of the community modules recurse *)
(* over sets of indices: each is unfolded once, to a state after each      *)
(* record (WordState, SegmentState), and everything else is said of these  *)
(* states.  An induction is an argument from the least counterexample: the *)
(* order of the naturals is well founded (NatSetInduction).                *)
(*                                                                         *)
(* Then a job: a list of parts, the bytes a memory should have (want), the *)
(* memory before (base).  Writing, Wrote and Verifying say what is true    *)
(* before each part is written, after the last, and before each is read    *)
(* back; Flashed is what a job that is done has made of the memory.        *)
(***************************************************************************)
EXTENDS FlashTools, FiniteSetTheorems, WellFoundedInduction, TLAPS


\* Induction over the numbers of a set, from the least number a counterexample would have.
LEMMA NatSetInduction ==
  ASSUME NEW S, 0 \in S, \A n \in Nat : n \in S => n + 1 \in S
  PROVE  Nat \subseteq S
<1> DEFINE R == OpToRel(<, Nat)
           T == Nat \ S
<1> SUFFICES ASSUME T # {} PROVE FALSE
  OBVIOUS
<1>1. IsWellFoundedOn(R, Nat)
  BY NatLessThanWellFounded
<1> HIDE DEF R
<1>2. PICK x \in T : \A y \in T : ~ (<<y, x>> \in R)
  BY <1>1, WFMin, T \subseteq Nat
<1>3. x \in Nat /\ x # 0
  OBVIOUS
<1>4. x - 1 \in Nat /\ x - 1 < x
  BY <1>3
<1>5. <<x - 1, x>> \in R
  BY <1>3, <1>4 DEF R, OpToRel
<1>6. x - 1 \in S
  BY <1>2, <1>4, <1>5
<1>7. (x - 1) + 1 \in S
  BY <1>4, <1>6
<1> QED
  BY <1>7, <1>3

\* A set of naturals has a least member, and Min is it.
LEMMA MinIsLeast ==
  ASSUME NEW S, S \subseteq Nat, S # {}
  PROVE  Min(S) \in S /\ \A y \in S : Min(S) <= y
<1> DEFINE R == OpToRel(<, Nat)
<1>1. IsWellFoundedOn(R, Nat)
  BY NatLessThanWellFounded
<1> HIDE DEF R
<1>2. PICK x \in S : \A y \in S : ~ (<<y, x>> \in R)
  BY <1>1, WFMin
<1>3. \A y \in S : x <= y
  <2> TAKE y \in S
  <2>1. CASE y < x
    BY <2>1, <1>2 DEF R, OpToRel
  <2> QED
    BY <2>1
<1> QED
  BY <1>3 DEF Min

\* A bounded set of naturals has a greatest member, and Max is it.
LEMMA MaxIsGreatest ==
  ASSUME NEW S, S \subseteq Nat, S # {}, NEW n \in Nat, \A y \in S : y <= n
  PROVE  Max(S) \in S /\ \A y \in S : Max(S) >= y
<1> DEFINE T == {n - y : y \in S}
<1>1. T \subseteq Nat /\ T # {}
  <2>1. \A y \in S : y \in Nat /\ n - y \in Nat
    OBVIOUS
  <2> QED
    BY <2>1
<1>2. Min(T) \in T /\ \A y \in T : Min(T) <= y
  BY <1>1, MinIsLeast
<1>3. PICK x \in S : Min(T) = n - x
  BY <1>2
<1>4. \A y \in S : x >= y
  <2> TAKE y \in S
  <2>1. n - x <= n - y
    BY <1>2, <1>3
  <2> QED
    BY <2>1
<1> QED
  BY <1>4 DEF Max

\* A bounded set of naturals without holes above its least element is an interval.
LEMMA SolidIsInterval ==
  ASSUME NEW V, V \subseteq Nat, NEW lo \in V, NEW n \in Nat,
         \A v \in V : lo <= v /\ v <= n /\ lo .. v \subseteq V
  PROVE  Cardinality(V) \in Nat /\ V = lo .. lo + Cardinality(V) - 1
<1>1. Max(V) \in V /\ \A y \in V : Max(V) >= y
  <2>1. V # {} /\ \A y \in V : y <= n
    OBVIOUS
  <2> QED
    BY <2>1, MaxIsGreatest
<1> DEFINE hi == Max(V)
<1> HIDE DEF hi
<1>2. V = lo .. hi
  <2>1. hi \in V /\ \A y \in V : hi >= y
    BY <1>1 DEF hi
  <2>2. \A v \in V : v \in lo .. hi
    BY <2>1
  <2> QED
    BY <2>1, <2>2
<1>3. lo \in Nat /\ hi \in Nat /\ lo <= hi
  BY <1>1 DEF hi
<1>4. Cardinality(lo .. hi) = hi - lo + 1
  BY <1>3, FS_Interval
<1> QED
  BY <1>2, <1>3, <1>4

\* The lesser of two numbers, for the length of the last slice.
LEMMA MinOfTwo ==
  ASSUME NEW x \in Nat, NEW y \in Nat
  PROVE  Min({x, y}) \in Nat /\ Min({x, y}) <= x /\ Min({x, y}) <= y
         /\ (Min({x, y}) = x \/ Min({x, y}) = y)
BY MinIsLeast, {x, y} \subseteq Nat

Joined(s, t) == s \o t

Flattened(ss, n, f) ==
    f = [i \in 1 .. n |-> IF i = 1 THEN ss[i] ELSE Joined(f[i - 1], ss[i])]

\* The recursive function by which FlattenSeq is defined exists.
LEMMA FlattenedExists ==
  ASSUME NEW ss, NEW n \in Nat
  PROVE  \E f : Flattened(ss, n, f)
<1> DEFINE T == {m \in Nat : \E f : Flattened(ss, m, f)}
<1>1. 0 \in T
  <2>1. Flattened(ss, 0, [i \in 1 .. 0 |-> i])
    BY DEF Flattened
  <2> QED
    BY <2>1
<1>2. ASSUME NEW m \in Nat, m \in T PROVE m + 1 \in T
  <2>1. PICK f : f = [i \in 1 .. m |-> IF i = 1 THEN ss[i] ELSE Joined(f[i - 1], ss[i])]
    BY <1>2 DEF Flattened
  <2> DEFINE g == [i \in 1 .. m + 1 |->
                      IF i <= m THEN f[i] ELSE IF i = 1 THEN ss[i] ELSE Joined(f[i - 1], ss[i])]
  <2>2. ASSUME NEW i \in 1 .. m + 1
        PROVE  g[i] = IF i = 1 THEN ss[i] ELSE Joined(g[i - 1], ss[i])
    <3>1. CASE i = 1
      BY <2>1, <3>1
    <3>2. CASE i # 1 /\ i <= m
      <4>1. f[i] = Joined(f[i - 1], ss[i])
        BY <2>1, <3>2
      <4>2. g[i] = f[i] /\ g[i - 1] = f[i - 1]
        BY <3>2
      <4> QED
        BY <3>2, <4>1, <4>2
    <3>3. CASE i # 1 /\ i = m + 1
      <4>1. g[i] = Joined(f[i - 1], ss[i]) /\ g[i - 1] = f[i - 1]
        BY <3>3
      <4> QED
        BY <3>3, <4>1
    <3> QED
      BY <3>1, <3>2, <3>3
  <2>3. Flattened(ss, m + 1, g)
    BY <2>2 DEF Flattened
  <2> QED
    BY <2>3
<1> HIDE DEF T
<1>3. Nat \subseteq T
  BY <1>1, <1>2, NatSetInduction
<1> QED
  BY <1>3 DEF T

\* A flattened sequence has the members of its parts, and no others.
LEMMA FlattenSeqRange ==
  ASSUME NEW S, NEW ss \in Seq(Seq(S))
  PROVE  /\ FlattenSeq(ss) \in Seq(S)
         /\ Range(FlattenSeq(ss)) = UNION {Range(ss[i]) : i \in DOMAIN ss}
<1>1. CASE ss = <<>>
  BY <1>1 DEF FlattenSeq, Range
<1>2. CASE ss # <<>>
  <2> DEFINE n == Len(ss)
             f == CHOOSE h : Flattened(ss, n, h)
  <2>1. n \in Nat \ {0} /\ DOMAIN ss = 1 .. n /\ \A i \in 1 .. n : ss[i] \in Seq(S)
    BY <1>2
  <2>2. FlattenSeq(ss) = f[n]
    BY <2>1 DEF FlattenSeq, Flattened, Joined
  <2>3. f = [i \in 1 .. n |-> IF i = 1 THEN ss[i] ELSE Joined(f[i - 1], ss[i])]
    <3>1. \E h : Flattened(ss, n, h)
      BY <2>1, FlattenedExists
    <3>2. Flattened(ss, n, f)
      BY <3>1
    <3> QED
      BY <3>2 DEF Flattened
  <2> HIDE DEF n, f
  <2> DEFINE Good(i) == f[i] \in Seq(S) /\ Range(f[i]) = UNION {Range(ss[j]) : j \in 1 .. i}
             T == {k \in Nat : k \in 1 .. n => Good(k)}
  <2>4. 0 \in T
    OBVIOUS
  <2>5. ASSUME NEW k \in Nat, k \in T PROVE k + 1 \in T
    <3> SUFFICES ASSUME k + 1 \in 1 .. n PROVE Good(k + 1)
      OBVIOUS
    <3>1. CASE k = 0
      <4>1. f[1] = ss[1]
        BY <2>3, <2>1
      <4> QED
        BY <4>1, <3>1, <2>1
    <3>2. CASE k # 0
      <4>1. f[k + 1] = Joined(f[k], ss[k + 1])
        BY <2>3, <3>2, k + 1 # 1, (k + 1) - 1 = k
      <4>2. f[k] \in Seq(S) /\ ss[k + 1] \in Seq(S) /\ Range(f[k]) = UNION {Range(ss[j]) : j \in 1 .. k}
        BY <2>1, <2>5, <3>2
      <4>3. f[k + 1] \in Seq(S) /\ Range(f[k + 1]) = Range(f[k]) \cup Range(ss[k + 1])
        <5> DEFINE s == f[k]
                   t == ss[k + 1]
        <5>1. s \in Seq(S) /\ t \in Seq(S) /\ f[k + 1] = s \o t
          BY <4>1, <4>2 DEF Joined
        <5> HIDE DEF s, t
        <5>2. Range(s \o t) = Range(s) \cup Range(t)
          <6>1. ASSUME NEW x \in Range(s) \cup Range(t) PROVE x \in Range(s \o t)
            <7>1. CASE x \in Range(s)
              <8>1. PICK i \in 1 .. Len(s) : s[i] = x
                BY <7>1, <5>1 DEF Range
              <8>2. i \in 1 .. Len(s \o t) /\ (s \o t)[i] = x
                BY <8>1, <5>1
              <8>3. DOMAIN (s \o t) = 1 .. Len(s \o t)
                BY <5>1
              <8> QED
                BY <8>2, <8>3 DEF Range
            <7>2. CASE x \in Range(t)
              <8>1. PICK i \in 1 .. Len(t) : t[i] = x
                BY <7>2, <5>1 DEF Range
              <8>2. Len(s) + i \in 1 .. Len(s \o t) /\ (s \o t)[Len(s) + i] = x
                BY <8>1, <5>1
              <8>3. DOMAIN (s \o t) = 1 .. Len(s \o t)
                BY <5>1
              <8> QED
                BY <8>2, <8>3 DEF Range
            <7> QED
              BY <7>1, <7>2, <6>1
          <6>2. ASSUME NEW x \in Range(s \o t) PROVE x \in Range(s) \cup Range(t)
            <7>1. PICK i \in 1 .. Len(s) + Len(t) : (s \o t)[i] = x
              BY <6>2, <5>1 DEF Range
            <7>2. CASE i <= Len(s)
              BY <7>1, <7>2, <5>1 DEF Range
            <7>3. CASE i > Len(s)
              <8>1. i - Len(s) \in 1 .. Len(t) /\ x = t[i - Len(s)]
                BY <7>1, <7>3, <5>1
              <8> QED
                BY <8>1, <5>1 DEF Range
            <7> QED
              BY <7>1, <7>2, <7>3, <5>1
          <6> QED
            BY <6>1, <6>2
        <5> QED
          BY <5>1, <5>2 DEF s, t
      <4>4. 1 .. k + 1 = 1 .. k \cup {k + 1}
        OBVIOUS
      <4> QED
        BY <4>2, <4>3, <4>4
    <3> QED
      BY <3>1, <3>2
  <2> HIDE DEF T
  <2>6. Nat \subseteq T
    BY <2>4, <2>5, NatSetInduction
  <2>7. Good(n)
    <3>1. n \in T /\ n \in 1 .. n
      BY <2>1, <2>6
    <3> HIDE DEF Good
    <3> QED
      BY <3>1 DEF T
  <2> QED
    BY <2>1, <2>2, <2>7
<1> QED
  BY <1>1, <1>2

\* Every bounded set of naturals can be listed in order.
LEMMA SortedListing ==
  ASSUME NEW b \in Nat, NEW S, S \subseteq 0 .. b
  PROVE  /\ Cardinality(S) \in Nat
         /\ \E s \in [1 .. Cardinality(S) -> S] :
               /\ \A i, j \in DOMAIN s : i < j => s[i] < s[j]
               /\ S = {s[i] : i \in DOMAIN s}
<1> DEFINE Increasing(s) == \A i, j \in DOMAIN s : i < j => s[i] < s[j]
           Listed(U) == /\ IsFiniteSet(U) /\ Cardinality(U) \in Nat
                        /\ \E s \in [1 .. Cardinality(U) -> U] :
                              Increasing(s) /\ U = {s[i] : i \in DOMAIN s}
           T == {n \in Nat : \A U \in SUBSET (0 .. n - 1) : Listed(U)}
<1>1. 0 \in T
  <2> SUFFICES ASSUME NEW U \in SUBSET (0 .. -1) PROVE Listed(U)
    OBVIOUS
  <2>1. U = {} /\ IsFiniteSet(U) /\ Cardinality(U) = 0
    <3>1. U = {}
      OBVIOUS
    <3> QED
      BY <3>1, FS_EmptySet
  <2> DEFINE e == [i \in 1 .. Cardinality(U) |-> 0]
  <2>2. e \in [1 .. Cardinality(U) -> U] /\ DOMAIN e = {}
    BY <2>1
  <2>3. Increasing(e) /\ U = {e[i] : i \in DOMAIN e}
    BY <2>1, <2>2
  <2> HIDE DEF Increasing, e
  <2>4. \E s \in [1 .. Cardinality(U) -> U] : Increasing(s) /\ U = {s[i] : i \in DOMAIN s}
    BY <2>2, <2>3
  <2>5. IsFiniteSet(U) /\ Cardinality(U) \in Nat
    BY <2>1
  <2> QED
    BY <2>4, <2>5
<1>2. ASSUME NEW n \in Nat, n \in T PROVE n + 1 \in T
  <2> SUFFICES ASSUME NEW U \in SUBSET (0 .. n) PROVE Listed(U)
    BY (n + 1) - 1 = n
  <2>1. CASE n \notin U
    <3>1. U \in SUBSET (0 .. n - 1)
      BY <2>1
    <3> QED
      BY <3>1, <1>2
  <2>2. CASE n \in U
    <3> DEFINE V == U \ {n}
               c == Cardinality(V)
    <3>1. V \in SUBSET (0 .. n - 1)
      OBVIOUS
    <3>2. Listed(V)
      BY <3>1, <1>2
    <3>3. U = V \cup {n} /\ n \notin V
      BY <2>2
    <3> HIDE DEF V
    <3>4. IsFiniteSet(U) /\ Cardinality(U) = c + 1 /\ c \in Nat
      BY <3>2, <3>3, FS_AddElement
    <3>5. PICK s \in [1 .. c -> V] : Increasing(s) /\ V = {s[i] : i \in DOMAIN s}
      BY <3>2
    <3> HIDE DEF c
    <3> DEFINE t == [i \in 1 .. c + 1 |-> IF i = c + 1 THEN n ELSE s[i]]
    <3>6. t \in [1 .. c + 1 -> U]
      BY <3>3, <3>4, <3>5
    <3>7. Increasing(t)
      <4> SUFFICES ASSUME NEW i \in 1 .. c + 1, NEW j \in 1 .. c + 1, i < j PROVE t[i] < t[j]
        BY <3>4
      <4>1. i \in 1 .. c /\ s[i] \in V /\ t[i] = s[i]
        BY <3>4, <3>5
      <4>2. s[i] \in 0 .. n - 1
        BY <3>1, <4>1
      <4>3. CASE j = c + 1
        BY <4>1, <4>2, <4>3
      <4>4. CASE j # c + 1
        <5>1. j \in 1 .. c /\ t[j] = s[j]
          BY <3>4, <4>4
        <5>2. DOMAIN s = 1 .. c
          BY <3>5
        <5>3. s[i] < s[j]
          BY <3>5, <4>1, <5>1, <5>2
        <5> QED
          BY <4>1, <5>1, <5>3
      <4> QED
        BY <4>3, <4>4
    <3>8. U = {t[i] : i \in DOMAIN t}
      <4>1. \A i \in 1 .. c : t[i] = s[i] /\ i \in 1 .. c + 1
        BY <3>4
      <4>2. t[c + 1] = n /\ c + 1 \in 1 .. c + 1 /\ DOMAIN t = 1 .. c + 1 /\ DOMAIN s = 1 .. c
        BY <3>4, <3>5
      <4>3. \A i \in 1 .. c + 1 : i \in 1 .. c \/ i = c + 1
        BY <3>4
      <4> HIDE DEF t
      <4>4. ASSUME NEW x \in U PROVE \E i \in DOMAIN t : x = t[i]
        BY <3>3, <3>5, <4>1, <4>2
      <4>5. ASSUME NEW i \in DOMAIN t PROVE t[i] \in U
        BY <3>6, <4>2
      <4> QED
        BY <4>4, <4>5
    <3>9. IsFiniteSet(U) /\ Cardinality(U) \in Nat /\ t \in [1 .. Cardinality(U) -> U]
      BY <3>4, <3>6
    <3> HIDE DEF t, Increasing
    <3> QED
      BY <3>7, <3>8, <3>9
  <2> QED
    BY <2>1, <2>2
<1> HIDE DEF T
<1>3. Nat \subseteq T
  BY <1>1, <1>2, NatSetInduction
<1>4. b + 1 \in T /\ (b + 1) - 1 = b
  BY <1>3
<1> QED
  BY <1>4 DEF T

NoSegments == [segments |-> <<>>, linear |-> 0, segment |-> 0, at |-> "reading"]

\* FoldLeft(WordRecord, ...) as a function on the sets of record numbers.
WordStep(file, g, s) == IF s = {} THEN Reading ELSE WordRecord(g[s \ {Max(s)}], file[Max(s)])
WordFold(file, D, g) == g = [s \in SUBSET D |-> WordStep(file, g, s)]
WordIter(file) == CHOOSE g : WordFold(file, DOMAIN file, g)

\* What the parser has made of the first i records.
WordState(file, i) == WordIter(file)[1 .. i]

\* The recursive function by which the fold over the records is defined exists.
LEMMA WordFoldExists ==
  ASSUME NEW file, NEW n \in Nat
  PROVE  \E g : WordFold(file, 1 .. n, g)
<1> DEFINE T == {m \in Nat : \E g : WordFold(file, 1 .. m, g)}
<1>1. 0 \in T
  <2> DEFINE g == [s \in SUBSET (1 .. 0) |-> Reading]
  <2>1. \A s \in SUBSET (1 .. 0) : WordStep(file, g, s) = Reading
    BY DEF WordStep
  <2>2. WordFold(file, 1 .. 0, g)
    BY <2>1 DEF WordFold
  <2> QED
    BY <2>2
<1>2. ASSUME NEW m \in Nat, m \in T PROVE m + 1 \in T
  <2>1. PICK g : WordFold(file, 1 .. m, g)
    BY <1>2
  <2> DEFINE h == [s \in SUBSET (1 .. m + 1) |->
                      IF m + 1 \in s THEN WordRecord(g[s \ {m + 1}], file[m + 1]) ELSE g[s]]
  <2>2. ASSUME NEW s \in SUBSET (1 .. m + 1) PROVE h[s] = WordStep(file, h, s)
    <3>1. CASE m + 1 \in s
      <4>1. Max(s) = m + 1
        <5>1. \A y \in s : m + 1 >= y
          OBVIOUS
        <5>2. \A x \in s : (\A y \in s : x >= y) => x = m + 1
          BY <3>1
        <5> QED
          BY <3>1, <5>1, <5>2 DEF Max
      <4>2. s \ {m + 1} \in SUBSET (1 .. m + 1) /\ m + 1 \notin s \ {m + 1} /\ s # {}
        BY <3>1
      <4>3. h[s \ {m + 1}] = g[s \ {m + 1}]
        BY <4>2
      <4> QED
        BY <3>1, <4>1, <4>2, <4>3 DEF WordStep
    <3>2. CASE m + 1 \notin s
      <4>1. s \in SUBSET (1 .. m)
        BY <3>2
      <4>2. h[s] = g[s] /\ g[s] = WordStep(file, g, s)
        BY <2>1, <3>2, <4>1 DEF WordFold
      <4>3. s \ {Max(s)} \in SUBSET (1 .. m + 1) /\ m + 1 \notin s \ {Max(s)}
        BY <3>2
      <4>4. h[s \ {Max(s)}] = g[s \ {Max(s)}]
        BY <4>3
      <4> QED
        BY <4>2, <4>4 DEF WordStep
    <3> QED
      BY <3>1, <3>2
  <2>3. WordFold(file, 1 .. m + 1, h)
    BY <2>2 DEF WordFold
  <2> QED
    BY <2>3
<1> HIDE DEF T
<1>3. Nat \subseteq T
  BY <1>1, <1>2, NatSetInduction
<1> QED
  BY <1>3 DEF T

\* The parser reads the records in order, one step each.
LEMMA WordStateUnfolds ==
  ASSUME NEW file \in Seq(HexRecord)
  PROVE  /\ WordState(file, 0) = Reading
         /\ \A i \in 1 .. Len(file) : WordState(file, i) = WordRecord(WordState(file, i - 1), file[i])
         /\ FoldLeft(WordRecord, Reading, file) = WordState(file, Len(file))
<1> DEFINE n == Len(file)
           g == WordIter(file)
<1>1. n \in Nat /\ DOMAIN file = 1 .. n
  OBVIOUS
<1>2. WordFold(file, 1 .. n, g)
  <2>1. \E h : WordFold(file, 1 .. n, h)
    BY <1>1, WordFoldExists
  <2> QED
    BY <1>1, <2>1 DEF WordIter
<1>3. FoldLeft(WordRecord, Reading, file) = g[DOMAIN file]
  BY DEF FoldLeft, MapThenFoldSet, WordIter, WordFold, WordStep
<1> HIDE DEF g, n
<1>4. \A s \in SUBSET (1 .. n) : g[s] = WordStep(file, g, s)
  BY <1>2 DEF WordFold
<1>5. g[1 .. 0] = Reading
  <2>1. 1 .. 0 \in SUBSET (1 .. n) /\ 1 .. 0 = {}
    BY <1>1
  <2>2. g[1 .. 0] = WordStep(file, g, 1 .. 0)
    BY <2>1, <1>4
  <2> QED
    BY <2>1, <2>2 DEF WordStep
<1>6. ASSUME NEW i \in 1 .. n PROVE g[1 .. i] = WordRecord(g[1 .. i - 1], file[i])
  <2>1. i \in 1 .. i /\ \A y \in 1 .. i : i >= y
    BY <1>1
  <2>2. Max(1 .. i) = i
    <3>1. \A x \in 1 .. i : (\A y \in 1 .. i : x >= y) => x = i
      BY <2>1
    <3> QED
      BY <2>1, <3>1 DEF Max
  <2>3. (1 .. i) \ {i} = 1 .. i - 1 /\ 1 .. i # {} /\ 1 .. i \in SUBSET (1 .. n)
    BY <1>1
  <2>4. g[1 .. i] = WordStep(file, g, 1 .. i)
    BY <1>4, <2>3
  <2> QED
    BY <2>2, <2>3, <2>4 DEF WordStep
<1> QED
  BY <1>1, <1>3, <1>5, <1>6 DEF WordState, g, n

\* FoldLeft(SegmentRecord, ...) as a function on the sets of record numbers.
SegmentStep(file, g, s) == IF s = {} THEN NoSegments ELSE SegmentRecord(g[s \ {Max(s)}], file[Max(s)])
SegmentFold(file, D, g) == g = [s \in SUBSET D |-> SegmentStep(file, g, s)]
SegmentIter(file) == CHOOSE g : SegmentFold(file, DOMAIN file, g)

\* What the parser has made of the first i records.
SegmentState(file, i) == SegmentIter(file)[1 .. i]

\* The recursive function by which the fold over the records is defined exists.
LEMMA SegmentFoldExists ==
  ASSUME NEW file, NEW n \in Nat
  PROVE  \E g : SegmentFold(file, 1 .. n, g)
<1> DEFINE T == {m \in Nat : \E g : SegmentFold(file, 1 .. m, g)}
<1>1. 0 \in T
  <2> DEFINE g == [s \in SUBSET (1 .. 0) |-> NoSegments]
  <2>1. \A s \in SUBSET (1 .. 0) : SegmentStep(file, g, s) = NoSegments
    BY DEF SegmentStep
  <2>2. SegmentFold(file, 1 .. 0, g)
    BY <2>1 DEF SegmentFold
  <2> QED
    BY <2>2
<1>2. ASSUME NEW m \in Nat, m \in T PROVE m + 1 \in T
  <2>1. PICK g : SegmentFold(file, 1 .. m, g)
    BY <1>2
  <2> DEFINE h == [s \in SUBSET (1 .. m + 1) |->
                      IF m + 1 \in s THEN SegmentRecord(g[s \ {m + 1}], file[m + 1]) ELSE g[s]]
  <2>2. ASSUME NEW s \in SUBSET (1 .. m + 1) PROVE h[s] = SegmentStep(file, h, s)
    <3>1. CASE m + 1 \in s
      <4>1. Max(s) = m + 1
        <5>1. \A y \in s : m + 1 >= y
          OBVIOUS
        <5>2. \A x \in s : (\A y \in s : x >= y) => x = m + 1
          BY <3>1
        <5> QED
          BY <3>1, <5>1, <5>2 DEF Max
      <4>2. s \ {m + 1} \in SUBSET (1 .. m + 1) /\ m + 1 \notin s \ {m + 1} /\ s # {}
        BY <3>1
      <4>3. h[s \ {m + 1}] = g[s \ {m + 1}]
        BY <4>2
      <4> QED
        BY <3>1, <4>1, <4>2, <4>3 DEF SegmentStep
    <3>2. CASE m + 1 \notin s
      <4>1. s \in SUBSET (1 .. m)
        BY <3>2
      <4>2. h[s] = g[s] /\ g[s] = SegmentStep(file, g, s)
        BY <2>1, <3>2, <4>1 DEF SegmentFold
      <4>3. s \ {Max(s)} \in SUBSET (1 .. m + 1) /\ m + 1 \notin s \ {Max(s)}
        BY <3>2
      <4>4. h[s \ {Max(s)}] = g[s \ {Max(s)}]
        BY <4>3
      <4> QED
        BY <4>2, <4>4 DEF SegmentStep
    <3> QED
      BY <3>1, <3>2
  <2>3. SegmentFold(file, 1 .. m + 1, h)
    BY <2>2 DEF SegmentFold
  <2> QED
    BY <2>3
<1> HIDE DEF T
<1>3. Nat \subseteq T
  BY <1>1, <1>2, NatSetInduction
<1> QED
  BY <1>3 DEF T

\* The parser reads the records in order, one step each.
LEMMA SegmentStateUnfolds ==
  ASSUME NEW file \in Seq(HexRecord)
  PROVE  /\ SegmentState(file, 0) = NoSegments
         /\ \A i \in 1 .. Len(file) : SegmentState(file, i) = SegmentRecord(SegmentState(file, i - 1), file[i])
         /\ FoldLeft(SegmentRecord, NoSegments, file) = SegmentState(file, Len(file))
<1> DEFINE n == Len(file)
           g == SegmentIter(file)
<1>1. n \in Nat /\ DOMAIN file = 1 .. n
  OBVIOUS
<1>2. SegmentFold(file, 1 .. n, g)
  <2>1. \E h : SegmentFold(file, 1 .. n, h)
    BY <1>1, SegmentFoldExists
  <2> QED
    BY <1>1, <2>1 DEF SegmentIter
<1>3. FoldLeft(SegmentRecord, NoSegments, file) = g[DOMAIN file]
  BY DEF FoldLeft, MapThenFoldSet, SegmentIter, SegmentFold, SegmentStep
<1> HIDE DEF g, n
<1>4. \A s \in SUBSET (1 .. n) : g[s] = SegmentStep(file, g, s)
  BY <1>2 DEF SegmentFold
<1>5. g[1 .. 0] = NoSegments
  <2>1. 1 .. 0 \in SUBSET (1 .. n) /\ 1 .. 0 = {}
    BY <1>1
  <2>2. g[1 .. 0] = SegmentStep(file, g, 1 .. 0)
    BY <2>1, <1>4
  <2> QED
    BY <2>1, <2>2 DEF SegmentStep
<1>6. ASSUME NEW i \in 1 .. n PROVE g[1 .. i] = SegmentRecord(g[1 .. i - 1], file[i])
  <2>1. i \in 1 .. i /\ \A y \in 1 .. i : i >= y
    BY <1>1
  <2>2. Max(1 .. i) = i
    <3>1. \A x \in 1 .. i : (\A y \in 1 .. i : x >= y) => x = i
      BY <2>1
    <3> QED
      BY <2>1, <3>1 DEF Max
  <2>3. (1 .. i) \ {i} = 1 .. i - 1 /\ 1 .. i # {} /\ 1 .. i \in SUBSET (1 .. n)
    BY <1>1
  <2>4. g[1 .. i] = SegmentStep(file, g, 1 .. i)
    BY <1>4, <2>3
  <2> QED
    BY <2>2, <2>3, <2>4 DEF SegmentStep
<1> QED
  BY <1>1, <1>3, <1>5, <1>6 DEF SegmentState, g, n

ByteOf(file, j, a) == file[j].data[a - BaseAt(file, j) - file[j].offset + 1]
Read == {"data", "segment", "linear", "start"}

\* The word of an address is its four bytes.
LEMMA WordOfFacts ==
  ASSUME NEW a \in Nat
  PROVE  /\ WordOf(a) \in Nat /\ WordOf(a) <= a /\ a <= WordOf(a) + 3 /\ WordOf(a) % 4 = 0
         /\ WordOf(WordOf(a)) = WordOf(a)
         /\ \A b \in Nat : (b \in WordOf(a) .. WordOf(a) + 3) <=> (WordOf(b) = WordOf(a))
<1>1. WordOf(a) \in Nat /\ WordOf(a) <= a /\ a <= WordOf(a) + 3 /\ WordOf(a) % 4 = 0
  BY DEF WordOf
<1>2. \A b \in Nat : b \in WordOf(a) .. WordOf(a) + 3 => WordOf(b) = WordOf(a)
  BY DEF WordOf
<1>3. \A b \in Nat : WordOf(b) \in Nat /\ b \in WordOf(b) .. WordOf(b) + 3
  BY DEF WordOf
<1>4. \A b \in Nat : WordOf(b) = WordOf(a) => b \in WordOf(a) .. WordOf(a) + 3
  <2> TAKE b \in Nat
  <2> HAVE WordOf(b) = WordOf(a)
  <2> QED
    BY <1>3
<1>5. WordOf(WordOf(a)) = WordOf(a)
  BY <1>1, <1>2
<1> QED
  BY <1>1, <1>2, <1>4, <1>5

\* What a record has, by its type.
LEMMA RecordFields ==
  ASSUME NEW r \in HexRecord
  PROVE  /\ r.type = "data" => r.offset \in Nat /\ r.data \in Seq(Bytes)
         /\ r.type \in {"segment", "linear"} => r.value \in Nat
         /\ r.type \in Read \cup {"eof", "other", "bad"}
<1>1. CASE r \in [type : {"data"}, offset : Nat, data : Seq(Bytes)]
  <2>1. r.type = "data" /\ r.offset \in Nat /\ r.data \in Seq(Bytes)
    BY <1>1
  <2> QED
    BY <2>1 DEF Read
<1>2. CASE r \in [type : {"segment", "linear"}, value : Nat]
  <2>1. r.type \in {"segment", "linear"} /\ r.value \in Nat
    BY <1>2
  <2> QED
    BY <2>1 DEF Read
<1>3. CASE r \in [type : {"eof", "start", "other", "bad"}]
  <2>1. r.type \in {"eof", "start", "other", "bad"}
    BY <1>3
  <2> QED
    BY <2>1 DEF Read
<1> QED
  BY <1>1, <1>2, <1>3 DEF HexRecord

\* The address records before record k, and the base that the last of a set gives.
Above(file, k) == {j \in 1 .. k - 1 : file[j].type \in {"segment", "linear"}}
BaseFrom(file, A) ==
    IF A = {} THEN 0
    ELSE file[Max(A)].value * (IF file[Max(A)].type = "linear" THEN 65536 ELSE 16)

\* The base depends on the address records above alone.
LEMMA BaseIsFromAbove ==
  ASSUME NEW file, NEW k
  PROVE  BaseAt(file, k) = BaseFrom(file, Above(file, k))
BY SMT DEF BaseAt, BaseFrom, Above

\* The base a record applies to, and how one record changes it.
LEMMA BaseFacts ==
  ASSUME NEW file \in Seq(HexRecord), NEW i \in 1 .. Len(file)
  PROVE  /\ BaseAt(file, i) \in Nat
         /\ BaseAt(file, i + 1) = IF file[i].type = "segment" THEN file[i].value * 16
                                  ELSE IF file[i].type = "linear" THEN file[i].value * 65536
                                  ELSE BaseAt(file, i)
         /\ BaseAt(file, 1) = 0
<1>0. i \in Nat /\ i >= 1 /\ Len(file) \in Nat /\ \A j \in 1 .. Len(file) : file[j] \in HexRecord
  OBVIOUS
<1>1. BaseAt(file, i) \in Nat
  <2> DEFINE A == Above(file, i)
  <2>1. BaseAt(file, i) = BaseFrom(file, A)
    BY BaseIsFromAbove
  <2>2. A \subseteq Nat /\ A \subseteq 1 .. Len(file) /\ \A y \in A : y <= i /\ file[y].type \in {"segment", "linear"}
    BY <1>0 DEF Above
  <2> HIDE DEF A
  <2>3. CASE A = {}
    BY <2>1, <2>3, SMT DEF BaseFrom
  <2>4. CASE A # {}
    <3> DEFINE m == Max(A)
    <3>1. m \in A
      BY <1>0, <2>2, <2>4, MaxIsGreatest
    <3>2. file[m].value \in Nat
      BY <1>0, <2>2, <3>1, RecordFields
    <3>3. BaseFrom(file, A) = file[m].value * (IF file[m].type = "linear" THEN 65536 ELSE 16)
      BY <2>4, SMT DEF BaseFrom
    <3> HIDE DEF m
    <3> QED
      BY <2>1, <3>2, <3>3, SMT
  <2> QED
    BY <2>3, <2>4
<1>2. BaseAt(file, 1) = 0
  <2>1. Above(file, 1) = {}
    BY DEF Above
  <2>2. BaseFrom(file, {}) = 0
    BY SMT DEF BaseFrom
  <2> QED
    BY <2>1, <2>2, BaseIsFromAbove
<1>3. CASE file[i].type \in {"segment", "linear"}
  <2> DEFINE A == Above(file, i + 1)
  <2>1. i \in A /\ \A y \in A : i >= y
    BY <1>0, <1>3 DEF Above
  <2> HIDE DEF A
  <2>2. \A x \in A : (\A y \in A : x >= y) => x = i
    <3> SUFFICES ASSUME NEW x \in A, \A y \in A : x >= y PROVE x = i
      OBVIOUS
    <3>1. x \in Nat
      BY <1>0 DEF A, Above
    <3> QED
      BY <1>0, <2>1, <3>1
  <2>3. Max(A) = i
    BY <2>1, <2>2 DEF Max
  <2>4. BaseFrom(file, A) = file[i].value * (IF file[i].type = "linear" THEN 65536 ELSE 16)
    BY <2>1, <2>3, SMT DEF BaseFrom
  <2>5. BaseAt(file, i + 1) = BaseFrom(file, A)
    BY BaseIsFromAbove DEF A
  <2> QED
    BY <1>1, <1>2, <1>3, <2>4, <2>5, SMT
<1>4. CASE file[i].type \notin {"segment", "linear"}
  <2>1. Above(file, i + 1) = Above(file, i)
    BY <1>0, <1>4 DEF Above
  <2>2. BaseAt(file, i + 1) = BaseAt(file, i)
    BY <2>1, BaseIsFromAbove
  <2> QED
    BY <1>1, <1>2, <1>4, <2>2, SMT
<1> QED
  BY <1>3, <1>4

\* The addresses of a record, and the bytes it has for them.
LEMMA SpanFacts ==
  ASSUME NEW file \in Seq(HexRecord), NEW j \in 1 .. Len(file)
  PROVE  /\ RecordSpan(file, j) \subseteq Nat
         /\ \A a \in RecordSpan(file, j) : ByteOf(file, j, a) \in Bytes
         /\ file[j].type # "data" => RecordSpan(file, j) = {}
         /\ file[j].type = "data" =>
               RecordSpan(file, j) = Span(BaseAt(file, j) + file[j].offset, file[j].data)
<1>1. file[j] \in HexRecord /\ BaseAt(file, j) \in Nat
  BY BaseFacts
<1>2. CASE file[j].type = "data"
  <2>1. file[j].offset \in Nat /\ file[j].data \in Seq(Bytes)
    BY <1>1, <1>2, RecordFields
  <2> DEFINE lo == BaseAt(file, j) + file[j].offset
             d == file[j].data
  <2>2. lo \in Nat /\ d \in Seq(Bytes) /\ RecordSpan(file, j) = lo .. lo + Len(d) - 1
    BY <1>1, <1>2, <2>1 DEF RecordSpan, Span
  <2>3. \A a \in Nat : ByteOf(file, j, a) = d[a - lo + 1]
    <3> TAKE a \in Nat
    <3>1. a - BaseAt(file, j) - file[j].offset + 1 = a - lo + 1
      BY <1>1, <2>1
    <3> QED
      BY <3>1 DEF ByteOf
  <2> HIDE DEF lo, d
  <2>4. \A a \in lo .. lo + Len(d) - 1 : a \in Nat /\ d[a - lo + 1] \in Bytes
    BY <2>2
  <2>5. RecordSpan(file, j) \subseteq Nat /\ \A a \in RecordSpan(file, j) : ByteOf(file, j, a) \in Bytes
    BY <2>2, <2>3, <2>4
  <2> QED
    BY <1>2, <2>5 DEF RecordSpan
<1> QED
  BY <1>2 DEF RecordSpan

(* ------------------ what the file means, record by record --------------- *)

\* The meaning of a file: for each address the byte of its last record that has one.
LEMMA MeaningFacts ==
  ASSUME NEW file \in Seq(HexRecord)
  PROVE  /\ Body(file) \in Seq(HexRecord)
         /\ DOMAIN Meaning(file) = UNION {RecordSpan(Body(file), i) : i \in DOMAIN Body(file)}
         /\ \A a \in DOMAIN Meaning(file) :
               /\ a \in Nat /\ Meaning(file)[a] \in Bytes
               /\ \E w \in DOMAIN Body(file) :
                     /\ a \in RecordSpan(Body(file), w)
                     /\ \A l \in DOMAIN Body(file) : l > w => a \notin RecordSpan(Body(file), l)
                     /\ Meaning(file)[a] = ByteOf(Body(file), w, a)
<1> DEFINE b == Body(file)
           ends == {i \in DOMAIN file : file[i].type = "eof"}
<1>1. b \in Seq(HexRecord)
  <2>1. CASE ends = {}
    BY <2>1 DEF Body
  <2>2. CASE ends # {}
    <3>1. Min(ends) \in ends
      <4>1. ends \subseteq Nat
        OBVIOUS
      <4> HIDE DEF ends
      <4> QED
        BY <2>2, <4>1, MinIsLeast
    <3>2. b = SubSeq(file, 1, Min(ends) - 1)
      BY <2>2 DEF Body
    <3>3. Min(ends) \in 1 .. Len(file) /\ Len(file) \in Nat
      BY <3>1
    <3> HIDE DEF ends, b
    <3>4. SubSeq(file, 1, Min(ends) - 1) \in Seq(HexRecord)
      BY <3>3
    <3> QED
      BY <3>2, <3>4
  <2> QED
    BY <2>1, <2>2
<1>2. DOMAIN Meaning(file) = UNION {RecordSpan(b, i) : i \in DOMAIN b}
  BY DEF Meaning
<1>3. ASSUME NEW a \in DOMAIN Meaning(file)
      PROVE  /\ a \in Nat /\ Meaning(file)[a] \in Bytes
             /\ \E w \in DOMAIN b :
                   /\ a \in RecordSpan(b, w)
                   /\ \A l \in DOMAIN b : l > w => a \notin RecordSpan(b, l)
                   /\ Meaning(file)[a] = ByteOf(b, w, a)
  <2> DEFINE writers == {i \in DOMAIN b : a \in RecordSpan(b, i)}
             w == Max(writers)
  <2>1. writers # {} /\ writers \subseteq Nat /\ Len(b) \in Nat /\ \A y \in writers : y <= Len(b)
    BY <1>1, <1>2
  <2>2. w \in writers /\ \A y \in writers : w >= y
    BY <2>1, MaxIsGreatest
  <2>3. Meaning(file)[a] = ByteOf(b, w, a)
    BY <1>2 DEF Meaning, ByteOf
  <2> HIDE DEF w
  <2>4. w \in 1 .. Len(b) /\ DOMAIN b = 1 .. Len(b) /\ a \in RecordSpan(b, w)
    BY <1>1, <2>2
  <2> HIDE DEF b
  <2>5. a \in Nat /\ ByteOf(b, w, a) \in Bytes
    BY <1>1, <2>4, SpanFacts
  <2>6. \A l \in DOMAIN b : l > w => a \notin RecordSpan(b, l)
    BY <2>2, <2>4
  <2> QED
    BY <2>3, <2>4, <2>5, <2>6
<1> QED
  BY <1>1, <1>2, <1>3

\* When the first end-of-file record is record e, the body is what precedes it.
LEMMA BodyBeforeEof ==
  ASSUME NEW file \in Seq(HexRecord), NEW e \in 1 .. Len(file), file[e].type = "eof",
         \A j \in 1 .. e - 1 : file[j].type # "eof"
  PROVE  /\ DOMAIN Body(file) = 1 .. e - 1
         /\ \A j \in 1 .. e - 1 :
               /\ RecordSpan(Body(file), j) = RecordSpan(file, j)
               /\ \A a \in RecordSpan(file, j) : ByteOf(Body(file), j, a) = ByteOf(file, j, a)
<1> DEFINE b == Body(file)
           ends == {i \in DOMAIN file : file[i].type = "eof"}
<1>0. e \in Nat /\ Len(file) \in Nat /\ DOMAIN file = 1 .. Len(file)
  OBVIOUS
<1>1. Min(ends) = e
  <2>1. e \in ends /\ \A y \in ends : e <= y
    BY <1>0
  <2>2. \A x \in ends : (\A y \in ends : x <= y) => x = e
    BY <2>1, <1>0
  <2> HIDE DEF ends
  <2> QED
    BY <2>1, <2>2 DEF Min
<1>2. b = SubSeq(file, 1, e - 1)
  <2>1. ends # {}
    BY <1>0
  <2> QED
    BY <1>1, <2>1 DEF Body
<1>3. DOMAIN b = 1 .. e - 1 /\ \A j \in 1 .. e - 1 : b[j] = file[j]
  BY <1>2, <1>0
<1> HIDE DEF b
<1>4. ASSUME NEW j \in 1 .. e - 1 PROVE BaseAt(b, j) = BaseAt(file, j)
  <2>1. \A k \in 1 .. j - 1 : b[k] = file[k]
    BY <1>3, <1>0
  <2> DEFINE A == Above(file, j)
  <2>2. Above(b, j) = A
    BY <2>1 DEF Above
  <2>3. A \subseteq 1 .. j - 1 /\ A \subseteq Nat /\ j \in Nat /\ \A y \in A : y <= j
    BY <1>0 DEF Above
  <2> HIDE DEF A
  <2>4. BaseFrom(b, A) = BaseFrom(file, A)
    <3>1. CASE A = {}
      BY <3>1, SMT DEF BaseFrom
    <3>2. CASE A # {}
      <4>1. Max(A) \in A
        BY <2>3, <3>2, MaxIsGreatest
      <4>2. b[Max(A)] = file[Max(A)]
        BY <4>1, <2>1, <2>3
      <4> QED
        BY <4>2, SMT DEF BaseFrom
    <3> QED
      BY <3>1, <3>2
  <2> QED
    BY <2>2, <2>4, BaseIsFromAbove DEF A
<1>5. \A j \in 1 .. e - 1 : RecordSpan(b, j) = RecordSpan(file, j)
  BY <1>3, <1>4 DEF RecordSpan
<1>6. \A j \in 1 .. e - 1 : \A a : ByteOf(b, j, a) = ByteOf(file, j, a)
  BY <1>3, <1>4 DEF ByteOf
<1> QED
  BY <1>3, <1>5, <1>6 DEF b

\* The addresses in the words of the addresses of S.
Near(S) == {a \in Nat : \E b \in S : WordOf(b) = WordOf(a)}

\* What one data record does to the word map.
PutOver(words, base, data, new) ==
    /\ DOMAIN new = DOMAIN words \cup Near(Span(base, data))
    /\ \A a \in Span(base, data) : new[a] = data[a - base + 1]
    /\ \A a \in DOMAIN words : a \notin Span(base, data) => new[a] = words[a]
    /\ \A a \in DOMAIN new : a \notin Span(base, data) /\ a \notin DOMAIN words => new[a] = 255

\* A data record fills the words it touches with 255 and puts its bytes over them.
LEMMA PutWordsFacts ==
  ASSUME NEW words, DOMAIN words \subseteq Nat, NEW base \in Nat, NEW data \in Seq(Bytes)
  PROVE  PutOver(words, base, data, PutWords(words, base, data))
<1> DEFINE span == Span(base, data)
           added == {WordOf(b) + k : b \in span, k \in 0 .. 3}
           near == Near(span)
<1>1. span \subseteq Nat
  BY DEF Span
<1> HIDE DEF span
<1>2. ASSUME NEW a \in added PROVE a \in near
  <2>1. PICK b \in span, k \in 0 .. 3 : a = WordOf(b) + k
    OBVIOUS
  <2>2. b \in Nat /\ WordOf(b) \in Nat
    BY <1>1, <2>1, WordOfFacts
  <2>3. a \in Nat /\ a \in WordOf(b) .. WordOf(b) + 3
    BY <2>1, <2>2
  <2>4. WordOf(b) = WordOf(a)
    BY <2>2, <2>3, WordOfFacts
  <2>5. b \in span
    BY <2>1
  <2>6. a \in {x \in Nat : \E c \in span : WordOf(c) = WordOf(x)}
    BY <2>3, <2>4, <2>5
  <2> QED
    BY <2>6 DEF Near
<1>3. ASSUME NEW a \in near PROVE a \in added
  <2>1. PICK b \in span : WordOf(b) = WordOf(a)
    BY DEF Near
  <2>2. b \in Nat /\ a \in Nat /\ WordOf(b) \in Nat
    BY <1>1, WordOfFacts DEF Near
  <2>3. a \in WordOf(b) .. WordOf(b) + 3
    BY <2>1, <2>2, WordOfFacts
  <2>4. a - WordOf(b) \in 0 .. 3 /\ a = WordOf(b) + (a - WordOf(b))
    BY <2>2, <2>3
  <2> QED
    BY <2>4
<1>4. added = near
  BY <1>2, <1>3
<1>5. span \subseteq added
  <2>1. \A a \in span : a \in Nat /\ WordOf(a) = WordOf(a)
    BY <1>1
  <2>2. \A a \in span : a \in near
    BY <2>1 DEF Near
  <2> QED
    BY <2>2, <1>3
<1>6. PutWords(words, base, data) =
        [a \in DOMAIN words \cup added |->
            IF a \in span THEN data[a - base + 1] ELSE IF a \in DOMAIN words THEN words[a] ELSE 255]
  BY DEF PutWords, span
<1> HIDE DEF added, near
<1>7. \A a \in DOMAIN words \cup added : PutWords(words, base, data)[a] =
        IF a \in span THEN data[a - base + 1] ELSE IF a \in DOMAIN words THEN words[a] ELSE 255
  BY <1>6
<1>8. DOMAIN PutWords(words, base, data) = DOMAIN words \cup added
  BY <1>6
<1> QED
  BY <1>4, <1>5, <1>7, <1>8 DEF span, near, PutOver

(* ------------- the word map is what the file means, padded -------------- *)

\* What the word map holds after i records.
Touched(file, i) ==
    {a \in Nat : \E j \in 1 .. i : \E b \in RecordSpan(file, j) : WordOf(b) = WordOf(a)}

WordsRight(file, i, s) ==
    /\ s.upper = BaseAt(file, i + 1)
    /\ DOMAIN s.words = Touched(file, i)
    /\ \A a \in DOMAIN s.words : Flashable(WordOf(a))
    /\ \A a \in DOMAIN s.words :
          (\A j \in 1 .. i : a \notin RecordSpan(file, j)) => s.words[a] = 255
    /\ \A j \in 1 .. i : \A a \in RecordSpan(file, j) :
          (\A l \in 1 .. i : l > j => a \notin RecordSpan(file, l)) => s.words[a] = ByteOf(file, j, a)
    /\ \A j \in 1 .. i : file[j].type \in Read

\* A data record within the flash keeps the word map right.
LEMMA DataKeepsWordsRight ==
  ASSUME NEW file \in Seq(HexRecord), NEW i \in 1 .. Len(file), NEW s, NEW t,
         WordsRight(file, i - 1, s), file[i].type = "data",
         \A a \in Span(s.upper + file[i].offset, file[i].data) : Flashable(WordOf(a)),
         t.words = PutWords(s.words, s.upper + file[i].offset, file[i].data), t.upper = s.upper
  PROVE  WordsRight(file, i, t)
<1> DEFINE d == file[i].data
           base == s.upper + file[i].offset
           span == RecordSpan(file, i)
<1>0. i \in Nat /\ i - 1 \in Nat /\ 1 .. i = (1 .. i - 1) \cup {i} /\ i \notin 1 .. i - 1
  OBVIOUS
<1>1. s.upper = BaseAt(file, i) /\ s.upper \in Nat /\ BaseAt(file, i + 1) = BaseAt(file, i)
  <2>1. (i - 1) + 1 = i
    BY <1>0
  <2> QED
    BY <2>1, BaseFacts DEF WordsRight
<1>2. base \in Nat /\ d \in Seq(Bytes)
  BY <1>1, RecordFields
<1>3. span = Span(base, d) /\ span \subseteq Nat
  BY <1>1, SpanFacts
<1>4. \A a \in span : ByteOf(file, i, a) = d[a - base + 1]
  <2> SUFFICES ASSUME NEW a \in span PROVE ByteOf(file, i, a) = d[a - base + 1]
    OBVIOUS
  <2>1. a - BaseAt(file, i) - file[i].offset + 1 = a - base + 1
    <3>1. file[i].offset \in Nat /\ a \in Nat
      BY <1>3, RecordFields
    <3> QED
      BY <1>1, <3>1
  <2> QED
    BY <2>1 DEF ByteOf
<1>5. DOMAIN s.words \subseteq Nat /\ DOMAIN s.words = Touched(file, i - 1)
  BY DEF WordsRight, Touched
<1> DEFINE w == s.words
           v == t.words
<1>6. /\ DOMAIN v = DOMAIN w \cup Near(span)
      /\ \A a \in span : v[a] = d[a - base + 1]
      /\ \A a \in DOMAIN w : a \notin span => v[a] = w[a]
      /\ \A a \in DOMAIN v : a \notin span /\ a \notin DOMAIN w => v[a] = 255
  <2>1. v = PutWords(w, base, d)
    OBVIOUS
  <2> HIDE DEF v, w, base, d, span
  <2>2. DOMAIN w \subseteq Nat
    BY <1>5 DEF w
  <2>3. PutOver(w, base, d, v)
    BY <1>2, <2>1, <2>2, PutWordsFacts
  <2> QED
    BY <2>3, <1>3 DEF PutOver
<1> HIDE DEF d, base, span
<1>7. DOMAIN v = Touched(file, i)
  <2>1. Touched(file, i) = Touched(file, i - 1) \cup Near(span)
    BY <1>0 DEF Touched, span, Near
  <2> QED
    BY <1>5, <1>6, <2>1
<1>8. \A a \in DOMAIN v : Flashable(WordOf(a))
  <2> SUFFICES ASSUME NEW a \in DOMAIN v PROVE Flashable(WordOf(a))
    OBVIOUS
  <2>1. CASE a \in DOMAIN w
    BY <2>1 DEF WordsRight
  <2>2. CASE a \notin DOMAIN w
    <3>1. PICK b \in span : WordOf(b) = WordOf(a)
      BY <1>6, <2>2 DEF Near
    <3>2. Flashable(WordOf(b))
      BY <1>3 DEF base, d
    <3> QED
      BY <3>1, <3>2
  <2> QED
    BY <2>1, <2>2
<1>9. ASSUME NEW a \in DOMAIN v, \A j \in 1 .. i : a \notin RecordSpan(file, j) PROVE v[a] = 255
  <2>1. a \notin span /\ \A j \in 1 .. i - 1 : a \notin RecordSpan(file, j)
    BY <1>0, <1>9 DEF span
  <2>2. CASE a \in DOMAIN w
    <3>1. w[a] = 255
      BY <2>1, <2>2 DEF WordsRight
    <3> QED
      BY <1>6, <2>1, <2>2, <3>1
  <2>3. CASE a \notin DOMAIN w
    BY <1>6, <2>1, <2>3
  <2> QED
    BY <2>2, <2>3
<1>10. ASSUME NEW j \in 1 .. i, NEW a \in RecordSpan(file, j),
              \A l \in 1 .. i : l > j => a \notin RecordSpan(file, l)
       PROVE  v[a] = ByteOf(file, j, a)
  <2>1. CASE j = i
    BY <1>4, <1>6, <2>1 DEF span
  <2>2. CASE j # i
    <3>1. j \in 1 .. i - 1 /\ i \in 1 .. i /\ i > j
      BY <1>0, <2>2
    <3>2. a \notin span
      BY <1>10, <3>1 DEF span
    <3>3. w[a] = ByteOf(file, j, a)
      <4>1. \A l \in 1 .. i - 1 : l > j => a \notin RecordSpan(file, l)
        BY <1>0, <1>10
      <4> QED
        BY <3>1, <4>1 DEF WordsRight
    <3>4. a \in DOMAIN w
      <4>1. a \in Nat
        BY <3>1, SpanFacts
      <4> QED
        BY <1>5, <3>1, <4>1 DEF Touched
    <3> QED
      BY <1>6, <3>2, <3>3, <3>4
  <2> QED
    BY <2>1, <2>2
<1>11. \A j \in 1 .. i : file[j].type \in Read
  <2>1. \A j \in 1 .. i - 1 : file[j].type \in Read
    BY DEF WordsRight
  <2>2. file[i].type \in Read
    BY DEF Read
  <2> QED
    BY <1>0, <2>1, <2>2
<1>12. t.upper = BaseAt(file, i + 1)
  BY <1>1
<1> QED
  BY <1>7, <1>8, <1>9, <1>10, <1>11, <1>12 DEF WordsRight

\* A record without data changes the base and leaves the word map right.
LEMMA OtherKeepsWordsRight ==
  ASSUME NEW file \in Seq(HexRecord), NEW i \in 1 .. Len(file), NEW s, NEW t,
         WordsRight(file, i - 1, s), file[i].type \in Read \ {"data"},
         t.words = s.words, t.upper = BaseAt(file, i + 1)
  PROVE  WordsRight(file, i, t)
<1>0. i \in Nat /\ i - 1 \in Nat /\ 1 .. i = (1 .. i - 1) \cup {i} /\ i \notin 1 .. i - 1
  OBVIOUS
<1>1. RecordSpan(file, i) = {}
  BY SpanFacts
<1>2. Touched(file, i) = Touched(file, i - 1)
  BY <1>0, <1>1 DEF Touched
<1>3. ASSUME NEW a \in DOMAIN t.words, \A j \in 1 .. i : a \notin RecordSpan(file, j)
      PROVE  t.words[a] = 255
  <2>1. \A j \in 1 .. i - 1 : a \notin RecordSpan(file, j)
    BY <1>0, <1>3
  <2> QED
    BY <2>1 DEF WordsRight
<1>4. ASSUME NEW j \in 1 .. i, NEW a \in RecordSpan(file, j),
             \A l \in 1 .. i : l > j => a \notin RecordSpan(file, l)
      PROVE  t.words[a] = ByteOf(file, j, a)
  <2>1. j \in 1 .. i - 1 /\ \A l \in 1 .. i - 1 : l > j => a \notin RecordSpan(file, l)
    BY <1>0, <1>1, <1>4
  <2> QED
    BY <2>1 DEF WordsRight
<1>5. \A j \in 1 .. i : file[j].type \in Read
  <2>1. \A j \in 1 .. i - 1 : file[j].type \in Read
    BY DEF WordsRight
  <2> QED
    BY <1>0, <2>1
<1>6. DOMAIN t.words = Touched(file, i) /\ \A a \in DOMAIN t.words : Flashable(WordOf(a))
  BY <1>2 DEF WordsRight
<1> QED
  BY <1>3, <1>4, <1>5, <1>6 DEF WordsRight

\* Nothing is read after the end or a bad record.
LEMMA WordRecordStops ==
  ASSUME NEW s, NEW r, s.at # "reading"
  PROVE  WordRecord(s, r) = s
BY DEF WordRecord

\* After each record the word map has the padded bytes of the records read.
LEMMA WordStatesRight ==
  ASSUME NEW file \in Seq(HexRecord)
  PROVE  \A i \in 0 .. Len(file) : LET s == WordState(file, i) IN
            /\ s = [words |-> s.words, upper |-> s.upper, at |-> s.at]
            /\ s.at = "reading" => WordsRight(file, i, s)
            /\ s.at = "ended" => \E e \in 1 .. i : file[e].type = "eof" /\ WordsRight(file, e - 1, s)
<1> DEFINE n == Len(file)
           S(i) == WordState(file, i)
           Good(i, s) == /\ s = [words |-> s.words, upper |-> s.upper, at |-> s.at]
                         /\ s.at = "reading" => WordsRight(file, i, s)
                         /\ s.at = "ended" => \E e \in 1 .. i : file[e].type = "eof" /\ WordsRight(file, e - 1, s)
           T == {i \in Nat : i <= n => Good(i, S(i))}
<1>0. n \in Nat
  OBVIOUS
<1>1. 0 \in T
  <2>1. S(0) = [words |-> <<>>, upper |-> 0, at |-> "reading"]
    BY WordStateUnfolds DEF Reading
  <2>2. DOMAIN S(0).words = {}
    BY <2>1
  <2>3. WordsRight(file, 0, S(0))
    <3>1. BaseAt(file, 0 + 1) = 0
      <4>1. Above(file, 1) = {}
        BY DEF Above
      <4>2. BaseFrom(file, {}) = 0
        BY SMT DEF BaseFrom
      <4> QED
        BY <4>1, <4>2, BaseIsFromAbove
    <3>2. Touched(file, 0) = {}
      BY DEF Touched
    <3>3. \A j \in 1 .. 0 : FALSE
      OBVIOUS
    <3>4. S(0).upper = 0
      BY <2>1
    <3> HIDE DEF S
    <3>5. DOMAIN S(0).words = Touched(file, 0) /\ \A a \in DOMAIN S(0).words : FALSE
      BY <2>2, <3>2
    <3>6. S(0).upper = BaseAt(file, 0 + 1)
      BY <3>1, <3>4
    <3> QED
      BY <3>3, <3>5, <3>6 DEF WordsRight
  <2>4. Good(0, S(0))
    <3>1. S(0).at = "reading" /\ S(0) = [words |-> S(0).words, upper |-> S(0).upper, at |-> S(0).at]
      BY <2>1
    <3> QED
      BY <2>3, <3>1
  <2> QED
    BY <2>4
<1>2. ASSUME NEW k \in Nat, k \in T PROVE k + 1 \in T
  <2> SUFFICES ASSUME k + 1 <= n PROVE Good(k + 1, S(k + 1))
    OBVIOUS
  <2> DEFINE i == k + 1
             s == S(k)
             t == S(k + 1)
             r == file[k + 1]
  <2>1. i \in 1 .. Len(file) /\ i - 1 = k /\ k \in Nat /\ k <= n
    BY <1>0
  <2>2. t = WordRecord(s, r)
    BY <2>1, WordStateUnfolds
  <2>3. Good(k, s)
    BY <1>2, <2>1
  <2>4. r \in HexRecord
    BY <2>1
  <2> HIDE DEF s, t, S
  <2>5. CASE s.at # "reading"
    <3>1. t = s
      BY <2>2, <2>5, WordRecordStops
    <3>2. \A e \in 1 .. k : e \in 1 .. k + 1
      BY <2>1
    <3> QED
      BY <2>3, <2>5, <3>1, <3>2 DEF s, t
  <2>6. CASE s.at = "reading"
    <3>1. WordsRight(file, i - 1, s)
      BY <2>1, <2>3, <2>6
    <3>2. s = [words |-> s.words, upper |-> s.upper, at |-> s.at]
      BY <2>3
    <3> DEFINE Ends(u) == u.words = s.words /\ u.upper = s.upper /\ u.at = "ended"
    <3>3. CASE r.type = "data"
      <4> DEFINE base == s.upper + r.offset
      <4>1. CASE \A a \in Span(base, r.data) : Flashable(WordOf(a))
        <5>1. t = [s EXCEPT !.words = PutWords(@, base, r.data)]
          BY <2>2, <2>6, <3>3, <4>1, SMT DEF WordRecord
        <5>2. t = [words |-> PutWords(s.words, base, r.data), upper |-> s.upper, at |-> "reading"]
          BY <2>6, <3>2, <5>1
        <5>3. t.words = PutWords(s.words, base, r.data) /\ t.upper = s.upper /\ t.at = "reading"
              /\ t = [words |-> t.words, upper |-> t.upper, at |-> t.at]
          BY <5>2
        <5>4. WordsRight(file, i, t)
          BY <2>1, <3>1, <3>3, <4>1, <5>3, DataKeepsWordsRight
        <5> QED
          BY <5>3, <5>4 DEF t, S
      <4>2. CASE ~ \A a \in Span(base, r.data) : Flashable(WordOf(a))
        <5>1. t = [s EXCEPT !.at = "rejected"]
          BY <2>2, <2>6, <3>3, <4>2, SMT DEF WordRecord
        <5>2. t = [words |-> s.words, upper |-> s.upper, at |-> "rejected"]
          BY <3>2, <5>1
        <5>3. t.at = "rejected" /\ t = [words |-> t.words, upper |-> t.upper, at |-> t.at]
          BY <5>2
        <5> QED
          BY <5>3 DEF t, S
      <4> QED
        BY <4>1, <4>2
    <3>4. CASE r.type = "eof"
      <4>1. t = [s EXCEPT !.at = "ended"]
        BY <2>2, <2>6, <3>4, SMT DEF WordRecord
      <4>2. t = [words |-> s.words, upper |-> s.upper, at |-> "ended"]
        BY <3>2, <4>1
      <4>3. t.words = s.words /\ t.upper = s.upper /\ t.at = "ended"
            /\ t = [words |-> t.words, upper |-> t.upper, at |-> t.at]
        BY <4>2
      <4>4. WordsRight(file, i - 1, t)
        BY <3>1, <4>3 DEF WordsRight
      <4>5. i \in 1 .. i /\ file[i].type = "eof"
        BY <2>1, <3>4
      <4> QED
        BY <4>3, <4>4, <4>5 DEF t, S
    <3>5. CASE r.type = "segment" \/ r.type = "linear" \/ r.type = "start"
      <4>1. /\ t = [words |-> t.words, upper |-> t.upper, at |-> t.at]
            /\ t.words = s.words /\ t.at = "reading" /\ t.upper = BaseAt(file, i + 1)
        <5>0. s.upper = BaseAt(file, i)
          BY <2>1, <3>1 DEF WordsRight
        <5>1. CASE r.type = "segment"
          <6>1. t = [s EXCEPT !.upper = r.value * 16]
            BY <2>2, <2>6, <5>1, SMT DEF WordRecord
          <6>2. t = [words |-> s.words, upper |-> r.value * 16, at |-> "reading"]
            BY <2>6, <3>2, <6>1
          <6>3. BaseAt(file, i + 1) = r.value * 16
            BY <2>1, <5>1, BaseFacts, SMT
          <6> QED
            BY <6>2, <6>3
        <5>2. CASE r.type = "linear"
          <6>1. t = [s EXCEPT !.upper = r.value * 65536]
            BY <2>2, <2>6, <5>2, SMT DEF WordRecord
          <6>2. t = [words |-> s.words, upper |-> r.value * 65536, at |-> "reading"]
            BY <2>6, <3>2, <6>1, SMT
          <6>3. BaseAt(file, i + 1) = r.value * 65536
            BY <2>1, <5>2, BaseFacts, SMT
          <6> QED
            BY <6>2, <6>3, SMT
        <5>3. CASE r.type = "start"
          <6>1. t = s
            BY <2>2, <2>6, <5>3, SMT DEF WordRecord
          <6>2. BaseAt(file, i + 1) = BaseAt(file, i)
            <7>1. file[i].type # "segment" /\ file[i].type # "linear"
              BY <2>1, <5>3
            <7> HIDE DEF i
            <7> QED
              BY <2>1, <7>1, BaseFacts, SMT
          <6> QED
            BY <2>6, <3>2, <5>0, <6>1, <6>2
        <5> QED
          BY <3>5, <5>1, <5>2, <5>3
      <4>2. file[i].type \in Read \ {"data"}
        BY <2>1, <3>5 DEF Read
      <4>3. WordsRight(file, i, t)
        BY <2>1, <3>1, <4>1, <4>2, OtherKeepsWordsRight
      <4> QED
        BY <4>1, <4>3 DEF t, S
    <3>6. CASE r.type \in {"other", "bad"}
      <4>1. t = [s EXCEPT !.at = "rejected"]
        BY <2>2, <2>6, <3>6, SMT DEF WordRecord
      <4>2. t = [words |-> s.words, upper |-> s.upper, at |-> "rejected"]
        BY <3>2, <4>1
      <4>3. t.at = "rejected" /\ t = [words |-> t.words, upper |-> t.upper, at |-> t.at]
        BY <4>2
      <4> QED
        BY <4>3 DEF t, S
    <3> QED
      BY <2>4, <3>3, <3>4, <3>5, <3>6, RecordFields DEF Read
  <2> QED
    BY <2>5, <2>6
<1> HIDE DEF T
<1>3. Nat \subseteq T
  BY <1>1, <1>2, NatSetInduction
<1>4. \A i \in 0 .. n : i \in T /\ i <= n
  BY <1>0, <1>3
<1> HIDE DEF Good, S, n
<1>5. \A i \in 0 .. n : Good(i, S(i))
  BY <1>4 DEF T
<1> QED
  BY <1>5 DEF Good, S, n

\* The byte the tools that write whole words put at an address.
Padded(file, a) == IF a \in DOMAIN Meaning(file) THEN Meaning(file)[a] ELSE 255

WordsMean(file, words) ==
    /\ DOMAIN words = Near(DOMAIN Meaning(file))
    /\ \A a \in DOMAIN words : Flashable(WordOf(a)) /\ words[a] = Padded(file, a)

\* At the end of the file the word map is its meaning, padded to words.
LEMMA WordMapIsTheMeaning ==
  ASSUME NEW file \in Seq(HexRecord),
         WordState(file, Len(file)).at = "ended"
  PROVE  WordsMean(file, WordState(file, Len(file)).words)
<1> DEFINE s == WordState(file, Len(file))
<1>0. Len(file) \in Nat /\ Len(file) \in 0 .. Len(file)
  OBVIOUS
<1>1. PICK e \in 1 .. Len(file) : file[e].type = "eof" /\ WordsRight(file, e - 1, s)
  <2>1. s.at = "ended" => \E e \in 1 .. Len(file) : file[e].type = "eof" /\ WordsRight(file, e - 1, s)
    BY <1>0, WordStatesRight
  <2> QED
    BY <2>1
<1> HIDE DEF s
<1>2. \A j \in 1 .. e - 1 : file[j].type \in Read
  BY <1>1 DEF WordsRight
<1>3. \A j \in 1 .. e - 1 : file[j].type # "eof"
  BY <1>2 DEF Read
<1> DEFINE b == Body(file)
           m == Meaning(file)
<1>4. /\ DOMAIN b = 1 .. e - 1
      /\ \A j \in 1 .. e - 1 :
            /\ RecordSpan(b, j) = RecordSpan(file, j)
            /\ \A a \in RecordSpan(file, j) : ByteOf(b, j, a) = ByteOf(file, j, a)
  BY <1>1, <1>3, BodyBeforeEof
<1>5. /\ DOMAIN m = UNION {RecordSpan(b, i) : i \in DOMAIN b}
      /\ \A a \in DOMAIN m :
            /\ a \in Nat /\ m[a] \in Bytes
            /\ \E w \in DOMAIN b :
                  /\ a \in RecordSpan(b, w)
                  /\ \A l \in DOMAIN b : l > w => a \notin RecordSpan(b, l)
                  /\ m[a] = ByteOf(b, w, a)
  BY MeaningFacts
<1> HIDE DEF b, m
<1>6. \A a : a \in DOMAIN m <=> \E j \in 1 .. e - 1 : a \in RecordSpan(file, j)
  BY <1>4, <1>5
<1>7. DOMAIN s.words = Near(DOMAIN m)
  <2>1. DOMAIN s.words = Touched(file, e - 1)
    BY <1>1 DEF WordsRight
  <2>2. Touched(file, e - 1) = Near(DOMAIN m)
    BY <1>6 DEF Touched, Near
  <2> QED
    BY <2>1, <2>2
<1>8. ASSUME NEW a \in DOMAIN s.words PROVE s.words[a] = Padded(file, a)
  <2>1. CASE a \in DOMAIN m
    <3>1. PICK w \in DOMAIN b : /\ a \in RecordSpan(b, w)
                                /\ \A l \in DOMAIN b : l > w => a \notin RecordSpan(b, l)
                                /\ m[a] = ByteOf(b, w, a)
      BY <1>5, <2>1
    <3>2. /\ w \in 1 .. e - 1 /\ a \in RecordSpan(file, w)
          /\ \A l \in 1 .. e - 1 : l > w => a \notin RecordSpan(file, l)
          /\ m[a] = ByteOf(file, w, a)
      BY <1>4, <3>1
    <3>3. s.words[a] = ByteOf(file, w, a)
      BY <1>1, <3>2 DEF WordsRight
    <3> QED
      BY <2>1, <3>2, <3>3 DEF Padded, m
  <2>2. CASE a \notin DOMAIN m
    <3>1. \A j \in 1 .. e - 1 : a \notin RecordSpan(file, j)
      BY <1>6, <2>2
    <3>2. s.words[a] = 255
      BY <1>1, <3>1 DEF WordsRight
    <3> QED
      BY <2>2, <3>2, SMT DEF Padded, m
  <2> QED
    BY <2>1, <2>2
<1>9. \A a \in DOMAIN s.words : Flashable(WordOf(a))
  BY <1>1 DEF WordsRight
<1> QED
  BY <1>7, <1>8, <1>9 DEF WordsMean, s, m

\* What is written for an address is a byte.
LEMMA PaddedIsAByte ==
  ASSUME NEW file \in Seq(HexRecord), NEW a
  PROVE  Padded(file, a) \in Bytes
<1>1. 255 \in Bytes
  BY SMT DEF Bytes
<1>2. a \in DOMAIN Meaning(file) => Meaning(file)[a] \in Bytes
  BY MeaningFacts
<1> QED
  BY <1>1, <1>2, SMT DEF Padded

(* ----------------- the parts of an image and their bytes ----------------- *)

Part == [address : Nat, data : Seq(Bytes)]
PartSpan(p) == Span(p.address, p.data)
PartByte(p, a) == p.data[a - p.address + 1]
\* One of the parts has byte v for address a.
Gives(P, a, v) == \E p \in P : a \in PartSpan(p) /\ v = PartByte(p, a)
RecordGives(file, i, a, v) == \E j \in 1 .. i : a \in RecordSpan(file, j) /\ v = ByteOf(file, j, a)

\* The bytes of j at x are those of d at x and those of e at y.
BytesJoined(x, d, y, e, j) ==
    /\ j \in Seq(Bytes)
    /\ Span(x, j) = Span(x, d) \cup Span(y, e)
    /\ \A a \in Span(x, d) : j[a - x + 1] = d[a - x + 1] /\ a \notin Span(y, e)
    /\ \A a \in Span(y, e) : j[a - x + 1] = e[a - y + 1]

\* Two neighbouring ranges of bytes as one.
LEMMA JoinedBytes ==
  ASSUME NEW x \in Nat, NEW d \in Seq(Bytes), NEW e \in Seq(Bytes), NEW y, y = x + Len(d)
  PROVE  BytesJoined(x, d, y, e, Joined(d, e))
<1> DEFINE j == Joined(d, e)
           m == Len(d)
           k == Len(e)
<1>1. /\ j \in Seq(Bytes) /\ Len(j) = m + k
      /\ \A i \in 1 .. m : j[i] = d[i]
      /\ \A i \in 1 .. k : j[m + i] = e[i]
  BY DEF Joined
<1>2. m \in Nat /\ k \in Nat /\ y = x + m /\ y \in Nat
  OBVIOUS
<1> HIDE DEF j
<1>3. Span(x, d) = x .. y - 1 /\ Span(y, e) = y .. y + k - 1 /\ Span(x, j) = x .. y + k - 1
  <2>1. Span(x, d) = x .. x + m - 1 /\ Span(y, e) = y .. y + k - 1 /\ Span(x, j) = x .. x + (m + k) - 1
    BY <1>1 DEF Span
  <2> HIDE DEF m, k
  <2> QED
    BY <1>2, <2>1
<1> HIDE DEF m, k
<1>4. x .. y + k - 1 = (x .. y - 1) \cup (y .. y + k - 1)
  BY <1>2
<1>5. ASSUME NEW a \in x .. y - 1 PROVE j[a - x + 1] = d[a - x + 1] /\ a \notin y .. y + k - 1
  <2>1. a - x + 1 \in 1 .. m
    BY <1>2
  <2>2. a \notin y .. y + k - 1
    BY <1>2
  <2> QED
    BY <1>1, <2>1, <2>2
<1>6. ASSUME NEW a \in y .. y + k - 1 PROVE j[a - x + 1] = e[a - y + 1]
  <2>1. a - y + 1 \in 1 .. k
    BY <1>2
  <2>2. a - x + 1 = m + (a - y + 1)
    BY <1>2
  <2> QED
    BY <1>1, <2>1, <2>2
<1> QED
  BY <1>1, <1>3, <1>4, <1>5, <1>6 DEF j, BytesJoined

\* The segments new have the bytes of old and those of data.
BytesAdded(old, address, data, new) ==
    /\ new \in Seq(Part)
    /\ \A a, v : Gives(Range(new), a, v) <=>
          Gives(Range(old), a, v) \/ (a \in Span(address, data) /\ v = data[a - address + 1])

\* A data record goes to the end of the last segment or begins one: no byte is lost or invented.
LEMMA AddSegmentFacts ==
  ASSUME NEW segments \in Seq(Part), NEW address \in Nat, NEW data \in Seq(Bytes)
  PROVE  BytesAdded(segments, address, data, AddSegment(segments, address, data))
<1> DEFINE n == Len(segments)
           new == [address |-> address, data |-> data]
           t == AddSegment(segments, address, data)
           last == segments[n]
           Own(a, v) == a \in Span(address, data) /\ v = data[a - address + 1]
<1>0. n \in Nat /\ DOMAIN segments = 1 .. n /\ Len(data) \in Nat
  OBVIOUS
<1>1. CASE n > 0 /\ last.address + Len(last.data) = address
  <2> DEFINE long == Joined(last.data, data)
             joint == [address |-> last.address, data |-> long]
  <2>1. last \in Part /\ n \in 1 .. n /\ last = segments[n]
    BY <1>0, <1>1
  <2>0. t = [segments EXCEPT ![n].data = @ \o data]
    BY <1>1 DEF AddSegment
  <2> HIDE DEF last, t
  <2>2. last.address \in Nat /\ last.data \in Seq(Bytes) /\ address = last.address + Len(last.data)
    BY <2>1, <1>1 DEF Part
  <2>3. BytesJoined(last.address, last.data, address, data, long)
    BY <2>2, JoinedBytes
  <2> HIDE DEF long
  <2>4. t = [segments EXCEPT ![n] = joint]
    <3> DEFINE x == last.address
               d == last.data
    <3>1. last = [address |-> x, data |-> d]
      BY <2>1 DEF Part
    <3>5. x = last.address
      OBVIOUS
    <3> HIDE DEF x, d
    <3>2. \A z : [last EXCEPT !.data = z] = [address |-> x, data |-> z]
      BY <3>1
    <3>3. [last EXCEPT !.data = @ \o data] = joint
      <4>1. [last EXCEPT !.data = @ \o data] = [last EXCEPT !.data = long]
        BY DEF long, Joined
      <4> QED
        BY <3>2, <3>5, <4>1
    <3>4. t = [segments EXCEPT ![n] = [last EXCEPT !.data = @ \o data]]
      BY <2>0, <2>1
    <3> QED
      BY <3>3, <3>4
  <2>5. joint \in Part /\ joint.address = last.address /\ joint.data = long
    BY <2>2, <2>3 DEF Part, BytesJoined
  <2> HIDE DEF joint
  <2>6. t \in Seq(Part) /\ DOMAIN t = 1 .. n /\ t[n] = joint /\ \A k \in 1 .. n : k # n => t[k] = segments[k]
    <3>1. \A k \in 1 .. n : segments[k] \in Part
      BY <1>0
    <3> DEFINE P == Part
    <3> HIDE DEF P
    <3>2. segments \in Seq(P) /\ joint \in P
      BY <2>5 DEF P
    <3>3. t \in Seq(P) /\ DOMAIN t = 1 .. n
      BY <1>0, <2>1, <2>4, <3>2
    <3>4. t[n] = joint /\ \A k \in 1 .. n : k # n => t[k] = segments[k]
      BY <1>0, <2>1, <2>4
    <3> QED
      BY <3>3, <3>4 DEF P
  <2>7. /\ PartSpan(joint) = PartSpan(last) \cup Span(address, data)
        /\ \A a \in PartSpan(last) : PartByte(joint, a) = PartByte(last, a) /\ a \notin Span(address, data)
        /\ \A a \in Span(address, data) : PartByte(joint, a) = data[a - address + 1]
    BY <2>3, <2>5 DEF PartSpan, PartByte, BytesJoined
  <2>8. ASSUME NEW a, NEW v
        PROVE  Gives(Range(t), a, v) <=> Gives(Range(segments), a, v) \/ Own(a, v)
    <3>1. ASSUME Gives(Range(t), a, v) PROVE Gives(Range(segments), a, v) \/ Own(a, v)
      <4>1. PICK k \in 1 .. n : a \in PartSpan(t[k]) /\ v = PartByte(t[k], a)
        BY <2>6, <3>1 DEF Gives, Range
      <4>2. segments[k] \in Range(segments)
        BY <1>0 DEF Range
      <4>3. CASE k # n
        BY <2>6, <4>1, <4>2, <4>3 DEF Gives
      <4>4. CASE k = n
        BY <2>1, <2>6, <2>7, <4>1, <4>2, <4>4 DEF Gives
      <4> QED
        BY <4>3, <4>4
    <3>2. ASSUME Gives(Range(segments), a, v) PROVE Gives(Range(t), a, v)
      <4>1. PICK k \in 1 .. n : a \in PartSpan(segments[k]) /\ v = PartByte(segments[k], a)
        BY <1>0, <3>2 DEF Gives, Range
      <4>2. t[k] \in Range(t)
        BY <2>6 DEF Range
      <4>3. CASE k # n
        BY <2>6, <4>1, <4>2, <4>3 DEF Gives
      <4>4. CASE k = n
        BY <2>1, <2>6, <2>7, <4>1, <4>2, <4>4 DEF Gives
      <4> QED
        BY <4>3, <4>4
    <3>3. ASSUME Own(a, v) PROVE Gives(Range(t), a, v)
      <4>1. n \in 1 .. n
        BY <1>0, <1>1
      <4>2. t[n] \in Range(t)
        BY <2>6, <4>1 DEF Range
      <4>3. joint \in Range(t)
        BY <2>6, <4>1, <4>2
      <4> QED
        BY <2>7, <3>3, <4>3 DEF Gives
    <3> QED
      BY <3>1, <3>2, <3>3
  <2> QED
    BY <2>6, <2>8 DEF t, BytesAdded
<1>2. CASE ~ (n > 0 /\ last.address + Len(last.data) = address)
  <2>1. t = Append(segments, new)
    BY <1>2 DEF AddSegment
  <2>2. new \in Part
    BY DEF Part
  <2>3. t \in Seq(Part) /\ Range(t) = Range(segments) \cup {new}
    <3>1. t \in Seq(Part) /\ DOMAIN t = 1 .. n + 1 /\ t[n + 1] = new /\ \A k \in 1 .. n : t[k] = segments[k]
      BY <2>1, <2>2, <1>0
    <3>2. 1 .. n + 1 = (1 .. n) \cup {n + 1}
      BY <1>0
    <3> HIDE DEF t, new
    <3> QED
      BY <3>1, <3>2, <1>0 DEF Range
  <2>4. PartSpan(new) = Span(address, data) /\ \A a : PartByte(new, a) = data[a - address + 1]
    BY DEF PartSpan, PartByte
  <2> HIDE DEF t, new
  <2>5. \A a, v : Gives(Range(t), a, v) <=> Gives(Range(segments), a, v) \/ Own(a, v)
    BY <2>3, <2>4 DEF Gives
  <2> QED
    BY <2>3, <2>5 DEF t, BytesAdded
<1> QED
  BY <1>1, <1>2

\* After i records the segments hold the bytes of the records, and no other.
SegmentsRight(file, i, s) ==
    /\ s = [segments |-> s.segments, linear |-> s.linear, segment |-> s.segment, at |-> s.at]
    /\ s.linear \in Nat /\ s.segment \in Nat
    /\ BaseAt(file, i + 1) = IF s.linear # 0 THEN s.linear * 65536 ELSE s.segment * 16
    /\ s.segments \in Seq(Part)
    /\ \A a, v : Gives(Range(s.segments), a, v) <=> RecordGives(file, i, a, v)
    /\ \A j \in 1 .. i : file[j].type \in Read

\* t is what a record i makes of s.
RecordAdded(file, i, s, t) ==
    /\ t = [segments |-> t.segments, linear |-> t.linear, segment |-> t.segment, at |-> t.at]
    /\ t.linear \in Nat /\ t.segment \in Nat
    /\ BaseAt(file, i + 1) = IF t.linear # 0 THEN t.linear * 65536 ELSE t.segment * 16
    /\ t.segments \in Seq(Part)
    /\ \A a, v : Gives(Range(t.segments), a, v) <=>
          Gives(Range(s.segments), a, v) \/ (a \in RecordSpan(file, i) /\ v = ByteOf(file, i, a))

\* The segments stay right when a record is read.
LEMMA SegmentsMore ==
  ASSUME NEW file \in Seq(HexRecord), NEW i \in 1 .. Len(file), NEW s, NEW t,
         SegmentsRight(file, i - 1, s), file[i].type \in Read,
         RecordAdded(file, i, s, t)
  PROVE  SegmentsRight(file, i, t)
<1>0. i \in Nat /\ i - 1 \in Nat /\ 1 .. i = (1 .. i - 1) \cup {i} /\ i \notin 1 .. i - 1
  OBVIOUS
<1>1. \A a, v : RecordGives(file, i, a, v) <=>
         RecordGives(file, i - 1, a, v) \/ (a \in RecordSpan(file, i) /\ v = ByteOf(file, i, a))
  BY <1>0 DEF RecordGives
<1>2. \A a, v : Gives(Range(t.segments), a, v) <=> RecordGives(file, i, a, v)
  BY <1>1 DEF SegmentsRight, RecordAdded
<1>3. \A j \in 1 .. i : file[j].type \in Read
  BY <1>0 DEF SegmentsRight
<1> QED
  BY <1>2, <1>3, SMT DEF SegmentsRight, RecordAdded

SegmentGood(file, i, s) ==
    /\ s = [segments |-> s.segments, linear |-> s.linear, segment |-> s.segment, at |-> s.at]
    /\ s.at = "reading" => SegmentsRight(file, i, s)
    /\ s.at = "ended" => \E e \in 1 .. i : file[e].type = "eof" /\ SegmentsRight(file, e - 1, s)

\* One step of the parser of segments.
LEMMA SegmentRecordGood ==
  ASSUME NEW file \in Seq(HexRecord), NEW i \in 1 .. Len(file), NEW s, SegmentGood(file, i - 1, s)
  PROVE  SegmentGood(file, i, SegmentRecord(s, file[i]))
<1> DEFINE t == SegmentRecord(s, file[i])
           r == file[i]
<1>0. i \in Nat /\ i - 1 \in Nat /\ \A e \in 1 .. i - 1 : e \in 1 .. i
  OBVIOUS
<1>1. r \in HexRecord /\ s = [segments |-> s.segments, linear |-> s.linear, segment |-> s.segment, at |-> s.at]
  BY DEF SegmentGood
<1>2. CASE s.at # "reading"
  <2>1. t = s
    BY <1>2, SMT DEF SegmentRecord
  <2> QED
    BY <2>1, <1>0, <1>1, <1>2 DEF SegmentGood
<1>3. CASE s.at = "reading"
  <2>1. SegmentsRight(file, i - 1, s)
    BY <1>3 DEF SegmentGood
  <2>2. (i - 1) + 1 = i
    BY <1>0
  <2>3. /\ s.linear \in Nat /\ s.segment \in Nat /\ s.segments \in Seq(Part)
        /\ BaseAt(file, i) = IF s.linear # 0 THEN s.linear * 65536 ELSE s.segment * 16
    BY <2>1, <2>2, SMT DEF SegmentsRight
  <2>4. CASE r.type = "data"
    <3> DEFINE base == IF s.linear # 0 THEN s.linear * 65536 ELSE s.segment * 16
               new == AddSegment(s.segments, base + r.offset, r.data)
    <3>1. t = [s EXCEPT !.segments = new]
      BY <1>3, <2>4, SMT DEF SegmentRecord
    <3>2. base = BaseAt(file, i) /\ base \in Nat
      BY <2>3, BaseFacts, SMT
    <3> HIDE DEF base
    <3>3. r.offset \in Nat /\ r.data \in Seq(Bytes) /\ base + r.offset \in Nat
      BY <1>1, <2>4, <3>2, RecordFields
    <3>4. BytesAdded(s.segments, base + r.offset, r.data, new)
      BY <2>3, <3>3, AddSegmentFacts
    <3> HIDE DEF new
    <3>5. t = [segments |-> new, linear |-> s.linear, segment |-> s.segment, at |-> s.at]
      BY <1>1, <3>1
    <3>6. ASSUME NEW a \in RecordSpan(file, i) PROVE ByteOf(file, i, a) = r.data[a - (base + r.offset) + 1]
      <4>1. a \in Nat
        BY SpanFacts
      <4>2. a - BaseAt(file, i) - r.offset + 1 = a - (base + r.offset) + 1
        BY <3>2, <3>3, <4>1
      <4> QED
        BY <4>2 DEF ByteOf
    <3>7. RecordSpan(file, i) = Span(base + r.offset, r.data)
      BY <2>4, <3>2, SpanFacts
    <3>8. \A a, v : Gives(Range(new), a, v) <=>
             Gives(Range(s.segments), a, v) \/ (a \in RecordSpan(file, i) /\ v = ByteOf(file, i, a))
      BY <3>4, <3>6, <3>7 DEF BytesAdded
    <3>9. BaseAt(file, i + 1) = BaseAt(file, i)
      BY <2>4, BaseFacts, SMT
    <3>10. r.type \in Read
      BY <2>4 DEF Read
    <3>11. /\ t.segments = new /\ t.linear = s.linear /\ t.segment = s.segment /\ t.at = "reading"
           /\ t = [segments |-> t.segments, linear |-> t.linear, segment |-> t.segment, at |-> t.at]
      BY <1>3, <3>5
    <3> HIDE DEF t
    <3>12. BaseAt(file, i + 1) = IF t.linear # 0 THEN t.linear * 65536 ELSE t.segment * 16
      BY <2>3, <3>9, <3>11, SMT
    <3>14. t.segments \in Seq(Part)
      BY <3>4, <3>11 DEF BytesAdded
    <3>13. SegmentsRight(file, i, t)
      <4>1. RecordAdded(file, i, s, t)
        BY <2>3, <3>8, <3>11, <3>12, <3>14, SMT DEF RecordAdded
      <4> QED
        BY <2>1, <3>10, <4>1, SegmentsMore
    <3> QED
      BY <3>11, <3>13 DEF SegmentGood, t
  <2>5. CASE r.type = "eof"
    <3>1. t = [s EXCEPT !.at = "ended"]
      BY <1>3, <2>5, SMT DEF SegmentRecord
    <3>2. t = [segments |-> s.segments, linear |-> s.linear, segment |-> s.segment, at |-> "ended"]
      BY <1>1, <3>1
    <3>3. /\ t.segments = s.segments /\ t.linear = s.linear /\ t.segment = s.segment /\ t.at = "ended"
          /\ t = [segments |-> t.segments, linear |-> t.linear, segment |-> t.segment, at |-> t.at]
      BY <3>2
    <3> HIDE DEF t
    <3>4. SegmentsRight(file, i - 1, t)
      BY <2>1, <3>3, SMT DEF SegmentsRight
    <3>5. i \in 1 .. i
      BY <1>0
    <3> QED
      BY <2>5, <3>3, <3>4, <3>5 DEF SegmentGood, t
  <2>6. CASE r.type \in {"segment", "linear", "start"}
    <3>1. /\ t = [segments |-> t.segments, linear |-> t.linear, segment |-> t.segment, at |-> t.at]
          /\ t.segments = s.segments /\ t.at = "reading" /\ t.linear \in Nat /\ t.segment \in Nat
          /\ BaseAt(file, i + 1) = IF t.linear # 0 THEN t.linear * 65536 ELSE t.segment * 16
      <4>1. CASE r.type = "segment"
        <5>1. t = [s EXCEPT !.segment = r.value, !.linear = 0]
          BY <1>3, <4>1, SMT DEF SegmentRecord
        <5>2. t = [segments |-> s.segments, linear |-> 0, segment |-> r.value, at |-> "reading"]
          BY <1>1, <1>3, <5>1
        <5>3. r.value \in Nat
          BY <1>1, <4>1, RecordFields
        <5>4. BaseAt(file, i + 1) = r.value * 16
          BY <4>1, BaseFacts, SMT
        <5>5. /\ t.segments = s.segments /\ t.at = "reading" /\ t.linear = 0 /\ t.segment = r.value
              /\ t = [segments |-> t.segments, linear |-> t.linear, segment |-> t.segment, at |-> t.at]
          BY <5>2
        <5> HIDE DEF t
        <5> QED
          BY <5>3, <5>4, <5>5, SMT
      <4>2. CASE r.type = "linear"
        <5>1. t = [s EXCEPT !.linear = r.value, !.segment = 0]
          BY <1>3, <4>2, SMT DEF SegmentRecord
        <5>2. t = [segments |-> s.segments, linear |-> r.value, segment |-> 0, at |-> "reading"]
          BY <1>1, <1>3, <5>1
        <5>3. r.value \in Nat
          BY <1>1, <4>2, RecordFields
        <5>4. BaseAt(file, i + 1) = r.value * 65536
          BY <4>2, BaseFacts, SMT
        <5>5. /\ t.segments = s.segments /\ t.at = "reading" /\ t.linear = r.value /\ t.segment = 0
              /\ t = [segments |-> t.segments, linear |-> t.linear, segment |-> t.segment, at |-> t.at]
          BY <5>2
        <5> HIDE DEF t
        <5> QED
          BY <5>3, <5>4, <5>5, SMT
      <4>3. CASE r.type = "start"
        <5>1. t = s
          BY <1>3, <4>3, SMT DEF SegmentRecord
        <5>2. BaseAt(file, i + 1) = BaseAt(file, i)
          BY <4>3, BaseFacts, SMT
        <5> HIDE DEF t
        <5> QED
          BY <1>1, <1>3, <2>3, <5>1, <5>2, SMT
      <4> QED
        BY <2>6, <4>1, <4>2, <4>3
    <3> HIDE DEF t
    <3>2. RecordSpan(file, i) = {} /\ r.type \in Read
      <4>1. r.type # "data" /\ r.type \in Read
        BY <2>6 DEF Read
      <4> QED
        BY <4>1, SpanFacts
    <3>3. \A a, v : Gives(Range(t.segments), a, v) <=>
             Gives(Range(s.segments), a, v) \/ (a \in RecordSpan(file, i) /\ v = ByteOf(file, i, a))
      BY <3>1, <3>2
    <3>5. t.segments \in Seq(Part)
      BY <2>3, <3>1
    <3>4. SegmentsRight(file, i, t)
      <4>1. RecordAdded(file, i, s, t)
        BY <3>1, <3>3, <3>5, SMT DEF RecordAdded
      <4> QED
        BY <2>1, <3>2, <4>1, SegmentsMore
    <3> QED
      BY <3>1, <3>4 DEF SegmentGood, t
  <2>7. CASE r.type \in {"other", "bad"}
    <3>1. t = [s EXCEPT !.at = "rejected"]
      BY <1>3, <2>7, SMT DEF SegmentRecord
    <3>2. t = [segments |-> s.segments, linear |-> s.linear, segment |-> s.segment, at |-> "rejected"]
      BY <1>1, <3>1
    <3>3. /\ t.at = "rejected"
          /\ t = [segments |-> t.segments, linear |-> t.linear, segment |-> t.segment, at |-> t.at]
      BY <3>2
    <3> QED
      BY <3>3 DEF SegmentGood
  <2> QED
    BY <1>1, <2>4, <2>5, <2>6, <2>7, RecordFields DEF Read
<1> QED
  BY <1>2, <1>3

\* When the file is read the segments have its bytes and no other.
LEMMA SegmentStatesRight ==
  ASSUME NEW file \in Seq(HexRecord)
  PROVE  SegmentGood(file, Len(file), SegmentState(file, Len(file)))
<1> DEFINE n == Len(file)
           T == {i \in Nat : i <= n => SegmentGood(file, i, SegmentState(file, i))}
<1>0. n \in Nat
  OBVIOUS
<1>1. 0 \in T
  <2> DEFINE s == SegmentState(file, 0)
  <2>1. s = [segments |-> <<>>, linear |-> 0, segment |-> 0, at |-> "reading"]
    BY SegmentStateUnfolds DEF NoSegments
  <2>2. /\ s.segments = <<>> /\ s.linear = 0 /\ s.segment = 0 /\ s.at = "reading"
        /\ s = [segments |-> s.segments, linear |-> s.linear, segment |-> s.segment, at |-> s.at]
    BY <2>1
  <2> HIDE DEF s
  <2>3. BaseAt(file, 0 + 1) = 0
    <3>1. Above(file, 1) = {}
      BY DEF Above
    <3>2. BaseFrom(file, {}) = 0
      BY SMT DEF BaseFrom
    <3> QED
      BY <3>1, <3>2, BaseIsFromAbove
  <2>4. \A a, v : Gives(Range(s.segments), a, v) <=> RecordGives(file, 0, a, v)
    <3>1. Range(s.segments) = {}
      BY <2>2 DEF Range
    <3> QED
      BY <3>1 DEF Gives, RecordGives
  <2>5. s.segments \in Seq(Part) /\ \A j \in 1 .. 0 : FALSE
    BY <2>2
  <2>6. SegmentsRight(file, 0, s)
    BY <2>2, <2>3, <2>4, <2>5, SMT DEF SegmentsRight
  <2>7. SegmentGood(file, 0, s)
    BY <2>2, <2>6 DEF SegmentGood
  <2> QED
    BY <2>7 DEF s
<1>2. ASSUME NEW k \in Nat, k \in T PROVE k + 1 \in T
  <2> SUFFICES ASSUME k + 1 <= n PROVE SegmentGood(file, k + 1, SegmentState(file, k + 1))
    OBVIOUS
  <2>1. k + 1 \in 1 .. Len(file) /\ (k + 1) - 1 = k /\ k <= n
    BY <1>0
  <2>2. SegmentGood(file, k, SegmentState(file, k))
    BY <1>2, <2>1
  <2>3. SegmentState(file, k + 1) = SegmentRecord(SegmentState(file, k), file[k + 1])
    BY <2>1, SegmentStateUnfolds
  <2> QED
    BY <2>1, <2>2, <2>3, SegmentRecordGood
<1> HIDE DEF T
<1>3. n \in T
  BY <1>0, <1>1, <1>2, NatSetInduction
<1> QED
  BY <1>0, <1>3 DEF T

\* Division and its remainder.
LEMMA Quotient ==
  ASSUME NEW k \in Nat, NEW n \in Nat, n > 0
  PROVE  k \div n \in Nat /\ n * (k \div n) <= k /\ k < n * (k \div n) + n
BY SMT

\* Products of naturals grow with their factor.
LEMMA Multiples ==
  ASSUME NEW n \in Nat, NEW x \in Nat, NEW y \in Nat
  PROVE  /\ n * x \in Nat /\ n * (x + 1) = n * x + n
         /\ x <= y => n * x <= n * y
         /\ x < y => n * x + n <= n * y
BY SMT

\* A function on 1 .. n is a sequence.
LEMMA ListOf ==
  ASSUME NEW S, NEW n \in Nat, NEW f, f = [i \in 1 .. n |-> f[i]], \A i \in 1 .. n : f[i] \in S
  PROVE  f \in Seq(S) /\ Len(f) = n /\ DOMAIN f = 1 .. n
<1>1. f \in [1 .. n -> S]
  BY Zenon
<1> QED
  BY <1>1

Slices(address, data, n) ==
    [i \in 1 .. (Len(data) + n - 1) \div n |->
        [address |-> address + n * (i - 1),
         data    |-> SubSeq(data, n * (i - 1) + 1, Min({n * i, Len(data)}))]]

\* The bounds of slice i of len bytes, n at a time: none is empty, the last may be short.
LEMMA SliceBounds ==
  ASSUME NEW n \in Nat, n > 0, NEW len \in Nat, NEW i \in 1 .. (len + n - 1) \div n
  PROVE  /\ i \in Nat /\ i - 1 \in Nat /\ n * (i - 1) \in Nat /\ n * i \in Nat
         /\ n * i = n * (i - 1) + n /\ n * (i - 1) < len
         /\ Min({n * i, len}) \in Nat /\ Min({n * i, len}) <= n * i /\ Min({n * i, len}) <= len
         /\ n * (i - 1) < Min({n * i, len})
         /\ (Min({n * i, len}) = n * i \/ Min({n * i, len}) = len)
<1> DEFINE q == (len + n - 1) \div n
<1>1. q \in Nat /\ n * q <= len + n - 1
  <2>1. len + n - 1 \in Nat
    OBVIOUS
  <2> QED
    BY <2>1, Quotient
<1> HIDE DEF q
<1>2. i \in Nat /\ i - 1 \in Nat /\ i <= q /\ (i - 1) + 1 = i
  BY <1>1 DEF q
<1>3. n * (i - 1) \in Nat /\ n * i = n * (i - 1) + n /\ n * i <= n * q /\ n * i \in Nat /\ n * q \in Nat
  BY <1>1, <1>2, Multiples
<1>4. n * (i - 1) < len
  BY <1>1, <1>3
<1>5. /\ Min({n * i, len}) \in Nat /\ Min({n * i, len}) <= n * i /\ Min({n * i, len}) <= len
      /\ (Min({n * i, len}) = n * i \/ Min({n * i, len}) = len)
  BY <1>3, MinOfTwo
<1> HIDE DEF q
<1> QED
  BY <1>2, <1>3, <1>4, <1>5

\* The slices of a part have its bytes and no other.
LEMMA SlicesFacts ==
  ASSUME NEW address \in Nat, NEW data \in Seq(Bytes), NEW n \in Nat, n > 0
  PROVE  /\ Slices(address, data, n) \in Seq(Part)
         /\ \A a, v : Gives(Range(Slices(address, data, n)), a, v) <=>
               (a \in Span(address, data) /\ v = data[a - address + 1])
<1> DEFINE len == Len(data)
           q == (len + n - 1) \div n
           lo(i) == n * (i - 1)
           hi(i) == Min({n * i, len})
           ss == Slices(address, data, n)
           Own(i, a) == address + lo(i) <= a /\ a < address + hi(i)
<1>1. len \in Nat /\ len + n - 1 \in Nat /\ q \in Nat
  BY Quotient
<1>2. \A i \in 1 .. q :
         /\ i \in Nat /\ lo(i) \in Nat /\ n * i = lo(i) + n /\ n * i \in Nat
         /\ lo(i) < hi(i) /\ hi(i) <= len /\ hi(i) \in Nat /\ (hi(i) = n * i \/ hi(i) = len)
  BY <1>1, SliceBounds
<1>3. /\ DOMAIN ss = 1 .. q /\ ss = [i \in 1 .. q |-> ss[i]]
      /\ \A i \in 1 .. q : ss[i] = [address |-> address + lo(i), data |-> SubSeq(data, lo(i) + 1, hi(i))]
  BY DEF Slices
<1> HIDE DEF lo, hi, ss, q, len
<1>4. ASSUME NEW i \in 1 .. q
      PROVE  /\ ss[i] \in Part /\ ss[i].address = address + lo(i)
             /\ PartSpan(ss[i]) = address + lo(i) .. address + hi(i) - 1
             /\ \A a \in PartSpan(ss[i]) : PartByte(ss[i], a) = data[a - address + 1]
  <2> DEFINE d == SubSeq(data, lo(i) + 1, hi(i))
             l == lo(i)
             h == hi(i)
  <2>1. l \in Nat /\ h \in Nat /\ l < h /\ h <= len
    BY <1>2
  <2> HIDE DEF l, h
  <2>2. /\ SubSeq(data, l + 1, h) \in Seq(Bytes) /\ Len(SubSeq(data, l + 1, h)) = h - l
        /\ \A k \in 1 .. h - l : SubSeq(data, l + 1, h)[k] = data[l + k]
    BY <2>1 DEF len
  <2>3. d \in Seq(Bytes) /\ Len(d) = h - l /\ \A k \in 1 .. h - l : d[k] = data[l + k]
    BY <2>2 DEF l, h
  <2>4. ss[i] = [address |-> address + l, data |-> d]
    BY <1>3 DEF l
  <2> HIDE DEF d
  <2>5. ss[i].address = address + l /\ ss[i].data = d /\ ss[i] \in Part
    BY <2>1, <2>3, <2>4 DEF Part
  <2>6. PartSpan(ss[i]) = address + l .. address + h - 1
    <3>1. PartSpan(ss[i]) = (address + l) .. (address + l) + (h - l) - 1
      BY <2>3, <2>5 DEF PartSpan, Span
    <3> QED
      BY <2>1, <3>1
  <2>7. ASSUME NEW a \in address + l .. address + h - 1
        PROVE  PartByte(ss[i], a) = data[a - address + 1]
    <3>1. a - (address + l) + 1 \in 1 .. h - l /\ l + (a - (address + l) + 1) = a - address + 1
      BY <2>1
    <3>2. d[a - (address + l) + 1] = data[l + (a - (address + l) + 1)]
      BY <2>3, <3>1
    <3> QED
      BY <2>5, <3>1, <3>2 DEF PartByte
  <2> QED
    BY <2>5, <2>6, <2>7 DEF l, h
<1>5. ss \in Seq(Part)
  BY <1>1, <1>3, <1>4, ListOf
<1>6. Span(address, data) = address .. address + len - 1
  BY DEF Span, len
<1>7. ASSUME NEW a, NEW v, Gives(Range(ss), a, v)
      PROVE  a \in Span(address, data) /\ v = data[a - address + 1]
  <2>1. PICK i \in 1 .. q : a \in PartSpan(ss[i]) /\ v = PartByte(ss[i], a)
    BY <1>3, <1>7 DEF Gives, Range
  <2>2. a \in address + lo(i) .. address + hi(i) - 1 /\ v = data[a - address + 1]
    BY <1>4, <2>1
  <2>3. lo(i) \in Nat /\ hi(i) \in Nat /\ hi(i) <= len
    BY <1>2
  <2>4. a \in address .. address + len - 1
    BY <1>1, <2>2, <2>3
  <2> QED
    BY <1>6, <2>2, <2>4
<1>8. ASSUME NEW a \in Span(address, data) PROVE Gives(Range(ss), a, data[a - address + 1])
  <2> DEFINE k == a - address
             j == k \div n
             i == j + 1
  <2>1. k \in Nat /\ k < len
    BY <1>1, <1>6
  <2> HIDE DEF k
  <2>2. j \in Nat /\ n * j <= k /\ k < n * j + n
    BY <2>1, Quotient
  <2> HIDE DEF j
  <2>3. i \in Nat /\ i >= 1 /\ i - 1 = j
    BY <2>2
  <2>4. lo(i) = n * j
    BY <2>3 DEF lo
  <2>5. i <= q
    <3> SUFFICES ASSUME q < i PROVE FALSE
      BY <1>1, <2>3
    <3>1. q <= j
      BY <1>1, <2>2
    <3>2. n * q <= n * j /\ n * q \in Nat /\ n * j \in Nat
      BY <1>1, <2>2, <3>1, Multiples
    <3>3. len + n - 1 < n * q + n
      BY <1>1, Quotient DEF q
    <3> QED
      BY <1>1, <2>1, <2>2, <3>2, <3>3
  <2>6. i \in 1 .. q
    BY <1>1, <2>3, <2>5
  <2> HIDE DEF i
  <2>7. lo(i) \in Nat /\ hi(i) \in Nat /\ n * i = lo(i) + n /\ n * i \in Nat /\ (hi(i) = n * i \/ hi(i) = len)
    BY <1>2, <2>6
  <2>8. lo(i) <= k /\ k < hi(i)
    BY <2>1, <2>2, <2>4, <2>7
  <2>9. a \in address + lo(i) .. address + hi(i) - 1
    <3>1. a = address + k
      BY <1>1, <1>6 DEF k
    <3> QED
      BY <2>1, <2>7, <2>8, <3>1
  <2>10. a \in PartSpan(ss[i]) /\ PartByte(ss[i], a) = data[a - address + 1]
    BY <1>4, <2>6, <2>9
  <2>11. ss[i] \in Range(ss)
    BY <1>3, <2>6 DEF Range
  <2> QED
    BY <2>10, <2>11 DEF Gives
<1>9. \A a, v : Gives(Range(ss), a, v) <=> (a \in Span(address, data) /\ v = data[a - address + 1])
  BY <1>7, <1>8
<1> QED
  BY <1>5, <1>9 DEF ss

\* The parts of the definition of Cut.
Backs(W, w) == {v \in W : v <= w /\ v % 4 = 0 /\ v - 1 \notin W}
RunOf(W, w) == Max(Backs(W, w))
Starts(W, n) == {w \in W : w % 4 = 0 /\ ((w - RunOf(W, w)) % (4 * n)) = 0}
RunPart(W, w, n) == {v \in W : v \in w .. w + 4 * n - 1 /\ RunOf(W, WordOf(v)) = RunOf(W, w)}
CutChunk(words, w, n) ==
    [address |-> w,
     data    |-> [i \in 1 .. Cardinality(RunPart(DOMAIN words, w, n)) |-> words[w + i - 1]]]
Rising(s) == \A i, j \in DOMAIN s : i < j => s[i] < s[j]

\* Cut by its parts.
LEMMA CutUnfolds ==
  ASSUME NEW words, NEW n
  PROVE  LET order == InOrder(Starts(DOMAIN words, n))
         IN  Cut(words, n) = [i \in DOMAIN order |-> CutChunk(words, order[i], n)]
BY Zenon DEF Cut, Starts, CutChunk, RunPart, RunOf, Backs

\* A memory of whole words.
WholeWords(W) == W \subseteq Nat /\ \A a \in W : WordOf(a) .. WordOf(a) + 3 \subseteq W
\* r is the first address of the run of words that w is in.
IsRun(W, w, r) == r \in W /\ r <= w /\ r % 4 = 0 /\ r - 1 \notin W /\ r .. w \subseteq W

\* A word is in one run.
LEMMA RunIsUnique ==
  ASSUME NEW W, W \subseteq Nat, NEW w \in W, NEW q, NEW r, IsRun(W, w, q), IsRun(W, w, r)
  PROVE  q = r
<1>1. q \in Nat /\ r \in Nat /\ w \in Nat /\ q <= w /\ r <= w
  BY DEF IsRun
<1>2. ASSUME q < r PROVE FALSE
  <2>1. r - 1 \in q .. w
    BY <1>1, <1>2
  <2> QED
    BY <2>1 DEF IsRun
<1>3. ASSUME r < q PROVE FALSE
  <2>1. q - 1 \in r .. w
    BY <1>1, <1>3
  <2> QED
    BY <2>1 DEF IsRun
<1> QED
  BY <1>1, <1>2, <1>3

\* Every word is in a run.
LEMMA RunFacts ==
  ASSUME NEW W, WholeWords(W), NEW w \in W
  PROVE  IsRun(W, w, RunOf(W, w)) /\ RunOf(W, w) \in Nat
<1>0. w \in Nat /\ W \subseteq Nat
  BY DEF WholeWords
<1> DEFINE U == {u \in Nat : u <= w /\ u .. w \subseteq W}
           m == Min(U)
<1>1. U \subseteq Nat /\ w \in U
  BY <1>0
<1>2. m \in U /\ \A u \in U : m <= u
  BY <1>1, MinIsLeast
<1> HIDE DEF m
<1>3. m \in Nat /\ m <= w /\ m .. w \subseteq W /\ m \in W
  BY <1>0, <1>2
<1>4. m - 1 \notin W
  <2> SUFFICES ASSUME m - 1 \in W PROVE FALSE
    OBVIOUS
  <2>1. m - 1 \in Nat /\ m - 1 <= w
    BY <1>0, <1>3
  <2>2. m - 1 .. w \subseteq W
    <3>1. m - 1 .. w = {m - 1} \cup (m .. w)
      BY <1>0, <1>3
    <3> QED
      BY <1>3, <3>1
  <2>3. m - 1 \in U
    BY <2>1, <2>2
  <2> QED
    BY <1>2, <1>3, <2>3
<1>5. m % 4 = 0
  <2> DEFINE q == WordOf(m)
  <2>1. q \in Nat /\ q <= m /\ m <= q + 3 /\ q % 4 = 0
    BY <1>3, WordOfFacts
  <2>2. q .. q + 3 \subseteq W
    BY <1>3 DEF WholeWords
  <2> HIDE DEF q
  <2>3. q .. w \subseteq W
    <3>1. \A x \in q .. w : x \in q .. q + 3 \/ x \in m .. w
      BY <1>0, <1>3, <2>1
    <3> QED
      BY <1>3, <2>2, <3>1
  <2>4. q \in U
    BY <1>0, <1>3, <2>1, <2>3
  <2>5. m = q
    BY <1>2, <1>3, <2>1, <2>4
  <2> QED
    BY <2>1, <2>5
<1>6. IsRun(W, w, m)
  BY <1>3, <1>4, <1>5 DEF IsRun
<1> DEFINE B == Backs(W, w)
<1>7. B \subseteq Nat /\ B # {} /\ \A y \in B : y <= w
  BY <1>0, <1>3, <1>4, <1>5 DEF Backs
<1>8. Max(B) \in B /\ \A y \in B : Max(B) >= y
  BY <1>0, <1>7, MaxIsGreatest
<1>9. m \in B
  BY <1>3, <1>4, <1>5 DEF Backs
<1> DEFINE r == RunOf(W, w)
<1>10. r \in B /\ r >= m
  BY <1>8, <1>9 DEF RunOf
<1> HIDE DEF r
<1>11. r \in W /\ r <= w /\ r % 4 = 0 /\ r - 1 \notin W /\ r \in Nat
  BY <1>0, <1>10 DEF Backs
<1>12. r .. w \subseteq W
  <2>1. r .. w \subseteq m .. w
    BY <1>0, <1>3, <1>10, <1>11
  <2> QED
    BY <1>3, <2>1
<1> QED
  BY <1>11, <1>12 DEF IsRun, r

\* Two addresses are in one run when everything between them is there.
LEMMA SameRun ==
  ASSUME NEW W, WholeWords(W), NEW w \in W, NEW v \in W, w <= v
  PROVE  RunOf(W, w) = RunOf(W, v) <=> w .. v \subseteq W
<1>0. W \subseteq Nat /\ w \in Nat /\ v \in Nat
  BY DEF WholeWords
<1> DEFINE q == RunOf(W, w)
           r == RunOf(W, v)
<1>1. IsRun(W, w, q) /\ IsRun(W, v, r) /\ q \in Nat /\ r \in Nat
  BY RunFacts
<1> HIDE DEF q, r
<1>2. ASSUME q = r PROVE w .. v \subseteq W
  <2>1. w .. v \subseteq r .. v
    BY <1>0, <1>1, <1>2 DEF IsRun
  <2> QED
    BY <1>1, <2>1 DEF IsRun
<1>3. ASSUME w .. v \subseteq W PROVE q = r
  <2>1. q .. v \subseteq W
    <3>1. \A x \in q .. v : x \in q .. w \/ x \in w .. v
      BY <1>0, <1>1
    <3> QED
      BY <1>1, <1>3, <3>1 DEF IsRun
  <2>2. IsRun(W, v, q)
    BY <1>0, <1>1, <2>1 DEF IsRun
  <2> QED
    BY <1>0, <1>1, <2>2, RunIsUnique
<1> QED
  BY <1>2, <1>3 DEF q, r

\* The part of a run that a chunk takes is an interval of its addresses.
LEMMA RunPartFacts ==
  ASSUME NEW W, WholeWords(W), NEW b \in Nat, W \subseteq 0 .. b, NEW n \in Nat, n > 0, NEW w \in W
  PROVE  /\ Cardinality(RunPart(W, w, n)) \in Nat
         /\ RunPart(W, w, n) = w .. w + Cardinality(RunPart(W, w, n)) - 1
         /\ RunPart(W, w, n) \subseteq W
         /\ \A v \in W : w <= v /\ v <= w + 4 * n - 1 /\ w .. v \subseteq W => v \in RunPart(W, w, n)
<1> DEFINE V == RunPart(W, w, n)
           N == 4 * n
<1>0. W \subseteq Nat /\ w \in Nat /\ N \in Nat /\ N > 0
  BY DEF WholeWords
<1>1. \A v \in W : v \in V <=> v \in w .. w + N - 1 /\ RunOf(W, WordOf(v)) = RunOf(W, w)
  BY DEF RunPart
<1>2. V \subseteq W
  BY DEF RunPart
<1> HIDE DEF V, N
<1>3. \A v \in W : RunOf(W, WordOf(v)) = RunOf(W, v)
  <2> TAKE v \in W
  <2>1. v \in Nat /\ WordOf(v) \in Nat /\ WordOf(v) <= v /\ v <= WordOf(v) + 3
    BY <1>0, WordOfFacts
  <2>2. WordOf(v) .. WordOf(v) + 3 \subseteq W
    BY DEF WholeWords
  <2>3. WordOf(v) \in W /\ WordOf(v) .. v \subseteq W
    BY <2>1, <2>2
  <2> QED
    BY <2>1, <2>3, SameRun
<1>4. \A v \in W : v \in V <=> w <= v /\ v <= w + N - 1 /\ w .. v \subseteq W
  <2> TAKE v \in W
  <2>1. v \in Nat
    BY <1>0
  <2>2. v \in w .. w + N - 1 <=> w <= v /\ v <= w + N - 1
    BY <1>0, <2>1
  <2>3. w <= v => (RunOf(W, w) = RunOf(W, v) <=> w .. v \subseteq W)
    BY SameRun
  <2> QED
    BY <1>1, <1>3, <2>2, <2>3
<1>5. w \in V
  BY <1>0, <1>4
<1>6. ASSUME NEW v \in V PROVE w <= v /\ v <= b /\ w .. v \subseteq V
  <2>1. v \in W /\ w <= v /\ v <= w + N - 1 /\ w .. v \subseteq W /\ v \in Nat /\ v <= b
    BY <1>0, <1>2, <1>4
  <2>2. ASSUME NEW x \in w .. v PROVE x \in V
    <3>1. x \in W /\ w <= x /\ x <= w + N - 1 /\ w .. x \subseteq w .. v
      BY <1>0, <2>1
    <3> QED
      BY <1>4, <2>1, <3>1
  <2> QED
    BY <2>1, <2>2
<1>7. V \subseteq Nat
  BY <1>0, <1>2
<1>8. Cardinality(V) \in Nat /\ V = w .. w + Cardinality(V) - 1
  BY <1>5, <1>6, <1>7, SolidIsInterval
<1> QED
  BY <1>2, <1>4, <1>8 DEF V, N

\* A multiple leaves no remainder.
LEMMA NoRemainder ==
  ASSUME NEW k \in Nat, NEW n \in Nat, n > 0
  PROVE  (n * k) % n = 0
<1>1. \A q, r \in Nat : r < n => (n * q + r) % n = r
  BY SMT
<1>2. n * k \in Nat
  BY Multiples
<1> QED
  BY <1>1, <1>2

\* A chunk has the bytes of the words of its part of the run.
LEMMA ChunkFacts ==
  ASSUME NEW words, WholeWords(DOMAIN words), NEW b \in Nat, DOMAIN words \subseteq 0 .. b,
         \A a \in DOMAIN words : words[a] \in Bytes,
         NEW n \in Nat, n > 0, NEW w \in DOMAIN words
  PROVE  /\ CutChunk(words, w, n) \in Part
         /\ PartSpan(CutChunk(words, w, n)) = RunPart(DOMAIN words, w, n)
         /\ \A a \in PartSpan(CutChunk(words, w, n)) : PartByte(CutChunk(words, w, n), a) = words[a]
<1> DEFINE V == RunPart(DOMAIN words, w, n)
           c == Cardinality(V)
           ch == CutChunk(words, w, n)
           d == [i \in 1 .. c |-> words[w + i - 1]]
<1>1. c \in Nat /\ V = w .. w + c - 1 /\ V \subseteq DOMAIN words /\ w \in Nat
  BY RunPartFacts DEF WholeWords
<1>2. ch = [address |-> w, data |-> d]
  BY DEF CutChunk
<1> HIDE DEF c, V
<1>3. d \in Seq(Bytes) /\ Len(d) = c
  <2>1. \A i \in 1 .. c : w + i - 1 \in V
    BY <1>1
  <2>2. \A i \in 1 .. c : words[w + i - 1] \in Bytes
    BY <1>1, <2>1
  <2> QED
    BY <1>1, <2>2
<1>4. \A i \in 1 .. c : d[i] = words[w + i - 1]
  OBVIOUS
<1> HIDE DEF ch, d
<1>5. ch.address = w /\ ch.data = d /\ ch \in Part
  BY <1>1, <1>2, <1>3 DEF Part
<1>6. PartSpan(ch) = V
  BY <1>1, <1>3, <1>5 DEF PartSpan, Span
<1>7. ASSUME NEW a \in V PROVE PartByte(ch, a) = words[a]
  <2>1. a - w + 1 \in 1 .. c /\ w + (a - w + 1) - 1 = a
    BY <1>1
  <2>2. d[a - w + 1] = words[w + (a - w + 1) - 1]
    BY <1>4, <2>1
  <2> QED
    BY <1>5, <2>1, <2>2 DEF PartByte
<1> QED
  BY <1>5, <1>6, <1>7 DEF ch, V

\* Every address is in the chunk of one of the starts.
LEMMA StartFor ==
  ASSUME NEW W, WholeWords(W), NEW b \in Nat, W \subseteq 0 .. b, NEW n \in Nat, n > 0, NEW a \in W
  PROVE  \E w \in Starts(W, n) : a \in RunPart(W, w, n)
<1> DEFINE r == RunOf(W, a)
           N == 4 * n
           k == (a - r) \div N
           w == r + N * k
<1>0. a \in Nat /\ N \in Nat /\ N > 0 /\ W \subseteq Nat
  BY DEF WholeWords
<1>1. IsRun(W, a, r) /\ r \in Nat
  BY RunFacts
<1> HIDE DEF r
<1>2. r \in W /\ r <= a /\ r .. a \subseteq W /\ r % 4 = 0
  BY <1>1 DEF IsRun
<1>3. a - r \in Nat
  BY <1>0, <1>1, <1>2
<1>4. k \in Nat /\ N * k <= a - r /\ a - r < N * k + N
  BY <1>0, <1>3, Quotient
<1>5. N * k = 4 * (n * k) /\ n * k \in Nat /\ N * k \in Nat
  BY <1>4, SMT
<1>10. (N * k) % N = 0
  BY <1>0, <1>4, NoRemainder
<1> HIDE DEF k
<1>6. w \in Nat /\ r <= w /\ w <= a /\ a <= w + N - 1 /\ w - r = N * k
  BY <1>0, <1>1, <1>2, <1>4, <1>5
<1>7. w % 4 = 0
  BY <1>1, <1>2, <1>5, SMT
<1> HIDE DEF w, N
<1>8. w \in W /\ w .. a \subseteq W /\ r .. w \subseteq W
  <2>1. w \in r .. a /\ w .. a \subseteq r .. a /\ r .. w \subseteq r .. a
    BY <1>0, <1>1, <1>2, <1>6
  <2> QED
    BY <1>2, <2>1
<1>9. RunOf(W, w) = r
  <2>1. IsRun(W, w, r)
    BY <1>1, <1>6, <1>8 DEF IsRun
  <2>2. IsRun(W, w, RunOf(W, w))
    BY <1>8, RunFacts
  <2> QED
    BY <1>0, <1>8, <2>1, <2>2, RunIsUnique
<1>11. w \in Starts(W, n)
  BY <1>6, <1>7, <1>8, <1>9, <1>10 DEF Starts, N
<1>12. a \in RunPart(W, w, n)
  BY <1>6, <1>8, RunPartFacts DEF N
<1> QED
  BY <1>11, <1>12

\* An increasing list as long as a set lists all of it.
LEMMA RisingIsOnto ==
  ASSUME NEW S, IsFiniteSet(S), S \subseteq Nat, NEW s \in [1 .. Cardinality(S) -> S], Rising(s)
  PROVE  S = {s[i] : i \in DOMAIN s}
<1> DEFINE n == Cardinality(S)
<1>1. n \in Nat
  BY FS_CardinalityType
<1>2. IsFiniteSet(1 .. n) /\ Cardinality(1 .. n) = n
  BY <1>1, FS_Interval
<1> HIDE DEF n
<1>3. s \in [1 .. n -> S]
  BY DEF n
<1>4. \A x, y \in 1 .. n : s[x] = s[y] => x = y
  <2> SUFFICES ASSUME NEW x \in 1 .. n, NEW y \in 1 .. n, s[x] = s[y], x # y PROVE FALSE
    OBVIOUS
  <2>1. s[x] \in Nat /\ s[y] \in Nat
    BY <1>3
  <2>2. x < y \/ y < x
    BY <1>1
  <2> QED
    <3>1. x \in DOMAIN s /\ y \in DOMAIN s
      BY <1>3
    <3>2. s[x] < s[y] \/ s[y] < s[x]
      BY <2>2, <3>1 DEF Rising
    <3> QED
      BY <2>1, <3>2
<1>5. s \in Injection(1 .. n, S)
  BY <1>3, <1>4 DEF Injection, IsInjective
<1>6. s \in Surjection(1 .. n, S)
  BY <1>2, <1>5, FS_Injection DEF n
<1> QED
  BY <1>3, <1>6 DEF Surjection

\* The chunks have every byte of the words and no other: Cut loses and invents nothing.
LEMMA CutFacts ==
  ASSUME NEW words, WholeWords(DOMAIN words), NEW b \in Nat, DOMAIN words \subseteq 0 .. b,
         \A a \in DOMAIN words : words[a] \in Bytes,
         NEW n \in Nat, n > 0
  PROVE  /\ Cut(words, n) \in Seq(Part)
         /\ \A a, v : Gives(Range(Cut(words, n)), a, v) <=> (a \in DOMAIN words /\ v = words[a])
<1> DEFINE W == DOMAIN words
           S == Starts(W, n)
           order == InOrder(S)
           cut == Cut(words, n)
           c == Cardinality(S)
<1>1. S \subseteq W /\ S \subseteq 0 .. b /\ S \subseteq Nat
  BY DEF Starts
<1>2. IsFiniteSet(S) /\ c \in Nat
  <2>1. IsFiniteSet(0 .. b)
    BY FS_Interval
  <2> QED
    BY <1>1, <2>1, FS_Subset, FS_CardinalityType
<1>3. \E s \in [1 .. c -> S] : Rising(s)
  <2>1. \E s \in [1 .. Cardinality(S) -> S] :
           /\ \A i, j \in DOMAIN s : i < j => s[i] < s[j]
           /\ S = {s[i] : i \in DOMAIN s}
    BY <1>1, SortedListing
  <2> QED
    BY <2>1 DEF Rising
<1>4. order \in [1 .. c -> S] /\ Rising(order)
  <2>1. order = CHOOSE s \in [1 .. c -> S] : Rising(s)
    BY DEF InOrder, Rising
  <2> HIDE DEF order, c, S
  <2> QED
    BY <1>3, <2>1
<1>5. S = {order[i] : i \in DOMAIN order}
  BY <1>1, <1>2, <1>4, RisingIsOnto
<1>6. cut = [i \in DOMAIN order |-> CutChunk(words, order[i], n)]
  BY CutUnfolds
<1> HIDE DEF order, S, cut, c
<1>7. DOMAIN order = 1 .. c /\ \A i \in 1 .. c : order[i] \in W
  BY <1>1, <1>4
<1>8. \A w \in W : /\ CutChunk(words, w, n) \in Part
                   /\ PartSpan(CutChunk(words, w, n)) = RunPart(W, w, n)
                   /\ \A a \in PartSpan(CutChunk(words, w, n)) : PartByte(CutChunk(words, w, n), a) = words[a]
  BY ChunkFacts
<1>9. \A i \in 1 .. c : cut[i] = CutChunk(words, order[i], n) /\ cut[i] \in Part
  BY <1>6, <1>7, <1>8
<1>10. DOMAIN cut = 1 .. c /\ cut \in Seq(Part)
  <2>1. cut = [i \in 1 .. c |-> cut[i]]
    BY <1>6, <1>7
  <2> QED
    BY <1>2, <1>9, <2>1, ListOf
<1>11. ASSUME NEW a, NEW v, Gives(Range(cut), a, v) PROVE a \in W /\ v = words[a]
  <2>1. PICK i \in 1 .. c : a \in PartSpan(cut[i]) /\ v = PartByte(cut[i], a)
    BY <1>10, <1>11 DEF Gives, Range
  <2>2. order[i] \in W /\ cut[i] = CutChunk(words, order[i], n)
    BY <1>7, <1>9
  <2>3. v = words[a] /\ a \in RunPart(W, order[i], n)
    BY <1>8, <2>1, <2>2
  <2>4. a \in W
    BY <2>3 DEF RunPart
  <2> QED
    BY <2>3, <2>4
<1>12. ASSUME NEW a \in W PROVE Gives(Range(cut), a, words[a])
  <2>1. PICK w \in S : a \in RunPart(W, w, n)
    BY StartFor DEF S
  <2>2. PICK i \in 1 .. c : w = order[i]
    BY <1>5, <1>7
  <2>3. cut[i] = CutChunk(words, w, n) /\ w \in W /\ cut[i] \in Range(cut)
    BY <1>7, <1>9, <1>10, <2>2 DEF Range
  <2> QED
    BY <1>8, <2>1, <2>3 DEF Gives
<1>13. \A a, v : Gives(Range(cut), a, v) <=> (a \in W /\ v = words[a])
  BY <1>11, <1>12
<1> QED
  BY <1>10, <1>13 DEF cut

Top == 16769024

\* The flash and the UICR end somewhere.
LEMMA FlashableIsBounded ==
  ASSUME NEW a \in Nat, Flashable(WordOf(a))
  PROVE  a \in 0 .. Top /\ Top \in Nat
<1> DEFINE w == WordOf(a)
<1>1. w \in Nat /\ a <= w + 3
  BY WordOfFacts
<1>2. Flashable(w)
  OBVIOUS
<1> HIDE DEF w
<1>3. a <= Top
  BY <1>1, <1>2, SMT DEF Flashable, Top
<1>4. Top \in Nat
  BY SMT DEF Top
<1> QED
  BY <1>3, <1>4

\* The words around a set of addresses are whole words.
LEMMA NearIsWhole ==
  ASSUME NEW S, S \subseteq Nat
  PROVE  WholeWords(Near(S)) /\ S \subseteq Near(S) /\ Near(S) \subseteq Nat
<1>1. ASSUME NEW a \in Near(S), NEW x \in WordOf(a) .. WordOf(a) + 3 PROVE x \in Near(S)
  <2>1. a \in Nat
    BY DEF Near
  <2>2. WordOf(a) \in Nat
    BY <2>1, WordOfFacts
  <2>3. x \in Nat
    BY <2>2
  <2>4. WordOf(x) = WordOf(a)
    BY <2>1, <2>3, WordOfFacts
  <2> QED
    BY <2>3, <2>4 DEF Near
<1>2. Near(S) \subseteq Nat /\ S \subseteq Near(S)
  BY DEF Near
<1> QED
  BY <1>1, <1>2 DEF WholeWords

\* The parts have the padded bytes of what the file means, which is not nothing.
PartsMean(file, parts) ==
    /\ parts \in Seq(Part) /\ DOMAIN Meaning(file) # {}
    /\ \A a, v : Gives(Range(parts), a, v) <=> (a \in Near(DOMAIN Meaning(file)) /\ v = Padded(file, a))
    /\ \A a \in Near(DOMAIN Meaning(file)) : Flashable(WordOf(a))

\* A file that is accepted has at least one part.
LEMMA PartsAreSome ==
  ASSUME NEW file \in Seq(HexRecord), NEW parts, PartsMean(file, parts)
  PROVE  parts \in Seq(Part) /\ parts # <<>>
<1>1. DOMAIN Meaning(file) # {} /\ DOMAIN Meaning(file) \subseteq Near(DOMAIN Meaning(file))
  BY MeaningFacts, NearIsWhole DEF PartsMean
<1>2. PICK a : a \in Near(DOMAIN Meaning(file))
  BY <1>1
<1>3. Gives(Range(parts), a, Padded(file, a))
  BY <1>2 DEF PartsMean
<1>4. parts # <<>>
  BY <1>3 DEF Gives, Range
<1> QED
  BY <1>4 DEF PartsMean

\* What the page programs is what the file says: the chunks of every file that parseHex accepts have
\* exactly the bytes of its meaning, the last record's where two overlap, padded with 255 to whole
\* words, and all of them are in the flash.
THEOREM PagePartsMean ==
  ASSUME NEW file \in Seq(HexRecord), PageParse(file).ok
  PROVE  PartsMean(file, PageParse(file).parts)
<1> DEFINE s == FoldLeft(WordRecord, Reading, file)
           words == s.words
           parts == Cut(words, ChunkWords)
<1>1. s.at = "ended" /\ DOMAIN words # {} /\ PageParse(file).parts = parts
  BY DEF PageParse, Rejected, Parsed
<1>2. s = WordState(file, Len(file))
  BY WordStateUnfolds
<1>3. WordsMean(file, words)
  BY <1>1, <1>2, WordMapIsTheMeaning
<1> DEFINE M == DOMAIN Meaning(file)
<1>4. M \subseteq Nat
  BY MeaningFacts
<1> HIDE DEF s, words, parts, M
<1>5. DOMAIN words = Near(M) /\ \A a \in Near(M) : Flashable(WordOf(a)) /\ words[a] = Padded(file, a)
  BY <1>3 DEF WordsMean, M
<1>6. WholeWords(DOMAIN words) /\ Near(M) \subseteq Nat
  BY <1>4, <1>5, NearIsWhole
<1>7. DOMAIN words \subseteq 0 .. Top
  BY <1>5, <1>6, FlashableIsBounded
<1>8. Top \in Nat
  BY SMT DEF Top
<1>9. \A a \in DOMAIN words : words[a] \in Bytes
  BY <1>5, PaddedIsAByte
<1>10. ChunkWords \in Nat /\ ChunkWords > 0
  BY ChunksAreSome
<1>11. /\ parts \in Seq(Part)
       /\ \A a, v : Gives(Range(parts), a, v) <=> (a \in DOMAIN words /\ v = words[a])
  BY <1>6, <1>7, <1>8, <1>9, <1>10, CutFacts DEF parts
<1>12. M # {}
  BY <1>1, <1>5 DEF Near
<1>13. \A a, v : Gives(Range(parts), a, v) <=> (a \in Near(M) /\ v = Padded(file, a))
  BY <1>5, <1>11
<1> QED
  BY <1>1, <1>5, <1>11, <1>12, <1>13 DEF PartsMean, M

\* The same of the npm application: every file its parser accepts is cut into chunks that have
\* exactly the padded bytes of its meaning.
THEOREM NpmPartsMean ==
  ASSUME NEW file \in Seq(HexRecord), NpmParse(file).ok
  PROVE  PartsMean(file, NpmParse(file).parts)
<1>1. NpmParse(file) = PageParse(file)
  BY DEF NpmParse, PageParse
<1> QED
  BY <1>1, PagePartsMean

(* ------------------------ the parts cut in slices ------------------------ *)

SlicesOf(parts, n) == [i \in DOMAIN parts |-> Slices(parts[i].address, parts[i].data, n)]

\* Slicing every part of a list keeps its bytes.
LEMMA SlicedFacts ==
  ASSUME NEW parts \in Seq(Part), NEW n \in Nat, n > 0
  PROVE  /\ FlattenSeq(SlicesOf(parts, n)) \in Seq(Part)
         /\ \A a, v : Gives(Range(FlattenSeq(SlicesOf(parts, n))), a, v) <=> Gives(Range(parts), a, v)
<1> DEFINE ss == SlicesOf(parts, n)
           flat == FlattenSeq(ss)
           L == Len(parts)
<1>1. L \in Nat /\ DOMAIN parts = 1 .. L /\ \A i \in 1 .. L : parts[i] \in Part
  OBVIOUS
<1>2. \A i \in 1 .. L : ss[i] = Slices(parts[i].address, parts[i].data, n)
  BY <1>1 DEF SlicesOf
<1>3. ss = [i \in 1 .. L |-> ss[i]]
  BY <1>1 DEF SlicesOf
<1> HIDE DEF ss, L, flat
<1>4. ASSUME NEW i \in 1 .. L
      PROVE  /\ ss[i] \in Seq(Part)
             /\ \A a, v : Gives(Range(ss[i]), a, v) <=>
                   (a \in PartSpan(parts[i]) /\ v = PartByte(parts[i], a))
  <2>1. parts[i].address \in Nat /\ parts[i].data \in Seq(Bytes)
    BY <1>1 DEF Part
  <2> DEFINE x == parts[i].address
             d == parts[i].data
  <2>2. ss[i] = Slices(x, d, n) /\ x \in Nat /\ d \in Seq(Bytes)
    BY <1>2, <2>1
  <2>3. PartSpan(parts[i]) = Span(x, d) /\ \A a : PartByte(parts[i], a) = d[a - x + 1]
    BY DEF PartSpan, PartByte
  <2> HIDE DEF x, d
  <2>4. /\ Slices(x, d, n) \in Seq(Part)
        /\ \A a, v : Gives(Range(Slices(x, d, n)), a, v) <=> (a \in Span(x, d) /\ v = d[a - x + 1])
    BY <2>2, SlicesFacts
  <2> QED
    BY <2>2, <2>3, <2>4
<1>5. ss \in Seq(Seq(Part)) /\ DOMAIN ss = 1 .. L
  <2> DEFINE Q == Seq(Part)
  <2>1. \A i \in 1 .. L : ss[i] \in Q
    BY <1>4
  <2> HIDE DEF Q
  <2>2. ss \in Seq(Q) /\ DOMAIN ss = 1 .. L
    BY <1>1, <1>3, <2>1, ListOf
  <2> QED
    BY <2>2 DEF Q
<1>6. flat \in Seq(Part) /\ Range(flat) = UNION {Range(ss[i]) : i \in 1 .. L}
  BY <1>5, FlattenSeqRange DEF flat
<1>7. \A a, v : Gives(Range(flat), a, v) <=> \E i \in 1 .. L : Gives(Range(ss[i]), a, v)
  BY <1>6 DEF Gives
<1>8. Range(parts) = {parts[i] : i \in 1 .. L}
  BY <1>1 DEF Range
<1>9. \A a, v : Gives(Range(parts), a, v) <=> \E i \in 1 .. L : a \in PartSpan(parts[i]) /\ v = PartByte(parts[i], a)
  BY <1>8 DEF Gives
<1>10. \A a, v : Gives(Range(flat), a, v) <=> Gives(Range(parts), a, v)
  <2> SUFFICES ASSUME NEW a, NEW v PROVE Gives(Range(flat), a, v) <=> Gives(Range(parts), a, v)
    OBVIOUS
  <2>1. \A i \in 1 .. L : Gives(Range(ss[i]), a, v) <=> (a \in PartSpan(parts[i]) /\ v = PartByte(parts[i], a))
    BY <1>4
  <2>2. (\E i \in 1 .. L : Gives(Range(ss[i]), a, v))
           <=> (\E i \in 1 .. L : a \in PartSpan(parts[i]) /\ v = PartByte(parts[i], a))
    BY <2>1
  <2>3. Gives(Range(flat), a, v) <=> \E i \in 1 .. L : Gives(Range(ss[i]), a, v)
    BY <1>7
  <2>4. Gives(Range(parts), a, v) <=> \E i \in 1 .. L : a \in PartSpan(parts[i]) /\ v = PartByte(parts[i], a)
    BY <1>9
  <2> QED
    BY <2>2, <2>3, <2>4
<1> QED
  BY <1>6, <1>10 DEF flat, ss

\* The stub's blocks have the bytes of the chunks.
LEMMA NpmBlocksMean ==
  ASSUME NEW file \in Seq(HexRecord), NEW chunks, PartsMean(file, chunks)
  PROVE  PartsMean(file, NpmBlocks(chunks, BlockWords))
<1> DEFINE blocks == NpmBlocks(chunks, BlockWords)
<1>1. blocks = FlattenSeq(SlicesOf(chunks, 4 * BlockWords))
  BY DEF NpmBlocks, SlicesOf, Slices
<1>2. 4 * BlockWords \in Nat /\ 4 * BlockWords > 0
  BY ChunksAreSome
<1>3. chunks \in Seq(Part)
  BY DEF PartsMean
<1> DEFINE n == 4 * BlockWords
<1> HIDE DEF blocks, n
<1>4. /\ blocks \in Seq(Part)
      /\ \A a, v : Gives(Range(blocks), a, v) <=> Gives(Range(chunks), a, v)
  BY <1>1, <1>2, <1>3, SlicedFacts DEF n
<1> QED
  BY <1>4 DEF PartsMean, blocks

(* ----------------------- what the direct writers write ------------------- *)

BodyGives(file, a, v) ==
    \E j \in DOMAIN Body(file) : a \in RecordSpan(Body(file), j) /\ v = ByteOf(Body(file), j, a)

\* The pieces have the bytes of the file's records, and no other.
PiecesMean(file, pieces) ==
    \A a, v : Gives(Range(pieces), a, v) <=> BodyGives(file, a, v)

\* Each byte of a file is one of a record; where no two records contradict each other every record has the meaning.
LEMMA BodyMeaning ==
  ASSUME NEW file \in Seq(HexRecord)
  PROVE  /\ \A a, v : BodyGives(file, a, v) => a \in DOMAIN Meaning(file)
         /\ \A a \in DOMAIN Meaning(file) : BodyGives(file, a, Meaning(file)[a])
         /\ ~Contradicts(file) => \A a, v : BodyGives(file, a, v) => v = Meaning(file)[a]
<1>1. \A a, v : BodyGives(file, a, v) => a \in DOMAIN Meaning(file)
  BY MeaningFacts DEF BodyGives
<1>2. \A a \in DOMAIN Meaning(file) : BodyGives(file, a, Meaning(file)[a])
  BY MeaningFacts DEF BodyGives
<1>3. ASSUME ~Contradicts(file), NEW a, NEW v, BodyGives(file, a, v) PROVE v = Meaning(file)[a]
  BY <1>3 DEF BodyGives, Contradicts, ByteOf
<1> QED
  BY <1>1, <1>2, <1>3

\* The segments of a file that ends have the bytes of its records.
LEMMA SegmentsMean ==
  ASSUME NEW file \in Seq(HexRecord), SegmentState(file, Len(file)).at = "ended"
  PROVE  /\ SegmentState(file, Len(file)).segments \in Seq(Part)
         /\ PiecesMean(file, SegmentState(file, Len(file)).segments)
<1> DEFINE s == SegmentState(file, Len(file))
<1>1. PICK e \in 1 .. Len(file) : file[e].type = "eof" /\ SegmentsRight(file, e - 1, s)
  BY SegmentStatesRight DEF SegmentGood
<1> HIDE DEF s
<1>2. \A j \in 1 .. e - 1 : file[j].type # "eof"
  <2>1. \A j \in 1 .. e - 1 : file[j].type \in Read
    BY <1>1, SMT DEF SegmentsRight
  <2> QED
    BY <2>1 DEF Read
<1> DEFINE b == Body(file)
<1>3. /\ DOMAIN b = 1 .. e - 1
      /\ \A j \in 1 .. e - 1 :
            /\ RecordSpan(b, j) = RecordSpan(file, j)
            /\ \A a \in RecordSpan(file, j) : ByteOf(b, j, a) = ByteOf(file, j, a)
  BY <1>1, <1>2, BodyBeforeEof
<1> HIDE DEF b
<1>4. \A a, v : RecordGives(file, e - 1, a, v) <=> \E j \in DOMAIN b : a \in RecordSpan(b, j) /\ v = ByteOf(b, j, a)
  BY <1>3 DEF RecordGives
<1>5. \A a, v : Gives(Range(s.segments), a, v) <=> BodyGives(file, a, v)
  BY <1>1, <1>4 DEF SegmentsRight, BodyGives, b
<1>6. s.segments \in Seq(Part)
  BY <1>1 DEF SegmentsRight
<1> QED
  BY <1>5, <1>6 DEF PiecesMean, s

\* The segments the console tool makes of every file it accepts have each byte of each record of
\* the body, and no byte that no record has: none is lost, moved or made up.
THEOREM CliSegmentsMean ==
  ASSUME NEW file \in Seq(HexRecord), CliParse(file).ok
  PROVE  CliParse(file).parts \in Seq(Part) /\ PiecesMean(file, CliParse(file).parts)
<1> DEFINE s == FoldLeft(SegmentRecord, NoSegments, file)
<1>1. s = SegmentState(file, Len(file))
  BY SegmentStateUnfolds
<1>2. CliParse(file) = IF s.at = "ended" THEN Parsed(s.segments) ELSE Rejected
  BY Zenon DEF CliParse, NoSegments
<1> HIDE DEF s
<1>3. s.at = "ended" /\ CliParse(file).parts = s.segments
  BY <1>2 DEF Parsed, Rejected
<1> QED
  BY <1>1, <1>3, SegmentsMean

\* The same of the segments the flashing dialog makes of every file it accepts.
THEOREM ConsoleSegmentsMean ==
  ASSUME NEW file \in Seq(HexRecord), ConsoleParse(file).ok
  PROVE  ConsoleParse(file).parts \in Seq(Part) /\ PiecesMean(file, ConsoleParse(file).parts)
<1>1. ConsoleParse(file) = CliParse(file)
  BY Zenon DEF ConsoleParse, CliParse
<1> QED
  BY <1>1, CliSegmentsMean

\* The rows the console tool programs have the bytes of the records of the file.
LEMMA CliPiecesMean ==
  ASSUME NEW f \in HexFiles, CliImage[f].ok
  PROVE  CliPieces[f] \in Seq(Part) /\ PiecesMean(f, CliPieces[f])
<1> DEFINE segments == CliImage[f].parts
           pieces == CliPieces[f]
<1>1. f \in Seq(HexRecord) /\ CliImage[f] = CliParse(f)
  BY FilesAreRecords DEF HexFiles, CliImage
<1>2. segments \in Seq(Part) /\ PiecesMean(f, segments)
  BY <1>1, CliSegmentsMean
<1>3. pieces = FlattenSeq(SlicesOf(segments, WriteChunk))
  BY DEF CliPieces, Pieces, SlicesOf, Slices
<1>4. WriteChunk \in Nat /\ WriteChunk > 0
  BY ChunksAreSome
<1> HIDE DEF segments, pieces
<1>5. /\ pieces \in Seq(Part)
      /\ \A a, v : Gives(Range(pieces), a, v) <=> Gives(Range(segments), a, v)
  BY <1>2, <1>3, <1>4, SlicedFacts
<1> QED
  BY <1>2, <1>5 DEF PiecesMean, pieces

CPart == [address : Nat, data : Seq(Bytes), segment : Nat, again : BOOLEAN]
MarkedSlices(parts) ==
    [i \in DOMAIN parts |-> [k \in DOMAIN Pieces(parts[i]) |-> Marked(Pieces(parts[i])[k], i, FALSE)]]

\* The marks on a piece change nothing of its bytes.
LEMMA MarkedFacts ==
  ASSUME NEW p, NEW s, NEW g
  PROVE  /\ PartSpan(Marked(p, s, g)) = PartSpan(p)
         /\ \A a : PartByte(Marked(p, s, g), a) = PartByte(p, a)
         /\ p \in Part \cup CPart /\ s \in Nat /\ g \in BOOLEAN => Marked(p, s, g) \in CPart
         /\ Marked(p, s, g).segment = s /\ Marked(p, s, g).again = g
         /\ Marked(p, s, g).address = p.address /\ Marked(p, s, g).data = p.data
<1> DEFINE m == Marked(p, s, g)
<1>1. m.address = p.address /\ m.data = p.data /\ m.segment = s /\ m.again = g
  BY DEF Marked
<1>2. p \in Part \cup CPart => p.address \in Nat /\ p.data \in Seq(Bytes)
  BY DEF Part, CPart
<1>3. p \in Part \cup CPart /\ s \in Nat /\ g \in BOOLEAN => m \in CPart
  BY <1>2 DEF CPart, Marked
<1> HIDE DEF m
<1>4. PartSpan(m) = PartSpan(p) /\ \A a : PartByte(m, a) = PartByte(p, a)
  BY <1>1 DEF PartSpan, PartByte
<1> QED
  BY <1>1, <1>3, <1>4 DEF m

\* The pages the dialog programs have the bytes of the records of the file.
LEMMA ConsolePiecesMean ==
  ASSUME NEW f \in HexFiles, ConsoleImage[f].ok
  PROVE  ConsolePieces[f] \in Seq(CPart) /\ PiecesMean(f, ConsolePieces[f])
<1> DEFINE segments == ConsoleImage[f].parts
           pieces == ConsolePieces[f]
           plain == FlattenSeq(SlicesOf(segments, WriteChunk))
           ss == MarkedSlices(segments)
           tt == SlicesOf(segments, WriteChunk)
           L == Len(segments)
<1>1. f \in Seq(HexRecord) /\ ConsoleImage[f] = ConsoleParse(f)
  BY FilesAreRecords DEF HexFiles, ConsoleImage
<1>2. segments \in Seq(Part) /\ PiecesMean(f, segments)
  BY <1>1, ConsoleSegmentsMean
<1>3. pieces = FlattenSeq(ss)
  BY DEF ConsolePieces, MarkedSlices
<1>4. WriteChunk \in Nat /\ WriteChunk > 0
  BY ChunksAreSome
<1>5. L \in Nat /\ DOMAIN segments = 1 .. L /\ \A i \in 1 .. L : segments[i] \in Part
  BY <1>2
<1>6. \A i \in 1 .. L : Pieces(segments[i]) = Slices(segments[i].address, segments[i].data, WriteChunk)
  BY DEF Pieces, Slices
<1>7. \A i \in 1 .. L : ss[i] = [k \in DOMAIN Pieces(segments[i]) |-> Marked(Pieces(segments[i])[k], i, FALSE)]
  BY <1>5 DEF MarkedSlices
<1>8. ss = [i \in 1 .. L |-> ss[i]]
  BY <1>5 DEF MarkedSlices
<1> HIDE DEF segments, pieces, ss, L
<1>9. ASSUME NEW i \in 1 .. L
      PROVE  /\ ss[i] \in Seq(CPart)
             /\ \A a, v : Gives(Range(ss[i]), a, v) <=>
                   (a \in PartSpan(segments[i]) /\ v = PartByte(segments[i], a))
  <2> DEFINE x == segments[i].address
             d == segments[i].data
             p == Pieces(segments[i])
  <2>1. x \in Nat /\ d \in Seq(Bytes)
    BY <1>5 DEF Part
  <2>2. PartSpan(segments[i]) = Span(x, d) /\ \A a : PartByte(segments[i], a) = d[a - x + 1]
    BY DEF PartSpan, PartByte
  <2>3. p = Slices(x, d, WriteChunk)
    BY <1>6
  <2>4. ss[i] = [k \in DOMAIN p |-> Marked(p[k], i, FALSE)]
    BY <1>7
  <2> HIDE DEF x, d, p
  <2>5. p \in Seq(Part) /\ \A a, v : Gives(Range(p), a, v) <=> (a \in Span(x, d) /\ v = d[a - x + 1])
    BY <1>4, <2>1, <2>3, SlicesFacts
  <2>6. Len(p) \in Nat /\ DOMAIN p = 1 .. Len(p) /\ \A k \in 1 .. Len(p) : p[k] \in Part
    BY <2>5
  <2>7. DOMAIN ss[i] = DOMAIN p /\ \A k \in DOMAIN p : ss[i][k] = Marked(p[k], i, FALSE)
    BY <2>4
  <2>8. \A k \in DOMAIN p : /\ ss[i][k] \in CPart
                            /\ PartSpan(ss[i][k]) = PartSpan(p[k])
                            /\ \A a : PartByte(ss[i][k], a) = PartByte(p[k], a)
    <3> TAKE k \in DOMAIN p
    <3>1. i \in Nat /\ p[k] \in Part \cup CPart
      BY <1>5, <2>6
    <3> DEFINE q == p[k]
               no == FALSE
    <3>2. q \in Part \cup CPart /\ ss[i][k] = Marked(q, i, no) /\ no \in BOOLEAN
      BY <2>7, <3>1
    <3> HIDE DEF q, no
    <3>3. Marked(q, i, no) \in CPart
      BY <3>1, <3>2, MarkedFacts
    <3>4. PartSpan(Marked(q, i, no)) = PartSpan(q) /\ \A a : PartByte(Marked(q, i, no), a) = PartByte(q, a)
      BY MarkedFacts
    <3> QED
      BY <3>2, <3>3, <3>4 DEF q
  <2>9. ss[i] \in Seq(CPart)
    <3>1. ss[i] = [k \in 1 .. Len(p) |-> ss[i][k]]
      BY <2>4, <2>6
    <3> QED
      BY <2>6, <2>8, <3>1, ListOf
  <2>10. \A a, v : Gives(Range(ss[i]), a, v) <=> Gives(Range(p), a, v)
    BY <2>7, <2>8 DEF Gives, Range
  <2> QED
    BY <2>2, <2>5, <2>9, <2>10
<1>10. ss \in Seq(Seq(CPart)) /\ DOMAIN ss = 1 .. L
  <2> DEFINE Q == Seq(CPart)
  <2>1. \A i \in 1 .. L : ss[i] \in Q
    BY <1>9
  <2> HIDE DEF Q
  <2>2. ss \in Seq(Q) /\ DOMAIN ss = 1 .. L
    BY <1>5, <1>8, <2>1, ListOf
  <2> QED
    BY <2>2 DEF Q
<1>11. pieces \in Seq(CPart) /\ Range(pieces) = UNION {Range(ss[i]) : i \in 1 .. L}
  BY <1>3, <1>10, FlattenSeqRange
<1>12. \A a, v : Gives(Range(pieces), a, v) <=> \E i \in 1 .. L : Gives(Range(ss[i]), a, v)
  BY <1>11 DEF Gives
<1>13. \A a, v : Gives(Range(segments), a, v) <=>
          \E i \in 1 .. L : a \in PartSpan(segments[i]) /\ v = PartByte(segments[i], a)
  <2>1. Range(segments) = {segments[i] : i \in 1 .. L}
    BY <1>5 DEF Range
  <2> QED
    BY <2>1 DEF Gives
<1>14. \A a, v : Gives(Range(pieces), a, v) <=> Gives(Range(segments), a, v)
  <2> SUFFICES ASSUME NEW a, NEW v PROVE Gives(Range(pieces), a, v) <=> Gives(Range(segments), a, v)
    OBVIOUS
  <2>1. \A i \in 1 .. L : Gives(Range(ss[i]), a, v) <=> (a \in PartSpan(segments[i]) /\ v = PartByte(segments[i], a))
    BY <1>9
  <2>2. (\E i \in 1 .. L : Gives(Range(ss[i]), a, v))
           <=> (\E i \in 1 .. L : a \in PartSpan(segments[i]) /\ v = PartByte(segments[i], a))
    BY <2>1
  <2>3. Gives(Range(pieces), a, v) <=> \E i \in 1 .. L : Gives(Range(ss[i]), a, v)
    BY <1>12
  <2>4. Gives(Range(segments), a, v) <=>
           \E i \in 1 .. L : a \in PartSpan(segments[i]) /\ v = PartByte(segments[i], a)
    BY <1>13
  <2> QED
    BY <2>2, <2>3, <2>4
<1> QED
  BY <1>2, <1>11, <1>14 DEF PiecesMean, pieces

(* ------------------------- the memory of the chip ------------------------ *)

Memory == [DOMAIN Factory -> Bytes]

\* new is mem with the bytes of the part in it.
WrittenOver(mem, part, new) ==
    /\ new \in Memory
    /\ \A a \in DOMAIN Factory : new[a] = IF a \in PartSpan(part) THEN PartByte(part, a) ELSE mem[a]
\* Each byte of new is mem's or the part's.
PartlyWritten(mem, part, new) ==
    /\ new \in Memory
    /\ \A a \in DOMAIN Factory :
          new[a] = mem[a] \/ (a \in PartSpan(part) /\ new[a] = PartByte(part, a))

\* The memory is whole words, by assumption.
LEMMA FactoryIsWhole == WholeWords(DOMAIN Factory) /\ DOMAIN Factory \subseteq Nat /\ Factory \in Memory
BY MemoryIsWords DEF WholeWords, Memory

\* An erased chip has 255 everywhere.
LEMMA BlankIsAMemory == Blank \in Memory /\ \A a \in DOMAIN Factory : Blank[a] = 255
<1>1. 255 \in Bytes
  BY SMT DEF Bytes
<1> QED
  BY <1>1, SMT DEF Blank, Memory

\* The addresses of a part, and its bytes.
LEMMA SpanIsNat ==
  ASSUME NEW p, p.address \in Nat, p.data \in Seq(Bytes)
  PROVE  /\ PartSpan(p) \subseteq Nat
         /\ \A a \in PartSpan(p) : a - p.address + 1 \in 1 .. Len(p.data) /\ PartByte(p, a) \in Bytes
<1> DEFINE d == p.data
           x == p.address
<1>1. x \in Nat /\ d \in Seq(Bytes) /\ Len(d) \in Nat
  OBVIOUS
<1>2. PartSpan(p) = x .. x + Len(d) - 1 /\ \A a : PartByte(p, a) = d[a - x + 1]
  BY DEF PartSpan, Span, PartByte
<1> HIDE DEF d, x
<1>3. \A a \in x .. x + Len(d) - 1 : a \in Nat /\ a - x + 1 \in 1 .. Len(d)
  BY <1>1
<1>4. \A k \in 1 .. Len(d) : d[k] \in Bytes
  BY <1>1
<1>5. PartSpan(p) \subseteq Nat /\ \A a \in PartSpan(p) : a - x + 1 \in 1 .. Len(d) /\ PartByte(p, a) \in Bytes
  BY <1>2, <1>3, <1>4
<1> QED
  BY <1>5 DEF d, x

\* Words read, patched and written back, one after the other, put exactly the bytes of the part.
LEMMA WriteFacts ==
  ASSUME NEW mem \in Memory, NEW p, p.address \in Nat, p.data \in Seq(Bytes)
  PROVE  WrittenOver(mem, p, WriteBytes(mem, p.address, p.data))
<1> DEFINE D == DOMAIN Factory
           span == Span(p.address, p.data)
           words == {WordOf(a) : a \in span}
           new == WriteBytes(mem, p.address, p.data)
           byte(a) == p.data[a - p.address + 1]
<1>1. D \subseteq Nat /\ DOMAIN mem = D /\ \A a \in D : mem[a] \in Bytes
  BY FactoryIsWhole DEF Memory
<1>2. span = PartSpan(p) /\ \A a : byte(a) = PartByte(p, a)
  BY DEF PartSpan, PartByte
<1>3. \A a \in span : a \in Nat /\ byte(a) \in Bytes
  BY <1>2, SpanIsNat
<1>4. /\ DOMAIN new = D
      /\ new = [a \in D |-> new[a]]
      /\ \A a \in D : new[a] = IF WordOf(a) \in words THEN PatchWord(mem, WordOf(a), p.address, p.data)[a]
                               ELSE mem[a]
  BY <1>1 DEF WriteBytes
<1> HIDE DEF span, words, new, byte, D
<1>5. ASSUME NEW a \in D PROVE new[a] = IF a \in span THEN byte(a) ELSE mem[a]
  <2> DEFINE w == WordOf(a)
             k == a - w
  <2>1. a \in Nat /\ w \in Nat /\ a \in w .. w + 3
    BY <1>1, WordOfFacts
  <2>2. k \in 0 .. 3 /\ w + k = a
    BY <2>1
  <2>3. CASE w \in words
    <3>1. new[a] = PatchWord(mem, w, p.address, p.data)[a]
      BY <1>4, <2>3
    <3> DEFINE word == [j \in 0 .. 3 |-> IF w + j \in Span(p.address, p.data)
                                         THEN p.data[w + j - p.address + 1] ELSE mem[w + j]]
    <3> HIDE DEF w, k
    <3>2. PatchWord(mem, w, p.address, p.data)[a] = word[a - w]
      BY <1>1, <2>1 DEF PatchWord
    <3>3. word[k] = IF w + k \in Span(p.address, p.data) THEN p.data[w + k - p.address + 1] ELSE mem[w + k]
      BY <2>2
    <3>5. w + k - p.address + 1 = a - p.address + 1
      <4> DEFINE x == p.address
      <4>1. x \in Nat /\ w \in Nat /\ k \in Nat /\ a \in Nat
        BY <2>1, <2>2
      <4> HIDE DEF x
      <4>2. w + k - x + 1 = a - x + 1
        BY <2>2, <4>1
      <4> QED
        BY <4>2 DEF x
    <3>4. word[k] = IF a \in span THEN byte(a) ELSE mem[a]
      BY <2>2, <3>3, <3>5 DEF span, byte
    <3> QED
      BY <3>1, <3>2, <3>4 DEF k
  <2>4. CASE w \notin words
    <3>1. a \notin span
      BY <2>4 DEF words
    <3> QED
      BY <1>4, <2>4, <3>1
  <2> QED
    BY <2>3, <2>4
<1>6. \A a \in D : new[a] \in Bytes
  BY <1>1, <1>3, <1>5
<1>7. new \in [D -> Bytes]
  BY <1>4, <1>6
<1> QED
  BY <1>2, <1>5, <1>7 DEF WrittenOver, Memory, D, new

\* The words of a part that were written before the write threw.
LEMMA QuartersFit ==
  ASSUME NEW len \in Nat, NEW n \in 0 .. len \div 4
  PROVE  4 * n \in Nat /\ 4 * n <= len
BY SMT

\* The part whose first bytes a write has done before it throws.
LEMMA ShorterIsPartly ==
  ASSUME NEW mem \in Memory, NEW p, p.address \in Nat, p.data \in Seq(Bytes),
         NEW n \in 0 .. Len(p.data) \div 4, NEW q, q.address = p.address, q.data = SubSeq(p.data, 1, 4 * n)
  PROVE  PartlyWritten(mem, p, WriteBytes(mem, q.address, q.data))
<1> DEFINE d == p.data
           x == p.address
           m == 4 * n
           new == WriteBytes(mem, q.address, q.data)
<1>1. Len(d) \in Nat /\ d \in Seq(Bytes) /\ x \in Nat
  OBVIOUS
<1>2. m \in Nat /\ m <= Len(d)
  <2> DEFINE len == Len(d)
  <2>1. len \in Nat /\ n \in 0 .. len \div 4
    BY <1>1
  <2> HIDE DEF len
  <2>2. 4 * n \in Nat /\ 4 * n <= len
    BY <2>1, QuartersFit
  <2> QED
    BY <2>2 DEF len
<1> HIDE DEF m, new
<1>3. q.data = SubSeq(d, 1, m) /\ q.address = x
  BY DEF m
<1>4. /\ q.data \in Seq(Bytes) /\ Len(q.data) = m /\ \A i \in 1 .. m : q.data[i] = d[i]
  BY <1>1, <1>2, <1>3
<1>5. PartSpan(q) = x .. x + m - 1 /\ PartSpan(p) = x .. x + Len(d) - 1
  BY <1>3, <1>4 DEF PartSpan, Span
<1>6. \A a \in PartSpan(q) : a \in PartSpan(p) /\ PartByte(q, a) = PartByte(p, a)
  <2> SUFFICES ASSUME NEW a \in x .. x + m - 1
               PROVE  a \in x .. x + Len(d) - 1 /\ PartByte(q, a) = PartByte(p, a)
    BY <1>5
  <2> HIDE DEF x, d
  <2>1. a - x + 1 \in 1 .. m /\ a \in x .. x + Len(d) - 1
    BY <1>1, <1>2
  <2>2. q.data[a - x + 1] = d[a - x + 1]
    BY <1>4, <2>1
  <2> QED
    BY <1>3, <2>1, <2>2 DEF PartByte, x, d
<1>7. WrittenOver(mem, q, new)
  <2>1. q.address \in Nat /\ q.data \in Seq(Bytes)
    BY <1>1, <1>3, <1>4
  <2> QED
    BY <2>1, WriteFacts DEF new
<1> QED
  BY <1>6, <1>7 DEF PartlyWritten, WrittenOver, new

\* Whether the chip has the memory of a part.
LEMMA PresentFacts ==
  ASSUME NEW mem \in Memory, NEW p, p.address \in Nat, p.data \in Seq(Bytes)
  PROVE  Present(mem, p) <=> PartSpan(p) \subseteq DOMAIN Factory
<1>1. DOMAIN mem = DOMAIN Factory /\ PartSpan(p) = Span(p.address, p.data) /\ PartSpan(p) \subseteq Nat
  BY SpanIsNat DEF Memory, PartSpan
<1>2. ASSUME Present(mem, p) PROVE PartSpan(p) \subseteq DOMAIN Factory
  <2> SUFFICES ASSUME NEW a \in PartSpan(p) PROVE a \in DOMAIN Factory
    OBVIOUS
  <2>1. a \in Nat /\ WordOf(a) .. WordOf(a) + 3 \subseteq DOMAIN Factory
    BY <1>1, <1>2 DEF Present
  <2>2. a \in WordOf(a) .. WordOf(a) + 3
    BY <2>1, WordOfFacts
  <2> QED
    BY <2>1, <2>2
<1>3. ASSUME PartSpan(p) \subseteq DOMAIN Factory PROVE Present(mem, p)
  BY <1>1, <1>3, FactoryIsWhole DEF Present, WholeWords
<1> QED
  BY <1>2, <1>3

\* A readback compares byte for byte.
LEMMA HoldsFacts ==
  ASSUME NEW c, c.mem \in Memory, NEW p, p.address \in Nat, p.data \in Seq(Bytes)
  PROVE  Holds(c, p) <=> /\ PartSpan(p) \subseteq DOMAIN Factory
                         /\ \A a \in PartSpan(p) : c.mem[a] = PartByte(p, a)
<1> DEFINE d == p.data
           x == p.address
           n == Len(d)
           r == ReadBytes(c.mem, x, n)
<1>1. Present(c.mem, p) <=> PartSpan(p) \subseteq DOMAIN Factory
  BY PresentFacts
<1>2. d \in Seq(Bytes) /\ n \in Nat /\ x \in Nat /\ DOMAIN d = 1 .. n
  OBVIOUS
<1>3. DOMAIN r = 1 .. n /\ r = [i \in 1 .. n |-> r[i]] /\ \A i \in 1 .. n : r[i] = c.mem[x + i - 1]
  BY DEF ReadBytes
<1>4. d = [i \in 1 .. n |-> d[i]]
  BY <1>2
<1>5. PartSpan(p) = x .. x + n - 1 /\ \A a : PartByte(p, a) = d[a - x + 1]
  BY DEF PartSpan, Span, PartByte
<1>10. Holds(c, p) <=> Present(c.mem, p) /\ r = d
  BY DEF Holds
<1> HIDE DEF d, x, n, r
<1>6. (r = d) <=> \A i \in 1 .. n : c.mem[x + i - 1] = d[i]
  BY <1>3, <1>4
<1>7. ASSUME \A i \in 1 .. n : c.mem[x + i - 1] = d[i], NEW a \in x .. x + n - 1
      PROVE  c.mem[a] = d[a - x + 1]
  <2>1. a - x + 1 \in 1 .. n /\ x + (a - x + 1) - 1 = a
    BY <1>2
  <2> QED
    BY <1>7, <2>1
<1>8. ASSUME \A a \in x .. x + n - 1 : c.mem[a] = d[a - x + 1], NEW i \in 1 .. n
      PROVE  c.mem[x + i - 1] = d[i]
  <2>1. x + i - 1 \in x .. x + n - 1 /\ (x + i - 1) - x + 1 = i
    BY <1>2
  <2> QED
    BY <1>8, <2>1
<1>9. (r = d) <=> \A a \in PartSpan(p) : c.mem[a] = PartByte(p, a)
  BY <1>5, <1>6, <1>7, <1>8
<1> QED
  BY <1>1, <1>9, <1>10

(* ------------------- where a repeated segment begins again --------------- *)

\* left is the pieces from number j on, but for the mark of a repetition.
SameBytes(p, q) == p.address = q.address /\ p.data = q.data
Rest(left, pieces, j) ==
    /\ left \in Seq(CPart) /\ left # <<>> /\ j \in 1 .. Len(pieces)
    /\ Len(left) = Len(pieces) - j + 1
    /\ \A i \in 1 .. Len(left) : SameBytes(left[i], pieces[j + i - 1]) /\ left[i].segment = pieces[j + i - 1].segment

\* A verification that fails in a segment programs the pieces from the first of that segment on again.
LEMMA FromFacts ==
  ASSUME NEW file, NEW left, NEW j, ConsolePieces[file] \in Seq(CPart), Rest(left, ConsolePieces[file], j)
  PROVE  \E k \in 1 .. j : Rest(From(Head(left).segment, file), ConsolePieces[file], k)
<1> DEFINE pieces == ConsolePieces[file]
           s == Head(left).segment
           S == {i \in DOMAIN pieces : pieces[i].segment = s}
           first == Min(S)
           again == From(s, file)
           n == Len(pieces)
           Repeated(piece) == Marked(piece, piece.segment, piece.segment = s)
<1>1. n \in Nat /\ DOMAIN pieces = 1 .. n /\ \A i \in 1 .. n : pieces[i] \in CPart
  OBVIOUS
<1>2. j \in 1 .. n /\ Len(left) >= 1 /\ Head(left) = left[1]
  BY DEF Rest
<1>3. j \in S
  <2>1. left[1].segment = pieces[j + 1 - 1].segment
    BY <1>2 DEF Rest
  <2>2. j + 1 - 1 = j
    BY <1>1, <1>2
  <2> QED
    BY <1>1, <1>2, <2>1, <2>2
<1>4. again = [i \in 1 .. n - first + 1 |-> Repeated(pieces[first + i - 1])]
  BY DEF From
<1> HIDE DEF pieces, s, again, n
<1>5. S \subseteq Nat /\ S # {}
  BY <1>1, <1>3
<1>6. first \in S /\ first <= j
  BY <1>3, <1>5, MinIsLeast
<1> HIDE DEF first
<1>7. first \in 1 .. n /\ first \in 1 .. j /\ n - first + 1 \in Nat /\ n - first + 1 >= 1
  BY <1>1, <1>2, <1>6
<1> DEFINE m == n - first + 1
<1> HIDE DEF m, S
<1>8. DOMAIN again = 1 .. m /\ again = [i \in 1 .. m |-> again[i]]
      /\ \A i \in 1 .. m : again[i] = Repeated(pieces[first + i - 1])
  BY <1>4 DEF m
<1>9. ASSUME NEW i \in 1 .. m
      PROVE  /\ again[i] \in CPart /\ SameBytes(again[i], pieces[first + i - 1])
             /\ again[i].segment = pieces[first + i - 1].segment
  <2> DEFINE q == pieces[first + i - 1]
             g == (q.segment = s)
  <2>1. first + i - 1 \in 1 .. n
    BY <1>1, <1>7 DEF m
  <2>2. q \in CPart /\ again[i] = Marked(q, q.segment, g) /\ g \in BOOLEAN /\ q.segment \in Nat
    BY <1>1, <1>8, <2>1 DEF CPart
  <2> HIDE DEF q, g
  <2>3. Marked(q, q.segment, g) \in CPart
    BY <2>2, MarkedFacts
  <2>4. /\ Marked(q, q.segment, g).segment = q.segment
        /\ Marked(q, q.segment, g).address = q.address /\ Marked(q, q.segment, g).data = q.data
    BY DEF Marked
  <2> QED
    BY <2>2, <2>3, <2>4 DEF SameBytes, q
<1>10. again \in Seq(CPart) /\ Len(again) = m
  BY <1>7, <1>8, <1>9, ListOf DEF m
<1>11. again # <<>>
  BY <1>7, <1>10 DEF m
<1>12. Rest(again, pieces, first)
  BY <1>7, <1>9, <1>10, <1>11 DEF Rest, m, n
<1> QED
  BY <1>7, <1>12 DEF again, pieces, s

(* ------------------- the jobs of the tools and their progress ------------ *)

Parts == Seq(Part) \cup Seq(CPart)

\* The whole words the page and the npm tool write.
Want(file) == [a \in Near(DOMAIN Meaning(file)) |-> Padded(file, a)]

\* The writers of whole words know every byte; the direct writers, if the file has one for each address.
Sure == TRUE
Steady(file) == ~Contradicts(file)

\* Part p lies where want has bytes, and has them unless want is not sure.
Fits(want, sure, p) ==
    /\ p.address \in Nat /\ p.data \in Seq(Bytes)
    /\ PartSpan(p) \subseteq DOMAIN want
    /\ sure => \A a \in PartSpan(p) : PartByte(p, a) = want[a]
Todo(want, sure, left) ==
    left \in Parts /\ left # <<>> /\ \A p \in Range(left) : Fits(want, sure, p)

\* What want does not name is as it was.
Clean(want, base, mem) == \A a \in DOMAIN Factory : a \notin DOMAIN want => mem[a] = base[a]
\* What want names is there, but for what the parts left will bring, or will find.
Right(want, mem, left) ==
    \A a \in DOMAIN want : \/ a \in DOMAIN Factory /\ mem[a] = want[a]
                           \/ Gives(Range(left), a, want[a])

Wrote(want, base, sure, left, mem, f) ==
    Clean(want, base, mem) /\ (f = 0 /\ sure => Right(want, mem, left))
Writing(want, base, sure, left, mem, f) ==
    Todo(want, sure, left) /\ Wrote(want, base, sure, left, mem, f)
Verifying(want, base, sure, left, mem, f) ==
    Todo(want, sure, left) /\ Right(want, mem, left) /\ Wrote(want, base, sure, <<>>, mem, f)
Flashed(want, base, mem) == Clean(want, base, mem) /\ Right(want, mem, <<>>)

\* A list is its first member and the rest.
LEMMA HeadAndTail ==
  ASSUME NEW S, NEW left \in Seq(S), left # <<>>
  PROVE  /\ Head(left) \in S /\ Tail(left) \in Seq(S)
         /\ Len(left) > 1 <=> Tail(left) # <<>>
         /\ Range(left) = {Head(left)} \cup Range(Tail(left))
         /\ Head(left) = left[1] /\ Len(Tail(left)) = Len(left) - 1 /\ Len(left) \in Nat /\ Len(left) > 0
         /\ \A i \in 1 .. Len(left) - 1 : Tail(left)[i] = left[i + 1]
<1>1. /\ Head(left) \in S /\ Tail(left) \in Seq(S)
      /\ Head(left) = left[1] /\ Len(Tail(left)) = Len(left) - 1 /\ Len(left) \in Nat /\ Len(left) > 0
      /\ \A i \in 1 .. Len(left) - 1 : Tail(left)[i] = left[i + 1]
      /\ DOMAIN left = 1 .. Len(left) /\ DOMAIN Tail(left) = 1 .. Len(left) - 1
  OBVIOUS
<1> DEFINE t == Tail(left)
           n == Len(left)
<1>2. t # <<>> <=> n > 1
  <2>1. \A s \in Seq(S) : s # <<>> <=> Len(s) > 0
    OBVIOUS
  <2>2. t # <<>> <=> Len(t) > 0
    BY <1>1, <2>1
  <2> QED
    BY <1>1, <2>2
<1> HIDE DEF t, n
<1>3. ASSUME NEW p \in Range(left) PROVE p = left[1] \/ p \in Range(t)
  <2>1. PICK i \in 1 .. n : p = left[i]
    BY <1>1 DEF Range, n
  <2>2. CASE i = 1
    BY <2>1, <2>2
  <2>3. CASE i # 1
    <3>1. i - 1 \in 1 .. n - 1 /\ i - 1 + 1 = i
      BY <1>1, <2>1, <2>3 DEF n
    <3>2. t[i - 1] = p
      BY <1>1, <2>1, <3>1 DEF t, n
    <3> QED
      BY <1>1, <3>1, <3>2 DEF Range, t, n
  <2> QED
    BY <2>2, <2>3
<1>4. ASSUME NEW p \in Range(t) PROVE p \in Range(left)
  <2>1. PICK i \in 1 .. n - 1 : p = t[i]
    BY <1>1 DEF Range, t, n
  <2>2. i + 1 \in 1 .. n
    BY <1>1, <2>1 DEF n
  <2>3. left[i + 1] = p
    BY <1>1, <2>1 DEF t, n
  <2> QED
    BY <1>1, <2>2, <2>3 DEF Range, n
<1>5. left[1] \in Range(left)
  BY <1>1 DEF Range
<1>6. Range(left) = {left[1]} \cup Range(t)
  BY <1>3, <1>4, <1>5
<1> QED
  BY <1>1, <1>2, <1>6 DEF t, n

\* What is left of the parts, and its first.
LEMMA PartsLeft ==
  ASSUME NEW left \in Parts, left # <<>>
  PROVE  /\ Tail(left) \in Parts /\ (Len(left) > 1 <=> Tail(left) # <<>>)
         /\ Range(left) = {Head(left)} \cup Range(Tail(left))
         /\ Head(left) \in Part \cup CPart
         /\ Head(left).address \in Nat /\ Head(left).data \in Seq(Bytes)
<1>1. CASE left \in Seq(Part)
  <2>1. /\ Head(left) \in Part /\ Tail(left) \in Seq(Part) /\ (Len(left) > 1 <=> Tail(left) # <<>>)
        /\ Range(left) = {Head(left)} \cup Range(Tail(left))
    BY <1>1, HeadAndTail
  <2> QED
    BY <2>1 DEF Parts, Part
<1>2. CASE left \in Seq(CPart)
  <2>1. /\ Head(left) \in CPart /\ Tail(left) \in Seq(CPart) /\ (Len(left) > 1 <=> Tail(left) # <<>>)
        /\ Range(left) = {Head(left)} \cup Range(Tail(left))
    BY <1>2, HeadAndTail
  <2> QED
    BY <2>1 DEF Parts, CPart
<1> QED
  BY <1>1, <1>2 DEF Parts

\* The rest of a job is a job, unless it is done.
LEMMA TodoLeft ==
  ASSUME NEW want, NEW sure, NEW left, Todo(want, sure, left)
  PROVE  /\ Fits(want, sure, Head(left))
         /\ Len(left) > 1 => Todo(want, sure, Tail(left))
<1>1. left \in Parts /\ left # <<>> /\ \A p \in Range(left) : Fits(want, sure, p)
  BY DEF Todo
<1>2. /\ Tail(left) \in Parts /\ (Len(left) > 1 <=> Tail(left) # <<>>)
      /\ Range(left) = {Head(left)} \cup Range(Tail(left))
  BY <1>1, PartsLeft
<1> QED
  BY <1>1, <1>2 DEF Todo

\* No part is left after the last.
LEMMA LastLeft ==
  ASSUME NEW left \in Parts, left # <<>>, ~(Len(left) > 1)
  PROVE  Tail(left) = <<>> /\ Range(Tail(left)) = {}
<1>1. Tail(left) = <<>>
  BY PartsLeft
<1> QED
  BY <1>1 DEF Range

\* Before the first part is written nothing was changed.
LEMMA StartWriting ==
  ASSUME NEW want, NEW base, NEW sure, NEW parts, NEW mem, NEW f,
         Todo(want, sure, parts), Clean(want, base, mem),
         \A a \in DOMAIN want : Gives(Range(parts), a, want[a])
  PROVE  Writing(want, base, sure, parts, mem, f)
BY DEF Writing, Wrote, Right

\* A file without data leaves the memory as it was.
LEMMA NothingToWrite ==
  ASSUME NEW want, NEW base, NEW sure, NEW mem, NEW f, Clean(want, base, mem), DOMAIN want = {}
  PROVE  Wrote(want, base, sure, <<>>, mem, f) /\ Flashed(want, base, mem)
BY DEF Wrote, Right, Flashed

\* A part that is written leaves the others to write.
LEMMA PartWritten ==
  ASSUME NEW want, NEW base, NEW sure, NEW left, NEW mem \in Memory, NEW new, NEW f,
         Writing(want, base, sure, left, mem, f), PartSpan(Head(left)) \subseteq DOMAIN Factory,
         WrittenOver(mem, Head(left), new)
  PROVE  /\ Wrote(want, base, sure, Tail(left), new, f)
         /\ Len(left) > 1 => Writing(want, base, sure, Tail(left), new, f)
<1> DEFINE p == Head(left)
           t == Tail(left)
<1>1. Todo(want, sure, left) /\ Clean(want, base, mem) /\ (f = 0 /\ sure => Right(want, mem, left))
  BY DEF Writing, Wrote
<1>2. Fits(want, sure, p) /\ (Len(left) > 1 => Todo(want, sure, t))
  BY <1>1, TodoLeft
<1>3. Range(left) = {p} \cup Range(t)
  BY <1>1, PartsLeft DEF Todo
<1>4. \A a \in DOMAIN Factory : new[a] = IF a \in PartSpan(p) THEN PartByte(p, a) ELSE mem[a]
  BY DEF WrittenOver
<1>5. PartSpan(p) \subseteq DOMAIN want /\ (sure => \A a \in PartSpan(p) : PartByte(p, a) = want[a])
  BY <1>2 DEF Fits
<1>6. PartSpan(p) \subseteq DOMAIN Factory
  OBVIOUS
<1> HIDE DEF p, t
<1>7. Clean(want, base, new)
  BY <1>1, <1>4, <1>5 DEF Clean
<1>8. ASSUME f = 0, sure PROVE Right(want, new, t)
  <2>1. Right(want, mem, left)
    BY <1>1, <1>8
  <2> SUFFICES ASSUME NEW a \in DOMAIN want
               PROVE  \/ a \in DOMAIN Factory /\ new[a] = want[a]
                      \/ Gives(Range(t), a, want[a])
    BY DEF Right
  <2>2. CASE a \in PartSpan(p)
    BY <1>4, <1>5, <1>6, <1>8, <2>2
  <2>3. CASE a \notin PartSpan(p)
    <3>1. (a \in DOMAIN Factory /\ mem[a] = want[a]) \/ Gives(Range(left), a, want[a])
      BY <2>1 DEF Right
    <3>2. Gives(Range(left), a, want[a]) => Gives(Range(t), a, want[a])
      BY <1>3, <2>3 DEF Gives
    <3> QED
      BY <1>4, <2>3, <3>1, <3>2
  <2> QED
    BY <2>2, <2>3
<1> QED
  BY <1>2, <1>7, <1>8 DEF Writing, Wrote, p, t

\* A write that went wrong touches nothing else.
LEMMA PartMissed ==
  ASSUME NEW want, NEW base, NEW sure, NEW left, NEW mem, NEW new, NEW f, NEW g, g # 0,
         Writing(want, base, sure, left, mem, f), PartlyWritten(mem, Head(left), new)
  PROVE  /\ Wrote(want, base, sure, Tail(left), new, g) /\ Wrote(want, base, sure, <<>>, new, g)
         /\ Len(left) > 1 => Writing(want, base, sure, Tail(left), new, g)
<1>1. Todo(want, sure, left) /\ Clean(want, base, mem)
  BY DEF Writing, Wrote
<1>2. Fits(want, sure, Head(left)) /\ (Len(left) > 1 => Todo(want, sure, Tail(left)))
  BY <1>1, TodoLeft
<1>3. Clean(want, base, new)
  BY <1>1, <1>2 DEF Clean, Fits, PartlyWritten
<1> QED
  BY <1>2, <1>3 DEF Wrote, Writing

\* A verification begins with every part to compare.
LEMMA StartVerifying ==
  ASSUME NEW want, NEW base, NEW sure, NEW parts, NEW mem, NEW f,
         Todo(want, sure, parts), Wrote(want, base, sure, <<>>, mem, f),
         \A a \in DOMAIN want : Gives(Range(parts), a, want[a])
  PROVE  Verifying(want, base, sure, parts, mem, f)
BY DEF Verifying, Right

\* What was verified is there.
LEMMA PartVerified ==
  ASSUME NEW want, NEW base, NEW sure, NEW left, NEW c, c.mem \in Memory, NEW f,
         Verifying(want, base, sure, left, c.mem, f), Holds(c, Head(left))
  PROVE  /\ Len(left) > 1 => Verifying(want, base, sure, Tail(left), c.mem, f)
         /\ ~(Len(left) > 1) => Flashed(want, base, c.mem)
<1> DEFINE p == Head(left)
           t == Tail(left)
           mem == c.mem
<1>1. Todo(want, sure, left) /\ Right(want, mem, left) /\ Wrote(want, base, sure, <<>>, mem, f)
  BY DEF Verifying
<1>2. Fits(want, sure, p) /\ (Len(left) > 1 => Todo(want, sure, t))
  BY <1>1, TodoLeft
<1>3. Range(left) = {p} \cup Range(t) /\ p.address \in Nat /\ p.data \in Seq(Bytes)
  BY <1>1, PartsLeft DEF Todo
<1>4. PartSpan(p) \subseteq DOMAIN Factory /\ \A a \in PartSpan(p) : mem[a] = PartByte(p, a)
  BY <1>3, HoldsFacts
<1>5. ~(Len(left) > 1) => t = <<>>
  BY <1>1, LastLeft DEF Todo
<1> HIDE DEF p, t, mem
<1>6. Right(want, mem, t)
  BY <1>1, <1>3, <1>4 DEF Right, Gives
<1>7. Clean(want, base, mem)
  BY <1>1 DEF Wrote
<1> QED
  BY <1>1, <1>2, <1>5, <1>6, <1>7 DEF Verifying, Flashed, p, t, mem

\* Without a fault a readback finds what was written.
LEMMA NothingMissed ==
  ASSUME NEW want, NEW base, NEW left, NEW sure, sure, NEW c, c.mem \in Memory,
         Verifying(want, base, sure, left, c.mem, 0)
  PROVE  Holds(c, Head(left))
<1>1. Todo(want, sure, left) /\ Right(want, c.mem, <<>>)
  BY DEF Verifying, Wrote
<1>2. Fits(want, sure, Head(left))
  BY <1>1, TodoLeft
<1>3. \A a \in DOMAIN want : a \in DOMAIN Factory /\ c.mem[a] = want[a]
  <2>1. Range(<<>>) = {}
    BY DEF Range
  <2> QED
    BY <1>1, <2>1 DEF Right, Gives
<1> QED
  BY <1>2, <1>3, HoldsFacts DEF Fits

\* Every part is there.
LEMMA AllVerified ==
  ASSUME NEW want, NEW base, NEW parts, NEW c, c.mem \in Memory,
         Todo(want, Sure, parts), \A a \in DOMAIN want : Gives(Range(parts), a, want[a]),
         \A i \in DOMAIN parts : Holds(c, parts[i])
  PROVE  Right(want, c.mem, <<>>)
<1>1. \A p \in Range(parts) : Fits(want, Sure, p) /\ Holds(c, p)
  BY DEF Todo, Range
<1>2. ASSUME NEW a \in DOMAIN want PROVE a \in DOMAIN Factory /\ c.mem[a] = want[a]
  <2>1. PICK p \in Range(parts) : a \in PartSpan(p) /\ want[a] = PartByte(p, a)
    BY DEF Gives
  <2>2. Fits(want, Sure, p) /\ Holds(c, p)
    BY <1>1
  <2> QED
    BY <2>1, <2>2, HoldsFacts DEF Fits, Sure
<1> QED
  BY <1>2 DEF Right

\* Without a fault every part is found as it was written.
LEMMA AllMatches ==
  ASSUME NEW want, NEW base, NEW parts, NEW c, c.mem \in Memory,
         Todo(want, Sure, parts), Wrote(want, base, Sure, <<>>, c.mem, 0)
  PROVE  \A i \in DOMAIN parts : Holds(c, parts[i])
<1>1. Todo(want, Sure, parts) /\ Wrote(want, base, Sure, <<>>, c.mem, 0) /\ Sure
  BY DEF Sure
<1>2. \A a \in DOMAIN want : a \in DOMAIN Factory /\ c.mem[a] = want[a]
  <2>1. Range(<<>>) = {}
    BY DEF Range
  <2> QED
    BY <1>1, <2>1 DEF Wrote, Right, Gives
<1>3. ASSUME NEW i \in DOMAIN parts PROVE Holds(c, parts[i])
  <2>1. Fits(want, Sure, parts[i])
    BY <1>1 DEF Todo, Range
  <2> QED
    BY <1>1, <1>2, <2>1, HoldsFacts DEF Fits
<1> QED
  BY <1>3

(* ---------------------------- the finished job --------------------------- *)

\* What was flashed over a memory is that memory overridden by the image.
LEMMA FlashedIsOverride ==
  ASSUME NEW want, NEW base \in Memory, NEW mem \in Memory, Flashed(want, base, mem)
  PROVE  mem = Override(base, want)
<1>1. Range(<<>>) = {}
  BY DEF Range
<1>2. \A a \in DOMAIN Factory : mem[a] = IF a \in DOMAIN want THEN want[a] ELSE base[a]
  BY <1>1 DEF Flashed, Clean, Right, Gives
<1> QED
  BY <1>2 DEF Override, Memory

\* On an erased chip the padding cannot be told from what the erase left.
LEMMA PaddingIsBlank ==
  ASSUME NEW file \in Seq(HexRecord)
  PROVE  Override(Blank, Want(file)) = Override(Blank, Meaning(file))
<1>1. DOMAIN Meaning(file) \subseteq Near(DOMAIN Meaning(file))
  BY MeaningFacts, NearIsWhole
<1>2. DOMAIN Want(file) = Near(DOMAIN Meaning(file))
      /\ \A a \in DOMAIN Want(file) : Want(file)[a] = Padded(file, a)
  BY DEF Want
<1>3. DOMAIN Blank = DOMAIN Factory
  BY DEF Blank
<1>4. ASSUME NEW a \in DOMAIN Factory
      PROVE  (IF a \in DOMAIN Want(file) THEN Want(file)[a] ELSE Blank[a])
             = (IF a \in DOMAIN Meaning(file) THEN Meaning(file)[a] ELSE Blank[a])
  <2>1. CASE a \in DOMAIN Meaning(file)
    <3>1. Padded(file, a) = Meaning(file)[a]
      BY <2>1, SMT DEF Padded
    <3> QED
      BY <1>1, <1>2, <2>1, <3>1
  <2>2. CASE a \notin DOMAIN Meaning(file)
    <3>1. Padded(file, a) = Blank[a]
      BY <2>2, BlankIsAMemory, SMT DEF Padded
    <3> QED
      BY <1>2, <2>2, <3>1
  <2> QED
    BY <2>1, <2>2
<1> QED
  BY <1>3, <1>4 DEF Override

(* ------------------------------ the jobs --------------------------------- *)

\* The parts have the bytes of want, which are all in the memory.
Job(want, parts) ==
    /\ Todo(want, Sure, parts) /\ \A a \in DOMAIN want : Gives(Range(parts), a, want[a])
    /\ DOMAIN want \subseteq DOMAIN Factory

\* Whole words of a file are a job on a memory of whole words.
LEMMA WordsJob ==
  ASSUME NEW f \in HexFiles, NEW parts, PartsMean(f, parts)
  PROVE  Job(Want(f), parts)
<1>1. f \in UNION Shelf /\ f \in Seq(HexRecord)
  BY FilesAreRecords DEF HexFiles
<1>2. parts \in Seq(Part) /\ parts # <<>>
  BY <1>1, PartsAreSome
<1>3. DOMAIN Want(f) = Near(DOMAIN Meaning(f)) /\ \A a \in DOMAIN Want(f) : Want(f)[a] = Padded(f, a)
  BY DEF Want
<1>4. \A a, v : Gives(Range(parts), a, v) <=> (a \in DOMAIN Want(f) /\ v = Want(f)[a])
  BY <1>3 DEF PartsMean
<1>5. ASSUME NEW p \in Range(parts) PROVE Fits(Want(f), Sure, p)
  <2>1. p \in Part
    BY <1>2 DEF Range
  <2>2. \A a \in PartSpan(p) : Gives(Range(parts), a, PartByte(p, a))
    BY DEF Gives
  <2> QED
    BY <1>4, <2>1, <2>2 DEF Fits, Part
<1>6. Todo(Want(f), Sure, parts)
  BY <1>2, <1>5 DEF Todo, Parts
<1>7. ASSUME NEW a \in DOMAIN Want(f) PROVE a \in DOMAIN Factory
  <2>1. a \in Nat /\ (\E b \in DOMAIN Meaning(f) : WordOf(b) = WordOf(a)) /\ Flashable(WordOf(a))
    BY <1>3 DEF Near, PartsMean
  <2>2. PICK b \in DOMAIN Meaning(f) : WordOf(b) = WordOf(a)
    BY <2>1
  <2>3. Flashable(WordOf(b))
    BY <2>1, <2>2
  <2>4. b \in DOMAIN Factory
    BY <1>1, <2>3, FlashIsThere
  <2>5. b \in Nat /\ WordOf(b) .. WordOf(b) + 3 \subseteq DOMAIN Factory
    BY <2>4, MemoryIsWords
  <2>6. a \in WordOf(a) .. WordOf(a) + 3
    BY <2>1, WordOfFacts
  <2> QED
    BY <2>2, <2>5, <2>6
<1> QED
  BY <1>4, <1>6, <1>7 DEF Job

\* The page programs what the file means.
LEMMA PageJob ==
  ASSUME NEW f \in HexFiles, PageImage[f].ok
  PROVE  Job(Want(f), PageImage[f].parts)
<1>1. f \in Seq(HexRecord) /\ PageImage[f] = PageParse(f)
  BY FilesAreRecords DEF HexFiles, PageImage
<1>2. PartsMean(f, PageImage[f].parts)
  BY <1>1, PagePartsMean
<1> QED
  BY <1>2, WordsJob

\* The npm application programs, and reads back, what the file means.
LEMMA NpmJob ==
  ASSUME NEW f \in HexFiles, NpmImage[f].ok
  PROVE  Job(Want(f), NpmImage[f].parts) /\ Job(Want(f), NpmProgram[f])
<1>1. f \in Seq(HexRecord) /\ NpmImage[f] = NpmParse(f) /\ NpmProgram[f] = NpmBlocks(NpmImage[f].parts, BlockWords)
  BY FilesAreRecords DEF HexFiles, NpmImage, NpmProgram
<1>2. PartsMean(f, NpmImage[f].parts)
  BY <1>1, NpmPartsMean
<1>3. PartsMean(f, NpmProgram[f])
  BY <1>1, <1>2, NpmBlocksMean
<1> QED
  BY <1>2, <1>3, WordsJob

\* The pieces have the file's bytes, wherever these are.
OwnJob(f, pieces) ==
    /\ pieces # <<>> => Todo(Meaning(f), Steady(f), pieces)
    /\ \A a \in DOMAIN Meaning(f) : Gives(Range(pieces), a, Meaning(f)[a])
    /\ pieces = <<>> => DOMAIN Meaning(f) = {}

\* Pieces of a file that have its records are a job.
LEMMA PiecesJob ==
  ASSUME NEW f \in HexFiles, NEW pieces \in Parts, PiecesMean(f, pieces)
  PROVE  OwnJob(f, pieces)
<1>1. f \in Seq(HexRecord)
  BY FilesAreRecords DEF HexFiles
<1>2. \A a, v : Gives(Range(pieces), a, v) <=> BodyGives(f, a, v)
  BY DEF PiecesMean
<1>3. /\ \A a, v : Gives(Range(pieces), a, v) => a \in DOMAIN Meaning(f)
      /\ \A a \in DOMAIN Meaning(f) : Gives(Range(pieces), a, Meaning(f)[a])
      /\ Steady(f) => \A a, v : Gives(Range(pieces), a, v) => v = Meaning(f)[a]
  BY <1>1, <1>2, BodyMeaning DEF Steady
<1>4. ASSUME NEW p \in Range(pieces) PROVE Fits(Meaning(f), Steady(f), p)
  <2>1. p \in Part \cup CPart
    BY DEF Range, Parts
  <2>2. p.address \in Nat /\ p.data \in Seq(Bytes)
    BY <2>1 DEF Part, CPart
  <2>3. \A a \in PartSpan(p) : Gives(Range(pieces), a, PartByte(p, a))
    BY DEF Gives
  <2> QED
    BY <1>3, <2>2, <2>3 DEF Fits
<1>5. pieces # <<>> => Todo(Meaning(f), Steady(f), pieces)
  BY <1>4 DEF Todo
<1>6. pieces = <<>> => DOMAIN Meaning(f) = {}
  BY <1>3 DEF Gives, Range
<1> QED
  BY <1>3, <1>5, <1>6 DEF OwnJob

\* The console tool programs what the file means.
LEMMA CliJob ==
  ASSUME NEW f \in HexFiles, CliImage[f].ok
  PROVE  CliPieces[f] \in Parts /\ OwnJob(f, CliPieces[f])
<1>1. CliPieces[f] \in Parts /\ PiecesMean(f, CliPieces[f])
  BY CliPiecesMean DEF Parts
<1> QED
  BY <1>1, PiecesJob

\* The dialog programs what the file means.
LEMMA ConsoleJob ==
  ASSUME NEW f \in HexFiles, ConsoleImage[f].ok
  PROVE  ConsolePieces[f] \in Seq(CPart) /\ ConsolePieces[f] \in Parts /\ OwnJob(f, ConsolePieces[f])
<1>1. ConsolePieces[f] \in Seq(CPart) /\ ConsolePieces[f] \in Parts /\ PiecesMean(f, ConsolePieces[f])
  BY ConsolePiecesMean DEF Parts
<1> QED
  BY <1>1, PiecesJob

(* ---------------------- the rest of the console's pieces ----------------- *)

\* At first all the pieces are left.
LEMMA RestStarts ==
  ASSUME NEW pieces \in Seq(CPart), pieces # <<>>
  PROVE  Rest(pieces, pieces, 1) /\ 1 \in 1 .. Len(pieces)
<1>1. Len(pieces) \in Nat /\ Len(pieces) > 0
  OBVIOUS
<1> DEFINE n == Len(pieces)
<1> HIDE DEF n
<1>2. n \in Nat /\ n > 0
  BY <1>1 DEF n
<1>3. 1 \in 1 .. n /\ n = n - 1 + 1 /\ \A i \in 1 .. n : 1 + i - 1 = i
  BY <1>2
<1>4. \A i \in 1 .. n : SameBytes(pieces[i], pieces[1 + i - 1]) /\ pieces[i].segment = pieces[1 + i - 1].segment
  BY <1>3 DEF SameBytes
<1> QED
  BY <1>3, <1>4 DEF Rest, n

\* After a piece the rest begins with the next.
LEMMA RestGoesOn ==
  ASSUME NEW pieces, NEW left, NEW j, Rest(left, pieces, j), Len(pieces) \in Nat, Len(left) > 1
  PROVE  Rest(Tail(left), pieces, j + 1) /\ j + 1 \in 1 .. Len(pieces)
<1> DEFINE t == Tail(left)
           m == Len(left)
           n == Len(pieces)
<1>1. left \in Seq(CPart) /\ left # <<>> /\ j \in 1 .. n /\ m = n - j + 1
      /\ \A i \in 1 .. m : SameBytes(left[i], pieces[j + i - 1]) /\ left[i].segment = pieces[j + i - 1].segment
  BY DEF Rest
<1>2. /\ t \in Seq(CPart) /\ t # <<>> /\ Len(t) = m - 1 /\ m \in Nat
      /\ \A i \in 1 .. m - 1 : t[i] = left[i + 1]
  BY <1>1, HeadAndTail
<1>3. n \in Nat /\ m > 1
  OBVIOUS
<1> HIDE DEF t, m, n
<1>4. j + 1 \in 1 .. n /\ Len(t) = n - (j + 1) + 1
  BY <1>1, <1>2, <1>3
<1>5. ASSUME NEW i \in 1 .. m - 1
      PROVE  SameBytes(t[i], pieces[(j + 1) + i - 1]) /\ t[i].segment = pieces[(j + 1) + i - 1].segment
  <2>1. i + 1 \in 1 .. m /\ j + (i + 1) - 1 = (j + 1) + i - 1
    BY <1>1, <1>2
  <2> QED
    BY <1>1, <1>2, <2>1
<1> QED
  BY <1>2, <1>4, <1>5 DEF Rest, t, n

\* Each part of the rest is one of the pieces, and the pieces from j on are there.
LEMMA RestIsOfThem ==
  ASSUME NEW pieces, NEW left, NEW j, Rest(left, pieces, j), Len(pieces) \in Nat
  PROVE  /\ \A p \in Range(left) : p \in CPart /\ \E i \in 1 .. Len(pieces) : SameBytes(p, pieces[i])
         /\ \A i \in 1 .. Len(pieces) : i >= j => \E p \in Range(left) : SameBytes(p, pieces[i])
<1> DEFINE m == Len(left)
           n == Len(pieces)
<1>1. left \in Seq(CPart) /\ left # <<>> /\ j \in 1 .. n /\ m = n - j + 1 /\ n \in Nat
      /\ \A i \in 1 .. m : SameBytes(left[i], pieces[j + i - 1])
  BY DEF Rest
<1>2. DOMAIN left = 1 .. m /\ \A i \in 1 .. m : left[i] \in CPart
  BY <1>1
<1> HIDE DEF m, n
<1>3. ASSUME NEW p \in Range(left) PROVE p \in CPart /\ \E i \in 1 .. n : SameBytes(p, pieces[i])
  <2>1. PICK i \in 1 .. m : p = left[i]
    BY <1>2 DEF Range
  <2>2. j + i - 1 \in 1 .. n
    BY <1>1, <2>1
  <2> QED
    BY <1>1, <1>2, <2>1, <2>2
<1>4. ASSUME NEW i \in 1 .. n, i >= j PROVE \E p \in Range(left) : SameBytes(p, pieces[i])
  <2>1. i - j + 1 \in 1 .. m /\ j + (i - j + 1) - 1 = i
    BY <1>1, <1>4
  <2>2. SameBytes(left[i - j + 1], pieces[i])
    BY <1>1, <2>1
  <2>3. left[i - j + 1] \in Range(left)
    BY <1>2, <2>1 DEF Range
  <2> QED
    BY <2>2, <2>3
<1> QED
  BY <1>3, <1>4 DEF n

\* Pieces with the same bytes do the same.
LEMMA SameBytesFacts ==
  ASSUME NEW p, NEW q, SameBytes(p, q)
  PROVE  /\ PartSpan(p) = PartSpan(q) /\ \A a : PartByte(p, a) = PartByte(q, a)
         /\ \A want, sure : Fits(want, sure, q) => Fits(want, sure, p)
<1>1. p.address = q.address /\ p.data = q.data
  BY DEF SameBytes
<1>2. PartSpan(p) = PartSpan(q) /\ \A a : PartByte(p, a) = PartByte(q, a)
  BY <1>1 DEF PartSpan, PartByte
<1> QED
  BY <1>1, <1>2 DEF Fits

\* What is left of a job is a job.
LEMMA RestIsTodo ==
  ASSUME NEW want, NEW sure, NEW pieces, NEW left, NEW j, Rest(left, pieces, j), Todo(want, sure, pieces)
  PROVE  Todo(want, sure, left)
<1>1. Len(pieces) \in Nat /\ DOMAIN pieces = 1 .. Len(pieces)
  BY DEF Todo, Parts
<1>2. \A i \in 1 .. Len(pieces) : Fits(want, sure, pieces[i])
  BY <1>1 DEF Todo, Range
<1>3. \A p \in Range(left) : \E i \in 1 .. Len(pieces) : SameBytes(p, pieces[i])
  BY <1>1, RestIsOfThem
<1>4. ASSUME NEW p \in Range(left) PROVE Fits(want, sure, p)
  <2>1. PICK i \in 1 .. Len(pieces) : SameBytes(p, pieces[i])
    BY <1>3
  <2> QED
    BY <1>2, <2>1, SameBytesFacts
<1>5. left \in Parts /\ left # <<>>
  BY DEF Rest, Parts
<1> QED
  BY <1>4, <1>5 DEF Todo

\* An earlier rest gives all that a later one does.
LEMMA EarlierRest ==
  ASSUME NEW pieces, NEW left, NEW j, NEW more, NEW k,
         Rest(left, pieces, j), Rest(more, pieces, k), k <= j, Len(pieces) \in Nat
  PROVE  \A a, v : Gives(Range(left), a, v) => Gives(Range(more), a, v)
<1> SUFFICES ASSUME NEW a, NEW v, Gives(Range(left), a, v) PROVE Gives(Range(more), a, v)
  OBVIOUS
<1> DEFINE n == Len(pieces)
<1>1. PICK x \in Range(left) : a \in PartSpan(x) /\ v = PartByte(x, a)
  BY DEF Gives
<1> DEFINE m == Len(left)
<1>2. left \in Seq(CPart) /\ j \in 1 .. n /\ k \in 1 .. n /\ n \in Nat /\ m = n - j + 1
      /\ \A i \in 1 .. m : SameBytes(left[i], pieces[j + i - 1])
  BY DEF Rest
<1>3. PICK i \in 1 .. m : x = left[i]
  BY <1>2 DEF Range
<1> HIDE DEF m, n
<1>4. j + i - 1 \in 1 .. n /\ j + i - 1 >= k
  BY <1>2, <1>3
<1>5. SameBytes(x, pieces[j + i - 1])
  BY <1>2, <1>3
<1>6. PICK y \in Range(more) : SameBytes(y, pieces[j + i - 1])
  BY <1>4, RestIsOfThem DEF n
<1>7. a \in PartSpan(y) /\ v = PartByte(y, a)
  BY <1>1, <1>5, <1>6, SameBytesFacts
<1> QED
  BY <1>7 DEF Gives

\* The dialog writes only addresses its file names.
LEMMA RestInMeaning ==
  ASSUME NEW f \in HexFiles, ConsoleImage[f].ok, NEW left, NEW j, Rest(left, ConsolePieces[f], j)
  PROVE  Todo(Meaning(f), Steady(f), left) /\ PartSpan(Head(left)) \subseteq DOMAIN Meaning(f)
<1>1. ConsolePieces[f] \in Seq(CPart) /\ OwnJob(f, ConsolePieces[f])
  BY ConsoleJob
<1>2. ConsolePieces[f] # <<>>
  BY <1>1 DEF Rest
<1>3. Todo(Meaning(f), Steady(f), ConsolePieces[f])
  BY <1>1, <1>2 DEF OwnJob
<1>4. Todo(Meaning(f), Steady(f), left)
  BY <1>3, RestIsTodo
<1> QED
  BY <1>4, TodoLeft DEF Fits
================================================================================
