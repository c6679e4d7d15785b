------------------------------ MODULE DataLemmas ------------------------------
(***************************************************************************)
(* Induction over numbers and finite sets, without operators as arguments: *)
(* a property is the set of the values that have it.  With it the folds    *)
(* of the community modules can be reasoned about.                         *)
(***************************************************************************)
EXTENDS Integers, Sequences, SequencesExt, FiniteSetTheorems, TLAPS

\* Every set of natural numbers has a least element.
LEMMA LeastNumber ==
    ASSUME NEW T, T \subseteq Nat, T # {}
    PROVE  \E x \in T : \A y \in T : x <= y
<1> DEFINE Below(x) == 0..(x - 1)
           Belows == {Below(x) : x \in T}
<1>1. Belows \subseteq FiniteSubsetsOf(Nat)
  <2> SUFFICES ASSUME NEW x \in T PROVE Below(x) \in FiniteSubsetsOf(Nat)
    OBVIOUS
  <2>1. IsFiniteSet(Below(x)) /\ Below(x) \subseteq Nat
    BY FS_Interval
  <2> QED
    BY <2>1 DEF FiniteSubsetsOf
<1>2. Belows # {}
  OBVIOUS
<1>3. \E s \in Belows : \A r \in Belows : ~(<<r, s>> \in StrictSubsetOrdering(Nat))
  <2> HIDE DEF Belows
  <2> QED
    BY <1>1, <1>2, WFMin, FS_StrictSubsetOrderingWellFounded, Zenon
<1>4. PICK x \in T : \A y \in T : ~(<<Below(y), Below(x)>> \in StrictSubsetOrdering(Nat))
  BY <1>3
<1>5. ASSUME NEW y \in T, y < x PROVE FALSE
  <2>1. Below(y) \subseteq Below(x) /\ y \in Below(x) /\ y \notin Below(y)
    BY <1>5
  <2>2. <<Below(y), Below(x)>> \in StrictSubsetOrdering(Nat)
    BY <2>1 DEF StrictSubsetOrdering
  <2> QED
    BY <1>4, <2>2
<1> QED
  BY <1>5

\* Induction over the numbers: P is the set of those that have the property.
LEMMA NumberInduction ==
    ASSUME NEW P, 0 \in P, \A n \in Nat : n \in P => n + 1 \in P
    PROVE  \A n \in Nat : n \in P
<1> SUFFICES ASSUME Nat \ P # {} PROVE FALSE
  OBVIOUS
<1>1. PICK x \in Nat \ P : \A y \in Nat \ P : x <= y
  BY LeastNumber
<1>2. x # 0 /\ x - 1 \in Nat /\ x - 1 \in P
  BY <1>1
<1> QED
  BY <1>1, <1>2

\* The last number of a non-empty set that has a bound.
LEMMA GreatestNumber ==
    ASSUME NEW T, T \subseteq Nat, T # {}, NEW b \in Nat, \A x \in T : x <= b
    PROVE  \E x \in T : \A y \in T : y <= x
<1> DEFINE U == {b - x : x \in T}
<1>1. U \subseteq Nat /\ U # {}
  <2>1. \A x \in T : b - x \in Nat
    OBVIOUS
  <2> QED
    BY <2>1
<1>2. PICK u \in U : \A v \in U : u <= v
  <2> HIDE DEF U
  <2> QED
    BY <1>1, LeastNumber
<1>3. PICK x \in T : u = b - x
  OBVIOUS
<1>4. ASSUME NEW y \in T PROVE y <= x
  <2>1. b - y \in U /\ x \in Nat /\ y \in Nat
    OBVIOUS
  <2>2. u <= b - y
    BY <1>2, <2>1
  <2> QED
    BY ONLY <1>3, <2>1, <2>2, b \in Nat
<1> QED
  BY <1>4

\* Recursion over the subsets of a finite set: c chooses the element that is taken first,
\* and g combines it with the result for the others.
Recursion(f, D, Y, base, c, g) ==
    /\ f \in [SUBSET D -> Y]
    /\ f = [s \in SUBSET D |-> IF s = {} THEN base ELSE g[<<c[s], f[s \ {c[s]}]>>]]

LEMMA FoldExists ==
    ASSUME NEW D, IsFiniteSet(D), NEW Y, NEW base \in Y, NEW c, NEW g,
           \A s \in SUBSET D : s # {} => c[s] \in s,
           \A xy \in D \X Y : g[xy] \in Y
    PROVE  \E f : Recursion(f, D, Y, base, c, g)
<1> DEFINE Small(n) == {s \in SUBSET D : Cardinality(s) <= n}
           Rec(s, f) == IF s = {} THEN base ELSE g[<<c[s], f[s \ {c[s]}]>>]
           P == {n \in Nat : \E f \in [Small(n) -> Y] : \A s \in Small(n) : f[s] = Rec(s, f)}
<1>0. \A s \in SUBSET D : IsFiniteSet(s) /\ Cardinality(s) \in Nat
  BY FS_Subset, FS_CardinalityType
<1>1. 0 \in P
  <2>1. \A s \in Small(0) : s = {}
    BY <1>0, FS_EmptySet
  <2> DEFINE f == [s \in Small(0) |-> base]
  <2>2. f \in [Small(0) -> Y] /\ \A s \in Small(0) : f[s] = Rec(s, f)
    BY <2>1
  <2> HIDE DEF f, Small
  <2> QED
    BY <2>2
<1>2. ASSUME NEW n \in Nat, n \in P PROVE n + 1 \in P
  <2>1. PICK f \in [Small(n) -> Y] : \A s \in Small(n) : f[s] = Rec(s, f)
    BY <1>2
  <2> DEFINE h == [s \in Small(n + 1) |-> Rec(s, f)]
  <2>2. ASSUME NEW s \in Small(n + 1), s # {}
        PROVE  c[s] \in s /\ s \ {c[s]} \in Small(n) /\ s \ {c[s]} \in Small(n + 1)
    <3>1. IsFiniteSet(s) /\ c[s] \in s /\ s \in SUBSET D
      BY <1>0, <2>2
    <3>2. Cardinality(s \ {c[s]}) = Cardinality(s) - 1
      BY <3>1, FS_RemoveElement
    <3> QED
      BY <1>0, <3>1, <3>2
  <2>3. Small(n) \subseteq Small(n + 1)
    BY <1>0
  <2>4. \A s \in Small(n + 1) : Rec(s, f) \in Y
    <3> HIDE DEF Small
    <3> SUFFICES ASSUME NEW s \in Small(n + 1), s # {} PROVE g[<<c[s], f[s \ {c[s]}]>>] \in Y
      OBVIOUS
    <3>1. c[s] \in D
      BY <2>2 DEF Small
    <3> QED
      BY <2>1, <2>2, <3>1
  <2>5. \A s \in Small(n) : h[s] = f[s]
    <3> HIDE DEF Small
    <3> QED
      BY <2>1, <2>3
  <2>6. h \in [Small(n + 1) -> Y]
    <3> HIDE DEF Small, Rec
    <3> QED
      BY <2>4
  <2>7. ASSUME NEW s \in Small(n + 1) PROVE h[s] = Rec(s, h)
    <3> HIDE DEF Small
    <3>1. CASE s = {}
      BY <3>1
    <3>2. CASE s # {}
      <4>1. h[s \ {c[s]}] = f[s \ {c[s]}]
        BY <2>2, <2>5, <3>2
      <4> QED
        BY <4>1
    <3> QED
      BY <3>1, <3>2
  <2> HIDE DEF h, Small, Rec
  <2> QED
    BY <2>6, <2>7
<1>3. Cardinality(D) \in P
  <2> HIDE DEF P
  <2> QED
    BY <1>0, <1>1, <1>2, NumberInduction
<1>4. Small(Cardinality(D)) = SUBSET D
  <2> SUFFICES ASSUME NEW s \in SUBSET D PROVE Cardinality(s) <= Cardinality(D)
    OBVIOUS
  <2> QED
    BY FS_Subset
<1>5. PICK f \in [SUBSET D -> Y] : \A s \in SUBSET D : f[s] = Rec(s, f)
  <2> HIDE DEF Small, Rec
  <2> QED
    BY <1>3, <1>4
<1>6. f = [s \in SUBSET D |-> Rec(s, f)]
  <2> HIDE DEF Rec
  <2> QED
    BY <1>5
<1> QED
  BY <1>6 DEF Recursion

\* Flattening a sequence of sequences appends them one after the other.
LEMMA FlattenSteps ==
    ASSUME NEW S, NEW q \in Seq(Seq(S))
    PROVE  \E f \in [0..Len(q) -> Seq(S)] :
              /\ f[0] = <<>> /\ FlattenSeq(q) = f[Len(q)]
              /\ \A i \in 1..Len(q) : f[i] = f[i - 1] \o q[i]
<1> DEFINE Rec(i, h) == IF i = 1 THEN q[i] ELSE h[i - 1] \o q[i]
           P == {n \in Nat : n <= Len(q) =>
                    \E h \in [1..n -> Seq(S)] : \A i \in 1..n : h[i] = Rec(i, h)}
<1>0. Len(q) \in Nat /\ \A i \in 1..Len(q) : q[i] \in Seq(S)
  OBVIOUS
<1>1. 0 \in P
  <2>1. <<>> \in [1..0 -> Seq(S)] /\ \A i \in 1..0 : <<>>[i] = Rec(i, <<>>)
    OBVIOUS
  <2> HIDE DEF Rec
  <2> QED
    BY <2>1
<1>2. ASSUME NEW n \in Nat, n \in P PROVE n + 1 \in P
  <2>0. n + 1 \in Nat
    OBVIOUS
  <2> SUFFICES ASSUME n + 1 <= Len(q)
               PROVE  \E h \in [1..(n + 1) -> Seq(S)] : \A i \in 1..(n + 1) : h[i] = Rec(i, h)
    <3> HIDE DEF Rec
    <3> QED
      BY <2>0, Zenon
  <2>1. PICK h \in [1..n -> Seq(S)] : \A i \in 1..n : h[i] = Rec(i, h)
    <3> HIDE DEF Rec
    <3>1. n <= Len(q)
      BY <1>0
    <3> QED
      BY <1>2, <3>1
  <2> DEFINE k == [i \in 1..(n + 1) |-> Rec(i, h)]
  <2>2. \A i \in 1..(n + 1) : q[i] \in Seq(S) /\ (i # 1 => h[i - 1] \in Seq(S))
    BY <1>0
  <2>3. \A i \in 1..(n + 1) : Rec(i, h) \in Seq(S)
    BY <2>2
  <2>4. \A i \in 1..n : k[i] = h[i]
    <3> HIDE DEF Rec
    <3> QED
      BY <2>1
  <2>5. \A i \in 1..(n + 1) : k[i] = Rec(i, k)
    <3> SUFFICES ASSUME NEW i \in 1..(n + 1) PROVE Rec(i, h) = Rec(i, k)
      OBVIOUS
    <3> HIDE DEF k
    <3>1. i # 1 => i - 1 \in 1..n
      OBVIOUS
    <3> QED
      BY <2>4, <3>1
  <2>6. k \in [1..(n + 1) -> Seq(S)]
    <3> HIDE DEF Rec
    <3> QED
      BY <2>3
  <2> HIDE DEF k, Rec
  <2> QED
    BY <2>5, <2>6
<1>3. Len(q) \in P
  <2> HIDE DEF P
  <2> QED
    BY <1>0, <1>1, <1>2, NumberInduction
<1>4. PICK h \in [1..Len(q) -> Seq(S)] : \A i \in 1..Len(q) : h[i] = Rec(i, h)
  <2> HIDE DEF Rec
  <2> QED
    BY <1>3
<1> DEFINE G == CHOOSE g : g = [i \in 1..Len(q) |-> Rec(i, g)]
           f == [i \in 0..Len(q) |-> IF i = 0 THEN <<>> ELSE G[i]]
<1>5. G = [i \in 1..Len(q) |-> Rec(i, G)]
  <2>1. h = [i \in 1..Len(q) |-> Rec(i, h)]
    <3> HIDE DEF Rec
    <3> QED
      BY <1>4
  <2> HIDE DEF Rec
  <2> QED
    BY <2>1
<1>5a. ASSUME NEW i \in 1..Len(q) PROVE G[i] = Rec(i, G)
  <2> HIDE DEF G, Rec
  <2> QED
    BY <1>5
<1>6. \A n \in 1..Len(q) : G[n] \in Seq(S)
  <2> DEFINE Q == {m \in Nat : m = 0 \/ m > Len(q) \/ G[m] \in Seq(S)}
  <2>1. 0 \in Q
    OBVIOUS
  <2>2. ASSUME NEW n \in Nat, n \in Q PROVE n + 1 \in Q
    <3> SUFFICES ASSUME n + 1 <= Len(q) PROVE G[n + 1] \in Seq(S)
      OBVIOUS
    <3>1. G[n + 1] = Rec(n + 1, G)
      <4>1. n + 1 \in 1..Len(q)
        BY <1>0
      <4> HIDE DEF G, Rec
      <4> QED
        BY <1>5a, <4>1
    <3>2. n = 0 \/ G[n] \in Seq(S)
      BY <2>2
    <3> HIDE DEF G
    <3> QED
      BY <1>0, <3>1, <3>2
  <2>3. \A n \in Nat : n \in Q
    <3> HIDE DEF Q
    <3> QED
      BY <2>1, <2>2, NumberInduction
  <2> HIDE DEF G
  <2> QED
    BY <1>0, <2>3
<1>7. f \in [0..Len(q) -> Seq(S)]
  <2> HIDE DEF G
  <2> QED
    BY <1>6
<1>8. \A i \in 1..Len(q) : f[i] = f[i - 1] \o q[i]
  <2> SUFFICES ASSUME NEW i \in 1..Len(q) PROVE f[i] = f[i - 1] \o q[i]
    <3> HIDE DEF G
    <3> QED
      OBVIOUS
  <2>1. f[i] = Rec(i, G) /\ i \in Nat /\ f[i - 1] = IF i = 1 THEN <<>> ELSE G[i - 1]
    <3>1. i \in 0..Len(q) /\ i - 1 \in 0..Len(q) /\ i # 0 /\ (i - 1 = 0 <=> i = 1)
      BY <1>0
    <3> HIDE DEF G, Rec
    <3> QED
      BY <1>5a, <3>1
  <2>2. CASE i = 1
    <3> HIDE DEF G
    <3>1. f[0] = <<>> /\ q[1] \in Seq(S)
      BY <1>0
    <3>2. <<>> \o q[1] = q[1]
      BY <3>1
    <3> QED
      BY <2>1, <2>2, <3>2
  <2>3. CASE i # 1
    <3> HIDE DEF G
    <3> QED
      BY <2>1, <2>3
  <2> QED
    BY <2>2, <2>3
<1>9. FlattenSeq(q) = f[Len(q)]
  <2>1. CASE Len(q) = 0
    <3>1. q = <<>>
      BY <2>1
    <3> HIDE DEF G
    <3> QED
      BY <2>1, <3>1 DEF FlattenSeq
  <2>2. CASE Len(q) # 0
    <3>1. FlattenSeq(q) = G[Len(q)]
      BY <2>2 DEF FlattenSeq
    <3> HIDE DEF G
    <3> QED
      BY <2>2, <3>1
  <2> QED
    BY <2>1, <2>2
<1>10. f[0] = <<>>
  OBVIOUS
<1> HIDE DEF f
<1> QED
  BY <1>7, <1>8, <1>9, <1>10

-----------------------------------------------------------------------------

\* g[s] is the sum of f over s, whichever element is taken first.
Sums(g, f, D) ==
    /\ g \in [SUBSET D -> Nat] /\ g[{}] = 0
    /\ \A s \in SUBSET D : \A x \in s : g[s] = f[x] + g[s \ {x}]

\* A sum that takes the elements in one order is one that takes them in any.
LEMMA SumOrder ==
    ASSUME NEW D, IsFiniteSet(D), NEW f \in [D -> Nat], NEW c, NEW g,
           g = [s \in SUBSET D |-> IF s = {} THEN 0 ELSE f[c[s]] + g[s \ {c[s]}]],
           \A s \in SUBSET D : s # {} => c[s] \in s
    PROVE  Sums(g, f, D)
<1> DEFINE Splits(s) == g[s] \in Nat /\ \A x \in s : g[s] = f[x] + g[s \ {x}]
           P == {n \in Nat : \A s \in SUBSET D : Cardinality(s) <= n => Splits(s)}
<1>0. \A s \in SUBSET D : IsFiniteSet(s) /\ Cardinality(s) \in Nat
  BY FS_Subset, FS_CardinalityType
<1>a. g[{}] = 0 /\ \A s \in SUBSET D : s # {} => g[s] = f[c[s]] + g[s \ {c[s]}]
  OBVIOUS
<1>1. 0 \in P
  <2>1. \A s \in SUBSET D : Cardinality(s) <= 0 => s = {}
    BY <1>0, FS_EmptySet
  <2>2. Splits({})
    BY <1>a
  <2> HIDE DEF Splits
  <2> QED
    BY <2>1, <2>2
<1>2. ASSUME NEW n \in Nat, n \in P PROVE n + 1 \in P
  <2>0. n + 1 \in Nat
    OBVIOUS
  <2> SUFFICES ASSUME NEW s \in SUBSET D, Cardinality(s) <= n + 1, s # {} PROVE Splits(s)
    <3>1. Splits({})
      BY <1>a
    <3> HIDE DEF Splits
    <3> QED
      BY <2>0, <3>1
  <2>2. PICK y \in s : y = c[s] /\ g[s] = f[y] + g[s \ {y}]
    BY <1>a
  <2>a. \A z \in s : Cardinality(s \ {z}) <= n
    <3>1. IsFiniteSet(s) /\ Cardinality(s) \in Nat
      BY <1>0
    <3>2. \A z \in s : Cardinality(s \ {z}) = Cardinality(s) - 1
      BY ONLY <3>1, FS_RemoveElement
    <3> QED
      BY <3>1, <3>2
  <2>3. s \ {y} \in SUBSET D /\ Cardinality(s \ {y}) <= n
    BY <2>a
  <2>4. Splits(s \ {y}) /\ f[y] \in Nat
    BY <1>2, <2>3
  <2>5. ASSUME NEW x \in s PROVE g[s] = f[x] + g[s \ {x}]
    <3>1. CASE x = y
      BY <2>2, <3>1
    <3>2. CASE x # y
      <4>1. /\ s \ {x} \in SUBSET D /\ Cardinality(s \ {x}) <= n /\ y \in s \ {x} /\ x \in s \ {y}
        BY <2>a, <3>2
      <4>2. /\ g[s \ {y}] = f[x] + g[(s \ {y}) \ {x}] /\ g[s \ {x}] = f[y] + g[(s \ {x}) \ {y}]
            /\ g[s \ {x}] \in Nat /\ g[s \ {y}] \in Nat
        BY <1>2, <2>4, <4>1
      <4>3. (s \ {y}) \ {x} = (s \ {x}) \ {y}
        OBVIOUS
      <4>4. Splits((s \ {x}) \ {y})
        <5>1. PICK t \in SUBSET D : t = s \ {x} /\ IsFiniteSet(t) /\ y \in t /\ Cardinality(t) <= n
          BY <1>0, <4>1
        <5>2. Cardinality(t \ {y}) = Cardinality(t) - 1 /\ Cardinality(t) \in Nat
          BY <5>1, FS_RemoveElement, FS_CardinalityType
        <5>3. (s \ {x}) \ {y} \in SUBSET D /\ Cardinality((s \ {x}) \ {y}) <= n
          BY <5>1, <5>2
        <5> HIDE DEF Splits
        <5> QED
          BY <1>2, <5>3
      <4>5. f[x] \in Nat
        OBVIOUS
      <4>6. g[(s \ {x}) \ {y}] \in Nat
        BY <4>4
      <4>7. g[s] = f[y] + (f[x] + g[(s \ {x}) \ {y}]) /\ g[s \ {x}] = f[y] + g[(s \ {x}) \ {y}]
        BY <2>2, <4>2, <4>3
      <4> QED
        <5> HIDE DEF Splits
        <5> QED
          BY <2>4, <4>5, <4>6, <4>7
    <3> QED
      BY <3>1, <3>2
  <2>6. g[s] \in Nat
    BY <2>2, <2>4
  <2> QED
    BY <2>5, <2>6
<1>3. \A n \in Nat : n \in P
  <2> HIDE DEF P
  <2> QED
    BY <1>1, <1>2, NumberInduction
<1>4. \A s \in SUBSET D : Splits(s)
  <2> HIDE DEF Splits
  <2> QED
    BY <1>0, <1>3
<1> QED
  BY <1>4 DEF Sums

\* Equal summands have equal sums.
LEMMA SumUnique ==
    ASSUME NEW D, IsFiniteSet(D), NEW E, NEW f, NEW e, NEW g, NEW h, Sums(g, f, D), Sums(h, e, E),
           NEW S, S \subseteq D, S \subseteq E, \A x \in S : f[x] = e[x]
    PROVE  g[S] = h[S]
<1> DEFINE P == {n \in Nat : \A s \in SUBSET S : Cardinality(s) = n => g[s] = h[s]}
<1>0. \A s \in SUBSET S : IsFiniteSet(s) /\ Cardinality(s) \in Nat
  BY FS_Subset, FS_CardinalityType
<1>1. 0 \in P
  <2>1. \A s \in SUBSET S : Cardinality(s) = 0 => s = {}
    BY <1>0, FS_EmptySet
  <2> QED
    BY <2>1 DEF Sums
<1>2. ASSUME NEW n \in Nat, n \in P PROVE n + 1 \in P
  <2>0. n + 1 \in Nat
    OBVIOUS
  <2> SUFFICES ASSUME NEW s \in SUBSET S, Cardinality(s) = n + 1 PROVE g[s] = h[s]
    BY <2>0
  <2>1. s # {}
    BY FS_EmptySet
  <2>2. PICK x : x \in s
    BY <2>1
  <2>3. s \ {x} \in SUBSET S /\ Cardinality(s \ {x}) = n
    <3>1. IsFiniteSet(s) /\ Cardinality(s \ {x}) = Cardinality(s) - 1
      BY <1>0, <2>2, FS_RemoveElement
    <3> QED
      BY <3>1
  <2>4. g[s \ {x}] = h[s \ {x}]
    BY <1>2, <2>3
  <2>5. g[s] = f[x] + g[s \ {x}] /\ h[s] = e[x] + h[s \ {x}]
    BY <2>2 DEF Sums
  <2> QED
    BY <2>2, <2>4, <2>5
<1>3. \A n \in Nat : n \in P
  <2> HIDE DEF P
  <2> QED
    BY <1>1, <1>2, NumberInduction
<1> QED
  BY <1>0, <1>3

-----------------------------------------------------------------------------
\* A function that is defined by steps from base: step gets the number and the value before it.
Stepwise(h, N, Y, base, step) ==
    /\ h \in [0..N -> Y]
    /\ h = [i \in 0..N |-> IF i = 0 THEN base ELSE step[<<i, h[i - 1]>>]]

LEMMA StepsExist ==
    ASSUME NEW N \in Nat, NEW Y, NEW base \in Y, NEW step \in [(1..N) \X Y -> Y]
    PROVE  \E h : Stepwise(h, N, Y, base, step)
<1> DEFINE Rec(i, h) == IF i = 0 THEN base ELSE step[<<i, h[i - 1]>>]
           P == {n \in Nat : n <= N => \E h \in [0..n -> Y] : \A i \in 0..n : h[i] = Rec(i, h)}
<1>1. 0 \in P
  <2> DEFINE h == [j \in 0..0 |-> base]
  <2>1. h \in [0..0 -> Y] /\ \A i \in 0..0 : h[i] = Rec(i, h)
    OBVIOUS
  <2> HIDE DEF h, Rec
  <2> QED
    BY <2>1
<1>2. ASSUME NEW n \in Nat, n \in P PROVE n + 1 \in P
  <2> SUFFICES ASSUME n + 1 <= N
               PROVE  \E h \in [0..(n + 1) -> Y] : \A i \in 0..(n + 1) : h[i] = Rec(i, h)
    <3> HIDE DEF Rec
    <3> QED
      OBVIOUS
  <2>1. PICK h \in [0..n -> Y] : \A i \in 0..n : h[i] = Rec(i, h)
    <3> HIDE DEF Rec
    <3> QED
      BY <1>2
  <2> DEFINE k == [i \in 0..(n + 1) |-> Rec(i, h)]
  <2>2. \A i \in 0..n : k[i] = h[i]
    <3> HIDE DEF Rec
    <3> QED
      BY <2>1
  <2>3. \A i \in 0..(n + 1) : i # 0 => i - 1 \in 0..n /\ <<i, h[i - 1]>> \in (1..N) \X Y
    OBVIOUS
  <2>4. k \in [0..(n + 1) -> Y]
    <3> SUFFICES ASSUME NEW i \in 0..(n + 1) PROVE Rec(i, h) \in Y
      OBVIOUS
    <3> QED
      BY <2>3
  <2>5. ASSUME NEW i \in 0..(n + 1) PROVE k[i] = Rec(i, k)
    <3>1. k[i] = Rec(i, h)
      OBVIOUS
    <3> HIDE DEF k
    <3> QED
      BY <3>1, <2>2, <2>3
  <2> HIDE DEF k, Rec
  <2> QED
    BY <2>4, <2>5
<1>3. N \in P
  <2> HIDE DEF P
  <2> QED
    BY <1>1, <1>2, NumberInduction
<1>4. PICK h \in [0..N -> Y] : \A i \in 0..N : h[i] = Rec(i, h)
  <2> HIDE DEF Rec
  <2> QED
    BY <1>3
<1>5. h = [i \in 0..N |-> Rec(i, h)]
  <2> HIDE DEF Rec
  <2> QED
    BY <1>4
<1> QED
  BY <1>5 DEF Stepwise
=============================================================================
