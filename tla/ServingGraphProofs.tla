------------------------- MODULE ServingGraphProofs -------------------------
(***************************************************************************)
(* Theorems about ServingGraph, for every set of programs a caller can     *)
(* write, every device and every number of preparations.                   *)
(*                                                                         *)
(* OperandsDoArrive, UpstreamIsHonoured                                    *)
(*                   kernels are handed the operands of their names        *)
(* DataFlowIsPreserved                                                     *)
(*                   any order the graph picks reads what the program's    *)
(*                   order would have left                                 *)
(* PreparedStaysAdmitted                                                   *)
(*                   what was prepared the native entry takes              *)
(* ExpiredStaysExpired                                                     *)
(*                   a handle is never issued twice                        *)
(* AliasCheckIsExact the interval merge rejects what shares an address,    *)
(*                   and nothing else                                      *)
(* OverlapsOnlyByRestride                                                  *)
(*                   what may alias when a kernel runs                     *)
(*                                                                         *)
(* The first half is about the operators: Sound(op) says that the kernels  *)
(* of op write only declared buffers, touch only operands the constructor  *)
(* compared, and find each of them again behind the positions of the two   *)
(* lists.  It is proved binding by binding, for all combinations of mode,  *)
(* target and optional operands.  The second half is the state machine:    *)
(* handles below a counter that only grows, nodes that run behind whatever *)
(* they conflict with, and the checks of the latest launch.  Between the   *)
(* two launch proofs stands the arithmetic of views: a merge of any length *)
(* exists and is exact because a shortest counterexample would have a      *)
(* shorter one, and a cell is in a view exactly if it is in one of its     *)
(* spans.                                                                  *)
(***************************************************************************)
EXTENDS ServingGraph, FiniteSetTheorems, FunctionTheorems, SequenceTheorems,
        WellFoundedInduction, TLAPS

-----------------------------------------------------------------------------
(***************************************************************************)
(* Lists.                                                                  *)
(***************************************************************************)

\* A sequence, over whatever it holds.
List(a) == a \in Seq(Range(a))

\* A list has positions, and its range is what stands at them.
LEMMA ListShape ==
    ASSUME NEW a, List(a)
    PROVE  /\ Len(a) \in Nat /\ DOMAIN a = 1..Len(a)
           /\ \A x : x \in Range(a) <=> \E k \in 1..Len(a) : a[k] = x
  <1>1. Len(a) \in Nat /\ DOMAIN a = 1..Len(a)
    BY DEF List
  <1> QED
    BY <1>1 DEF Range

\* Joining two lists joins their ranges and shifts the second.
LEMMA ListJoin ==
    ASSUME NEW a, NEW b, List(a), List(b)
    PROVE  /\ List(a \o b) /\ Len(a \o b) = Len(a) + Len(b)
           /\ \A k \in 1..Len(a) : (a \o b)[k] = a[k]
           /\ \A k \in 1..Len(b) : (a \o b)[Len(a) + k] = b[k]
           /\ Range(a \o b) = Range(a) \union Range(b)
  <1> DEFINE S == Range(a) \union Range(b)
  <1>1. a \in Seq(S) /\ b \in Seq(S)
    BY SeqMonotonic DEF List
  <1>2. /\ a \o b \in Seq(S) /\ Len(a \o b) = Len(a) + Len(b)
        /\ \A k \in 1..Len(a) : (a \o b)[k] = a[k]
        /\ \A k \in 1..Len(b) : (a \o b)[Len(a) + k] = b[k]
    <2> HIDE DEF S
    <2> QED BY <1>1
  <1>3. Range(a \o b) = S
    BY <1>1, RangeConcatenation
  <1>4. a \o b \in Seq(Range(a \o b))
    BY <1>2, <1>3
  <1> QED
    BY <1>2, <1>3, <1>4 DEF List

\* The empty tuple is a list of nothing.
LEMMA ListEmpty == List(<<>>) /\ Range(<<>>) = {} /\ Len(<<>>) = 0
  BY DEF List, Range

\* Every sequence is a list.
LEMMA ListWith ==
    ASSUME NEW S, NEW a \in Seq(S)
    PROVE  List(a)
  BY SeqOfRange DEF List


-----------------------------------------------------------------------------
(***************************************************************************)
(* Names and operands.                                                     *)
(***************************************************************************)

\* The operands t of a list of names.
Values(names, t) == [k \in DOMAIN names |-> t[names[k]]]
\* A structure of which every attribute is the operand of its name.
Carries(w, t) == \A f \in DOMAIN w : w[f] = t[f]

\* The operands of a list of names are a list, place by place.
LEMMA ValuesShape ==
    ASSUME NEW a, NEW t, List(a)
    PROVE  /\ List(Values(a, t)) /\ Len(Values(a, t)) = Len(a)
           /\ \A k \in 1..Len(a) : Values(a, t)[k] = t[a[k]]
  <1> DEFINE v == Values(a, t)
  <1>1. Len(a) \in Nat /\ v = [k \in 1..Len(a) |-> t[a[k]]]
    BY ListShape DEF Values
  <1>2. v \in Seq(Range(v)) /\ Len(v) = Len(a)
    BY <1>1 DEF Range
  <1> QED
    BY <1>1, <1>2 DEF List

\* The operands of two joined lists of names are two joined lists.
LEMMA ValuesJoin ==
    ASSUME NEW a, NEW b, NEW t, List(a), List(b)
    PROVE  Values(a \o b, t) = Values(a, t) \o Values(b, t)
  <1> DEFINE v == Values(a, t)
             w == Values(b, t)
             vw == Values(a \o b, t)
  <1>1. /\ List(v) /\ Len(v) = Len(a) /\ \A k \in 1..Len(a) : v[k] = t[a[k]]
        /\ List(w) /\ Len(w) = Len(b) /\ \A k \in 1..Len(b) : w[k] = t[b[k]]
    BY ValuesShape
  <1>2. Len(a) \in Nat /\ Len(b) \in Nat
    BY ListShape
  <1>3. /\ List(vw) /\ Len(vw) = Len(a) + Len(b)
        /\ \A k \in 1..Len(a) + Len(b) : vw[k] = t[(a \o b)[k]]
    <2>1. List(a \o b) /\ Len(a \o b) = Len(a) + Len(b)
      BY ListJoin
    <2>2. /\ List(vw) /\ Len(vw) = Len(a \o b)
          /\ \A k \in 1..Len(a \o b) : vw[k] = t[(a \o b)[k]]
      <3> DEFINE ab == a \o b
      <3>1. List(ab)
        BY <2>1
      <3> HIDE DEF ab
      <3>2. /\ List(Values(ab, t)) /\ Len(Values(ab, t)) = Len(ab)
            /\ \A k \in 1..Len(ab) : Values(ab, t)[k] = t[ab[k]]
        BY <3>1, ValuesShape
      <3> QED BY <3>2 DEF ab
    <2> QED BY <2>1, <2>2
  <1>4. /\ List(v \o w) /\ Len(v \o w) = Len(a) + Len(b)
        /\ \A k \in 1..Len(a) : (v \o w)[k] = v[k]
        /\ \A k \in 1..Len(b) : (v \o w)[Len(a) + k] = w[k]
    BY ListJoin, <1>1
  <1> HIDE DEF v, w, vw
  <1>5. ASSUME NEW k \in 1..Len(a) + Len(b) PROVE vw[k] = (v \o w)[k]
    <2>1. CASE k \in 1..Len(a)
      BY <2>1, <1>1, <1>3, <1>4, ListJoin
    <2>2. CASE k \notin 1..Len(a)
      <3>1. PICK j \in 1..Len(b) : k = Len(a) + j
        <4>1. k - Len(a) \in 1..Len(b) /\ k = Len(a) + (k - Len(a))
          BY <1>2, <2>2
        <4> QED BY <4>1
      <3>2. (a \o b)[k] = b[j]
        BY <3>1, ListJoin
      <3>3. (v \o w)[k] = w[j]
        BY <3>1, <1>4
      <3> QED BY <3>2, <3>3, <1>1, <1>3
    <2> QED BY <2>1, <2>2
  <1>6. DOMAIN vw = 1..Len(a) + Len(b) /\ DOMAIN (v \o w) = 1..Len(a) + Len(b)
    BY <1>3, <1>4, ListShape
  <1>7. vw \in Seq(Range(vw)) /\ v \o w \in Seq(Range(v \o w))
    BY <1>3, <1>4 DEF List
  <1>8. vw = v \o w
    BY <1>3, <1>4, <1>5, <1>6, <1>7
  <1> QED
    BY <1>8 DEF v, w, vw

\* Cutting two joined lists where the first ends gives them back (SubSeq, Front
\* and Last, the slices of launch()).
LEMMA Cut ==
    ASSUME NEW a, NEW b, List(a), List(b)
    PROVE  /\ SubSeq(a \o b, 1, Len(a)) = a
           /\ SubSeq(a \o b, Len(a) + 1, Len(a \o b)) = b
           /\ Len(b) > 0 => Last(a \o b) = b[Len(b)]
           /\ Len(b) = 1 => Front(a \o b) = a
  <1> DEFINE S == Range(a) \union Range(b)
  <1>1. a \in Seq(S) /\ b \in Seq(S)
    BY SeqMonotonic DEF List
  <1> HIDE DEF S
  <1>2. Len(a) \in Nat /\ Len(b) \in Nat /\ Len(a \o b) = Len(a) + Len(b)
    BY <1>1
  <1>3. SubSeq(a \o b, 1, Len(a)) = a
    BY <1>1, <1>2
  <1>4. SubSeq(a \o b, Len(a) + 1, Len(a \o b)) = b
    BY <1>1, <1>2
  <1>5. Len(b) > 0 => Last(a \o b) = b[Len(b)]
    BY <1>1, <1>2 DEF Last
  <1>6. Len(b) = 1 => Front(a \o b) = a
    BY <1>2, <1>3 DEF Front
  <1> QED
    BY <1>3, <1>4, <1>5, <1>6

\* dict(zip(names, values)) carries every operand under its own name if the values
\* stand in the order of the names; it has all names if there are values enough.
LEMMA NamedCarries ==
    ASSUME NEW names, NEW values, NEW t, List(names), List(values),
           \A k \in 1..Len(names) : k <= Len(values) => values[k] = t[names[k]]
    PROVE  /\ Carries(Named(names, values), t)
           /\ Len(names) <= Len(values) => DOMAIN Named(names, values) = Range(names)
  <1>1. Len(names) \in Nat /\ Len(values) \in Nat
    BY ListShape
  <1> DEFINE m == IF Len(names) < Len(values) THEN Len(names) ELSE Len(values)
             w == Named(names, values)
  <1>2. m \in Nat /\ m <= Len(names) /\ m <= Len(values)
            /\ (Len(names) <= Len(values) => m = Len(names))
    BY <1>1
  <1>3. w = [n \in {names[i] : i \in 1..m} |-> values[CHOOSE i \in 1..m : names[i] = n]]
    BY DEF Named
  <1> HIDE DEF m, w
  <1>4. ASSUME NEW n \in DOMAIN w PROVE w[n] = t[n]
    <2>1. \E i \in 1..m : names[i] = n
      BY <1>3
    <2> DEFINE j == CHOOSE i \in 1..m : names[i] = n
    <2>2. j \in 1..m /\ names[j] = n
      BY <2>1
    <2>3. w[n] = values[j]
      BY <1>3
    <2> HIDE DEF j
    <2>4. j \in 1..Len(names) /\ j <= Len(values)
      BY <2>2, <1>1, <1>2
    <2> QED BY <2>2, <2>3, <2>4
  <1>5. Len(names) <= Len(values) => DOMAIN w = Range(names)
    BY <1>2, <1>3, ListShape
  <1> QED
    BY <1>4, <1>5 DEF Carries, w

\* A structure joined with another carries what both carry.
LEMMA AlsoCarries ==
    ASSUME NEW a, NEW b, NEW t, Carries(a, t), Carries(b, t)
    PROVE  Carries(Also(a, b), t) /\ DOMAIN Also(a, b) = DOMAIN a \union DOMAIN b
  BY DEF Carries, Also

\* What a native structure has room for is still carried.
LEMMA PassedCarries ==
    ASSUME NEW w, NEW room, NEW t, Carries(w, t)
    PROVE  Carries(Passed(w, room), t) /\ DOMAIN Passed(w, room) = DOMAIN w \cap room
  BY DEF Carries, Passed, Restrict

\* An empty structure carries nothing wrong.
LEMMA NothingCarried == \A t : Carries(<<>>, t) /\ DOMAIN <<>> = {}
  BY DEF Carries

-----------------------------------------------------------------------------
(***************************************************************************)
(* Names chosen from a list.                                               *)
(***************************************************************************)

\* The ranks of a set of positions are 1, 2, ... up to their number, in their order.
LEMMA Ranks ==
    ASSUME NEW n \in Nat, NEW at \in SUBSET (1..n)
    PROVE  LET Rank(i) == Cardinality({j \in at : j <= i}) IN
           /\ IsFiniteSet(at) /\ Cardinality(at) \in Nat
           /\ \A i \in at : Rank(i) \in 1..Cardinality(at)
           /\ \A i, j \in at : i < j => Rank(i) < Rank(j)
           /\ \A k \in 1..Cardinality(at) : \E i \in at : Rank(i) = k
  <1> DEFINE Below(i) == {j \in at : j <= i}
             Rank(i) == Cardinality(Below(i))
  <1>1. IsFiniteSet(at) /\ Cardinality(at) \in Nat
    <2>1. IsFiniteSet(1..n)
      BY FS_Interval
    <2> QED BY <2>1, FS_Subset, FS_CardinalityType
  <1>2. \A i \in at : IsFiniteSet(Below(i)) /\ Cardinality(Below(i)) \in Nat
            /\ Rank(i) <= Cardinality(at)
    BY <1>1, FS_Subset, FS_CardinalityType
  <1>3. \A i \in at : Rank(i) >= 1
    <2> SUFFICES ASSUME NEW i \in at PROVE Rank(i) >= 1
      OBVIOUS
    <2>1. i \in Below(i)
      OBVIOUS
    <2>2. Cardinality(Below(i)) # 0
      BY <2>1, <1>2, FS_EmptySet
    <2> QED BY <2>2, <1>2
  <1>4. ASSUME NEW i \in at, NEW j \in at, i < j PROVE Rank(i) < Rank(j)
    <2>1. Below(i) \subseteq Below(j) /\ j \in Below(j) /\ j \notin Below(i)
      <3>1. at \subseteq Int /\ i \in Int /\ j \in Int
        OBVIOUS
      <3>2. \A x \in at : x <= i => x <= j
        BY <3>1, <1>4
      <3>3. j <= j /\ ~(j <= i)
        BY <3>1, <1>4
      <3> QED BY <3>2, <3>3
    <2>2. Cardinality(Below(i)) <= Cardinality(Below(j))
              /\ Cardinality(Below(i)) # Cardinality(Below(j))
      <3>1. Below(i) # Below(j)
        BY <2>1
      <3> HIDE DEF Below
      <3> QED BY <2>1, <3>1, <1>2, FS_Subset
    <2> QED BY <2>2, <1>2
  <1>5. ASSUME NEW k \in 1..Cardinality(at), \A i \in at : Rank(i) # k PROVE FALSE
    <2> DEFINE c == Cardinality(at)
               T == (1..c) \ {k}
               f == [i \in at |-> Rank(i)]
    <2>1. IsFiniteSet(1..c) /\ Cardinality(1..c) = c
      BY <1>1, FS_Interval
    <2>2. IsFiniteSet(T) /\ Cardinality(T) = c - 1
      <3> HIDE DEF c
      <3> QED BY <2>1, <1>5, FS_RemoveElement DEF c
    <2>3. f \in [at -> T]
      BY <1>1, <1>2, <1>3, <1>5
    <2>4. PICK x, y \in at : x # y /\ f[x] = f[y]
      <3>1. Cardinality(T) < Cardinality(at)
        BY <2>2, <1>1
      <3> HIDE DEF T, f
      <3> QED BY <3>1, <2>2, <2>3, <1>1, FS_PigeonHole
    <2>5. x < y \/ y < x
      BY <2>4
    <2>6. Rank(x) \in Nat /\ Rank(y) \in Nat
      BY <1>2
    <2> QED BY <2>4, <2>5, <2>6, <1>4
  <1>6. \A i \in at : Rank(i) \in 1..Cardinality(at)
    BY <1>1, <1>2, <1>3
  <1>7. \A k \in 1..Cardinality(at) : \E i \in at : Rank(i) = k
    BY <1>5
  <1>8. \A i, j \in at : i < j => Rank(i) < Rank(j)
    BY <1>4
  <1> QED
    BY <1>1, <1>6, <1>7, <1>8

\* The names chosen from a list by a set are a list of exactly the names in both.
LEMMA ChosenNames ==
    ASSUME NEW names, NEW S, List(names)
    PROVE  List(Chosen(names, S)) /\ Range(Chosen(names, S)) = Range(names) \cap S
  <1> DEFINE at == {i \in DOMAIN names : names[i] \in S}
             Rank(i) == Cardinality({j \in at : j <= i})
             Place(k) == CHOOSE i \in at : Rank(i) = k
             c == Cardinality(at)
             w == Chosen(names, S)
  <1>0. w = [k \in 1..c |-> names[Place(k)]]
    BY DEF Chosen
  <1>1. Len(names) \in Nat /\ DOMAIN names = 1..Len(names)
        /\ \A x : x \in Range(names) <=> \E k \in 1..Len(names) : names[k] = x
    BY ListShape
  <1>2. at \in SUBSET (1..Len(names)) /\ \A i \in at : names[i] \in S
            /\ names[i] \in Range(names)
    BY <1>1
  <1>3. \A i : i \in 1..Len(names) /\ names[i] \in S => i \in at
    BY <1>1
  <1> HIDE DEF at
  <1>4. /\ c \in Nat
        /\ \A i \in at : Rank(i) \in 1..c
        /\ \A i, j \in at : i < j => Rank(i) < Rank(j)
        /\ \A k \in 1..c : \E i \in at : Rank(i) = k
    BY <1>1, <1>2, Ranks
  <1>5. \A k \in 1..c : Place(k) \in at /\ Rank(Place(k)) = k
    BY <1>4
  <1> HIDE DEF w
  <1>6. \A k \in 1..c : w[k] \in Range(names) \cap S
    BY <1>0, <1>2, <1>5
  <1>7. ASSUME NEW i \in at PROVE \E k \in 1..c : w[k] = names[i]
    <2>1. Rank(i) \in 1..c
      BY <1>4
    <2>2. Place(Rank(i)) \in at /\ Rank(Place(Rank(i))) = Rank(i)
      BY <2>1, <1>5
    <2>3. \A j \in at : Rank(j) \in Nat /\ j \in Int
      BY <1>2, <1>4
    <2> HIDE DEF Rank, Place
    <2>4. Place(Rank(i)) = i
      BY <2>2, <2>3, <1>4
    <2> QED BY <2>1, <2>4, <1>0
  <1>9. DOMAIN w = 1..c
    BY <1>0
  <1>8. w \in Seq(Range(names))
    <2> HIDE DEF c, Place
    <2>1. w \in [1..c -> Range(names)]
      BY <1>0, <1>6
    <2> QED BY <2>1, <1>4
  <1>10. \A x : x \in Range(w) => x \in Range(names) \cap S
    BY <1>6, <1>9 DEF Range
  <1>11. \A x : x \in Range(names) \cap S => x \in Range(w)
    BY <1>7, <1>9, <1>1, <1>3 DEF Range
  <1> QED
    BY <1>8, <1>10, <1>11, ListWith DEF w

\* Of a single name a set chooses that name or nothing.
LEMMA ChosenOne ==
    ASSUME NEW x, NEW S
    PROVE  Chosen(<<x>>, S) = IF x \in S THEN <<x>> ELSE <<>>
  <1> DEFINE at == {i \in DOMAIN <<x>> : <<x>>[i] \in S}
             Place(k) == CHOOSE i \in at : Cardinality({j \in at : j <= i}) = k
  <1>1. DOMAIN <<x>> = {1} /\ <<x>>[1] = x
    OBVIOUS
  <1>2. Chosen(<<x>>, S) = [k \in 1..Cardinality(at) |-> <<x>>[Place(k)]]
    BY DEF Chosen
  <1>3. CASE x \in S
    <2>1. at = {1} /\ Cardinality(at) = 1
      <3>1. at = {1}
        BY <1>1, <1>3
      <3> QED BY <3>1, FS_Singleton
    <2>2. {j \in at : j <= 1} = {1} /\ Cardinality({1}) = 1
      BY <2>1, FS_Singleton
    <2>3. Place(1) = 1
      BY <2>1, <2>2
    <2> HIDE DEF at, Place
    <2>4. Chosen(<<x>>, S) = [k \in {1} |-> <<x>>[Place(k)]]
      <3>1. 1..1 = {1}
        OBVIOUS
      <3> QED BY <3>1, <2>1, <1>2
    <2>5. Chosen(<<x>>, S) = [k \in {1} |-> x]
      BY <2>3, <2>4, <1>1
    <2>6. <<x>> = [k \in {1} |-> x]
      OBVIOUS
    <2> QED BY <2>5, <2>6, <1>3
  <1>4. CASE x \notin S
    <2>1. at = {} /\ Cardinality(at) = 0
      <3>1. at = {}
        BY <1>1, <1>4
      <3> QED BY <3>1, FS_EmptySet
    <2> HIDE DEF at, Place
    <2>2. 1..0 = {}
      OBVIOUS
    <2> QED BY <2>1, <2>2, <1>2, <1>4
  <1> QED BY <1>3, <1>4

\* Cutting the middle out of three joined lists.
LEMMA Middle ==
    ASSUME NEW a, NEW b, NEW c, List(a), List(b), List(c)
    PROVE  SubSeq(a \o b \o c, Len(a) + 1, Len(a) + Len(b)) = b
  <1> DEFINE S == Range(a) \union Range(b) \union Range(c)
  <1>1. a \in Seq(S) /\ b \in Seq(S) /\ c \in Seq(S)
    BY SeqMonotonic DEF List
  <1> HIDE DEF S
  <1>2. Len(a) \in Nat /\ Len(b) \in Nat /\ Len(c) \in Nat
    BY <1>1
  <1> QED
    BY <1>1, <1>2

\* A list of names zipped with its own operands.
LEMMA NamedAll ==
    ASSUME NEW a, NEW t, List(a)
    PROVE  Carries(Named(a, Values(a, t)), t) /\ DOMAIN Named(a, Values(a, t)) = Range(a)
  <1>1. /\ List(Values(a, t)) /\ Len(Values(a, t)) = Len(a) /\ Len(a) \in Nat
        /\ \A k \in 1..Len(a) : Values(a, t)[k] = t[a[k]]
    BY ValuesShape, ListShape
  <1> QED
    BY <1>1, NamedCarries

\* Two joined lists of names zipped with their joined operands.
LEMMA NamedBoth ==
    ASSUME NEW a, NEW b, NEW t, List(a), List(b)
    PROVE  LET w == Named(a \o b, Values(a, t) \o Values(b, t))
           IN  Carries(w, t) /\ DOMAIN w = Range(a) \union Range(b)
  <1> DEFINE ab == a \o b
  <1>1. List(ab) /\ Range(ab) = Range(a) \union Range(b)
    BY ListJoin
  <1>2. Values(a, t) \o Values(b, t) = Values(ab, t)
    BY ValuesJoin
  <1> HIDE DEF ab
  <1>4. Carries(Named(ab, Values(ab, t)), t) /\ DOMAIN Named(ab, Values(ab, t)) = Range(ab)
    BY <1>1, NamedAll
  <1> QED
    BY <1>1, <1>2, <1>4 DEF ab

\* A list of names zipped with its operands and more behind them.
LEMMA NamedFirst ==
    ASSUME NEW a, NEW b, NEW t, List(a), List(b)
    PROVE  LET w == Named(a, Values(a \o b, t))
           IN  Carries(w, t) /\ DOMAIN w = Range(a)
  <1> DEFINE ab == a \o b
  <1>1. /\ List(ab) /\ Len(ab) = Len(a) + Len(b) /\ Len(a) \in Nat /\ Len(b) \in Nat
        /\ \A k \in 1..Len(a) : ab[k] = a[k]
    BY ListJoin, ListShape
  <1> HIDE DEF ab
  <1>2. /\ List(Values(ab, t)) /\ Len(Values(ab, t)) = Len(ab)
        /\ \A k \in 1..Len(a) : Values(ab, t)[k] = t[a[k]]
    BY <1>1, ValuesShape
  <1>3. Carries(Named(a, Values(ab, t)), t) /\ DOMAIN Named(a, Values(ab, t)) = Range(a)
    BY <1>1, <1>2, NamedCarries
  <1> QED
    BY <1>3 DEF ab

-----------------------------------------------------------------------------
(***************************************************************************)
(* The operand lists of each operator.                                     *)
(***************************************************************************)

\* The operand lists of a commit (PreparedGDNCommit).
LEMMA CommitLists ==
    /\ List(CommitInputs)
    /\ Range(CommitInputs) =
           {"delta", "keys", "decays", "slots", "recorded_slots", "counts", "live",
      "recorded_lengths"}
    /\ List(CommitBuffers) /\ Range(CommitBuffers) = {"state", "errors"}
    /\ CommitBuffers[1] = "state" /\ CommitBuffers[2] = "errors" /\ Len(CommitBuffers) = 2
  <1> DEFINE S == {"delta", "keys", "decays", "slots", "recorded_slots", "counts", "live",
      "recorded_lengths", "state", "errors"}
  <1>1. CommitInputs \in Seq(S) /\ CommitBuffers \in Seq(S)
    BY DEF CommitInputs, CommitBuffers
  <1>2. Range(CommitInputs) =
            {"delta", "keys", "decays", "slots", "recorded_slots", "counts", "live",
      "recorded_lengths"}
    BY DEF CommitInputs, Range
  <1>3. Range(CommitBuffers) = {"state", "errors"}
    BY DEF CommitBuffers, Range
  <1> QED BY <1>1, <1>2, <1>3, ListWith DEF CommitBuffers

\* The operand lists of the paged QSA step (PreparedQSA).
LEMMA QsaLists ==
    List(QsaRead) /\ List(QsaCaches) /\ List(QsaWorkspace) /\ List(QsaWrite)
    /\ Range(QsaWrite) = Range(QsaCaches) \union Range(QsaWorkspace)
  <1>1. List(QsaRead)
    <2> DEFINE S == {"query", "new_key", "new_value", "index_query", "raw_key",
                   "query_weight",
      "key_weight", "cosine", "sine", "request_ids", "positions", "rope_positions",
      "raw_slots", "slot_mapping", "starts", "live", "lengths", "accepted_previous",
      "prefilling", "main_table", "compressed_table"}
    <2>1. QsaRead \in Seq(S)
      BY DEF QsaRead
    <2> QED BY <2>1, ListWith
  <1>2. List(QsaCaches)
    <2> DEFINE S == {"key_cache", "value_cache", "compressed_cache", "raw_ring", "raw_tags",
      "raw_rope", "anchors"}
    <2>1. QsaCaches \in Seq(S)
      BY DEF QsaCaches
    <2> QED BY <2>1, ListWith
  <1>3. List(QsaWorkspace)
    <2> DEFINE S == {"encoded_query", "selected", "selected_count", "selected_groups",
      "selected_scores", "output", "errors"}
    <2>1. QsaWorkspace \in Seq(S)
      BY DEF QsaWorkspace
    <2> QED BY <2>1, ListWith
  <1> QED BY <1>1, <1>2, <1>3, ListJoin DEF QsaWrite

\* The operand lists of the retained chunk core (PreparedGDNCore).
LEMMA CoreLists ==
    /\ List(CoreWorkspace)
           /\ Range(CoreWorkspace) = {"inverse", "snapshots", "vnew", "gates"}
    /\ List(<<"q", "k", "v", "g", "beta">>)
    /\ Range(<<"q", "k", "v", "g", "beta">>) = {"q", "k", "v", "g", "beta"}
  <1> DEFINE S == {"q", "k", "v", "g", "beta", "inverse", "snapshots", "vnew", "gates"}
  <1>1. CoreWorkspace \in Seq(S) /\ <<"q", "k", "v", "g", "beta">> \in Seq(S)
    BY DEF CoreWorkspace
  <1>2. Range(CoreWorkspace) = {"inverse", "snapshots", "vnew", "gates"}
    BY DEF CoreWorkspace, Range
  <1>3. Range(<<"q", "k", "v", "g", "beta">>) = {"q", "k", "v", "g", "beta"}
    BY DEF Range
  <1> QED BY <1>1, <1>2, <1>3, ListWith

\* A list of one name.
LEMMA SingleList == \A x : List(<<x>>) /\ Range(<<x>>) = {x} /\ Len(<<x>>) = 1
    /\ <<x>>[1] = x
  <1> TAKE x
  <1>1. <<x>> \in Seq({x})
    OBVIOUS
  <1>2. Len(<<x>>) = 1 /\ DOMAIN <<x>> = {1} /\ <<x>>[1] = x
    OBVIOUS
  <1>3. Range(<<x>>) = {x}
    BY <1>2 DEF Range
  <1>4. List(<<x>>)
    BY <1>1, ListWith
  <1> QED BY <1>2, <1>3, <1>4

\* A list of two names.
LEMMA PairList ==
    \A x, y : /\ List(<<x, y>>) /\ Range(<<x, y>>) = {x, y} /\ Len(<<x, y>>) = 2
              /\ <<x, y>>[1] = x /\ <<x, y>>[2] = y
  <1> TAKE x, y
  <1>1. <<x, y>> \in Seq({x, y})
    OBVIOUS
  <1>2. Len(<<x, y>>) = 2 /\ DOMAIN <<x, y>> = {1, 2} /\ <<x, y>>[1] = x /\ <<x, y>>[2] = y
    OBVIOUS
  <1>3. Range(<<x, y>>) = {x, y}
    BY <1>2 DEF Range
  <1>4. List(<<x, y>>)
    BY <1>1, ListWith
  <1> QED BY <1>2, <1>3, <1>4

\* The fixed parts of the operand lists of GDN (PreparedGDN).
LEMMA GdnLists ==
    /\ List(<<"mixed", "a", "b", "a_log", "dt_bias", "starts", "live", "initial_slots",
      "final_slots">>)
    /\ Range(<<"mixed", "a", "b", "a_log", "dt_bias", "starts", "live", "initial_slots",
      "final_slots">>) =
          {"mixed", "a", "b", "a_log", "dt_bias", "starts", "live", "initial_slots",
      "final_slots"}
    /\ List(<<"queries", "keys", "decays", "betas", "errors">>)
    /\ Range(<<"queries", "keys", "decays", "betas", "errors">>) =
           {"queries", "keys", "decays", "betas", "errors"}
    /\ List(<<"delta", "recorded_lengths", "recorded_slots">>)
    /\ Range(<<"delta", "recorded_lengths", "recorded_slots">>) =
           {"delta", "recorded_lengths", "recorded_slots"}
    /\ List(<<"q", "k", "v", "beta", "log_g", "packed_output", "initial_kv", "final_kv",
            "inverse", "snapshots", "vnew", "gates">>)
    /\ Range(<<"q", "k", "v", "beta", "log_g", "packed_output", "initial_kv", "final_kv",
            "inverse", "snapshots", "vnew", "gates">>) = PrefillStruct
  <1>1. <<"mixed", "a", "b", "a_log", "dt_bias", "starts", "live", "initial_slots",
      "final_slots">> \in
          Seq({"mixed", "a", "b", "a_log", "dt_bias", "starts", "live", "initial_slots",
      "final_slots"})
    OBVIOUS
  <1>2. Range(<<"mixed", "a", "b", "a_log", "dt_bias", "starts", "live", "initial_slots",
      "final_slots">>) =
          {"mixed", "a", "b", "a_log", "dt_bias", "starts", "live", "initial_slots",
      "final_slots"}
    BY DEF Range
  <1>3. /\ <<"queries", "keys", "decays", "betas", "errors">> \in
               Seq({"queries", "keys", "decays", "betas", "errors"})
        /\ <<"delta", "recorded_lengths", "recorded_slots">> \in
               Seq({"delta", "recorded_lengths", "recorded_slots"})
    OBVIOUS
  <1>4. /\ Range(<<"queries", "keys", "decays", "betas", "errors">>) =
               {"queries", "keys", "decays", "betas", "errors"}
        /\ Range(<<"delta", "recorded_lengths", "recorded_slots">>) =
               {"delta", "recorded_lengths", "recorded_slots"}
    BY DEF Range
  <1>5. <<"q", "k", "v", "beta", "log_g", "packed_output", "initial_kv", "final_kv",
            "inverse", "snapshots", "vnew", "gates">> \in Seq(PrefillStruct)
    BY DEF PrefillStruct
  <1>6. Range(<<"q", "k", "v", "beta", "log_g", "packed_output", "initial_kv", "final_kv",
            "inverse", "snapshots", "vnew", "gates">>) = PrefillStruct
    BY DEF PrefillStruct, Range
  <1> QED BY <1>1, <1>2, <1>3, <1>4, <1>5, <1>6, ListWith

\* The value lists of the auxiliaries (PreparedAuxiliary).
LEMMA AuxLists ==
    /\ List(ShortConvValues) /\ List(HistoryValues) /\ List(HashValues)
    /\ Range(ShortConvValues) =
         {"x", "weight", "state", "output", "fresh", "previous_accepted", "errors"}
    /\ Range(HistoryValues) = {"state", "snapshot", "stamps", "consumed_prefix", "errors"}
    /\ Range(HashValues) =
           {"tokens", "history", "multipliers", "primes", "offsets", "hashes",
               "request_ids",
      "errors"}
    /\ \A op : /\ List(RowNames(op)) /\ Range(RowNames(op)) = Given(op, RowsStruct)
               /\ List(PointwiseValues(op))
                      /\ Range(PointwiseValues(op)) = Given(op, PointwiseStruct)
  <1>1. List(ShortConvValues)
    <2>1. ShortConvValues \in
              Seq({"x", "weight", "state", "output", "fresh", "previous_accepted",
                  "errors"})
      BY DEF ShortConvValues
    <2> QED BY <2>1, ListWith
  <1>2. List(HistoryValues)
    <2>1. HistoryValues \in
              Seq({"state", "snapshot", "stamps", "consumed_prefix", "errors"})
      BY DEF HistoryValues
    <2> QED BY <2>1, ListWith
  <1>3. List(HashValues)
    <2>1. HashValues \in
              Seq({"tokens", "history", "multipliers", "primes", "offsets", "hashes",
                  "request_ids",
      "errors"})
      BY DEF HashValues
    <2> QED BY <2>1, ListWith
  <1>4. Range(ShortConvValues) =
         {"x", "weight", "state", "output", "fresh", "previous_accepted", "errors"}
    BY DEF Range, ShortConvValues
  <1>5. Range(HistoryValues) = {"state", "snapshot", "stamps", "consumed_prefix", "errors"}
    BY DEF Range, HistoryValues
  <1>6. Range(HashValues) =
            {"tokens", "history", "multipliers", "primes", "offsets", "hashes",
                "request_ids",
      "errors"}
    BY DEF Range, HashValues
  <1>7. ASSUME NEW op
        PROVE  List(RowNames(op)) /\ Range(RowNames(op)) = Given(op, RowsStruct)
    <2> DEFINE names == <<"rows_starts", "rows_slots", "rows_num_seqs", "rows_num_tokens",
                   "rows_upstream_errors">>
    <2>1. names \in Seq(RowsStruct)
      BY DEF RowsStruct
    <2>2. Range(names) = RowsStruct
      BY DEF RowsStruct, Range
    <2>3. RowNames(op) = Chosen(names, op.opts)
      BY DEF RowNames, Optional
    <2> HIDE DEF names
    <2> QED BY <2>1, <2>2, <2>3, ListWith, ChosenNames DEF Given
  <1>8. ASSUME NEW op
        PROVE  List(PointwiseValues(op))
                   /\ Range(PointwiseValues(op)) = Given(op, PointwiseStruct)
    <2> DEFINE names == <<"x", "weight", "gate", "value", "output", "combined", "trace",
                   "errors">>
    <2>1. names \in Seq(PointwiseStruct)
      BY DEF PointwiseStruct
    <2>2. Range(names) = PointwiseStruct
      BY DEF PointwiseStruct, Range
    <2>3. PointwiseValues(op) = Chosen(names, op.opts)
      BY DEF PointwiseValues, Optional
    <2> HIDE DEF names
    <2> QED BY <2>1, <2>2, <2>3, ListWith, ChosenNames DEF Given
  <1> QED BY <1>1, <1>2, <1>3, <1>4, <1>5, <1>6, <1>7, <1>8

-----------------------------------------------------------------------------
(***************************************************************************)
(* What a binding promises.                                                *)
(***************************************************************************)

\* What the bindings promise about the operator op: its kernels write only declared
\* buffers, touch only listed and checked operands, and are handed all they touch.
Delivered(op, t) == Arguments(op, Values(Inputs(op), t), Values(Buffers(op), t))
Sound(op) ==
    /\ List(Inputs(op)) /\ List(Buffers(op))
    /\ KernelWrites(op) \subseteq Range(Buffers(op))
    /\ KernelReads(op) \subseteq Fields(op)
    /\ KernelFields(op) \subseteq Checked(op)
    /\ \A t : Carries(Delivered(op, t), t)
           /\ KernelFields(op) \subseteq DOMAIN Delivered(op, t)

\* A commit finds every operand of its native structure (PreparedGDNCommit.arguments).
LEMMA CommitDelivers ==
    ASSUME NEW t
    PROVE  LET w == CommitArguments(Values(CommitInputs, t), Values(CommitBuffers, t))
           IN  Carries(w, t) /\ DOMAIN w = CommitStruct
  <1> DEFINE ins == Values(CommitInputs, t)
             bufs == Values(CommitBuffers, t)
             own == [state |-> bufs[1], errors |-> bufs[2]]
             named == Named(CommitInputs, ins)
  <1>1. bufs[1] = t["state"] /\ bufs[2] = t["errors"]
    BY CommitLists, ValuesShape
  <1>2. Carries(own, t) /\ DOMAIN own = {"state", "errors"}
    BY <1>1 DEF Carries
  <1>3. Carries(named, t) /\ DOMAIN named = Range(CommitInputs)
    BY CommitLists, NamedAll
  <1>4. CommitArguments(ins, bufs) = Passed(Also(own, named), CommitStruct)
    BY DEF CommitArguments
  <1> HIDE DEF ins, bufs, own, named
  <1>5. Carries(Also(own, named), t)
            /\ DOMAIN Also(own, named) = DOMAIN own \union DOMAIN named
    BY <1>2, <1>3, AlsoCarries
  <1>6. /\ Carries(Passed(Also(own, named), CommitStruct), t)
        /\ DOMAIN Passed(Also(own, named), CommitStruct) =
               DOMAIN Also(own, named) \cap CommitStruct
    BY <1>5, PassedCarries
  <1>7. (DOMAIN own \union DOMAIN named) \cap CommitStruct = CommitStruct
    BY <1>2, <1>3, CommitLists DEF CommitStruct
  <1> QED
    BY <1>4, <1>5, <1>6, <1>7 DEF ins, bufs

\* The commit binding is sound.
LEMMA CommitSound ==
    ASSUME NEW op, op.kind = "commit" PROVE Sound(op)
  <1>1. Inputs(op) = CommitInputs /\ Buffers(op) = CommitBuffers
    BY DEF Inputs, Buffers, AuxKinds
  <1>2. KernelWrites(op) = {"state", "errors"} /\ KernelReads(op) = CommitRead
            /\ Checked(op) = CommitChecked
    BY DEF KernelWrites, KernelReads, Checked, AuxKinds
  <1>3. ASSUME NEW t
        PROVE  Carries(Delivered(op, t), t)
                   /\ KernelFields(op) \subseteq DOMAIN Delivered(op, t)
    <2>1. Delivered(op, t) =
              CommitArguments(Values(CommitInputs, t), Values(CommitBuffers, t))
      BY <1>1 DEF Delivered, Arguments, AuxKinds
    <2>2. KernelFields(op) \subseteq CommitStruct
      BY <1>2 DEF KernelFields, CommitRead, CommitStruct
    <2> QED BY <2>1, <2>2, CommitDelivers
  <1>4. KernelReads(op) \subseteq Fields(op)
    BY <1>1, <1>2, CommitLists DEF Fields, CommitRead
  <1>5. KernelFields(op) \subseteq Checked(op)
    BY <1>2 DEF KernelFields, CommitRead, CommitChecked
  <1> QED BY <1>1, <1>2, <1>3, <1>4, <1>5, CommitLists DEF Sound

\* The bindings of the legacy history transport are sound.
LEMMA ConvSound ==
    ASSUME NEW op, op.kind \in {"capture", "rollback"} PROVE Sound(op)
  <1> DEFINE R == ConvReads(op)
             W == ConvWrites(op)
  <1>1. Inputs(op) = R /\ Buffers(op) = W
    BY DEF Inputs, Buffers, AuxKinds
  <1>2. /\ List(R) /\ List(W)
        /\ Range(R) = IF op.kind = "rollback"
                      THEN {"snapshot", "slots", "recorded_slots", "live", "counts"}
                      ELSE {"state", "slots", "live", "counts"}
        /\ Range(W) = IF op.kind = "rollback" THEN {"state", "errors"}
                      ELSE {"snapshot", "recorded_slots", "errors"}
    <2>1. R \in Seq(ConvStruct) /\ W \in Seq(ConvStruct)
      <3>1. CASE op.kind = "rollback"
        BY <3>1 DEF ConvReads, ConvWrites, ConvStruct
      <3>2. CASE op.kind # "rollback"
        BY <3>2 DEF ConvReads, ConvWrites, ConvStruct
      <3> QED BY <3>1, <3>2
    <2>2. /\ Range(R) = IF op.kind = "rollback"
                      THEN {"snapshot", "slots", "recorded_slots", "live", "counts"}
                      ELSE {"state", "slots", "live", "counts"}
          /\ Range(W) = IF op.kind = "rollback" THEN {"state", "errors"}
                      ELSE {"snapshot", "recorded_slots", "errors"}
      BY DEF ConvReads, ConvWrites, Range
    <2> QED BY <2>1, <2>2, ListWith
  <1> HIDE DEF R, W
  <1>3. /\ KernelWrites(op) = Range(W) /\ KernelReads(op) \subseteq Range(R) \union Range(W)
        /\ Checked(op) = ConvStruct
    BY <1>2 DEF KernelWrites, KernelReads, Checked, ConvChecked, AuxKinds
  <1>4. Range(R) \union Range(W) \subseteq ConvStruct
    BY <1>2 DEF ConvStruct
  <1>5. ASSUME NEW t
        PROVE  Carries(Delivered(op, t), t)
                   /\ KernelFields(op) \subseteq DOMAIN Delivered(op, t)
    <2> DEFINE named == Named(R \o W, Values(R, t) \o Values(W, t))
    <2>1. Delivered(op, t) = Passed(named, ConvStruct)
      BY <1>1 DEF Delivered, Arguments, ConvArguments, R, W, AuxKinds
    <2>2. Carries(named, t) /\ DOMAIN named = Range(R) \union Range(W)
      BY <1>2, NamedBoth
    <2> HIDE DEF named
    <2>3. KernelFields(op) \subseteq DOMAIN named \cap ConvStruct
      BY <2>2, <1>3, <1>4 DEF KernelFields
    <2>4. Carries(Passed(named, ConvStruct), t)
              /\ DOMAIN Passed(named, ConvStruct) = DOMAIN named \cap ConvStruct
      BY <2>2, PassedCarries
    <2> QED BY <2>1, <2>3, <2>4
  <1> QED BY <1>1, <1>2, <1>3, <1>4, <1>5 DEF Sound, Fields, KernelFields

\* The binding of the paged QSA step is sound.
LEMMA QsaSound ==
    ASSUME NEW op, op.kind = "qsa" PROVE Sound(op)
  <1>1. Inputs(op) = QsaRead /\ Buffers(op) = QsaWrite
    BY DEF Inputs, Buffers, AuxKinds
  <1>2. /\ KernelWrites(op) = Range(QsaWrite)
               /\ KernelReads(op) = Range(QsaRead) \union Range(QsaCaches)
        /\ Checked(op) = Range(QsaRead) \union Range(QsaWrite)
    BY DEF KernelWrites, KernelReads, Checked, QsaChecked, QsaStruct, AuxKinds
  <1>3. ASSUME NEW t
        PROVE  Carries(Delivered(op, t), t)
                   /\ KernelFields(op) \subseteq DOMAIN Delivered(op, t)
    <2> DEFINE named == Named(QsaRead \o QsaWrite,
                   Values(QsaRead, t) \o Values(QsaWrite, t))
    <2>1. Delivered(op, t) = Passed(named, Range(QsaRead) \union Range(QsaWrite))
      BY <1>1 DEF Delivered, Arguments, QsaArguments, QsaStruct, AuxKinds
    <2>2. Carries(named, t) /\ DOMAIN named = Range(QsaRead) \union Range(QsaWrite)
      BY QsaLists, NamedBoth
    <2> HIDE DEF named
    <2>3. KernelFields(op) \subseteq DOMAIN named
      BY <2>2, <1>2, QsaLists DEF KernelFields
    <2> DEFINE room == Range(QsaRead) \union Range(QsaWrite)
    <2> HIDE DEF room
    <2>4. Carries(Passed(named, room), t)
              /\ DOMAIN Passed(named, room) = DOMAIN named \cap room
      BY <2>2, PassedCarries
    <2>5. KernelFields(op) \subseteq DOMAIN Passed(named, room)
      BY <2>2, <2>3, <2>4 DEF room
    <2> QED BY <2>1, <2>4, <2>5 DEF room
  <1> QED BY <1>1, <1>2, <1>3, QsaLists DEF Sound, Fields, KernelFields

\* The bindings of the auxiliaries are sound, whichever optional values and rows
\* they are given; a pointwise kernel must have its output and its error vector.
LEMMA AuxSound ==
    ASSUME NEW op, op.kind \in AuxKinds,
           op.kind = "pointwise" => {"output", "errors"} \subseteq op.opts
    PROVE  Sound(op)
  <1> DEFINE names == AuxNames(op)
             R == AuxInputs(op)
             W == AuxBuffers(op)
             V == CASE op.kind = "pointwise" -> Given(op, PointwiseStruct)
                    [] op.kind = "shortconv" ->
                         {"x", "weight", "state", "output", "fresh", "previous_accepted",
                             "errors"}
                    [] op.kind \in {"snapshot", "restore"} ->
                         {"state", "snapshot", "stamps", "consumed_prefix", "errors"}
                    [] op.kind = "hash" ->
                         {"tokens", "history", "multipliers", "primes", "offsets", "hashes",
                          "request_ids", "errors"}
  <1>1. Inputs(op) = R /\ Buffers(op) = W
    BY DEF Inputs, Buffers, AuxKinds
  <1>2. List(AuxValues(op)) /\ Range(AuxValues(op)) = V
    BY AuxLists DEF AuxValues, AuxKinds
  <1>3. List(names) /\ Range(names) = Given(op, RowsStruct) \union V
    <2>1. List(RowNames(op)) /\ Range(RowNames(op)) = Given(op, RowsStruct)
      BY AuxLists
    <2>2. names = RowNames(op) \o AuxValues(op)
      BY DEF AuxNames
    <2> HIDE DEF V, names
    <2> QED BY <1>2, <2>1, <2>2, ListJoin
  <1> HIDE DEF names
  <1>4. /\ List(R) /\ Range(R) = Range(names) \cap (Range(names) \ AuxWrites(op))
        /\ List(W) /\ Range(W) = Range(names) \cap AuxWrites(op)
    BY <1>3, ChosenNames DEF AuxInputs, AuxBuffers, names
  <1>5. Range(R) \union Range(W) = Range(names)
    BY <1>4
  <1>6. KernelWrites(op) \subseteq Range(W)
    <2>1. KernelWrites(op) \subseteq AuxWrites(op) /\ KernelWrites(op) \subseteq V
      BY DEF KernelWrites, AuxWrites, PointwiseWrites, ShortConvWrites, HistoryWrites,
             HashWrites, AuxKinds, Given, PointwiseStruct
    <2> QED BY <2>1, <1>3, <1>4
  <1>7. KernelReads(op) \subseteq Range(names)
    BY <1>3 DEF KernelReads, Given, PointwiseStruct, AuxKinds
  <1>8. Range(names) \subseteq AuxStruct(op) \union RowsStruct
    BY <1>3 DEF AuxStruct, AuxKinds, Given, PointwiseStruct, ShortConvStruct, HashStruct
  <1>9. Checked(op) = Range(R) \union Range(W)
    BY DEF Checked, AuxChecked, AuxKinds
  <1> HIDE DEF R, W, V
  <1>10. ASSUME NEW t
         PROVE  Carries(Delivered(op, t), t)
                    /\ KernelFields(op) \subseteq DOMAIN Delivered(op, t)
    <2> DEFINE named == Named(R \o W, Values(R, t) \o Values(W, t))
    <2>1. Delivered(op, t) = Passed(named, AuxStruct(op) \union RowsStruct)
      BY <1>1 DEF Delivered, Arguments, AuxArguments, R, W, AuxKinds
    <2>2. Carries(named, t) /\ DOMAIN named = Range(names)
      BY <1>4, <1>5, NamedBoth
    <2> HIDE DEF named
    <2> DEFINE room == AuxStruct(op) \union RowsStruct
    <2> HIDE DEF room
    <2>3. KernelFields(op) \subseteq DOMAIN named \cap room
      BY <2>2, <1>4, <1>6, <1>7, <1>8 DEF KernelFields, room
    <2>4. Carries(Passed(named, room), t)
              /\ DOMAIN Passed(named, room) = DOMAIN named \cap room
      BY <2>2, PassedCarries
    <2> QED BY <2>1, <2>3, <2>4 DEF room
  <1> QED BY <1>1, <1>4, <1>5, <1>6, <1>7, <1>9, <1>10 DEF Sound, Fields, KernelFields

-----------------------------------------------------------------------------
(***************************************************************************)
(* GDN.                                                                    *)
(***************************************************************************)

\* The last of two joined lists, the second of which has one element.
LEMMA LastOf ==
    ASSUME NEW a, NEW b, List(a), List(b), Len(b) = 1
    PROVE  Last(a \o b) = b[1]
  <1>1. Len(b) > 0 => Last(a \o b) = b[Len(b)]
    BY Cut
  <1>2. 1 > 0
    OBVIOUS
  <1> QED
    BY <1>1, <1>2

\* What stands in the operand lists of a GDN operator.
GdnSets(op) ==
    /\ List(GdnInputNames(op)) /\ List(GdnInputs(op)) /\ List(GdnWorkspace(op))
           /\ List(GdnBuffers(op))
    /\ Range(GdnInputNames(op)) =
         {"mixed", "a", "b", "a_log", "dt_bias", "starts", "live", "initial_slots",
             "final_slots"}
         \union Given(op, {"checkpoint_slots", "checkpoint_offsets"})
    /\ Range(GdnInputs(op)) =
         Range(GdnInputNames(op)) \union (IF op.mode = "verify" THEN {"state"} ELSE {})
    /\ Range(GdnWorkspace(op)) =
         {"queries", "keys", "decays", "betas", "errors"}
         \union (IF op.mode =
             "verify" THEN {"delta", "recorded_lengths", "recorded_slots"} ELSE {})
         \union (IF GdnNative(op) THEN PrefillStruct ELSE {})
    /\ Range(GdnBuffers(op)) =
         {"output"} \union Range(GdnWorkspace(op))
         \union (IF op.mode = "verify" THEN {} ELSE {"state"})

\* GdnSets holds for every mode and target.
LEMMA GdnShape == ASSUME NEW op PROVE GdnSets(op)
  <1> DEFINE nine == <<"mixed", "a", "b", "a_log", "dt_bias", "starts", "live",
                 "initial_slots",
                       "final_slots">>
             pair == <<"checkpoint_slots", "checkpoint_offsets">>
             five == <<"queries", "keys", "decays", "betas", "errors">>
             three == IF op.mode =
                 "verify" THEN <<"delta", "recorded_lengths", "recorded_slots">>
                      ELSE <<>>
             twelve == IF GdnNative(op)
                       THEN <<"q", "k", "v", "beta", "log_g", "packed_output",
                           "initial_kv", "final_kv",
                              "inverse", "snapshots", "vnew", "gates">>
                       ELSE <<>>
             tail == IF op.mode = "verify" THEN <<"state">> ELSE <<>>
             last_ == IF op.mode = "verify" THEN <<>> ELSE <<"state">>
  <1>1. List(Optional(op, pair))
            /\ Range(Optional(op, pair)) =
                   Given(op, {"checkpoint_slots", "checkpoint_offsets"})
    <2>1. List(pair) /\ Range(pair) = {"checkpoint_slots", "checkpoint_offsets"}
      BY PairList
    <2> HIDE DEF pair
    <2> QED BY <2>1, ChosenNames DEF Optional, Given
  <1>2. /\ List(nine)
        /\ Range(nine) =
               {"mixed", "a", "b", "a_log", "dt_bias", "starts", "live", "initial_slots",
                   "final_slots"}
        /\ List(five) /\ Range(five) = {"queries", "keys", "decays", "betas", "errors"}
    BY GdnLists
  <1>3. /\ List(three)
        /\ Range(three) = IF op.mode =
               "verify" THEN {"delta", "recorded_lengths", "recorded_slots"} ELSE {}
    BY GdnLists, ListEmpty
  <1>4. List(twelve) /\ Range(twelve) = IF GdnNative(op) THEN PrefillStruct ELSE {}
    BY GdnLists, ListEmpty
  <1>5. /\ List(tail) /\ Range(tail) = IF op.mode = "verify" THEN {"state"} ELSE {}
        /\ List(last_) /\ Range(last_) = IF op.mode = "verify" THEN {} ELSE {"state"}
    BY SingleList, ListEmpty
  <1>6. /\ GdnInputNames(op) = nine \o Optional(op, pair)
        /\ GdnInputs(op) = GdnInputNames(op) \o tail
        /\ GdnWorkspace(op) = five \o three \o twelve
        /\ GdnBuffers(op) = <<"output">> \o GdnWorkspace(op) \o last_
    BY DEF GdnInputNames, GdnInputs, GdnWorkspace, GdnBuffers
  <1> HIDE DEF nine, pair, five, three, twelve, tail, last_
  <1>7. /\ List(GdnInputNames(op))
        /\ Range(GdnInputNames(op)) = Range(nine) \union Range(Optional(op, pair))
    BY <1>1, <1>2, <1>6, ListJoin
  <1>8. List(GdnInputs(op))
            /\ Range(GdnInputs(op)) = Range(GdnInputNames(op)) \union Range(tail)
    BY <1>5, <1>6, <1>7, ListJoin
  <1>9. List(five \o three) /\ Range(five \o three) = Range(five) \union Range(three)
    BY <1>2, <1>3, ListJoin
  <1>10. /\ List(GdnWorkspace(op))
         /\ Range(GdnWorkspace(op)) = Range(five) \union Range(three) \union Range(twelve)
    BY <1>4, <1>6, <1>9, ListJoin
  <1>11. /\ List(<<"output">> \o GdnWorkspace(op))
         /\ Range(<<"output">> \o GdnWorkspace(op)) =
                {"output"} \union Range(GdnWorkspace(op))
    BY <1>10, SingleList, ListJoin
  <1>12. /\ List(GdnBuffers(op))
         /\ Range(GdnBuffers(op)) =
                {"output"} \union Range(GdnWorkspace(op)) \union Range(last_)
    BY <1>5, <1>6, <1>11, ListJoin
  <1> QED
    BY <1>1, <1>2, <1>3, <1>4, <1>5, <1>7, <1>8, <1>10, <1>12 DEF GdnSets

\* What the GDN kernels touch.
GdnUses(op) == GdnRead(op) \union GdnWritten(op)

\* The GDN kernels touch only listed operands that the constructor checks and the
\* structure has room for; they write only buffers.
LEMMA GdnBasics ==
    ASSUME NEW op
    PROVE  /\ GdnWritten(op) \subseteq Range(GdnBuffers(op))
           /\ GdnRead(op) \subseteq Range(GdnInputs(op)) \union Range(GdnBuffers(op))
           /\ GdnUses(op) \subseteq GdnChecked(op)
           /\ GdnUses(op) \subseteq
                  {"state", "output"} \union Range(GdnWorkspace(op))
                      \union Range(GdnInputNames(op))
           /\ GdnUses(op) \subseteq
                  GdnStruct \union (IF op.mode = "prefill" THEN PrefillStruct ELSE {})
  <1>1. GdnSets(op)
    BY GdnShape
  <1>2. GdnWritten(op) \subseteq Range(GdnBuffers(op))
    BY <1>1 DEF GdnWritten, GdnSets
  <1>3. GdnRead(op) \subseteq Range(GdnInputs(op)) \union Range(GdnBuffers(op))
    BY <1>1 DEF GdnRead, GdnSets
  <1>4. GdnUses(op) \subseteq GdnChecked(op)
    BY <1>1 DEF GdnUses, GdnRead, GdnWritten, GdnSets, GdnChecked
  <1>5. GdnUses(op) \subseteq
            {"state", "output"} \union Range(GdnWorkspace(op))
                \union Range(GdnInputNames(op))
    BY <1>1 DEF GdnUses, GdnRead, GdnWritten, GdnSets
  <1>6. GdnRead(op) \subseteq GdnStruct
    BY DEF GdnRead, GdnStruct, Given
  <1>7. GdnWritten(op) \subseteq
            GdnStruct \union (IF op.mode = "prefill" THEN PrefillStruct ELSE {})
    BY DEF GdnWritten, GdnStruct, GdnNative
  <1> QED BY <1>2, <1>3, <1>4, <1>5, <1>6, <1>7 DEF GdnUses

\* GDN finds every operand again: its workspace behind the output, its state at the
\* end of the inputs or of the buffers (PreparedGDN.arguments).
LEMMA GdnDelivers ==
    ASSUME NEW op, NEW t
    PROVE  LET w == GdnArguments(op, Values(GdnInputs(op), t), Values(GdnBuffers(op), t))
           IN  Carries(w, t) /\ GdnUses(op) \subseteq DOMAIN w
  <1> DEFINE ins == Values(GdnInputs(op), t)
             bufs == Values(GdnBuffers(op), t)
             names == GdnWorkspace(op)
             middle == SubSeq(bufs, 2, Len(names) + 1)
             work == Named(names, middle)
             state == IF op.mode = "verify" THEN Last(ins) ELSE Last(bufs)
             own == [state |-> state, output |-> bufs[1]]
             given == Named(GdnInputNames(op), ins)
             room == GdnStruct \union (IF op.mode = "prefill" THEN PrefillStruct ELSE {})
             tail == IF op.mode = "verify" THEN <<"state">> ELSE <<>>
             end == IF op.mode = "verify" THEN <<>> ELSE <<"state">>
             head == <<"output">>
  <1>1. /\ List(GdnInputNames(op)) /\ List(names) /\ List(tail) /\ List(end) /\ List(head)
               /\ Len(head) = 1
        /\ head[1] = "output"
        /\ IF op.mode = "verify" THEN Len(tail) = 1 /\ tail[1] = "state" ELSE Len(end) = 1
               /\ end[1] = "state"
    BY GdnShape, SingleList, ListEmpty DEF GdnSets
  <1>2. GdnInputs(op) = GdnInputNames(op) \o tail /\ GdnBuffers(op) = head \o names \o end
    BY DEF GdnInputs, GdnBuffers
  <1>3. GdnArguments(op, ins, bufs) = Passed(Also(own, Also(work, given)), room)
    BY DEF GdnArguments
  <1> HIDE DEF ins, bufs, names, middle, work, state, own, given, room, tail, end, head
  <1>4. Carries(given, t) /\ DOMAIN given = Range(GdnInputNames(op))
    BY <1>1, <1>2, NamedFirst DEF given, ins
  <1>5. /\ List(Values(GdnInputNames(op), t)) /\ List(Values(names, t))
               /\ List(Values(head, t))
        /\ List(Values(tail, t)) /\ List(Values(end, t))
        /\ Len(Values(head, t)) = 1 /\ Values(head, t)[1] = t["output"]
        /\ Len(Values(names, t)) = Len(names) /\ Len(names) \in Nat
        /\ IF op.mode = "verify" THEN Len(Values(tail, t)) = 1
               /\ Values(tail, t)[1] = t["state"]
           ELSE Len(Values(end, t)) = 1 /\ Values(end, t)[1] = t["state"]
    BY <1>1, ValuesShape, ListShape
  <1>6. ins = Values(GdnInputNames(op), t) \o Values(tail, t)
    BY <1>1, <1>2, ValuesJoin DEF ins
  <1>7. /\ List(head \o names) /\ Len(head \o names) = 1 + Len(names)
        /\ bufs = Values(head \o names, t) \o Values(end, t)
        /\ Values(head \o names, t) = Values(head, t) \o Values(names, t)
    <2>1. /\ List(head \o names) /\ Len(head \o names) = 1 + Len(names)
          /\ Values(head \o names, t) = Values(head, t) \o Values(names, t)
      <3>1. Values(head \o names, t) = Values(head, t) \o Values(names, t)
        BY <1>1, ValuesJoin
      <3>2. List(head \o names) /\ Len(head \o names) = 1 + Len(names)
        <4>1. List(head) /\ List(names) /\ Len(head) = 1
          BY <1>1
        <4>2. List(head \o names) /\ Len(head \o names) = Len(head) + Len(names)
          BY <4>1, ListJoin
        <4> QED BY <4>1, <4>2
      <3> QED BY <3>1, <3>2
    <2> DEFINE front == head \o names
    <2>2. List(front) /\ bufs = Values(front \o end, t)
      BY <2>1, <1>2 DEF bufs
    <2> HIDE DEF front
    <2>3. bufs = Values(front, t) \o Values(end, t)
      BY <2>2, <1>1, ValuesJoin
    <2> QED BY <2>1, <2>3 DEF front
  <1>8. middle = Values(names, t)
    <2>1. SubSeq(Values(head, t) \o Values(names, t) \o Values(end, t), 1 + 1,
              1 + Len(names)) = Values(names, t)
      <3> DEFINE a == Values(head, t)
                 b == Values(names, t)
                 c == Values(end, t)
      <3>1. List(a) /\ List(b) /\ List(c) /\ Len(a) = 1 /\ Len(b) = Len(names)
        BY <1>5
      <3> HIDE DEF a, b, c
      <3>2. SubSeq(a \o b \o c, Len(a) + 1, Len(a) + Len(b)) = b
        BY <3>1, Middle
      <3>3. SubSeq(a \o b \o c, 1 + 1, 1 + Len(names)) = b
        BY <3>1, <3>2
      <3> QED BY <3>3 DEF a, b, c
    <2>2. 1 + 1 = 2 /\ 1 + Len(names) = Len(names) + 1
      BY <1>5
    <2> QED BY <2>1, <2>2, <1>7 DEF middle
  <1>9. Carries(work, t) /\ DOMAIN work = Range(names)
    BY <1>1, <1>8, NamedAll DEF work
  <1>10. state = t["state"]
    <2>1. CASE op.mode = "verify"
      <3>1. Last(ins) = Values(tail, t)[1]
        <4> DEFINE a == Values(GdnInputNames(op), t)
                   b == Values(tail, t)
        <4>1. List(a) /\ List(b) /\ Len(b) = 1 /\ ins = a \o b
          BY <2>1, <1>5, <1>6
        <4> HIDE DEF a, b
        <4>2. Last(a \o b) = b[1]
          BY <4>1, LastOf
        <4> QED BY <4>1, <4>2 DEF b
      <3> QED BY <3>1, <2>1, <1>5 DEF state
    <2>2. CASE op.mode # "verify"
      <3>1. List(Values(head \o names, t))
        BY <1>7, ValuesShape
      <3>2. Last(bufs) = Values(end, t)[1]
        <4> DEFINE a == Values(head \o names, t)
                   b == Values(end, t)
        <4>1. List(a) /\ List(b) /\ Len(b) = 1 /\ bufs = a \o b
          BY <2>2, <3>1, <1>5, <1>7
        <4> HIDE DEF a, b
        <4>2. Last(a \o b) = b[1]
          BY <4>1, LastOf
        <4> QED BY <4>1, <4>2 DEF b
      <3> QED BY <3>2, <2>2, <1>5 DEF state
    <2> QED BY <2>1, <2>2
  <1>11. bufs[1] = t["output"]
    <2>1. (head \o names \o end)[1] = "output" /\ Len(head \o names \o end) >= 1
              /\ List(head \o names \o end)
      <3>1. List(head \o names \o end)
                /\ Len(head \o names \o end) = 1 + Len(names) + Len(end)
        <4> DEFINE front == head \o names
        <4>1. List(front) /\ Len(front) = 1 + Len(names)
          BY <1>7
        <4> HIDE DEF front
        <4>2. List(front \o end) /\ Len(front \o end) = Len(front) + Len(end)
          BY <4>1, <1>1, ListJoin
        <4> QED BY <4>1, <4>2 DEF front
      <3>2. (head \o names)[1] = "output"
        BY <1>1, ListJoin
      <3>3. (head \o names \o end)[1] = (head \o names)[1]
        BY <1>1, <1>7, <1>5, ListJoin
      <3>4. Len(end) \in Nat
        BY <1>1, ListShape
      <3> QED BY <3>1, <3>2, <3>3, <3>4, <1>5
    <2> DEFINE all == head \o names \o end
    <2> HIDE DEF all
    <2>2. List(all) /\ Len(all) >= 1 /\ all[1] = "output" /\ Len(all) \in Nat
      BY <2>1, ListShape DEF all
    <2>3. Values(all, t)[1] = t["output"]
      BY <2>2, ValuesShape
    <2> QED BY <2>3, <1>2 DEF bufs, all
  <1>12. Carries(own, t) /\ DOMAIN own = {"state", "output"}
    BY <1>10, <1>11 DEF Carries, own
  <1>13. Carries(Also(work, given), t)
             /\ DOMAIN Also(work, given) = Range(names) \union Range(GdnInputNames(op))
    BY <1>4, <1>9, AlsoCarries
  <1>14. /\ Carries(Also(own, Also(work, given)), t)
         /\ DOMAIN Also(own, Also(work, given)) =
                {"state", "output"} \union Range(names) \union Range(GdnInputNames(op))
    <2> DEFINE b == Also(work, given)
    <2> HIDE DEF b
    <2>1. Carries(Also(own, b), t) /\ DOMAIN Also(own, b) = DOMAIN own \union DOMAIN b
      BY <1>12, <1>13, AlsoCarries DEF b
    <2> QED BY <2>1, <1>12, <1>13 DEF b
  <1> DEFINE w == Also(own, Also(work, given))
  <1> HIDE DEF w
  <1>15. Carries(Passed(w, room), t) /\ DOMAIN Passed(w, room) = DOMAIN w \cap room
    BY <1>14, PassedCarries DEF w
  <1>16. GdnUses(op) \subseteq DOMAIN w \cap room
    BY <1>14, GdnBasics DEF w, room, names
  <1> QED
    BY <1>3, <1>15, <1>16 DEF w, ins, bufs

\* The GDN binding is sound.
LEMMA GdnSound == ASSUME NEW op, op.kind = "gdn" PROVE Sound(op)
  <1>1. Inputs(op) = GdnInputs(op) /\ Buffers(op) = GdnBuffers(op)
    BY DEF Inputs, Buffers, AuxKinds
  <1>2. KernelWrites(op) = GdnWritten(op) /\ KernelReads(op) = GdnRead(op)
            /\ Checked(op) = GdnChecked(op)
    BY DEF KernelWrites, KernelReads, Checked, AuxKinds
  <1>3. \A t : Delivered(op, t) =
            GdnArguments(op, Values(GdnInputs(op), t), Values(GdnBuffers(op), t))
    BY <1>1 DEF Delivered, Arguments, AuxKinds
  <1>4. KernelFields(op) = GdnUses(op)
    BY <1>2 DEF KernelFields, GdnUses
  <1>5. List(GdnInputs(op)) /\ List(GdnBuffers(op))
    BY GdnShape DEF GdnSets
  <1> QED
    BY <1>1, <1>2, <1>3, <1>4, <1>5, GdnBasics, GdnDelivers DEF Sound, Fields

\* The checked binding is sound: its upstream errors are the last input.
LEMMA CheckedSound == ASSUME NEW op, op.kind = "checked" PROVE Sound(op)
  <1> DEFINE end == <<"upstream_errors">>
  <1>1. Inputs(op) = GdnInputs(op) \o end /\ Buffers(op) = GdnBuffers(op)
    BY DEF Inputs, Buffers, CheckedInputs, AuxKinds
  <1>2. /\ KernelWrites(op) = GdnWritten(op)
        /\ KernelReads(op) = GdnRead(op) \union {"upstream_errors"}
        /\ Checked(op) = GdnChecked(op) \union {"upstream_errors"}
    BY DEF KernelWrites, KernelReads, Checked, AuxKinds
  <1>3. \A t : Delivered(op, t) =
            CheckedArguments(op, Values(Inputs(op), t), Values(GdnBuffers(op), t))
    BY <1>1 DEF Delivered, Arguments, AuxKinds
  <1>4. KernelFields(op) = GdnUses(op) \union {"upstream_errors"}
    BY <1>2 DEF KernelFields, GdnUses
  <1>5. /\ List(GdnInputs(op)) /\ List(GdnBuffers(op)) /\ List(end)
               /\ Range(end) = {"upstream_errors"}
        /\ Len(end) = 1 /\ end[1] = "upstream_errors"
    BY GdnShape, SingleList DEF GdnSets
  <1> HIDE DEF end
  <1>6. List(Inputs(op))
            /\ Range(Inputs(op)) = Range(GdnInputs(op)) \union {"upstream_errors"}
    BY <1>1, <1>5, ListJoin
  <1>7. ASSUME NEW t
        PROVE  Carries(Delivered(op, t), t)
                   /\ KernelFields(op) \subseteq DOMAIN Delivered(op, t)
    <2> DEFINE a == Values(GdnInputs(op), t)
               b == Values(end, t)
               bufs == Values(GdnBuffers(op), t)
               base == GdnArguments(op, a, bufs)
               more == [upstream_errors |-> Last(a \o b)]
    <2>1. Values(Inputs(op), t) = a \o b
      BY <1>1, <1>5, ValuesJoin
    <2>2. List(a) /\ List(b) /\ Len(b) = 1 /\ b[1] = t["upstream_errors"]
      BY <1>5, ValuesShape
    <2>3. Front(a \o b) = a /\ Last(a \o b) = t["upstream_errors"]
      <3> HIDE DEF a, b
      <3> QED BY <2>2, Cut
    <2>4. Carries(base, t) /\ GdnUses(op) \subseteq DOMAIN base
      BY GdnDelivers
    <2>5. Carries(more, t) /\ DOMAIN more = {"upstream_errors"}
      BY <2>3 DEF Carries
    <2>6. Delivered(op, t) = Also(base, more)
      BY <1>3, <2>1, <2>3 DEF CheckedArguments
    <2> HIDE DEF base, more
    <2>7. Carries(Also(base, more), t)
              /\ DOMAIN Also(base, more) = DOMAIN base \union DOMAIN more
      BY <2>4, <2>5, AlsoCarries
    <2> QED BY <2>4, <2>5, <2>6, <2>7, <1>4
  <1>8. KernelReads(op) \subseteq Fields(op)
            /\ KernelWrites(op) \subseteq Range(Buffers(op))
    BY <1>1, <1>2, <1>6, GdnBasics DEF Fields
  <1>9. KernelFields(op) \subseteq Checked(op)
    BY <1>2, <1>4, GdnBasics
  <1> QED
    BY <1>1, <1>5, <1>6, <1>7, <1>8, <1>9 DEF Sound

-----------------------------------------------------------------------------
(***************************************************************************)
(* Transactions.                                                           *)
(***************************************************************************)

\* Three lists may be joined from the left or from the right.
LEMMA ListAssociative ==
    ASSUME NEW a, NEW b, NEW c, List(a), List(b), List(c)
    PROVE  (a \o b) \o c = a \o (b \o c)
  <1> DEFINE S == Range(a) \union Range(b) \union Range(c)
  <1>1. a \in Seq(S) /\ b \in Seq(S) /\ c \in Seq(S)
    BY SeqMonotonic DEF List
  <1> HIDE DEF S
  <1> QED
    BY <1>1

\* An optional operand is in its list exactly if it was given.
LEMMA OptionalOne ==
    ASSUME NEW op, NEW x
    PROVE  /\ List(Optional(op, <<x>>)) /\ Range(Optional(op, <<x>>)) = Given(op, {x})
           /\ x \in op.opts => Len(Optional(op, <<x>>)) = 1 /\ Optional(op, <<x>>)[1] = x
           /\ x \notin op.opts => Len(Optional(op, <<x>>)) = 0
  <1>1. Optional(op, <<x>>) = IF x \in op.opts THEN <<x>> ELSE <<>>
    BY ChosenOne DEF Optional
  <1>2. CASE x \in op.opts
    BY <1>1, <1>2, SingleList DEF Given
  <1>3. CASE x \notin op.opts
    BY <1>1, <1>3, ListEmpty DEF Given
  <1> QED BY <1>2, <1>3

\* The transactional bindings are sound: the base operands are the first ones of both
\* lists, the epochs and the upstream errors stand behind them (_Transaction.launch).
LEMMA TransactionSound ==
    ASSUME NEW op, op.kind \in {"verify2", "commit2"},
           op.kind = "verify2" => op.mode = "verify"
    PROVE  Sound(op)
  <1> DEFINE B == BaseInputs(op)
             C == BaseBuffers(op)
             in == IF op.kind = "verify2" THEN "consumed_epochs" ELSE "ready_epochs"
             out == IF op.kind = "verify2" THEN "ready_epochs" ELSE "consumed_epochs"
             P == <<"epochs", in>>
             U == Optional(op, <<"upstream_errors">>)
             E == P \o U
             O == <<out>>
             base == IF op.kind =
                 "commit2" THEN CommitRead \union {"state", "errors"} ELSE GdnUses(op)
  <1>1. Inputs(op) = B \o P \o U /\ Buffers(op) = C \o O
    BY DEF Inputs, Buffers, TransactionInputs, TransactionBuffers, AuxKinds
  <1>2. List(B) /\ List(C)
    BY CommitLists, GdnShape DEF BaseInputs, BaseBuffers, GdnSets
  <1>3. /\ List(P) /\ Range(P) = {"epochs", in} /\ Len(P) = 2 /\ P[1] = "epochs"
               /\ P[2] = in
        /\ List(O) /\ Range(O) = {out} /\ Len(O) = 1 /\ O[1] = out
    BY SingleList, PairList
  <1>4. /\ List(U) /\ Range(U) = Given(op, {"upstream_errors"})
        /\ "upstream_errors" \in op.opts => Len(U) = 1 /\ U[1] = "upstream_errors"
    BY OptionalOne
  <1> HIDE DEF B, C, P, U, E, O, base
  <1>5. /\ List(E) /\ Range(E) = {"epochs", in} \union Given(op, {"upstream_errors"})
        /\ E[1] = "epochs" /\ E[2] = in /\ Len(E) = Len(P) + Len(U)
        /\ "upstream_errors" \in op.opts => E[3] = "upstream_errors"
    <2>1. /\ List(E) /\ Len(E) = Len(P) + Len(U) /\ Range(E) = Range(P) \union Range(U)
          /\ \A k \in 1..Len(P) : E[k] = P[k]
          /\ \A k \in 1..Len(U) : E[Len(P) + k] = U[k]
      <3>1. List(P) /\ List(U)
        BY <1>3, <1>4
      <3>2. /\ List(P \o U) /\ Len(P \o U) = Len(P) + Len(U)
                   /\ Range(P \o U) = Range(P) \union Range(U)
            /\ \A k \in 1..Len(P) : (P \o U)[k] = P[k]
            /\ \A k \in 1..Len(U) : (P \o U)[Len(P) + k] = U[k]
        BY <3>1, ListJoin
      <3> QED BY <3>2 DEF E
    <2>2. 1 \in 1..2 /\ 2 \in 1..2 /\ 1 \in 1..1 /\ 2 + 1 = 3
      OBVIOUS
    <2> QED BY <2>1, <2>2, <1>3, <1>4
  <1>6. Inputs(op) = B \o E
    <2>1. List(B) /\ List(P) /\ List(U)
      BY <1>2, <1>3, <1>4
    <2>2. (B \o P) \o U = B \o (P \o U)
      BY <2>1, ListAssociative
    <2> QED BY <1>1, <2>2 DEF E
  <1>7. /\ List(Inputs(op)) /\ Range(Inputs(op)) = Range(B) \union Range(E)
        /\ List(Buffers(op)) /\ Range(Buffers(op)) = Range(C) \union {out}
    BY <1>1, <1>2, <1>3, <1>5, <1>6, ListJoin
  <1>8. /\ KernelWrites(op) =
             (IF op.kind = "commit2" THEN {"state", "errors"} ELSE GdnWritten(op))
                 \union {out}
        /\ KernelFields(op) =
             base \union {"epochs", "ready_epochs", "consumed_epochs"}
                 \union Given(op, {"upstream_errors"})
        /\ KernelReads(op) \subseteq KernelFields(op)
        /\ Checked(op) =
             (IF op.kind = "commit2" THEN CommitChecked ELSE GdnChecked(op))
                 \union TransactionChecked(op)
    <2>1. CASE op.kind = "commit2"
      BY <2>1 DEF KernelFields, KernelWrites, KernelReads, Checked, AuxKinds, base
    <2>2. CASE op.kind = "verify2"
      <3>1. KernelWrites(op) = GdnWritten(op) \union {"ready_epochs"}
        BY <2>2 DEF KernelWrites, AuxKinds
      <3>2. KernelReads(op) =
              GdnRead(op) \union {"epochs", "ready_epochs", "consumed_epochs",
                               "recorded_lengths", "recorded_slots"}
              \union Given(op, {"upstream_errors"})
        BY <2>2 DEF KernelReads, AuxKinds
      <3>3. {"recorded_lengths", "recorded_slots"} \subseteq GdnWritten(op)
        BY <2>2 DEF GdnWritten
      <3>4. Checked(op) = GdnChecked(op) \union TransactionChecked(op)
        BY <2>2 DEF Checked, AuxKinds
      <3> QED BY <3>1, <3>2, <3>3, <3>4, <2>2 DEF KernelFields, GdnUses, base
    <2> QED BY <2>1, <2>2
  <1>9. base \subseteq Range(B) \union Range(C)
    BY CommitLists, GdnBasics DEF base, B, C, BaseInputs, BaseBuffers, CommitRead, GdnUses
  <1>10. KernelWrites(op) \subseteq Range(Buffers(op))
    <2>1. CASE op.kind = "commit2"
      BY <2>1, <1>7, <1>8, CommitLists DEF C, BaseBuffers
    <2>2. CASE op.kind = "verify2"
      BY <2>2, <1>7, <1>8, GdnBasics DEF C, BaseBuffers
    <2> QED BY <2>1, <2>2
  <1>11. KernelReads(op) \subseteq Fields(op)
    BY <1>5, <1>7, <1>8, <1>9 DEF Fields
  <1>12. KernelFields(op) \subseteq Checked(op)
    <2>1. CASE op.kind = "commit2"
      BY <2>1, <1>8 DEF base, TransactionChecked, CommitRead, CommitChecked
    <2>2. CASE op.kind = "verify2"
      BY <2>2, <1>8, GdnBasics DEF base, TransactionChecked
    <2> QED BY <2>1, <2>2
  <1>13. ASSUME NEW t
         PROVE  Carries(Delivered(op, t), t)
                    /\ KernelFields(op) \subseteq DOMAIN Delivered(op, t)
    <2> DEFINE ins == Values(Inputs(op), t)
               bufs == Values(Buffers(op), t)
               VB == Values(B, t)
               VC == Values(C, t)
               VE == Values(E, t)
               VO == Values(O, t)
               inner == IF op.kind = "commit2" THEN CommitArguments(VB, VC)
                        ELSE GdnArguments(op, VB, VC)
               epochs == [epochs |-> t["epochs"], ready_epochs |-> t["ready_epochs"],
                          consumed_epochs |-> t["consumed_epochs"]]
               upstream == IF "upstream_errors" \in op.opts
                           THEN [upstream_errors |-> t["upstream_errors"]] ELSE <<>>
    <2>1. ins = VB \o VE /\ bufs = VC \o VO
      BY <1>1, <1>2, <1>3, <1>5, <1>6, ValuesJoin
    <2>2. /\ List(VB) /\ Len(VB) = Len(B) /\ List(VC) /\ Len(VC) = Len(C)
          /\ List(VO) /\ Len(VO) = 1 /\ VO[1] = t[out]
      BY <1>2, <1>3, ValuesShape
    <2>3. /\ List(VE) /\ VE[1] = t["epochs"] /\ VE[2] = t[in]
          /\ "upstream_errors" \in op.opts => VE[3] = t["upstream_errors"]
      <3>1. Len(E) \in Nat /\ Len(E) >= 2 /\ ("upstream_errors" \in op.opts => Len(E) >= 3)
        <4>1. Len(U) \in Nat
          BY <1>4, ListShape
        <4> QED BY <4>1, <1>3, <1>4, <1>5
      <3>2. List(VE) /\ \A k \in 1..Len(E) : VE[k] = t[E[k]]
        BY <1>5, ValuesShape
      <3> QED BY <3>1, <3>2, <1>5
    <2> HIDE DEF VB, VC, VE, VO, ins, bufs
    <2>4. /\ SubSeq(ins, 1, Len(B)) = VB /\ SubSeq(ins, Len(B) + 1, Len(ins)) = VE
          /\ SubSeq(bufs, 1, Len(C)) = VC
      <3>1. SubSeq(VB \o VE, 1, Len(VB)) = VB
                /\ SubSeq(VB \o VE, Len(VB) + 1, Len(VB \o VE)) = VE
        BY <2>2, <2>3, Cut
      <3>2. SubSeq(VC \o VO, 1, Len(VC)) = VC
        BY <2>2, Cut
      <3> QED BY <3>1, <3>2, <2>1, <2>2
    <2>5. Last(bufs) = t[out]
      BY <2>1, <2>2, LastOf
    <2>6. Delivered(op, t) = Also(inner, Passed(Also(epochs, upstream), TransactionStruct))
      <3>1. Delivered(op, t) = TransactionArguments(op, ins, bufs)
        BY DEF Delivered, Arguments, AuxKinds, ins, bufs
      <3>2. CASE op.kind = "verify2"
        BY <3>1, <3>2, <2>3, <2>4, <2>5 DEF TransactionArguments, B, C
      <3>3. CASE op.kind = "commit2"
        BY <3>1, <3>3, <2>3, <2>4, <2>5 DEF TransactionArguments, B, C
      <3> QED BY <3>2, <3>3
    <2>7. Carries(inner, t) /\ base \subseteq DOMAIN inner
      <3>1. CASE op.kind = "commit2"
        <4>1. inner = CommitArguments(Values(CommitInputs, t), Values(CommitBuffers, t))
          BY <3>1 DEF VB, VC, B, C, BaseInputs, BaseBuffers
        <4>2. base \subseteq CommitStruct
          BY <3>1 DEF base, CommitRead, CommitStruct
        <4> QED BY <4>1, <4>2, CommitDelivers
      <3>2. CASE op.kind = "verify2"
        <4>1. inner = GdnArguments(op, Values(GdnInputs(op), t), Values(GdnBuffers(op), t))
          BY <3>2 DEF VB, VC, B, C, BaseInputs, BaseBuffers
        <4> HIDE DEF inner
        <4>2. base = GdnUses(op)
          BY <3>2 DEF base
        <4> QED BY <4>1, <4>2, GdnDelivers
      <3> QED BY <3>1, <3>2
    <2>8. /\ Carries(epochs, t)
                 /\ DOMAIN epochs = {"epochs", "ready_epochs", "consumed_epochs"}
          /\ Carries(upstream, t) /\ DOMAIN upstream = Given(op, {"upstream_errors"})
      <3>1. Carries(epochs, t)
                /\ DOMAIN epochs = {"epochs", "ready_epochs", "consumed_epochs"}
        BY DEF Carries
      <3>2. CASE "upstream_errors" \in op.opts
        BY <3>1, <3>2 DEF Carries, Given
      <3>3. CASE "upstream_errors" \notin op.opts
        BY <3>1, <3>3, NothingCarried DEF Given
      <3> QED BY <3>2, <3>3
    <2> DEFINE both == Also(epochs, upstream)
               sent == Passed(both, TransactionStruct)
    <2> HIDE DEF inner, epochs, upstream
    <2>9. /\ Carries(both, t)
          /\ DOMAIN both =
                 {"epochs", "ready_epochs", "consumed_epochs"}
                     \union Given(op, {"upstream_errors"})
      BY <2>8, AlsoCarries
    <2> HIDE DEF both
    <2>10. Carries(sent, t) /\ DOMAIN sent = DOMAIN both
      <3>1. DOMAIN both \cap TransactionStruct = DOMAIN both
        BY <2>9 DEF TransactionStruct, Given
      <3> QED BY <2>9, <3>1, PassedCarries
    <2>11. Delivered(op, t) = Also(inner, sent)
      BY <2>6 DEF both
    <2> HIDE DEF sent
    <2>12. Carries(Also(inner, sent), t)
               /\ DOMAIN Also(inner, sent) = DOMAIN inner \union DOMAIN sent
      BY <2>7, <2>10, AlsoCarries
    <2> QED BY <2>7, <2>9, <2>10, <2>11, <2>12, <1>8
  <1> QED
    BY <1>7, <1>10, <1>11, <1>12, <1>13 DEF Sound

-----------------------------------------------------------------------------
(***************************************************************************)
(* The retained chunk core, and all bindings.                              *)
(***************************************************************************)

\* The binding of the retained chunk core is sound, with and without initial and
\* final states.
LEMMA CoreSound == ASSUME NEW op, op.kind = "core" PROVE Sound(op)
  <1> DEFINE five == <<"q", "k", "v", "g", "beta">>
             I == Optional(op, <<"initial">>)
             F == Optional(op, <<"final">>)
             H == <<"output">>
             D == CoreWorkspace
             start == {"q", "k", "v", "g", "beta"}
             scratch == {"inverse", "snapshots", "vnew", "gates"}
  <1>1. Inputs(op) = five \o I /\ Buffers(op) = H \o F \o D
    BY DEF Inputs, Buffers, CoreInputs, CoreBuffers, AuxKinds
  <1>2. /\ List(five) /\ Range(five) = start /\ List(D) /\ Range(D) = scratch
        /\ List(H) /\ Range(H) = {"output"} /\ Len(H) = 1 /\ H[1] = "output"
    BY CoreLists, SingleList
  <1>3. Len(five) = 5
    OBVIOUS
  <1>4. /\ List(I) /\ Range(I) = Given(op, {"initial"})
        /\ "initial" \in op.opts => Len(I) = 1 /\ I[1] = "initial"
        /\ List(F) /\ Range(F) = Given(op, {"final"})
        /\ "final" \in op.opts => Len(F) = 1 /\ F[1] = "final"
        /\ "final" \notin op.opts => Len(F) = 0
    BY OptionalOne
  <1>5. /\ KernelWrites(op) = {"output"} \union scratch \union Given(op, {"final"})
        /\ KernelReads(op) = start \union Given(op, {"initial"})
        /\ Checked(op) = CoreChecked(op)
    <2>1. KernelWrites(op) =
              {"output", "inverse", "snapshots", "vnew", "gates"}
                  \union Given(op, {"final"})
      BY DEF KernelWrites, AuxKinds
    <2>2. KernelReads(op) = start \union Given(op, {"initial"})
              /\ Checked(op) = CoreChecked(op)
      BY DEF KernelReads, Checked, AuxKinds
    <2> QED BY <2>1, <2>2
  <1>6. Checked(op) = KernelFields(op)
    BY <1>2, <1>5 DEF CoreChecked, KernelFields, Given
  <1>7. \A t : Delivered(op, t) =
            CoreArguments(op, Values(five \o I, t), Values(H \o F \o D, t))
    BY <1>1 DEF Delivered, Arguments, AuxKinds
  <1> HIDE DEF five, I, F, H, D
  <1>8. List(Inputs(op)) /\ Range(Inputs(op)) = start \union Given(op, {"initial"})
    <2>1. List(five \o I) /\ Range(five \o I) = Range(five) \union Range(I)
      BY <1>2, <1>4, ListJoin
    <2> QED BY <2>1, <1>1, <1>2, <1>4
  <1>9. /\ List(H \o F) /\ Len(H \o F) = 1 + Len(F)
               /\ Range(H \o F) = {"output"} \union Given(op, {"final"})
        /\ (H \o F)[1] = "output" /\ ("final" \in op.opts => (H \o F)[2] = "final")
    <2>1. List(H) /\ List(F) /\ 1 \in 1..1 /\ 1 + 1 = 2
      BY <1>2, <1>4
    <2>2. /\ List(H \o F) /\ Len(H \o F) = Len(H) + Len(F)
                 /\ Range(H \o F) = Range(H) \union Range(F)
          /\ \A k \in 1..Len(H) : (H \o F)[k] = H[k]
          /\ \A k \in 1..Len(F) : (H \o F)[Len(H) + k] = F[k]
      BY <2>1, ListJoin
    <2> QED BY <2>1, <2>2, <1>2, <1>4
  <1>10. /\ List(Buffers(op))
         /\ Range(Buffers(op)) = {"output"} \union Given(op, {"final"}) \union scratch
    <2> DEFINE front == H \o F
    <2>1. List(front) /\ Range(front) = {"output"} \union Given(op, {"final"})
      BY <1>9
    <2> HIDE DEF front
    <2>2. List(front \o D) /\ Range(front \o D) = Range(front) \union Range(D)
      BY <2>1, <1>2, ListJoin
    <2> QED BY <2>1, <2>2, <1>1, <1>2 DEF front
  <1>11. ASSUME NEW t
         PROVE  Carries(Delivered(op, t), t)
                    /\ KernelFields(op) \subseteq DOMAIN Delivered(op, t)
    <2> DEFINE ins == Values(five \o I, t)
               bufs == Values(H \o F \o D, t)
               V5 == Values(five, t)
               VI == Values(I, t)
               VF == Values(H \o F, t)
               VD == Values(D, t)
               given == Named(five, ins)
               initial == IF "initial" \in op.opts THEN [initial |-> t["initial"]] ELSE <<>>
               head == [output |-> t["output"]]
               final == IF "final" \in op.opts THEN [final |-> t["final"]] ELSE <<>>
               work == Named(D, VD)
    <2>1. ins = V5 \o VI
      BY <1>2, <1>4, ValuesJoin
    <2>2. bufs = VF \o VD
      <3>1. List(H \o F) /\ List(D)
        BY <1>2, <1>9
      <3> DEFINE front == H \o F
      <3> HIDE DEF front
      <3>2. Values(front \o D, t) = Values(front, t) \o Values(D, t)
        BY <3>1, ValuesJoin DEF front
      <3> QED BY <3>2 DEF front
    <2>3. /\ List(V5) /\ Len(V5) = 5 /\ List(VI)
          /\ "initial" \in op.opts => Len(VI) = 1 /\ VI[1] = t["initial"]
      BY <1>2, <1>3, <1>4, ValuesShape
    <2>4. /\ List(VF) /\ Len(VF) = 1 + Len(F) /\ VF[1] = t["output"] /\ List(VD)
          /\ "final" \in op.opts => VF[2] = t["final"]
      <3> DEFINE front == H \o F
      <3>1. /\ List(front) /\ Len(front) = 1 + Len(F) /\ Len(F) \in Nat
                   /\ front[1] = "output"
            /\ "final" \in op.opts => front[2] = "final" /\ Len(F) = 1
        BY <1>4, <1>9, ListShape
      <3> HIDE DEF front
      <3>2. /\ List(Values(front, t)) /\ Len(Values(front, t)) = Len(front)
            /\ \A k \in 1..Len(front) : Values(front, t)[k] = t[front[k]]
        BY <3>1, ValuesShape
      <3>3. 1 \in 1..Len(front) /\ ("final" \in op.opts => 2 \in 1..Len(front))
        <4>1. 1 \in 1..Len(front)
          BY <3>1
        <4>2. "final" \in op.opts => Len(front) = 2
          BY <3>1
        <4> QED BY <4>1, <4>2
      <3>4. List(VD)
        BY <1>2, ValuesShape
      <3> QED BY <3>1, <3>2, <3>3, <3>4 DEF front
    <2>5. Carries(given, t) /\ DOMAIN given = start
      BY <1>2, <1>4, NamedFirst
    <2>6. Carries(work, t) /\ DOMAIN work = scratch
      BY <1>2, NamedAll
    <2>7. /\ Carries(initial, t) /\ DOMAIN initial = Given(op, {"initial"})
          /\ Carries(final, t) /\ DOMAIN final = Given(op, {"final"})
          /\ Carries(head, t) /\ DOMAIN head = {"output"}
      <3>1. Carries(initial, t) /\ DOMAIN initial = Given(op, {"initial"})
        <4>1. CASE "initial" \in op.opts
          BY <4>1 DEF Carries, Given
        <4>2. CASE "initial" \notin op.opts
          BY <4>2, NothingCarried DEF Given
        <4> QED BY <4>1, <4>2
      <3>2. Carries(final, t) /\ DOMAIN final = Given(op, {"final"})
        <4>1. CASE "final" \in op.opts
          BY <4>1 DEF Carries, Given
        <4>2. CASE "final" \notin op.opts
          BY <4>2, NothingCarried DEF Given
        <4> QED BY <4>1, <4>2
      <3>3. Carries(head, t) /\ DOMAIN head = {"output"}
        BY DEF Carries
      <3> QED BY <3>1, <3>2, <3>3
    <2> HIDE DEF V5, VI, VF, VD, ins, bufs
    <2>8. "initial" \in op.opts => ins[6] = t["initial"]
      <3>1. SUFFICES ASSUME "initial" \in op.opts PROVE ins[6] = t["initial"]
        OBVIOUS
      <3>2. \A k \in 1..Len(VI) : (V5 \o VI)[Len(V5) + k] = VI[k]
        <4>1. List(V5) /\ List(VI)
          BY <2>3
        <4> QED BY <4>1, ListJoin
      <3>3. 1 \in 1..Len(VI) /\ Len(V5) + 1 = 6
        BY <2>3, <3>1
      <3> QED BY <3>1, <3>2, <3>3, <2>1, <2>3
    <2>9. bufs[1] = t["output"] /\ ("final" \in op.opts => bufs[2] = t["final"])
      <3>1. \A k \in 1..Len(VF) : (VF \o VD)[k] = VF[k]
        BY <2>4, ListJoin
      <3>2. Len(F) \in Nat /\ ("final" \in op.opts => Len(F) = 1)
        BY <1>4, ListShape
      <3>3. 1 \in 1..Len(VF) /\ ("final" \in op.opts => 2 \in 1..Len(VF))
        BY <2>4, <3>2
      <3> QED BY <2>2, <2>4, <3>1, <3>3
    <2>10. SubSeq(bufs, 2 + (IF "final" \in op.opts THEN 1 ELSE 0), Len(bufs)) = VD
      <3>1. SubSeq(VF \o VD, Len(VF) + 1, Len(VF \o VD)) = VD
        BY <2>4, Cut
      <3>2. Len(VF) + 1 = 2 + (IF "final" \in op.opts THEN 1 ELSE 0)
        <4>1. CASE "final" \in op.opts
          <5>1. Len(F) = 1 /\ Len(VF) = 1 + Len(F)
            BY <4>1, <2>4, <1>4
          <5>2. Len(VF) + 1 = 2 + 1
            BY <5>1
          <5> QED BY <4>1, <5>2
        <4>2. CASE "final" \notin op.opts
          BY <4>2, <2>4, <1>4
        <4> QED BY <4>1, <4>2
      <3> QED BY <3>1, <3>2, <2>2
    <2>11. Delivered(op, t) = Also(given, Also(initial, Also(head, Also(final, work))))
      <3>1. Delivered(op, t) = CoreArguments(op, ins, bufs)
        BY <1>7 DEF ins, bufs
      <3>2. CASE "initial" \in op.opts /\ "final" \in op.opts
        BY <3>1, <3>2, <2>8, <2>9, <2>10 DEF CoreArguments, five, D
      <3>3. CASE "initial" \in op.opts /\ "final" \notin op.opts
        <4>1. SubSeq(bufs, 2 + 0, Len(bufs)) = VD /\ 0 # 1
          BY <3>3, <2>10
        <4> QED BY <3>1, <3>3, <4>1, <2>8, <2>9 DEF CoreArguments, five, D
      <3>4. CASE "initial" \notin op.opts /\ "final" \in op.opts
        BY <3>1, <3>4, <2>8, <2>9, <2>10 DEF CoreArguments, five, D
      <3>5. CASE "initial" \notin op.opts /\ "final" \notin op.opts
        <4>1. SubSeq(bufs, 2 + 0, Len(bufs)) = VD /\ 0 # 1
          BY <3>5, <2>10
        <4> QED BY <3>1, <3>5, <4>1, <2>9 DEF CoreArguments, five, D
      <3> QED BY <3>2, <3>3, <3>4, <3>5
    <2> DEFINE a == Also(final, work)
               b == Also(head, a)
               c == Also(initial, b)
               d == Also(given, c)
    <2> HIDE DEF given, initial, head, final, work
    <2>12. Carries(a, t) /\ DOMAIN a = Given(op, {"final"}) \union scratch
      <3>1. Carries(final, t) /\ Carries(work, t)
        BY <2>6, <2>7
      <3>2. Carries(Also(final, work), t)
                /\ DOMAIN Also(final, work) = DOMAIN final \union DOMAIN work
        BY <3>1, AlsoCarries
      <3> QED BY <3>2, <2>6, <2>7
    <2>13. Carries(b, t) /\ DOMAIN b = {"output"} \union DOMAIN a
      <3> HIDE DEF a
      <3> QED BY <2>7, <2>12, AlsoCarries
    <2>14. Carries(c, t) /\ DOMAIN c = Given(op, {"initial"}) \union DOMAIN b
      <3> HIDE DEF b
      <3> QED BY <2>7, <2>13, AlsoCarries
    <2>15. Carries(d, t) /\ DOMAIN d = start \union DOMAIN c
      <3> HIDE DEF c
      <3> QED BY <2>5, <2>14, AlsoCarries
    <2>16. Delivered(op, t) = d
      BY <2>11
    <2> HIDE DEF a, b, c, d
    <2> QED BY <2>12, <2>13, <2>14, <2>15, <2>16, <1>5 DEF KernelFields
  <1> QED
    BY <1>5, <1>6, <1>8, <1>10, <1>11 DEF Sound, Fields

\* Every binding is sound.
LEMMA OperatorSound ==
    ASSUME NEW op,
           op.kind \in GdnKinds \union Commits \union AuxKinds
                       \union {"core", "capture", "rollback", "qsa"},
           op.kind = "verify2" => op.mode = "verify",
           op.kind = "pointwise" => {"output", "errors"} \subseteq op.opts
    PROVE  Sound(op)
  BY GdnSound, CheckedSound, TransactionSound, CommitSound, CoreSound, ConvSound, QsaSound,
     AuxSound DEF GdnKinds, Commits

-----------------------------------------------------------------------------
(***************************************************************************)
(* Calls of Flare.                                                         *)
(***************************************************************************)

\* A call that Flare does not refuse becomes a sound operator.
LEMMA NodeSound ==
    ASSUME NEW n, Callable(n), Kind(n) # "refused"
    PROVE  Sound(Op(n))
  <1> DEFINE op == Op(n)
  <1>1. op.kind = Kind(n) /\ op.mode = n.mode /\ n.opts \subseteq op.opts
    BY DEF Op
  <1>2. CASE n.call = "bind_gdn"
    <2>1. Kind(n) = GdnKind(n)
      BY <1>2 DEF Kind
    <2>2. GdnKind(n) \in GdnKinds /\ (GdnKind(n) = "verify2" => n.mode = "verify")
      BY <2>1, <1>2 DEF GdnKind, GdnKinds, Callable
    <2> HIDE DEF op
    <2> QED BY <2>1, <2>2, <1>1, OperatorSound DEF op, GdnKinds
  <1>3. CASE n.call = "bind_gdn_commit"
    <2>1. Kind(n) \in Commits
      BY <1>3 DEF Kind, CommitKind, Commits
    <2> HIDE DEF op
    <2> QED BY <2>1, <1>1, OperatorSound DEF op, Commits
  <1>4. CASE n.call \notin {"bind_gdn", "bind_gdn_commit"}
    <2>1. Kind(n) = n.call
              /\ n.call \in AuxKinds \union {"core", "capture", "rollback", "qsa"}
      BY <1>4 DEF Kind, Callable, Calls, Upstreams
    <2>2. n.call # "verify2"
      BY <2>1 DEF AuxKinds
    <2>3. op.kind = "pointwise" => {"output", "errors"} \subseteq op.opts
      BY <1>1, <2>1 DEF Callable
    <2> HIDE DEF op
    <2> QED BY <2>1, <2>2, <2>3, <1>1, OperatorSound DEF op
  <1> QED BY <1>2, <1>3, <1>4

\* The kernels of such a call are handed the operands of their names.
LEMMA NodeDelivers ==
    ASSUME NEW n, n.call # "caller", Sound(Op(n))
    PROVE  /\ \A f \in KernelFields(Op(n)) : f \in DOMAIN Native(n)
                  /\ Native(n)[f] = Tensor(n, f)
           /\ ReadBy(n) = {Tensor(n, f) : f \in KernelReads(Op(n))}
           /\ WrittenBy(n) = {Tensor(n, f) : f \in KernelWrites(Op(n))}
  <1> DEFINE op == Op(n)
             t == [f \in Fields(op) |-> Tensor(n, f)]
  <1>1. TensorsOf(n, Inputs(op)) = Values(Inputs(op), t)
    <2>1. \A k \in DOMAIN Inputs(op) : Inputs(op)[k] \in Fields(op)
      BY DEF Fields, Range
    <2> QED BY <2>1 DEF TensorsOf, Values
  <1>2. TensorsOf(n, Buffers(op)) = Values(Buffers(op), t)
    <2>1. \A k \in DOMAIN Buffers(op) : Buffers(op)[k] \in Fields(op)
      BY DEF Fields, Range
    <2> QED BY <2>1 DEF TensorsOf, Values
  <1>3. Native(n) = Delivered(op, t)
    BY <1>1, <1>2 DEF Native, Delivered
  <1> HIDE DEF t
  <1>4. Carries(Delivered(op, t), t) /\ KernelFields(op) \subseteq DOMAIN Delivered(op, t)
    BY DEF Sound
  <1>5. KernelFields(op) \subseteq Fields(op)
    BY DEF Sound, KernelFields, Fields
  <1>6. \A f \in KernelFields(op) : f \in DOMAIN Native(n) /\ Native(n)[f] = Tensor(n, f)
    <2> TAKE f \in KernelFields(op)
    <2>1. f \in DOMAIN Native(n) /\ Native(n)[f] = t[f]
      BY <1>3, <1>4 DEF Carries
    <2> QED BY <2>1, <1>5 DEF t
  <1>7. ReadBy(n) = {Tensor(n, f) : f \in KernelReads(op)}
    BY <1>6 DEF ReadBy, KernelFields
  <1>8. WrittenBy(n) = {Tensor(n, f) : f \in KernelWrites(op)}
    BY <1>6 DEF WrittenBy, KernelFields
  <1> QED BY <1>6, <1>7, <1>8

\* A node that reads and writes only what it declares.
Declares(n) == ReadBy(n) \subseteq Declared(n) /\ WrittenBy(n) \subseteq Mutates(n)
    /\ Mutates(n) \subseteq Declared(n)

\* A node touches only what it declares, and writes only what it declares mutated.
LEMMA NodeDeclares ==
    ASSUME NEW n, n.call # "caller" => Sound(Op(n))
    PROVE  Declares(n)
  <1>1. CASE n.call = "caller"
    BY <1>1 DEF Declares, ReadBy, WrittenBy, Declared, Mutates
  <1>2. CASE n.call # "caller"
    <2> DEFINE op == Op(n)
    <2>1. Sound(op)
      BY <1>2
    <2>2. /\ ReadBy(n) = {Tensor(n, f) : f \in KernelReads(op)}
          /\ WrittenBy(n) = {Tensor(n, f) : f \in KernelWrites(op)}
      BY <1>2, <2>1, NodeDelivers
    <2>3. /\ Declared(n) = {Tensor(n, f) : f \in Fields(op)}
          /\ Mutates(n) = {Tensor(n, f) : f \in Range(Buffers(op))}
      BY <1>2 DEF Declared, Mutates
    <2>4. KernelReads(op) \subseteq Fields(op)
              /\ KernelWrites(op) \subseteq Range(Buffers(op))
          /\ Range(Buffers(op)) \subseteq Fields(op)
      BY <2>1 DEF Sound, Fields
    <2> HIDE DEF op
    <2> QED BY <2>2, <2>3, <2>4 DEF Declares
  <1> QED BY <1>1, <1>2

\* An error vector handed to a binding is read by the kernel it was bound to.
LEMMA UpstreamRead ==
    ASSUME NEW n, Callable(n), Kind(n) # "refused", n.upstream # "none"
    PROVE  n.upstream \in ReadBy(n)
  <1> DEFINE op == Op(n)
             u == UpstreamName(n)
  <1>1. Sound(op) /\ n.call # "caller"
    BY NodeSound DEF Callable, Calls, Upstreams, AuxKinds
  <1>2. ReadBy(n) = {Tensor(n, f) : f \in KernelReads(op)}
    BY <1>1, NodeDelivers
  <1>3. Tensor(n, u) = n.upstream
    BY DEF Tensor
  <1>4. u \in op.opts /\ op.kind = Kind(n)
    BY DEF Op
  <1>5. u \in KernelReads(op)
    <2>1. CASE n.call = "bind_gdn"
      <3>1. Kind(n) \in {"checked", "verify2"} /\ u = "upstream_errors"
        BY <2>1 DEF Kind, GdnKind, UpstreamName, AuxKinds
      <3> HIDE DEF op, u
      <3> QED BY <3>1, <1>4 DEF KernelReads, Given, AuxKinds
    <2>2. CASE n.call = "bind_gdn_commit"
      <3>1. Kind(n) = "commit2" /\ u = "upstream_errors"
        BY <2>2 DEF Kind, CommitKind, UpstreamName, AuxKinds
      <3> HIDE DEF op, u
      <3> QED BY <3>1, <1>4 DEF KernelReads, Given, AuxKinds
    <2>3. CASE n.call \in AuxKinds
      <3>1. Kind(n) \in AuxKinds /\ u = "rows_upstream_errors" /\ u \in RowsStruct
        BY <2>3 DEF Kind, UpstreamName, AuxKinds, RowsStruct
      <3> HIDE DEF op, u
      <3> QED BY <3>1, <1>4 DEF KernelReads, Given, AuxKinds
    <2> QED BY <2>1, <2>2, <2>3 DEF Callable, Upstreams
  <1> QED BY <1>2, <1>3, <1>5

-----------------------------------------------------------------------------
(***************************************************************************)
(* The inductive invariant.                                                *)
(***************************************************************************)

\* Every handle below the counter; a node of the graph holds the one that its own
\* preparation registered, over views that its constructor admitted.
HandlesIssued ==
    /\ program \in Programs
    /\ next \in Nat \ {0} /\ DOMAIN plans \subseteq 1..next - 1
    /\ captured \in [Nodes -> 0..next - 1]
    /\ \A i \in Operators : captured[i] # 0 => Kind(Node(i)) # "refused"
    /\ \A i \in Nodes : captured[i] \in DOMAIN plans =>
           /\ plans[captured[i]].node = i
           /\ Admits(Op(Node(i)), program.geometry, plans[captured[i]].views)

\* The nodes that ran and wrote t.
Written(t) == {j \in HasRun : t \in WrittenBy(Node(j))}

\* Once the graph runs every operator is prepared; a node that ran left no conflicting
\* node before it behind; the writer of a tensor is the last of the program that ran.
RunsInOrder ==
    /\ HasRun \subseteq Nodes
    /\ phase = "run" \/ HasRun # {} => Unprepared = {}
    /\ \A j \in HasRun : \A k \in 1..j - 1 : Conflict(Node(k), Node(j)) => k \in HasRun
    /\ writer \in [TensorNames -> {0} \union Nodes]
    /\ \A t \in TensorNames : writer[t] = Max({0} \union Written(t))
    /\ DataFlowPreserved

\* The latest launch: if it ran, every operand a kernel touches had the prepared shape.
LaunchChecked ==
    /\ last.node \in Operators \union {0}
    /\ last.node \in HasRun =>
           \A f \in KernelFields(Op(Node(last.node))) :
               last.views[f].rows = 2 /\ last.views[f].inner = 2
    /\ PreparedIsAdmitted

Inv == HandlesIssued /\ RunsInOrder /\ LaunchChecked

\* What the assumption on programs says of the program of this behaviour.
LEMMA ProgramNodes ==
    ASSUME program \in Programs
    PROVE  /\ \E n \in Nat : Nodes = 1..n
           /\ \A i \in Operators : i \in Nodes /\ Callable(Node(i))
           /\ 0 \notin Nodes
           /\ program.geometry.requests \in Nat /\ program.geometry.width \in Nat
           /\ program.geometry.hk \in Nat /\ program.geometry.hv \in Nat
  <1>1. program.nodes \in Seq(Range(program.nodes))
    BY ProgramAssumption
  <1>2. Len(program.nodes) \in Nat /\ Nodes = 1..Len(program.nodes)
    BY <1>1 DEF Nodes
  <1>3. ASSUME NEW i \in Operators PROVE i \in Nodes /\ Callable(Node(i))
    <2>1. Node(i) \in Range(program.nodes) /\ Node(i).call # "caller" /\ i \in Nodes
      BY DEF Operators, Node, Nodes, Range
    <2> QED BY <2>1, ProgramAssumption
  <1>4. /\ program.geometry.requests \in Nat /\ program.geometry.width \in Nat
        /\ program.geometry.hk \in Nat /\ program.geometry.hv \in Nat
    <2>1. {program.geometry.requests, program.geometry.width, program.geometry.hk,
              program.geometry.hv} \subseteq Nat
      BY ProgramAssumption
    <2> QED BY <2>1
  <1> QED BY <1>2, <1>3, <1>4

\* Of a program whose operators are all prepared, every node declares what it does.
LEMMA AllDeclare ==
    ASSUME HandlesIssued, Unprepared = {}
    PROVE  \A i \in Nodes : /\ Declares(Node(i)) /\ Kind(Node(i)) # "refused"
                            /\ Declared(Node(i)) \subseteq TensorNames
                            /\ i \in Operators => Sound(Op(Node(i)))
  <1> TAKE i \in Nodes
  <1>1. CASE i \in Operators
    <2>1. captured[i] # 0
      BY <1>1 DEF Unprepared
    <2>2. Kind(Node(i)) # "refused" /\ Callable(Node(i))
      BY <2>1, <1>1, ProgramNodes DEF HandlesIssued
    <2>3. Sound(Op(Node(i)))
      BY <2>2, NodeSound
    <2>4. Declares(Node(i))
      BY <2>3, NodeDeclares
    <2> QED BY <2>2, <2>3, <2>4 DEF TensorNames
  <1>2. CASE i \notin Operators
    <2>1. Node(i).call = "caller"
      BY <1>2 DEF Operators
    <2>2. Kind(Node(i)) # "refused"
      BY <2>1 DEF Kind
    <2>3. Declares(Node(i))
      BY <2>1, NodeDeclares
    <2> QED BY <1>2, <2>2, <2>3 DEF TensorNames
  <1> QED BY <1>1, <1>2

\* The preconditions of what follows a launch: nothing it conflicts with, before it, is
\* still to run, and nothing it conflicts with, behind it, has run.
LEMMA Between ==
    ASSUME HandlesIssued, RunsInOrder, phase = "run", NEW i \in Nodes, Ready(i),
           NEW j \in Nodes, Conflict(Node(j), Node(i))
    PROVE  j # i => (j \in HasRun <=> j < i)
  <1>1. PICK n \in Nat : Nodes = 1..n
    BY ProgramNodes DEF HandlesIssued
  <1>2. i \in Nat /\ j \in Nat /\ j >= 1 /\ i >= 1
    BY <1>1
  <1>3. ASSUME j < i PROVE j \in HasRun
    <2>1. j \in 1..i - 1
      BY <1>2, <1>3
    <2> QED BY <2>1 DEF Ready
  <1>4. ASSUME i < j, j \in HasRun PROVE FALSE
    <2>1. i \in 1..j - 1
      BY <1>2, <1>4
    <2>2. Conflict(Node(i), Node(j))
      BY DEF Conflict
    <2>3. i \in HasRun
      BY <2>1, <2>2, <1>4 DEF RunsInOrder
    <2> QED BY <2>3 DEF Ready
  <1> QED BY <1>2, <1>3, <1>4

-----------------------------------------------------------------------------
(***************************************************************************)
(* Its steps: handles.                                                     *)
(***************************************************************************)

\* The static part of the graph: what depends on the program only.
LEMMA SameProgram ==
    ASSUME program' = program
    PROVE  /\ Nodes' = Nodes /\ Operators' = Operators /\ TensorNames' = TensorNames
           /\ \A i : program'.nodes[i] = Node(i)
  BY DEF Nodes, Operators, TensorNames, Node

\* No step changes the program.
LEMMA ProgramKept == [Next]_vars => program' = program
  <1> SUFFICES ASSUME [Next]_vars PROVE program' = program
    OBVIOUS
  <1>1. CASE PrepareNext
    BY <1>1 DEF PrepareNext, Prepare, Refuse
  <1>2. CASE Capture
    BY <1>2 DEF Capture
  <1>3. CASE LaunchNext
    BY <1>3 DEF LaunchNext, Launch
  <1>4. CASE CallerNext
    BY <1>4 DEF CallerNext
  <1>5. CASE Done \/ UNCHANGED vars
    BY <1>5 DEF Done, vars
  <1>6. CASE \E i \in Operators : Collect(i) \/ PrepareAgain(i)
    BY <1>6 DEF Collect, PrepareAgain
  <1> QED
    BY <1>1, <1>2, <1>3, <1>4, <1>5, <1>6 DEF Next

\* The segment of handles between two values of the counter.
LEMMA Segments ==
    ASSUME NEW a \in Nat \ {0}, NEW b \in Nat, b > a
    PROVE  /\ \A h \in a..b - 1 : h \in 1..b - 1 /\ h >= a
           /\ \A h \in 0..a - 1 : h \notin a..b - 1 /\ h \in 0..b - 1
           /\ b - 1 \in a..b - 1 /\ b - 1 \in 0..b - 1
  OBVIOUS

\* Registration takes the next handles and leaves the plans of the others alone.
LEMMA Registered ==
    ASSUME HandlesIssued, NEW i, NEW views, Register(i, views)
    PROVE  /\ next' \in Nat \ {0} /\ next' > next
           /\ DOMAIN plans' \subseteq 1..next' - 1
           /\ \A h \in 0..next - 1 : /\ h \in DOMAIN plans' <=> h \in DOMAIN plans
                                     /\ h \in DOMAIN plans => plans'[h] = plans[h]
           /\ next' - 1 \in DOMAIN plans'
                  /\ plans'[next' - 1] = [node |-> i, views |-> views]
  <1>1. next \in Nat \ {0} /\ DOMAIN plans \subseteq 1..next - 1
    BY DEF HandlesIssued
  <1>2. next' = next + Bindings(Op(Node(i))) /\ Bindings(Op(Node(i))) \in {1, 2}
    BY DEF Register, Bindings
  <1>3. next' \in Nat \ {0} /\ next' > next /\ next' - 1 \in next..next' - 1
    BY <1>1, <1>2
  <1>4. plans' = [h \in DOMAIN plans \union next..next' - 1 |->
                    IF h >= next THEN [node |-> i, views |-> views] ELSE plans[h]]
    BY DEF Register
  <1>5. \A h \in DOMAIN plans : h \in 1..next' - 1 /\ ~(h >= next)
    BY <1>1, <1>3
  <1>6. \A h \in next..next' - 1 : h \in 1..next' - 1 /\ h >= next
    BY <1>1, <1>3, Segments
  <1>7. \A h \in 0..next - 1 : h \notin next..next' - 1
    BY <1>1, <1>3, Segments
  <1> QED
    BY <1>3, <1>4, <1>5, <1>6, <1>7

\* Nothing is prepared and nothing has run.
LEMMA InitInv == Init => Inv
  <1> SUFFICES ASSUME Init PROVE Inv
    OBVIOUS
  <1>1. program \in Programs /\ HasRun = {} /\ DOMAIN plans = {}
    BY DEF Init, HasRun
  <1>2. HandlesIssued
    <2>1. captured = [i \in Nodes |-> 0] /\ next = 1
      BY DEF Init
    <2>2. Operators \subseteq Nodes
      BY DEF Operators
    <2> QED BY <1>1, <2>1, <2>2 DEF HandlesIssued
  <1>3. RunsInOrder
    <2>1. phase # "run" /\ writer = [t \in TensorNames |-> 0]
      BY DEF Init
    <2>2. \A t \in TensorNames : {0} \union Written(t) = {0}
      BY <1>1 DEF Written
    <2>3. Max({0}) = 0
      BY DEF Max
    <2> QED BY <1>1, <2>1, <2>2, <2>3 DEF RunsInOrder, DataFlowPreserved
  <1>4. LaunchChecked
    <2>1. last.node = 0 /\ last.outcome = "none"
      BY DEF Init
    <2> QED BY <1>1, <2>1 DEF LaunchChecked, PreparedIsAdmitted
  <1> QED BY <1>2, <1>3, <1>4 DEF Inv

\* Handles: a preparation takes the next ones, a collection removes them, and no
\* other step touches them.
LEMMA HandlesStep == HandlesIssued /\ [Next]_vars => HandlesIssued'
  <1> SUFFICES ASSUME HandlesIssued, [Next]_vars PROVE HandlesIssued'
    OBVIOUS
  <1>1. /\ program' = program /\ program' \in Programs
        /\ Nodes' = Nodes /\ Operators' = Operators /\ \A i : program'.nodes[i] = Node(i)
    BY ProgramKept, SameProgram DEF HandlesIssued
  <1>2. Operators \subseteq Nodes /\ 0 \notin DOMAIN plans
    BY DEF Operators, HandlesIssued
  <1>3. CASE UNCHANGED <<plans, next, captured>>
    BY <1>1, <1>3 DEF HandlesIssued, Node
  <1>4. CASE PrepareNext
    <2>1. CASE Refuse
      BY <2>1, <1>3 DEF Refuse
    <2>2. ASSUME NEW i \in Unprepared, Op(Node(i)).kind # "refused", NEW v,
                 Admits(Op(Node(i)), program.geometry, v), Register(i, v),
                 captured' = [captured EXCEPT ![i] = next' - 1]
          PROVE  HandlesIssued'
      <3>1. i \in Operators /\ i \in Nodes /\ captured[i] = 0 /\ Kind(Node(i)) # "refused"
        BY <2>2, <1>2 DEF Unprepared, Op
      <3>2. /\ next' \in Nat \ {0} /\ next' > next /\ next \in Nat
            /\ DOMAIN plans' \subseteq 1..next' - 1
            /\ \A h \in 0..next - 1 : /\ h \in DOMAIN plans' <=> h \in DOMAIN plans
                                      /\ h \in DOMAIN plans => plans'[h] = plans[h]
            /\ next' - 1 \in DOMAIN plans' /\ plans'[next' - 1] = [node |-> i, views |-> v]
        BY <2>2, Registered DEF HandlesIssued
      <3>3. captured' \in [Nodes -> 0..next' - 1]
        <4>1. next' - 1 \in 0..next' - 1 /\ 0..next - 1 \subseteq 0..next' - 1
          <5>1. next \in Nat \ {0} /\ next' \in Nat /\ next' > next
            BY <3>2 DEF HandlesIssued
          <5> QED BY <5>1, Segments
        <4>2. captured \in [Nodes -> 0..next' - 1]
          BY <4>1 DEF HandlesIssued
        <4> QED BY <2>2, <4>1, <4>2
      <3>4. \A j \in Operators : captured'[j] # 0 => Kind(Node(j)) # "refused"
        BY <2>2, <3>1, <1>2 DEF HandlesIssued
      <3>5. ASSUME NEW j \in Nodes, captured'[j] \in DOMAIN plans'
            PROVE  /\ plans'[captured'[j]].node = j
                   /\ Admits(Op(Node(j)), program.geometry, plans'[captured'[j]].views)
        <4>1. CASE j = i
          BY <4>1, <2>2, <3>1, <3>2 DEF HandlesIssued
        <4>2. CASE j # i
          <5>1. captured'[j] = captured[j] /\ captured[j] \in 0..next - 1
            BY <4>2, <2>2 DEF HandlesIssued
          <5>2. captured[j] \in DOMAIN plans /\ plans'[captured'[j]] = plans[captured[j]]
            BY <5>1, <3>2, <3>5
          <5> QED BY <5>1, <5>2 DEF HandlesIssued
        <4> QED BY <4>1, <4>2
      <3> QED BY <1>1, <3>2, <3>3, <3>4, <3>5 DEF HandlesIssued, Node
    <2> QED BY <1>4, <2>1, <2>2 DEF PrepareNext, Prepare
  <1>5. CASE Capture
    BY <1>5, <1>3 DEF Capture
  <1>6. CASE LaunchNext
    BY <1>6, <1>3 DEF LaunchNext, Launch
  <1>7. CASE CallerNext
    BY <1>7, <1>3 DEF CallerNext
  <1>8. CASE Done \/ UNCHANGED vars
    BY <1>8, <1>3 DEF Done, vars
  <1>9. ASSUME NEW i \in Operators, Collect(i) PROVE HandlesIssued'
    <2>1. /\ next' = next /\ captured' = captured
          /\ DOMAIN plans' \subseteq DOMAIN plans
          /\ \A h \in DOMAIN plans' : plans'[h] = plans[h]
      BY <1>9 DEF Collect
    <2> QED BY <1>1, <2>1 DEF HandlesIssued, Node
  <1>10. ASSUME NEW i \in Operators, PrepareAgain(i) PROVE HandlesIssued'
    <2>1. PICK v : Register(i, v)
      BY <1>10 DEF PrepareAgain
    <2>2. captured' = captured
      BY <1>10 DEF PrepareAgain
    <2>3. /\ next' \in Nat \ {0} /\ next' > next /\ next \in Nat
          /\ DOMAIN plans' \subseteq 1..next' - 1
          /\ \A h \in 0..next - 1 : /\ h \in DOMAIN plans' <=> h \in DOMAIN plans
                                    /\ h \in DOMAIN plans => plans'[h] = plans[h]
      BY <2>1, Registered DEF HandlesIssued
    <2>4. \A j \in Nodes : captured[j] \in 0..next - 1
      BY DEF HandlesIssued
    <2>5. captured' \in [Nodes -> 0..next' - 1]
      <3>1. 0..next - 1 \subseteq 0..next' - 1
        BY <2>3
      <3> QED BY <2>2, <3>1 DEF HandlesIssued
    <2>6. \A j \in Nodes : captured[j] \in DOMAIN plans' =>
             captured[j] \in DOMAIN plans /\ plans'[captured[j]] = plans[captured[j]]
      BY <2>3, <2>4
    <2> QED BY <1>1, <2>2, <2>3, <2>5, <2>6 DEF HandlesIssued, Node
  <1> QED
    BY <1>4, <1>5, <1>6, <1>7, <1>8, <1>9, <1>10 DEF Next

\* A handle behind the counter is never issued again.
LEMMA ExpiredStep ==
    HandlesIssued /\ [Next]_vars =>
        [\A i \in Operators :
          captured[i] # 0 /\ captured[i] \notin DOMAIN plans
          => captured'[i] \notin DOMAIN plans']_vars
  <1> SUFFICES ASSUME HandlesIssued, [Next]_vars, NEW i \in Operators,
                      captured[i] # 0, captured[i] \notin DOMAIN plans
               PROVE  captured'[i] \notin DOMAIN plans'
    OBVIOUS
  <1>1. i \in Nodes /\ captured[i] \in 0..next - 1
    BY DEF Operators, HandlesIssued
  <1>2. CASE UNCHANGED <<plans, captured>>
    BY <1>2
  <1>3. CASE PrepareNext
    <2>1. CASE Refuse
      BY <2>1, <1>2 DEF Refuse
    <2>2. ASSUME NEW j \in Unprepared, NEW v, Register(j, v),
                 captured' = [captured EXCEPT ![j] = next' - 1]
          PROVE  captured'[i] \notin DOMAIN plans'
      <3>1. j # i
        BY <2>2 DEF Unprepared
      <3>2. captured'[i] = captured[i]
        BY <3>1, <2>2, <1>1 DEF HandlesIssued
      <3>3. captured[i] \in DOMAIN plans' <=> captured[i] \in DOMAIN plans
        BY <1>1, <2>2, Registered
      <3> QED BY <3>2, <3>3
    <2> QED BY <1>3, <2>1, <2>2 DEF PrepareNext, Prepare
  <1>4. CASE Capture \/ LaunchNext \/ CallerNext \/ Done \/ UNCHANGED vars
    BY <1>4, <1>2 DEF Capture, LaunchNext, Launch, CallerNext, Done, vars
  <1>5. ASSUME NEW j \in Operators, Collect(j) PROVE captured'[i] \notin DOMAIN plans'
    BY <1>5 DEF Collect
  <1>6. ASSUME NEW j \in Operators, PrepareAgain(j) PROVE captured'[i] \notin DOMAIN plans'
    <2>1. PICK v : Register(j, v)
      BY <1>6 DEF PrepareAgain
    <2>2. captured' = captured
      BY <1>6 DEF PrepareAgain
    <2> QED BY <1>1, <2>1, <2>2, Registered
  <1> QED
    BY <1>3, <1>4, <1>5, <1>6 DEF Next

-----------------------------------------------------------------------------
(***************************************************************************)
(* Its steps: the order of the runs.                                       *)
(***************************************************************************)

\* The maximum of a set extended by something greater.
LEMMA LastOfMore ==
    ASSUME NEW S, NEW i \in Nat, S \subseteq Nat, \A j \in S : j < i
    PROVE  Max({0} \union (S \union {i})) = i
  <1> DEFINE T == {0} \union (S \union {i})
  <1>1. i \in T /\ \A y \in T : i >= y
    OBVIOUS
  <1>2. ASSUME NEW x \in T, \A y \in T : x >= y PROVE x = i
    <2>1. x \in Nat /\ x >= i /\ i >= x
      BY <1>1, <1>2
    <2> QED BY <2>1
  <1> HIDE DEF T
  <1>3. Max(T) = i
    BY <1>1, <1>2 DEF Max
  <1> QED BY <1>3 DEF T

\* A node that runs in its turn reads what the program order would have left, and
\* becomes the last writer of what it writes.
LEMMA RanKeeps ==
    ASSUME HandlesIssued, RunsInOrder, phase = "run", NEW i \in Nodes, Ready(i), Ran(i),
           UNCHANGED <<program, captured>>
    PROVE  RunsInOrder'
  <1>1. /\ Nodes' = Nodes /\ Operators' = Operators /\ TensorNames' = TensorNames
        /\ \A j : program'.nodes[j] = Node(j)
    BY SameProgram
  <1>2. PICK n \in Nat : Nodes = 1..n
    BY ProgramNodes DEF HandlesIssued
  <1>3. HasRun' = HasRun \union {i} /\ i \notin HasRun
    BY DEF Ran, HasRun, Ready
  <1>4. Unprepared = {} /\ Unprepared' = {}
    <2>1. Unprepared = {}
      BY DEF RunsInOrder
    <2> QED BY <2>1, <1>1 DEF Unprepared
  <1>5. \A j \in Nodes : Declares(Node(j)) /\ Declared(Node(j)) \subseteq TensorNames
    BY <1>4, AllDeclare
  <1>6. ASSUME NEW j \in HasRun', NEW k \in 1..j - 1, Conflict(Node(k), Node(j))
        PROVE  k \in HasRun'
    <2>1. CASE j = i
      BY <2>1, <1>3, <1>6 DEF Ready
    <2>2. CASE j \in HasRun
      BY <2>2, <1>3, <1>6 DEF RunsInOrder
    <2> QED BY <2>1, <2>2, <1>3
  <1>7. ASSUME NEW t \in TensorNames
        PROVE  writer'[t] \in {0} \union Nodes /\ writer'[t] = Max({0} \union Written(t)')
    <2>0. writer[t] \in {0} \union Nodes /\ writer[t] = Max({0} \union Written(t))
      BY DEF RunsInOrder
    <2>1. Written(t)' = {j \in HasRun \union {i} : t \in WrittenBy(Node(j))}
      BY <1>1, <1>3 DEF Written, Node
    <2>2. writer'[t] = IF t \in WrittenBy(Node(i)) THEN i ELSE writer[t]
      BY DEF Ran, RunsInOrder
    <2>3. CASE t \in WrittenBy(Node(i))
      <3>1. Written(t)' = Written(t) \union {i}
        BY <2>1, <2>3 DEF Written
      <3>2. ASSUME NEW j \in Written(t) PROVE j \in Nat /\ j < i
        <4>1. j \in HasRun /\ j \in Nodes /\ j # i /\ t \in WrittenBy(Node(j))
          BY <1>3 DEF Written, RunsInOrder
        <4>2. Conflict(Node(j), Node(i))
          BY <4>1, <2>3, <1>5 DEF Conflict, Declares
        <4> QED BY <4>1, <4>2, <1>2, Between
      <3>3. i \in Nat
        BY <1>2
      <3>4. Max({0} \union (Written(t) \union {i})) = i
        BY <3>2, <3>3, LastOfMore
      <3> QED BY <3>1, <3>4, <2>2, <2>3
    <2>4. CASE t \notin WrittenBy(Node(i))
      <3>1. Written(t)' = Written(t)
        BY <2>1, <2>4 DEF Written
      <3> QED BY <3>1, <2>0, <2>2, <2>4
    <2> QED BY <2>3, <2>4
  <1>8. writer' \in [TensorNames -> {0} \union Nodes]
    <2>1. writer' =
              [t \in TensorNames |-> IF t \in WrittenBy(Node(i)) THEN i ELSE writer[t]]
      BY DEF Ran, RunsInOrder
    <2>2. \A t \in TensorNames : writer[t] \in {0} \union Nodes
      BY DEF RunsInOrder
    <2> QED BY <2>1, <2>2
  <1>9. ASSUME NEW j \in HasRun', NEW t \in DOMAIN seen'[j]
        PROVE  seen'[j][t] = Max({0} \union {k \in 1..j - 1 : t \in WrittenBy(Node(k))})
    <2>1. CASE j = i
      <3>1. seen'[i] = [u \in ReadBy(Node(i)) |-> writer[u]]
        BY DEF Ran
      <3>2. t \in ReadBy(Node(i)) /\ seen'[j][t] = writer[t]
        BY <3>1, <2>1, <1>9
      <3>3. t \in TensorNames /\ t \in Declared(Node(i))
        BY <3>2, <1>5 DEF Declares
      <3>4. writer[t] = Max({0} \union Written(t))
        BY <3>3 DEF RunsInOrder
      <3>5. ASSUME NEW k \in Written(t) PROVE k \in 1..i - 1 /\ t \in WrittenBy(Node(k))
        <4>1. k \in HasRun /\ k \in Nodes /\ k # i /\ t \in WrittenBy(Node(k))
          BY <1>3 DEF Written, RunsInOrder
        <4>2. Conflict(Node(k), Node(i))
          BY <4>1, <3>3, <1>5 DEF Conflict, Declares
        <4>3. k < i
          BY <4>1, <4>2, Between
        <4> QED BY <4>1, <4>3, <1>2
      <3>6. ASSUME NEW k \in 1..i - 1, t \in WrittenBy(Node(k)) PROVE k \in Written(t)
        <4>1. k \in Nodes /\ k < i /\ k # i
          BY <1>2
        <4>2. Conflict(Node(k), Node(i))
          BY <4>1, <3>3, <3>6, <1>5 DEF Conflict, Declares
        <4>3. k \in HasRun
          BY <4>1, <4>2, Between
        <4> QED BY <4>3, <3>6 DEF Written
      <3>7. Written(t) = {k \in 1..i - 1 : t \in WrittenBy(Node(k))}
        BY <3>5, <3>6
      <3> QED BY <2>1, <3>2, <3>4, <3>7
    <2>2. CASE j # i
      <3>1. j \in HasRun /\ seen'[j] = seen[j]
        BY <2>2, <1>3 DEF Ran, HasRun
      <3> QED BY <3>1, <1>9 DEF RunsInOrder, DataFlowPreserved
    <2> QED BY <2>1, <2>2
  <1>10. HasRun' \subseteq Nodes
    BY <1>3 DEF RunsInOrder
  <1>11. DataFlowPreserved'
    BY <1>1, <1>9 DEF DataFlowPreserved, Node
  <1>12. \A j \in HasRun' : \A k \in 1..j - 1 : Conflict(Node(k), Node(j)) => k \in HasRun'
    BY <1>6
  <1> QED
    BY <1>1, <1>4, <1>7, <1>8, <1>10, <1>11, <1>12 DEF RunsInOrder, Node

\* Steps that run nothing keep the order of the runs.
LEMMA RunsKept ==
    ASSUME RunsInOrder, UNCHANGED <<program, writer, seen>>,
           Unprepared' \subseteq Unprepared, phase' = "run" =>
               phase = "run" \/ Unprepared = {}
    PROVE  RunsInOrder'
  <1>1. /\ Nodes' = Nodes /\ TensorNames' = TensorNames /\ HasRun' = HasRun
        /\ \A j : program'.nodes[j] = Node(j)
    BY SameProgram DEF HasRun
  <1>2. \A t : Written(t)' = Written(t)
    BY <1>1 DEF Written, Node
  <1>3. DataFlowPreserved'
    BY <1>1 DEF RunsInOrder, DataFlowPreserved, Node
  <1>4. phase' = "run" \/ HasRun' # {} => Unprepared' = {}
    BY <1>1 DEF RunsInOrder
  <1> QED
    BY <1>1, <1>2, <1>3, <1>4 DEF RunsInOrder, Node

\* Every step keeps the order of the runs.
LEMMA RunsStep == HandlesIssued /\ RunsInOrder /\ [Next]_vars => RunsInOrder'
  <1> SUFFICES ASSUME HandlesIssued, RunsInOrder, [Next]_vars PROVE RunsInOrder'
    OBVIOUS
  <1>1. program' = program /\ Operators' = Operators /\ Operators \subseteq Nodes
    BY ProgramKept, SameProgram DEF Operators
  <1>2. captured' = captured => Unprepared' = Unprepared
    BY <1>1 DEF Unprepared
  <1>3. CASE PrepareNext
    <2>1. CASE Refuse
      BY <2>1, <1>2, RunsKept DEF Refuse
    <2>2. ASSUME NEW i \in Unprepared, NEW v, Register(i, v),
                 captured' = [captured EXCEPT ![i] = next' - 1],
                 UNCHANGED <<program, phase, writer, seen>>
          PROVE  RunsInOrder'
      <3>1. Unprepared' \subseteq Unprepared
        BY <2>2, <1>1 DEF Unprepared, HandlesIssued
      <3> QED BY <2>2, <3>1, RunsKept
    <2> QED BY <1>3, <2>1, <2>2 DEF PrepareNext, Prepare
  <1>4. CASE Capture
    BY <1>4, <1>2, RunsKept DEF Capture
  <1>5. ASSUME NEW i \in Operators, NEW v, phase = "run", Ready(i), Launch(i, v)
        PROVE  RunsInOrder'
    <2>1. CASE Outcome(i, v) = "ran"
      BY <2>1, <1>1, <1>5, RanKeeps DEF Launch
    <2>2. CASE Outcome(i, v) # "ran"
      BY <2>2, <1>2, <1>5, RunsKept DEF Launch
    <2> QED BY <2>1, <2>2
  <1>6. ASSUME NEW i \in Nodes \ Operators, phase = "run", Ready(i), Ran(i),
               UNCHANGED <<program, captured>>
        PROVE  RunsInOrder'
    BY <1>6, RanKeeps
  <1>7. CASE Done \/ UNCHANGED vars
    BY <1>7, <1>2, RunsKept DEF Done, vars
  <1>8. ASSUME NEW i \in Operators, Collect(i) \/ PrepareAgain(i) PROVE RunsInOrder'
    BY <1>8, <1>2, RunsKept DEF Collect, PrepareAgain
  <1> QED
    BY <1>3, <1>4, <1>5, <1>6, <1>7, <1>8 DEF Next, LaunchNext, CallerNext

-----------------------------------------------------------------------------
(***************************************************************************)
(* Its steps: launches.                                                    *)
(***************************************************************************)

\* Every name of two lists has a place in the joined list.
LEMMA NamesJoined ==
    ASSUME NEW R, NEW B, List(R), List(B)
    PROVE  /\ Len(R) + Len(B) \in Nat
           /\ \A f \in Range(R) \union Range(B) :
                  \E k \in 1..Len(R) + Len(B) : (R \o B)[k] = f
  <1> DEFINE all == R \o B
             len == Len(R) + Len(B)
  <1>1. /\ List(all) /\ Len(all) = len /\ len \in Nat
        /\ Range(all) = Range(R) \union Range(B)
    BY ListJoin, ListShape
  <1> HIDE DEF all, len
  <1>2. \A f \in Range(R) \union Range(B) : \E k \in 1..len : all[k] = f
    BY <1>1, ListShape
  <1> QED BY <1>1, <1>2 DEF all, len

\* The operands of two lists, one list behind the other, are those of the joined names.
LEMMA OperandsJoined ==
    ASSUME NEW R, NEW B, List(R), List(B), NEW u
    PROVE  /\ Len(ViewSeq(R, u)) = Len(R) /\ Len(ViewSeq(B, u)) = Len(B)
           /\ \A k \in 1..Len(R) + Len(B) :
                  (ViewSeq(R, u) \o ViewSeq(B, u))[k] = u[(R \o B)[k]]
  <1> DEFINE all == R \o B
             len == Len(R) + Len(B)
  <1>1. List(all) /\ Len(all) = len
    BY ListJoin
  <1>2. ViewSeq(R, u) = Values(R, u) /\ ViewSeq(B, u) = Values(B, u)
    BY DEF ViewSeq, Values
  <1>3. Len(Values(R, u)) = Len(R) /\ Len(Values(B, u)) = Len(B)
    BY ValuesShape
  <1>4. Values(R, u) \o Values(B, u) = Values(all, u)
    BY ValuesJoin
  <1> HIDE DEF all, len
  <1>5. \A k \in 1..len : Values(all, u)[k] = u[all[k]]
    BY <1>1, ValuesShape
  <1> QED BY <1>2, <1>3, <1>4, <1>5 DEF all, len

\* Operands that pass the comparison with the record of other operands have their
\* rows and columns (check_metadata and PreparedAuxiliary.check_operands).
LEMMA SameShape ==
    ASSUME NEW op, Sound(op), NEW v, NEW w,
           LET plan == Plan(ViewSeq(Inputs(op), w), ViewSeq(Buffers(op), w))
               ins == ViewSeq(Inputs(op), v)
               bufs == ViewSeq(Buffers(op), v)
           IN  CheckMetadata(plan, ins, bufs) \/ CheckAuxiliary(plan, ins, bufs)
    PROVE  \A f \in Fields(op) : v[f].rows = w[f].rows /\ v[f].inner = w[f].inner
  <1> DEFINE R == Inputs(op)
             B == Buffers(op)
             all == R \o B
             len == Len(R) + Len(B)
             Joined(u) == ViewSeq(R, u) \o ViewSeq(B, u)
             plan == Plan(ViewSeq(R, w), ViewSeq(B, w))
  <1>1. List(R) /\ List(B)
    BY DEF Sound
  <1> HIDE DEF R, B
  <1>2. len \in Nat /\ \A f \in Range(R) \union Range(B) : \E k \in 1..len : all[k] = f
    BY <1>1, NamesJoined
  <1>3. ASSUME NEW u
        PROVE  /\ Len(ViewSeq(R, u)) = Len(R) /\ Len(ViewSeq(B, u)) = Len(B)
               /\ \A k \in 1..len : Joined(u)[k] = u[all[k]]
    BY <1>1, OperandsJoined
  <1> HIDE DEF all, len, Joined
  <1>4. plan.signatures = [k \in 1..len |-> Signature(Joined(w)[k])]
    BY <1>3 DEF Plan, Joined, len
  <1>5. \A k \in 1..len : /\ Joined(v)[k].rows = plan.signatures[k].rows
                          /\ Joined(v)[k].inner = plan.signatures[k].inner
    <2> HIDE DEF plan
    <2>1. \/ CheckMetadata(plan, ViewSeq(R, v), ViewSeq(B, v))
          \/ CheckAuxiliary(plan, ViewSeq(R, v), ViewSeq(B, v))
      BY DEF plan, R, B
    <2> QED BY <2>1, <1>3 DEF CheckMetadata, CheckAuxiliary, SameLayout, Joined, len
  <1> HIDE DEF plan
  <1>6. \A k \in 1..len : /\ plan.signatures[k].rows = Joined(w)[k].rows
                          /\ plan.signatures[k].inner = Joined(w)[k].inner
    BY <1>4 DEF Signature
  <1>7. \A k \in 1..len : v[all[k]].rows = w[all[k]].rows
            /\ v[all[k]].inner = w[all[k]].inner
    BY <1>3, <1>5, <1>6
  <1>8. \A f \in Fields(op) : \E k \in 1..len : all[k] = f
    BY <1>2 DEF Fields, R, B
  <1> QED BY <1>7, <1>8

\* What a constructor admitted and did not change since, the native entry takes.
LEMMA AdmittedNatively ==
    ASSUME NEW op, NEW g, NEW v, Admits(op, g, v), op.kind \notin AuxKinds,
           WithinGrid(op, g), ~NativeAdmits(op, g, v),
           g.requests \in Nat, g.width \in Nat, g.hk \in Nat, g.hv \in Nat
    PROVE  op.kind \in Commits /\ (g.requests = 0 \/ g.hv = 0)
  <1>1. \A f \in StridesChecked(op) : v[f].pitch >= v[f].inner
    <2>1. StridesChecked(op) \subseteq Views(op)
      BY DEF StridesChecked, Views, GdnKinds, Commits, AuxKinds
    <2> QED BY <2>1 DEF Admits
  <1>2. ~NativeShape(op, g)
    BY <1>1 DEF NativeAdmits
  <1>3. Capacity(op, g)
    BY DEF Admits
  <1>4. CASE op.kind \in GdnKinds
    <2>1. GdnCapacity(op, g)
      BY <1>3, <1>4 DEF Capacity, GdnKinds, Commits
    <2>2. op.mode = "verify" => g.width <= 8
      BY <2>1 DEF GdnCapacity
    <2>3. NativeShape(op, g)
      BY <1>4, <2>1, <2>2 DEF NativeShape, GdnCapacity, GdnKinds, Commits
    <2> QED BY <1>2, <2>3
  <1>5. CASE op.kind \in Commits
    BY <1>2, <1>3, <1>5 DEF NativeShape, Capacity, CommitCapacity, Commits, GdnKinds
  <1>6. CASE op.kind = "qsa"
    BY <1>2, <1>3, <1>6 DEF NativeShape, Capacity, QsaCapacity, Commits, GdnKinds
  <1>7. CASE op.kind \notin GdnKinds \union Commits \union {"qsa"}
    BY <1>2, <1>7 DEF NativeShape
  <1> QED BY <1>4, <1>5, <1>6, <1>7

\* What a launch that ran, or that the native entry refused, says of its operands.
LEMMA LaunchOutcome ==
    ASSUME HandlesIssued, RunsInOrder, phase = "run", NEW i \in Operators, NEW v,
           NEW op, op = Op(Node(i)), NEW plan, plan = plans[captured[i]]
    PROVE  /\ Outcome(i, v) = "ran" =>
                 \A f \in KernelFields(op) : v[f].rows = 2 /\ v[f].inner = 2
           /\ Outcome(i, v) = "status" =>
                 /\ captured[i] \in DOMAIN plans
                 /\ \/ ~WithinGrid(op, program.geometry)
                    \/ /\ op.kind \in Commits
                       /\ program.geometry.requests = 0 \/ program.geometry.hv = 0
                    \/ v # plan.views
  <1>1. Sound(op)
    BY AllDeclare DEF RunsInOrder, Operators
  <1>2. CASE captured[i] \notin DOMAIN plans
    BY <1>2 DEF Outcome
  <1>3. CASE captured[i] \in DOMAIN plans
    <2> DEFINE w == plan.views
               ins == ViewSeq(Inputs(op), v)
               bufs == ViewSeq(Buffers(op), v)
               record == Plan(ViewSeq(Inputs(op), w), ViewSeq(Buffers(op), w))
               auxiliary == op.kind \in AuxKinds
    <2>1. plan.node = i /\ Admits(op, program.geometry, w)
      BY <1>3 DEF HandlesIssued, Operators
    <2>2. Outcome(i, v) =
            CASE auxiliary /\ ~CheckAuxiliary(record, ins, bufs) -> "changed"
              [] ~auxiliary /\ ~CheckOperands(record, ins, bufs) -> "changed"
              [] auxiliary /\ ~AdmitsAuxiliary(ins, bufs) -> "status"
              [] ~auxiliary /\ ~NativeAdmits(op, program.geometry, v) -> "status"
              [] OTHER -> "ran"
      BY <1>3, <2>1 DEF Outcome
    <2> HIDE DEF ins, bufs, record
    <2>3. ASSUME Outcome(i, v) = "ran"
          PROVE  \A f \in KernelFields(op) : v[f].rows = 2 /\ v[f].inner = 2
      <3>1. CheckAuxiliary(record, ins, bufs) \/ CheckMetadata(record, ins, bufs)
        BY <2>2, <2>3 DEF CheckOperands
      <3>2. \A f \in Fields(op) : v[f].rows = w[f].rows /\ v[f].inner = w[f].inner
        BY <3>1, <1>1, SameShape DEF record, ins, bufs
      <3>3. KernelFields(op) \subseteq Fields(op) /\ KernelFields(op) \subseteq Checked(op)
        BY <1>1 DEF Sound, KernelFields, Fields
      <3>4. \A f \in Checked(op) : w[f].rows = 2 /\ w[f].inner = 2
        BY <2>1 DEF Admits
      <3> QED BY <3>2, <3>3, <3>4
    <2>4. ASSUME Outcome(i, v) = "status", v = w, WithinGrid(op, program.geometry)
          PROVE  op.kind \in Commits
                     /\ (program.geometry.requests = 0 \/ program.geometry.hv = 0)
      <3>1. ~RejectsAliases(ins, bufs)
        BY <2>1, <2>4 DEF Admits, ins, bufs
      <3>2. ~auxiliary /\ ~NativeAdmits(op, program.geometry, v)
        BY <2>2, <2>4, <3>1 DEF AdmitsAuxiliary
      <3> QED BY <3>2, <2>1, <2>4, AdmittedNatively, ProgramNodes DEF HandlesIssued
    <2> QED BY <1>3, <2>3, <2>4
  <1> QED BY <1>2, <1>3

\* Steps that launch nothing keep what the latest launch checked.
LEMMA LaunchesKept ==
    ASSUME LaunchChecked, UNCHANGED <<program, last>>,
           \A i \in HasRun' : i \in Operators \union {0} => i \in HasRun
    PROVE  LaunchChecked'
  <1>1. Operators' = Operators /\ \A i : program'.nodes[i] = Node(i)
    BY SameProgram
  <1>2. PreparedIsAdmitted'
    BY <1>1 DEF LaunchChecked, PreparedIsAdmitted, Node
  <1> QED
    BY <1>1, <1>2 DEF LaunchChecked, Node

\* Every step keeps what the latest launch checked.
LEMMA LaunchStep == Inv /\ [Next]_vars => LaunchChecked'
  <1> SUFFICES ASSUME HandlesIssued, RunsInOrder, LaunchChecked, [Next]_vars
      PROVE  LaunchChecked'
    BY DEF Inv
  <1>1. /\ program' = program /\ Operators' = Operators /\ Operators \subseteq Nodes
               /\ 0 \notin Nodes
        /\ \A i : program'.nodes[i] = Node(i)
    BY ProgramKept, SameProgram, ProgramNodes DEF Operators, HandlesIssued
  <1>2. CASE UNCHANGED <<last, seen>>
    BY <1>1, <1>2, LaunchesKept DEF HasRun
  <1>3. CASE PrepareNext
    BY <1>3, <1>2 DEF PrepareNext, Prepare, Refuse
  <1>4. ASSUME NEW i \in Operators, NEW v, phase = "run", Ready(i), Launch(i, v)
        PROVE  LaunchChecked'
    <2> DEFINE op == Op(Node(i))
               plan == plans[captured[i]]
    <2>1. /\ last'.node = i /\ last'.outcome = Outcome(i, v) /\ last'.views = v
          /\ last'.owner = IF captured[i] \in DOMAIN plans THEN plan ELSE Nobody
      BY <1>4 DEF Launch
    <2>2. i \notin HasRun /\ (Outcome(i, v) # "ran" => seen' = seen)
      BY <1>4 DEF Launch, Ready
    <2>3. i \in HasRun' => Outcome(i, v) = "ran"
      BY <2>2 DEF HasRun
    <2>4. Op(program'.nodes[i]) = op /\ program'.geometry = program.geometry
      BY <1>1
    <2> HIDE DEF op, plan
    <2>5. /\ Outcome(i, v) = "ran" =>
                 \A f \in KernelFields(op) : v[f].rows = 2 /\ v[f].inner = 2
          /\ Outcome(i, v) = "status" =>
                 /\ captured[i] \in DOMAIN plans
                 /\ \/ ~WithinGrid(op, program.geometry)
                    \/ /\ op.kind \in Commits
                       /\ program.geometry.requests = 0 \/ program.geometry.hv = 0
                    \/ v # plan.views
      BY <1>4, LaunchOutcome DEF op, plan
    <2>6. PreparedIsAdmitted'
      BY <2>1, <2>4, <2>5 DEF PreparedIsAdmitted, Node
    <2> QED BY <1>1, <2>1, <2>3, <2>4, <2>5, <2>6 DEF LaunchChecked, Node
  <1>5. ASSUME NEW i \in Nodes \ Operators, Ran(i), last' = last PROVE LaunchChecked'
    <2>1. HasRun' = HasRun \union {i} /\ i \notin Operators \union {0}
      BY <1>1, <1>5 DEF Ran, HasRun
    <2> QED BY <1>1, <1>5, <2>1, LaunchesKept
  <1>6. CASE Capture \/ Done \/ UNCHANGED vars
    BY <1>6, <1>2 DEF Capture, Done, vars
  <1>7. ASSUME NEW i \in Operators, Collect(i) \/ PrepareAgain(i) PROVE LaunchChecked'
    BY <1>7, <1>2 DEF Collect, PrepareAgain
  <1> QED
    BY <1>3, <1>4, <1>5, <1>6, <1>7 DEF Next, LaunchNext, CallerNext

-----------------------------------------------------------------------------
(***************************************************************************)
(* Recursion: minimal counterexamples, and the merge of overlap().         *)
(***************************************************************************)

\* A set of numbers has a least one: the form of induction used for recursive definitions.
LEMMA LeastNatural ==
    ASSUME NEW T, T \subseteq Nat, T # {}
    PROVE  \E x \in T : \A y \in T : x <= y
  <1> DEFINE R == OpToRel(<, Nat)
  <1>1. IsWellFoundedOn(R, Nat)
    BY NatLessThanWellFounded, Zenon
  <1>2. \A x, y \in Nat : <<y, x>> \in R <=> y < x
    BY Zenon DEF OpToRel
  <1> HIDE DEF R
  <1>3. PICK x \in T : \A y \in T : <<y, x>> \notin R
    BY <1>1, WFMin
  <1>4. ASSUME NEW y \in T PROVE x <= y
    <2>1. <<y, x>> \notin R
      BY <1>3
    <2>2. x \in Nat /\ y \in Nat
      OBVIOUS
    <2>3. ~(y < x)
      BY <1>2, <2>1, <2>2
    <2> QED BY <2>2, <2>3
  <1> QED BY <1>4

\* If a set of numbers is not all of 0..n, there is one outside it whose predecessor,
\* unless it is 0, is inside.
LEMMA FirstOutside ==
    ASSUME NEW n \in Nat, NEW S, NEW x \in 0..n, x \notin S
    PROVE  \E k \in 0..n : k \notin S /\ (k = 0 \/ (k - 1 \in S /\ k - 1 \in 0..n))
  <1> DEFINE T == {k \in 0..n : k \notin S}
  <1>1. T \subseteq Nat /\ T # {}
    OBVIOUS
  <1>2. PICK k \in T : \A y \in T : k <= y
    <2> HIDE DEF T
    <2> QED BY <1>1, LeastNatural
  <1>3. k \in 0..n /\ k \notin S
    OBVIOUS
  <1>4. CASE k > 0
    <2>1. k - 1 \in 0..n /\ ~(k <= k - 1)
      BY <1>3, <1>4
    <2>2. k - 1 \in S
      BY <1>2, <2>1
    <2> QED BY <1>3, <2>1, <2>2
  <1> QED BY <1>3, <1>4

\* The states of a merge, as the loop of overlap() makes them.
IsMerge(a, b, f, n) ==
    f = [k \in 0..n |-> IF k = 0 THEN <<1, 1>> ELSE Pass(a, b, f[k - 1])]

\* There is one of every length.
LEMMA MergeExists ==
    ASSUME NEW a, NEW b, NEW n \in Nat
    PROVE  \E f : IsMerge(a, b, f, n)
  <1> DEFINE S == {k \in 0..n : \E f : IsMerge(a, b, f, k)}
  <1> SUFFICES ASSUME n \notin S PROVE FALSE
    OBVIOUS
  <1>1. PICK k \in 0..n : k \notin S /\ (k = 0 \/ (k - 1 \in S /\ k - 1 \in 0..n))
    <2> HIDE DEF S
    <2> QED BY FirstOutside
  <1>2. ~ \E f : IsMerge(a, b, f, k)
    BY <1>1
  <1>3. CASE k = 0
    <2>1. IsMerge(a, b, [j \in 0..0 |-> <<1, 1>>], 0)
      BY DEF IsMerge
    <2> QED BY <1>2, <1>3, <2>1
  <1>4. CASE k # 0
    <2>1. k \in Nat /\ k > 0 /\ k - 1 \in Nat
      BY <1>4
    <2>2. PICK g : IsMerge(a, b, g, k - 1)
      BY <1>1, <1>4
    <2>3. \A j \in 0..k - 1 : g[j] = IF j = 0 THEN <<1, 1>> ELSE Pass(a, b, g[j - 1])
      <3>1. g = [j \in 0..k - 1 |-> IF j = 0 THEN <<1, 1>> ELSE Pass(a, b, g[j - 1])]
        BY <2>2 DEF IsMerge
      <3> QED BY <3>1
    <2> DEFINE h == [j \in 0..k |-> IF j < k THEN g[j] ELSE Pass(a, b, g[k - 1])]
    <2>4. \A j \in 0..k : h[j] = IF j = 0 THEN <<1, 1>> ELSE Pass(a, b, h[j - 1])
      <3> TAKE j \in 0..k
      <3>1. CASE j = 0
        <4>1. j < k /\ j \in 0..k - 1
          BY <2>1, <3>1
        <4>2. h[j] = g[j]
          BY <4>1
        <4> QED BY <2>3, <3>1, <4>1, <4>2
      <3>2. CASE j # 0 /\ j < k
        <4>1. j - 1 < k /\ j - 1 \in 0..k /\ j \in 0..k - 1
          BY <2>1, <3>2
        <4>2. h[j] = g[j] /\ h[j - 1] = g[j - 1]
          BY <4>1, <3>2
        <4>3. g[j] = Pass(a, b, g[j - 1])
          BY <2>3, <4>1, <3>2
        <4> QED BY <3>2, <4>2, <4>3
      <3>3. CASE j = k
        <4>1. k - 1 < k /\ k - 1 \in 0..k /\ ~(j < k)
          BY <2>1, <3>3
        <4>2. h[j] = Pass(a, b, g[k - 1]) /\ h[k - 1] = g[k - 1]
          BY <4>1, <3>3
        <4> QED BY <4>2, <3>3, <2>1
      <3> QED BY <3>1, <3>2, <3>3
    <2>5. IsMerge(a, b, h, k)
      <3>1. h = [j \in 0..k |-> h[j]]
        OBVIOUS
      <3> HIDE DEF h
      <3>2. [j \in 0..k |-> h[j]]
                = [j \in 0..k |-> IF j = 0 THEN <<1, 1>> ELSE Pass(a, b, h[j - 1])]
        BY <2>4
      <3> QED BY <3>1, <3>2 DEF IsMerge
    <2> QED BY <1>2, <2>5
  <1> QED BY <1>3, <1>4

\* overlap() returns whether the last of these states is within both lists.
LEMMA OverlapIsMerge ==
    ASSUME NEW a, NEW b, Len(a) \in Nat, Len(b) \in Nat
    PROVE  \E f : /\ IsMerge(a, b, f, Len(a) + Len(b))
                  /\ Overlap(a, b) <=> /\ f[Len(a) + Len(b)][1] <= Len(a)
                                       /\ f[Len(a) + Len(b)][2] <= Len(b)
  <1> DEFINE L == Len(a) + Len(b)
             f == CHOOSE g : g = [n \in 0..L |->
                                 IF n = 0 THEN <<1, 1>> ELSE Pass(a, b, g[n - 1])]
  <1>1. IsMerge(a, b, f, L)
    <2>0. L \in Nat
      OBVIOUS
    <2>1. \E g : g = [n \in 0..L |-> IF n = 0 THEN <<1, 1>> ELSE Pass(a, b, g[n - 1])]
      <3> HIDE DEF L
      <3>1. \E g : IsMerge(a, b, g, L)
        BY <2>0, MergeExists
      <3> QED BY <3>1 DEF IsMerge
    <2> QED BY <2>1 DEF IsMerge
  <1>2. Overlap(a, b) <=> f[L][1] <= Len(a) /\ f[L][2] <= Len(b)
    BY DEF Overlap
  <1> HIDE DEF f
  <1> QED BY <1>1, <1>2

\* Intervals, in the order of their beginnings.
Intervals(a) ==
    /\ Len(a) \in Nat
    /\ \A i \in 1..Len(a) : a[i].lo \in Int /\ a[i].hi \in Int
    /\ \A i, j \in 1..Len(a) : i <= j => a[i].lo <= a[j].lo

\* The equations of a merge.
LEMMA MergeSteps ==
    ASSUME NEW a, NEW b, NEW n \in Nat, NEW f, IsMerge(a, b, f, n)
    PROVE  f[0] = <<1, 1>> /\ \A k \in 0..n : k # 0 => f[k] = Pass(a, b, f[k - 1])
  <1>1. f = [k \in 0..n |-> IF k = 0 THEN <<1, 1>> ELSE Pass(a, b, f[k - 1])]
    BY DEF IsMerge
  <1> QED BY <1>1

\* What one iteration of the loop leaves.
LEMMA PassStep ==
    ASSUME NEW a, NEW b, Intervals(a), Intervals(b), NEW i \in Nat, NEW j \in Nat
    PROVE  LET p == Pass(a, b, <<i, j>>)
           IN  IF i > Len(a) \/ j > Len(b) \/ Meets(a, b, i, j) THEN p = <<i, j>>
               ELSE p = <<i + 1, j>> \/ p = <<i, j + 1>>
  BY DEF Pass

\* The states of a merge are pairs of positions, each one further than the one before
\* until the merge stops for good.
LEMMA MergePositions ==
    ASSUME NEW a, NEW b, Intervals(a), Intervals(b), NEW n \in Nat, NEW f,
           IsMerge(a, b, f, n)
    PROVE  \A k \in 0..n :
               \E i, j \in 1..Len(a) + Len(b) + n + 1 :
                   /\ f[k] = <<i, j>>
                   /\ \/ i + j = k + 2
                      \/ i > Len(a) \/ j > Len(b) \/ Meets(a, b, i, j)
  <1> DEFINE Good(k) == \E i, j \in Nat \ {0} :
                   /\ i <= k + 1 /\ j <= k + 1 /\ f[k] = <<i, j>>
                   /\ \/ i + j = k + 2
                      \/ i > Len(a) \/ j > Len(b) \/ Meets(a, b, i, j)
             S == {k \in 0..n : Good(k)}
  <1>1. f[0] = <<1, 1>> /\ \A k \in 0..n : k # 0 => f[k] = Pass(a, b, f[k - 1])
    BY MergeSteps
  <1>2. \A k \in 0..n : k \in S
    <2> SUFFICES ASSUME NEW x \in 0..n, x \notin S PROVE FALSE
      OBVIOUS
    <2>1. PICK k \in 0..n : k \notin S /\ (k = 0 \/ (k - 1 \in S /\ k - 1 \in 0..n))
      <3> HIDE DEF S
      <3> QED BY FirstOutside
    <2>2. CASE k = 0
      <3>1. Good(0)
        BY <1>1
      <3> QED BY <2>1, <2>2, <3>1
    <2>3. CASE k # 0
      <3>1. k \in Nat /\ k - 1 \in Nat /\ Good(k - 1) /\ f[k] = Pass(a, b, f[k - 1])
        BY <1>1, <2>1, <2>3
      <3>2. PICK i, j \in Nat \ {0} :
                   /\ i <= k /\ j <= k /\ f[k - 1] = <<i, j>>
                   /\ \/ i + j = k + 1
                      \/ i > Len(a) \/ j > Len(b) \/ Meets(a, b, i, j)
        BY <3>1
      <3>3. CASE i > Len(a) \/ j > Len(b) \/ Meets(a, b, i, j)
        <4>1. f[k] = <<i, j>>
          BY <3>1, <3>2, <3>3, PassStep
        <4>2. i <= k + 1 /\ j <= k + 1
          BY <3>1, <3>2
        <4>3. Good(k)
          BY <4>1, <4>2, <3>3
        <4> QED BY <2>1, <4>3
      <3>4. CASE ~(i > Len(a) \/ j > Len(b) \/ Meets(a, b, i, j))
        <4>1. f[k] = <<i + 1, j>> \/ f[k] = <<i, j + 1>>
          BY <3>1, <3>2, <3>4, PassStep
        <4>2. i + j = k + 1 /\ i + 1 <= k + 1 /\ j + 1 <= k + 1 /\ i <= k + 1 /\ j <= k + 1
          BY <3>1, <3>2, <3>4
        <4>3. Good(k)
          <5>1. i + 1 \in Nat \ {0} /\ j + 1 \in Nat \ {0}
            OBVIOUS
          <5>2. (i + 1) + j = k + 2 /\ i + (j + 1) = k + 2
            BY <4>2, <3>1
          <5>3. CASE f[k] = <<i + 1, j>>
            BY <5>1, <5>2, <5>3, <4>2
          <5>4. CASE f[k] = <<i, j + 1>>
            BY <5>1, <5>2, <5>4, <4>2
          <5> QED BY <5>3, <5>4, <4>1
        <4> QED BY <2>1, <4>3
      <3> QED BY <3>3, <3>4
    <2> QED BY <2>2, <2>3
  <1> TAKE k \in 0..n
  <1>3. PICK i, j \in Nat \ {0} :
                   /\ i <= k + 1 /\ j <= k + 1 /\ f[k] = <<i, j>>
                   /\ \/ i + j = k + 2
                      \/ i > Len(a) \/ j > Len(b) \/ Meets(a, b, i, j)
    BY <1>2
  <1>4. i \in 1..Len(a) + Len(b) + n + 1 /\ j \in 1..Len(a) + Len(b) + n + 1
    BY <1>3 DEF Intervals
  <1> QED BY <1>3, <1>4

\* Two intervals that meet are never passed.
LEMMA MergeWaits ==
    ASSUME NEW a, NEW b, Intervals(a), Intervals(b), NEW n \in Nat, NEW f,
           IsMerge(a, b, f, n),
           NEW s \in 1..Len(a), NEW t \in 1..Len(b), Meets(a, b, s, t)
    PROVE  \A k \in 0..n : f[k][1] <= s /\ f[k][2] <= t
  <1> DEFINE S == {k \in 0..n : f[k][1] <= s /\ f[k][2] <= t}
  <1>1. f[0] = <<1, 1>> /\ \A k \in 0..n : k # 0 => f[k] = Pass(a, b, f[k - 1])
    BY MergeSteps
  <1> SUFFICES ASSUME NEW x \in 0..n, x \notin S PROVE FALSE
    OBVIOUS
  <1>2. PICK k \in 0..n : k \notin S /\ (k = 0 \/ (k - 1 \in S /\ k - 1 \in 0..n))
    <2> HIDE DEF S
    <2> QED BY FirstOutside
  <1>3. s \in Nat /\ t \in Nat /\ s >= 1 /\ t >= 1 /\ s <= Len(a) /\ t <= Len(b)
        /\ Len(a) \in Nat /\ Len(b) \in Nat
    BY DEF Intervals
  <1>4. CASE k = 0
    BY <1>1, <1>2, <1>3, <1>4
  <1>5. CASE k # 0
    <2>1. f[k] = Pass(a, b, f[k - 1]) /\ f[k - 1][1] <= s /\ f[k - 1][2] <= t
          /\ k - 1 \in 0..n
      BY <1>1, <1>2, <1>5
    <2>2. PICK i, j \in 1..Len(a) + Len(b) + n + 1 : f[k - 1] = <<i, j>>
      BY <2>1, MergePositions
    <2>3. i \in 1..Len(a) /\ j \in 1..Len(b) /\ i <= s /\ j <= t
      BY <2>1, <2>2, <1>3
    <2>4. CASE Meets(a, b, i, j)
      <3>1. f[k] = <<i, j>>
        BY <2>1, <2>2, <2>3, <2>4, <1>3 DEF Pass
      <3> QED BY <1>2, <3>1, <2>3
    <2>5. CASE ~Meets(a, b, i, j)
      <3>1. /\ a[s].lo < b[t].hi /\ b[t].lo < a[s].hi
            /\ a[i].lo <= a[s].lo /\ b[j].lo <= b[t].lo
            /\ a[i].lo \in Int /\ a[i].hi \in Int /\ a[s].lo \in Int /\ a[s].hi \in Int
            /\ b[j].lo \in Int /\ b[j].hi \in Int /\ b[t].lo \in Int /\ b[t].hi \in Int
        BY <2>3 DEF Meets, Intervals
      <3>2. CASE a[i].hi <= b[j].lo
        <4>1. i # s
          BY <3>1, <3>2
        <4>2. f[k] = <<i + 1, j>>
          BY <2>1, <2>2, <2>3, <2>5, <3>2, <1>3 DEF Pass
        <4>3. i + 1 <= s /\ j <= t
          BY <4>1, <2>3, <1>3
        <4> QED BY <1>2, <4>2, <4>3
      <3>3. CASE ~(a[i].hi <= b[j].lo)
        <4>1. ~(a[i].lo < b[j].hi /\ b[j].lo < a[i].hi)
          BY <2>5 DEF Meets
        <4>2. b[j].lo < a[i].hi /\ a[i].lo \in Int /\ b[j].hi \in Int
          BY <3>1, <3>3
        <4>3. b[j].hi <= a[i].lo
          BY <4>1, <4>2
        <4>4. j # t
          BY <3>1, <4>3
        <4>5. f[k] = <<i, j + 1>>
          BY <2>1, <2>2, <2>3, <2>5, <3>3, <1>3 DEF Pass
        <4>6. i <= s /\ j + 1 <= t
          BY <4>4, <2>3, <1>3
        <4> QED BY <1>2, <4>5, <4>6
      <3> QED BY <3>2, <3>3
    <2> QED BY <2>4, <2>5
  <1> QED BY <1>4, <1>5

\* The merge of overlap() finds two intervals that meet exactly when there are some.
LEMMA OverlapExact ==
    ASSUME NEW a, NEW b, Intervals(a), Intervals(b)
    PROVE  Overlap(a, b) <=> \E s \in 1..Len(a), t \in 1..Len(b) : Meets(a, b, s, t)
  <1> DEFINE L == Len(a) + Len(b)
  <1>1. Len(a) \in Nat /\ Len(b) \in Nat /\ L \in Nat /\ L \in 0..L
    BY DEF Intervals
  <1>2. PICK f : /\ IsMerge(a, b, f, L)
                 /\ Overlap(a, b) <=> f[L][1] <= Len(a) /\ f[L][2] <= Len(b)
    BY <1>1, OverlapIsMerge
  <1>3. PICK i, j \in 1..Len(a) + Len(b) + L + 1 :
            /\ f[L] = <<i, j>>
            /\ \/ i + j = L + 2
               \/ i > Len(a) \/ j > Len(b) \/ Meets(a, b, i, j)
    <2> HIDE DEF L
    <2> QED BY <1>1, <1>2, MergePositions
  <1>4. ASSUME Overlap(a, b) PROVE \E s \in 1..Len(a), t \in 1..Len(b) : Meets(a, b, s, t)
    <2>1. i \in 1..Len(a) /\ j \in 1..Len(b)
      BY <1>1, <1>2, <1>3, <1>4
    <2>2. Meets(a, b, i, j)
      BY <1>1, <1>3, <2>1
    <2> QED BY <2>1, <2>2
  <1>5. ASSUME NEW s \in 1..Len(a), NEW t \in 1..Len(b), Meets(a, b, s, t)
        PROVE  Overlap(a, b)
    <2>1. f[L][1] <= s /\ f[L][2] <= t
      <3> HIDE DEF L
      <3> QED BY <1>1, <1>2, <1>5, MergeWaits
    <2>2. i <= s /\ j <= t
      BY <2>1, <1>3
    <2>3. i <= Len(a) /\ j <= Len(b)
      BY <2>2, <1>1, <1>3
    <2> QED BY <2>3, <1>2, <1>3
  <1> QED BY <1>4, <1>5

-----------------------------------------------------------------------------
(***************************************************************************)
(* Cells and spans of a view.                                              *)
(***************************************************************************)

\* A tensor of the caller: rows do not go backwards.
View == [base : Nat, pitch : Nat, rows : Nat, inner : Nat]

\* Rows that are behind one another in a multiple of the pitch.
LEMMA Multiples ==
    ASSUME NEW p \in Nat, NEW i \in Nat, NEW j \in Nat, i <= j
    PROVE  i * p \in Nat /\ j * p \in Nat /\ i * p <= j * p
  <1>1. j * p = i * p + (j - i) * p
    OBVIOUS
  <1>2. \A x, y \in Nat : x * y \in Nat
    OBVIOUS
  <1>3. i * p \in Nat /\ j * p \in Nat /\ (j - i) * p \in Nat
    <2>1. j - i \in Nat
      OBVIOUS
    <2> QED BY <1>2, <2>1
  <1> QED BY <1>1, <1>3

\* A row starts no earlier than the end of the one before it, if rows are apart.
LEMMA NextRow ==
    ASSUME NEW p \in Nat, NEW i \in Nat, NEW j \in Nat, i < j
    PROVE  i * p \in Nat /\ j * p \in Nat /\ i * p + p <= j * p
  <1>1. (i + 1) * p = i * p + p
    OBVIOUS
  <1>2. i + 1 \in Nat /\ i + 1 <= j
    OBVIOUS
  <1>3. (i + 1) * p <= j * p /\ j * p \in Nat
    BY <1>2, Multiples
  <1>4. i * p \in Nat
    BY Multiples
  <1> QED BY <1>1, <1>3, <1>4

\* Position n of rows of p cells is in row q, r cells in.
LEMMA Division ==
    ASSUME NEW n \in Nat, NEW p \in Nat \ {0}
    PROVE  \E q \in Nat, r \in 0..p - 1 : n = q * p + r
  <1> DEFINE S == {k \in 0..n : \E q \in Nat, r \in 0..p - 1 : k = q * p + r}
  <1> SUFFICES ASSUME n \notin S PROVE FALSE
    OBVIOUS
  <1>1. PICK k \in 0..n : k \notin S /\ (k = 0 \/ (k - 1 \in S /\ k - 1 \in 0..n))
    <2>1. n \in 0..n
      OBVIOUS
    <2> HIDE DEF S
    <2> QED BY <2>1, FirstOutside
  <1>2. ~ \E q \in Nat, r \in 0..p - 1 : k = q * p + r
    BY <1>1
  <1>3. CASE k = 0
    <2>1. 0 = 0 * p + 0 /\ 0 \in 0..p - 1 /\ 0 \in Nat
      OBVIOUS
    <2> QED BY <1>2, <1>3, <2>1
  <1>4. CASE k # 0
    <2>1. PICK q \in Nat, r \in 0..p - 1 : k - 1 = q * p + r
      BY <1>1, <1>4
    <2>2. q * p \in Nat
      BY Multiples
    <2>3. CASE r + 1 \in 0..p - 1
      <3>1. k = q * p + (r + 1)
        BY <2>1, <2>2
      <3> QED BY <1>2, <2>3, <3>1
    <2>4. CASE r + 1 \notin 0..p - 1
      <3>1. r + 1 = p
        BY <2>4
      <3>2. k = q * p + p
        BY <2>1, <2>2, <3>1
      <3>3. (q + 1) * p = q * p + p
        OBVIOUS
      <3>4. q + 1 \in Nat /\ 0 \in 0..p - 1 /\ k = (q + 1) * p + 0
        BY <3>2, <3>3, <2>2
      <3> QED BY <1>2, <3>4
    <2> QED BY <2>3, <2>4
  <1> QED BY <1>3, <1>4

\* Views whose rows are apart: their spans are intervals in order.
LEMMA SpansInOrder ==
    ASSUME NEW v \in View, ~Overlapping(v)
    PROVE  /\ Intervals(Spans(v))
           /\ v.rows * v.inner \in Nat /\ \A i \in Nat : i * v.pitch \in Nat
           /\ Len(Spans(v)) = IF Contiguous(v) THEN 1 ELSE v.rows
           /\ \A k \in 1..Len(Spans(v)) :
                  Spans(v)[k] = IF Contiguous(v)
                                THEN [lo |-> v.base, hi |-> v.base + v.rows * v.inner]
                                ELSE [lo |-> v.base + (k - 1) * v.pitch,
                                      hi |-> v.base + (k - 1) * v.pitch + v.inner]
  <1>1. v.base \in Nat /\ v.pitch \in Nat /\ v.rows \in Nat /\ v.inner \in Nat
    BY DEF View
  <1>2. v.rows * v.inner \in Nat /\ \A i \in Nat : i * v.pitch \in Nat
    BY <1>1, Multiples
  <1>3. CASE Contiguous(v)
    <2> DEFINE s == [lo |-> v.base, hi |-> v.base + v.rows * v.inner]
    <2>1. Spans(v) = <<s>>
      BY <1>3 DEF Spans
    <2>2. s.lo \in Int /\ s.hi \in Int
      BY <1>1, <1>2
    <2> HIDE DEF s
    <2>3. Len(Spans(v)) = 1 /\ \A k \in 1..1 : Spans(v)[k] = s
      BY <2>1
    <2>4. \A k \in 1..1 : Spans(v)[k].lo \in Int /\ Spans(v)[k].hi \in Int
      BY <2>2, <2>3
    <2>5. \A i, j \in 1..1 : i <= j => Spans(v)[i].lo <= Spans(v)[j].lo
      BY <2>2, <2>3
    <2>6. Intervals(Spans(v))
      BY <2>3, <2>4, <2>5 DEF Intervals
    <2> QED BY <2>3, <2>6, <1>2, <1>3 DEF s
  <1>4. CASE ~Contiguous(v)
    <2> DEFINE s(k) == [lo |-> v.base + (k - 1) * v.pitch,
                        hi |-> v.base + (k - 1) * v.pitch + v.inner]
    <2>1. Spans(v) = [k \in 1..v.rows |-> s(k)]
      BY <1>4 DEF Spans
    <2>2. \A k \in 1..v.rows : s(k).lo \in Int /\ s(k).hi \in Int
      <3> TAKE k \in 1..v.rows
      <3>1. (k - 1) * v.pitch \in Nat
        BY <1>2
      <3> QED BY <3>1, <1>1
    <2>3. \A i, j \in 1..v.rows : i <= j => s(i).lo <= s(j).lo
      <3> TAKE i, j \in 1..v.rows
      <3> HAVE i <= j
      <3>1. i - 1 \in Nat /\ j - 1 \in Nat /\ i - 1 <= j - 1
        OBVIOUS
      <3>2. (i - 1) * v.pitch <= (j - 1) * v.pitch
            /\ (i - 1) * v.pitch \in Nat /\ (j - 1) * v.pitch \in Nat
        BY <1>1, <3>1, Multiples
      <3> QED BY <3>2, <1>1
    <2> HIDE DEF s
    <2>4. Len(Spans(v)) = v.rows /\ \A k \in 1..v.rows : Spans(v)[k] = s(k)
      BY <2>1, <1>1
    <2>5. Intervals(Spans(v))
      BY <2>2, <2>3, <2>4, <1>1 DEF Intervals
    <2> QED BY <2>4, <2>5, <1>2, <1>4 DEF s
  <1> QED BY <1>3, <1>4

\* A cell is in the view exactly if it is in one of its spans.
LEMMA SpansAreCells ==
    ASSUME NEW v \in View, ~Overlapping(v), NEW x \in Nat
    PROVE  x \in Cells(v) <=>
               \E k \in 1..Len(Spans(v)) : Spans(v)[k].lo <= x /\ x < Spans(v)[k].hi
  <1>1. v.base \in Nat /\ v.pitch \in Nat /\ v.rows \in Nat /\ v.inner \in Nat
    BY DEF View
  <1>2. x \in Cells(v) <=> \E i \in 0..v.rows - 1, j \in 0..v.inner - 1 :
                               x = v.base + i * v.pitch + j
    BY DEF Cells
  <1> DEFINE In(k) == Spans(v)[k].lo <= x /\ x < Spans(v)[k].hi
  <1>3. v.rows * v.inner \in Nat /\ \A i \in Nat : i * v.pitch \in Nat
    BY SpansInOrder
  <1>4. CASE ~Contiguous(v)
    <2>1. Len(Spans(v)) = v.rows
      BY <1>4, SpansInOrder
    <2>2. \A i \in 0..v.rows - 1 :
              /\ i + 1 \in 1..v.rows
              /\ Spans(v)[i + 1].lo = v.base + i * v.pitch
              /\ Spans(v)[i + 1].hi = v.base + i * v.pitch + v.inner
      <3> TAKE i \in 0..v.rows - 1
      <3>1. i + 1 \in 1..v.rows /\ (i + 1) - 1 = i
        BY <1>1
      <3>2. Spans(v)[i + 1] = [lo |-> v.base + ((i + 1) - 1) * v.pitch,
                               hi |-> v.base + ((i + 1) - 1) * v.pitch + v.inner]
        BY <1>4, <2>1, <3>1, SpansInOrder
      <3> QED BY <3>1, <3>2
    <2>3. ASSUME NEW i \in 0..v.rows - 1, NEW j \in 0..v.inner - 1,
                 x = v.base + i * v.pitch + j
          PROVE  In(i + 1) /\ i + 1 \in 1..v.rows
      <3>1. i * v.pitch \in Nat
        BY <1>3
      <3> QED BY <1>1, <2>2, <2>3, <3>1
    <2>4. ASSUME NEW k \in 1..v.rows, In(k)
          PROVE  \E i \in 0..v.rows - 1, j \in 0..v.inner - 1 : x = v.base + i * v.pitch + j
      <3>1. k - 1 \in 0..v.rows - 1 /\ (k - 1) + 1 = k
        BY <1>1
      <3>2. Spans(v)[k].lo = v.base + (k - 1) * v.pitch
            /\ Spans(v)[k].hi = v.base + (k - 1) * v.pitch + v.inner
        BY <2>2, <3>1
      <3>3. (k - 1) * v.pitch \in Nat
        BY <1>3, <3>1
      <3>4. x - (v.base + (k - 1) * v.pitch) \in 0..v.inner - 1
        BY <1>1, <2>4, <3>2, <3>3
      <3>5. x = v.base + (k - 1) * v.pitch + (x - (v.base + (k - 1) * v.pitch))
        BY <1>1, <3>3
      <3> QED BY <3>1, <3>4, <3>5
    <2> QED BY <1>2, <2>1, <2>3, <2>4
  <1>5. CASE Contiguous(v)
    <2>1. Len(Spans(v)) = 1 /\ Spans(v)[1] = [lo |-> v.base, hi |-> v.base + v.rows * v.inner]
      <3>1. Len(Spans(v)) = 1
        BY <1>5, SpansInOrder
      <3>2. 1 \in 1..Len(Spans(v))
        BY <3>1
      <3> QED BY <1>5, <3>1, <3>2, SpansInOrder
    <2>2. (\E k \in 1..Len(Spans(v)) : In(k)) <=> v.base <= x /\ x < v.base + v.rows * v.inner
      <3>1. Spans(v)[1].lo = v.base /\ Spans(v)[1].hi = v.base + v.rows * v.inner
        BY <2>1
      <3>2. \A k : k \in 1..1 <=> k = 1
        OBVIOUS
      <3> QED BY <2>1, <3>1, <3>2
    <2>3. CASE v.rows <= 1
      <3>1. CASE v.rows = 0
        <4>1. v.rows * v.inner = 0 /\ 0..v.rows - 1 = {}
          BY <1>1, <3>1
        <4> QED BY <1>1, <1>2, <2>2, <4>1
      <3>2. CASE v.rows = 1
        <4>1. v.rows * v.inner = v.inner /\ \A i : i \in 0..v.rows - 1 <=> i = 0
          BY <1>1, <3>2
        <4>2. 0 * v.pitch = 0
          BY <1>1
        <4>3. x \in Cells(v) <=> \E j \in 0..v.inner - 1 : x = v.base + j
          <5>1. \A j \in 0..v.inner - 1 : v.base + 0 * v.pitch + j = v.base + j
            BY <1>1, <4>2
          <5> QED BY <1>2, <4>1, <5>1
        <4>4. ASSUME v.base <= x, x < v.base + v.inner
              PROVE  \E j \in 0..v.inner - 1 : x = v.base + j
          <5>1. x - v.base \in 0..v.inner - 1 /\ x = v.base + (x - v.base)
            BY <1>1, <4>4
          <5> QED BY <5>1
        <4>5. ASSUME NEW j \in 0..v.inner - 1, x = v.base + j
              PROVE  v.base <= x /\ x < v.base + v.inner
          BY <1>1, <4>5
        <4> QED BY <2>2, <4>1, <4>3, <4>4, <4>5
      <3> QED BY <1>1, <2>3, <3>1, <3>2
    <2>4. CASE v.pitch = v.inner
      <3>1. ASSUME NEW i \in 0..v.rows - 1, NEW j \in 0..v.inner - 1,
                   x = v.base + i * v.pitch + j
            PROVE  v.base <= x /\ x < v.base + v.rows * v.inner
        <4>1. i \in Nat /\ v.rows \in Nat /\ i < v.rows
          BY <1>1
        <4>2. i * v.inner \in Nat /\ i * v.inner + v.inner <= v.rows * v.inner
          BY <1>1, <4>1, NextRow
        <4>3. x = v.base + i * v.inner + j
          BY <2>4, <3>1
        <4> HIDE DEF In
        <4> QED BY <1>1, <1>3, <4>2, <4>3
      <3>2. ASSUME v.base <= x, x < v.base + v.rows * v.inner
            PROVE  \E i \in 0..v.rows - 1, j \in 0..v.inner - 1 : x = v.base + i * v.pitch + j
        <4>1. v.inner # 0
          <5>1. v.inner = 0 => v.rows * v.inner = 0
            BY <1>1
          <5> QED BY <1>1, <3>2, <5>1
        <4>2. PICK i \in Nat, j \in 0..v.inner - 1 : x - v.base = i * v.inner + j
          <5>1. x - v.base \in Nat /\ v.inner \in Nat \ {0}
            BY <1>1, <3>2, <4>1
          <5> QED BY <5>1, Division
        <4>3. i * v.inner \in Nat
          BY <1>1, Multiples
        <4>4. i < v.rows
          <5> SUFFICES ASSUME v.rows <= i PROVE FALSE
            BY <1>1
          <5>1. v.rows * v.inner <= i * v.inner
            BY <1>1, Multiples
          <5> QED BY <1>1, <1>3, <3>2, <4>2, <4>3, <5>1
        <4>5. i \in 0..v.rows - 1
          BY <1>1, <4>4
        <4>6. x = v.base + i * v.pitch + j
          BY <1>1, <2>4, <4>2, <4>3
        <4> QED BY <4>5, <4>6
      <3> QED BY <1>2, <2>2, <3>1, <3>2
    <2> QED BY <1>5, <2>3, <2>4 DEF Contiguous
  <1> QED BY <1>4, <1>5

-----------------------------------------------------------------------------
(***************************************************************************)
(* Which spans meet, and what reject_aliases lets pass.                    *)
(***************************************************************************)

\* Two views overlap, for the merge, exactly if they share a cell.
LEMMA MeetingCells ==
    ASSUME NEW v \in View, NEW w \in View, ~Overlapping(v), ~Overlapping(w)
    PROVE  Cells(v) \cap Cells(w) # {} => Overlap(Spans(v), Spans(w))
  <1> DEFINE a == Spans(v)
             b == Spans(w)
  <1>1. Intervals(a) /\ Intervals(b)
    BY SpansInOrder
  <1>2. ASSUME NEW x \in Cells(v) \cap Cells(w) PROVE Overlap(a, b)
    <2>1. x \in Nat
      <3>1. PICK i \in 0..v.rows - 1, j \in 0..v.inner - 1 : x = v.base + i * v.pitch + j
        BY <1>2 DEF Cells
      <3>2. i * v.pitch \in Nat /\ v.base \in Nat /\ j \in Nat
        BY SpansInOrder DEF View
      <3> QED BY <3>1, <3>2
    <2>2. PICK s \in 1..Len(a) : a[s].lo <= x /\ x < a[s].hi
      BY <2>1, <1>2, SpansAreCells
    <2>3. PICK t \in 1..Len(b) : b[t].lo <= x /\ x < b[t].hi
      BY <2>1, <1>2, SpansAreCells
    <2>4. a[s].lo \in Int /\ a[s].hi \in Int /\ b[t].lo \in Int /\ b[t].hi \in Int
      BY <1>1 DEF Intervals
    <2>5. Meets(a, b, s, t)
      <3> HIDE DEF a, b
      <3> QED BY <2>1, <2>2, <2>3, <2>4 DEF Meets
    <2> HIDE DEF a, b
    <2> QED BY <1>1, <2>5, OverlapExact
  <1> QED BY <1>2

\* ... if neither is empty: then spans that meet have a cell in common.
LEMMA MeetingSpans ==
    ASSUME NEW v \in View, NEW w \in View, ~Overlapping(v), ~Overlapping(w),
           v.rows > 0, v.inner > 0, w.rows > 0, w.inner > 0,
           Overlap(Spans(v), Spans(w))
    PROVE  Cells(v) \cap Cells(w) # {}
  <1> DEFINE a == Spans(v)
             b == Spans(w)
  <1>1. Intervals(a) /\ Intervals(b)
    BY SpansInOrder
  <1>2. PICK s \in 1..Len(a), t \in 1..Len(b) : Meets(a, b, s, t)
    <2>1. Overlap(a, b)
      OBVIOUS
    <2> HIDE DEF a, b
    <2> QED BY <1>1, <2>1, OverlapExact
  <1>3. \A u \in View : ~Overlapping(u) /\ u.rows > 0 /\ u.inner > 0 =>
            \A k \in 1..Len(Spans(u)) :
                /\ Spans(u)[k].lo \in Nat /\ Spans(u)[k].hi \in Nat
                /\ Spans(u)[k].lo < Spans(u)[k].hi
    <2> SUFFICES ASSUME NEW u \in View, ~Overlapping(u), u.rows > 0, u.inner > 0,
                        NEW k \in 1..Len(Spans(u))
                 PROVE  /\ Spans(u)[k].lo \in Nat /\ Spans(u)[k].hi \in Nat
                        /\ Spans(u)[k].lo < Spans(u)[k].hi
      OBVIOUS
    <2>1. u.base \in Nat /\ u.pitch \in Nat /\ u.rows \in Nat /\ u.inner \in Nat
      BY DEF View
    <2>2. CASE Contiguous(u)
      <3>1. Spans(u)[k] = [lo |-> u.base, hi |-> u.base + u.rows * u.inner]
        BY <2>2, SpansInOrder
      <3>2. 0 * u.inner + u.inner <= u.rows * u.inner /\ u.rows * u.inner \in Nat
        BY <2>1, NextRow
      <3>3. 0 * u.inner = 0
        BY <2>1
      <3> QED BY <2>1, <3>1, <3>2, <3>3
    <2>3. CASE ~Contiguous(u)
      <3>1. Spans(u)[k] = [lo |-> u.base + (k - 1) * u.pitch,
                           hi |-> u.base + (k - 1) * u.pitch + u.inner]
        BY <2>3, SpansInOrder
      <3>2. \A m \in Nat : m * u.pitch \in Nat
        BY <2>1, Multiples
      <3>3. (k - 1) * u.pitch \in Nat
        <4> DEFINE m == k - 1
        <4>1. m \in Nat
          OBVIOUS
        <4> HIDE DEF m
        <4>2. m * u.pitch \in Nat
          BY <3>2, <4>1
        <4> QED BY <4>2 DEF m
      <3> DEFINE o == (k - 1) * u.pitch
      <3>4. Spans(u)[k].lo = u.base + o /\ Spans(u)[k].hi = u.base + o + u.inner
        BY <3>1
      <3>5. o \in Nat
        BY <3>3
      <3> HIDE DEF o
      <3>6. u.base + o \in Nat /\ u.base + o + u.inner \in Nat
        <4>1. \A x, y, z \in Nat : x + y \in Nat /\ x + y + z \in Nat
          OBVIOUS
        <4>2. u.base \in Nat /\ u.inner \in Nat
          BY <2>1
        <4> QED BY <4>1, <4>2, <3>5
      <3>7. u.base + o < u.base + o + u.inner
        BY <2>1, <3>5
      <3> QED BY <3>4, <3>6, <3>7
    <2> QED BY <2>2, <2>3
  <1>4. /\ a[s].lo \in Nat /\ a[s].hi \in Nat /\ a[s].lo < a[s].hi
        /\ b[t].lo \in Nat /\ b[t].hi \in Nat /\ b[t].lo < b[t].hi
    BY <1>3
  <1>5. a[s].lo < b[t].hi /\ b[t].lo < a[s].hi
    BY <1>2 DEF Meets
  <1> DEFINE x == IF a[s].lo <= b[t].lo THEN b[t].lo ELSE a[s].lo
  <1>6. x \in Nat /\ a[s].lo <= x /\ x < a[s].hi /\ b[t].lo <= x /\ x < b[t].hi
    <2> HIDE DEF a, b
    <2> QED BY <1>4, <1>5
  <1> HIDE DEF x
  <1>7. x \in Cells(v) /\ x \in Cells(w)
    BY <1>6, SpansAreCells
  <1> QED BY <1>7

\* Two places of a view have one address.
SelfMeets(v) ==
    \E p, q \in (0..v.rows - 1) \X (0..v.inner - 1) :
        p # q /\ v.base + p[1] * v.pitch + p[2] = v.base + q[1] * v.pitch + q[2]

\* Rows that are apart have no two places at one address.
LEMMA RowsApart ==
    ASSUME NEW v \in View, ~Overlapping(v)
    PROVE  ~SelfMeets(v)
  <1> SUFFICES ASSUME NEW i \in 0..v.rows - 1, NEW j \in 0..v.inner - 1,
                      NEW k \in 0..v.rows - 1, NEW l \in 0..v.inner - 1,
                      <<i, j>> # <<k, l>>,
                      v.base + i * v.pitch + j = v.base + k * v.pitch + l
               PROVE  FALSE
    BY DEF SelfMeets
  <1>1. v.base \in Nat /\ v.pitch \in Nat /\ v.rows \in Nat /\ v.inner \in Nat
    BY DEF View
  <1>2. i * v.pitch \in Nat /\ k * v.pitch \in Nat
    <2>1. i \in Nat /\ k \in Nat /\ i <= i /\ k <= k
      BY <1>1
    <2> QED BY <1>1, <2>1, Multiples
  <1>3. CASE i = k
    <2>1. j = l
      BY <1>1, <1>2, <1>3
    <2> QED BY <1>3, <2>1
  <1>4. CASE i # k
    <2>1. v.rows > 1
      BY <1>1, <1>4
    <2>2. v.pitch >= v.inner
      BY <1>1, <2>1 DEF Overlapping, Contiguous
    <2>3. CASE i < k
      <3>1. i * v.pitch + v.pitch <= k * v.pitch
        BY <1>1, <2>3, NextRow
      <3> QED BY <1>1, <1>2, <2>2, <3>1
    <2>4. CASE k < i
      <3>1. k * v.pitch + v.pitch <= i * v.pitch
        BY <1>1, <2>4, NextRow
      <3> QED BY <1>1, <1>2, <2>2, <3>1
    <2> QED BY <1>1, <1>4, <2>3, <2>4
  <1> QED BY <1>3, <1>4

\* Rows that are not, have.
LEMMA RowsMeet ==
    ASSUME NEW v \in View, Overlapping(v)
    PROVE  SelfMeets(v)
  <1>1. v.base \in Nat /\ v.pitch \in Nat /\ v.rows \in Nat /\ v.inner \in Nat
    BY DEF View
  <1>2. v.rows > 1 /\ v.pitch < v.inner
    BY <1>1 DEF Overlapping, Contiguous
  <1>3. 0 \in 0..v.rows - 1 /\ 1 \in 0..v.rows - 1 /\ 0 \in 0..v.inner - 1
        /\ v.pitch \in 0..v.inner - 1
    BY <1>1, <1>2
  <1>4. v.base + 0 * v.pitch + v.pitch = v.base + 1 * v.pitch + 0
    BY <1>1
  <1> DEFINE p == <<0, v.pitch>>
             q == <<1, 0>>
  <1>5. p \in (0..v.rows - 1) \X (0..v.inner - 1) /\ q \in (0..v.rows - 1) \X (0..v.inner - 1)
    BY <1>3
  <1>6. p[1] = 0 /\ p[2] = v.pitch /\ q[1] = 1 /\ q[2] = 0 /\ p # q
    OBVIOUS
  <1> HIDE DEF p, q
  <1> QED BY <1>4, <1>5, <1>6 DEF SelfMeets

\* Every place of such a view is a cell of its own.
LEMMA CellsCounted ==
    ASSUME NEW v \in View, ~Overlapping(v)
    PROVE  Cardinality(Cells(v)) = v.rows * v.inner
  <1> DEFINE R == 0..v.rows - 1
             C == 0..v.inner - 1
             f == [p \in R \X C |-> v.base + p[1] * v.pitch + p[2]]
  <1>1. v.rows \in Nat /\ v.inner \in Nat
    BY DEF View
  <1>2. IsFiniteSet(R) /\ Cardinality(R) = v.rows
    <2>1. 0 \in Int /\ v.rows - 1 \in Int /\ (v.rows - 1) - 0 + 1 = v.rows
          /\ (0 > v.rows - 1 => v.rows = 0)
      BY <1>1
    <2> QED BY <2>1, FS_Interval
  <1>3. IsFiniteSet(C) /\ Cardinality(C) = v.inner
    <2>1. 0 \in Int /\ v.inner - 1 \in Int /\ (v.inner - 1) - 0 + 1 = v.inner
          /\ (0 > v.inner - 1 => v.inner = 0)
      BY <1>1
    <2> QED BY <2>1, FS_Interval
  <1>4. IsFiniteSet(R \X C) /\ Cardinality(R \X C) = v.rows * v.inner
    <2> HIDE DEF R, C
    <2> QED BY <1>2, <1>3, FS_Product
  <1>5. f \in Bijection(R \X C, Cells(v))
    <2>1. \A p, q \in R \X C : f[p] = f[q] => p = q
      BY RowsApart DEF SelfMeets
    <2>2. f \in [R \X C -> Cells(v)]
      <3>1. \A p \in R \X C : v.base + p[1] * v.pitch + p[2] \in Cells(v)
        BY DEF Cells
      <3> QED BY <3>1
    <2>3. \A x \in Cells(v) : \E p \in R \X C : f[p] = x
      <3> TAKE x \in Cells(v)
      <3>1. PICK i \in R, j \in C : x = v.base + i * v.pitch + j
        BY DEF Cells
      <3>2. <<i, j>> \in R \X C /\ f[<<i, j>>] = x
        BY <3>1
      <3> QED BY <3>2
    <2> HIDE DEF f, R, C
    <2> QED BY <2>1, <2>2, <2>3, Fun_IsBij
  <1>6. ExistsBijection(R \X C, Cells(v))
    <2> HIDE DEF f, R, C
    <2> QED BY <1>5 DEF ExistsBijection
  <1> HIDE DEF R, C
  <1> QED BY <1>4, <1>6, FS_Bijection

\* What reject_aliases lets pass has rows apart, and no cell of a buffer in another operand.
LEMMA AcceptedApart ==
    ASSUME NEW ins, NEW bufs, NEW n \in Nat, DOMAIN bufs = 1..n,
           \A i \in DOMAIN ins : ins[i] \in View, \A k \in DOMAIN bufs : bufs[k] \in View,
           ~RejectsAliases(ins, bufs)
    PROVE  /\ \A i \in DOMAIN ins : ~Overlapping(ins[i])
           /\ \A k \in DOMAIN bufs : ~Overlapping(bufs[k])
           /\ \A k \in DOMAIN bufs, i \in DOMAIN ins : Cells(bufs[k]) \cap Cells(ins[i]) = {}
           /\ \A k, i \in DOMAIN bufs : i # k => Cells(bufs[k]) \cap Cells(bufs[i]) = {}
  <1>1. /\ \A i \in DOMAIN ins : ~Overlapping(ins[i])
        /\ \A k \in DOMAIN bufs : ~Overlapping(bufs[k])
        /\ \A k \in DOMAIN bufs, i \in DOMAIN ins : ~Overlap(Spans(bufs[k]), Spans(ins[i]))
        /\ \A k \in DOMAIN bufs : \A i \in 1..k - 1 : ~Overlap(Spans(bufs[k]), Spans(bufs[i]))
    BY DEF RejectsAliases
  <1>2. \A k \in DOMAIN bufs, i \in DOMAIN ins : Cells(bufs[k]) \cap Cells(ins[i]) = {}
    BY <1>1, MeetingCells
  <1>3. ASSUME NEW k \in DOMAIN bufs, NEW i \in DOMAIN bufs, i < k
        PROVE  Cells(bufs[k]) \cap Cells(bufs[i]) = {}
    <2>1. i \in 1..k - 1
      BY <1>3
    <2> QED BY <1>1, <2>1, MeetingCells
  <1>4. ASSUME NEW k \in DOMAIN bufs, NEW i \in DOMAIN bufs, i # k
        PROVE  Cells(bufs[k]) \cap Cells(bufs[i]) = {}
    <2>1. i < k \/ k < i
      BY <1>4
    <2>2. CASE i < k
      BY <1>3, <2>2
    <2>3. CASE k < i
      <3>1. Cells(bufs[i]) \cap Cells(bufs[k]) = {}
        BY <1>3, <2>3
      <3> QED BY <3>1
    <2> QED BY <2>1, <2>2, <2>3
  <1> QED BY <1>1, <1>2, <1>4

\* At least one cell.
NonEmpty(v) == v.rows > 0 /\ v.inner > 0

\* reject_aliases rejects exactly the operands of which one, or a buffer with another,
\* has two places at one address, whatever their number, order, pitches and addresses
\* (_native.py:89-134): the interval merge neither misses an alias nor reports a false one.
THEOREM AliasCheckIsExact ==
    ASSUME NEW ins, NEW bufs, NEW n \in Nat, DOMAIN bufs = 1..n,
           \A i \in DOMAIN ins : ins[i] \in View /\ NonEmpty(ins[i]),
           \A k \in DOMAIN bufs : bufs[k] \in View /\ NonEmpty(bufs[k])
    PROVE  RejectsAliases(ins, bufs) <=>
               \/ \E i \in DOMAIN ins : SelfMeets(ins[i])
               \/ \E k \in DOMAIN bufs : SelfMeets(bufs[k])
               \/ \E k \in DOMAIN bufs, i \in DOMAIN ins :
                      Cells(bufs[k]) \cap Cells(ins[i]) # {}
               \/ \E k, i \in DOMAIN bufs : i # k /\ Cells(bufs[k]) \cap Cells(bufs[i]) # {}
  <1>1. ASSUME ~RejectsAliases(ins, bufs)
        PROVE  /\ \A i \in DOMAIN ins : ~SelfMeets(ins[i])
               /\ \A k \in DOMAIN bufs : ~SelfMeets(bufs[k])
               /\ \A k \in DOMAIN bufs, i \in DOMAIN ins :
                      Cells(bufs[k]) \cap Cells(ins[i]) = {}
               /\ \A k, i \in DOMAIN bufs : i # k => Cells(bufs[k]) \cap Cells(bufs[i]) = {}
    BY <1>1, AcceptedApart, RowsApart
  <1>2. ASSUME \A i \in DOMAIN ins : ~SelfMeets(ins[i]),
               \A k \in DOMAIN bufs : ~SelfMeets(bufs[k]),
               \A k \in DOMAIN bufs, i \in DOMAIN ins :
                      Cells(bufs[k]) \cap Cells(ins[i]) = {},
               \A k, i \in DOMAIN bufs : i # k => Cells(bufs[k]) \cap Cells(bufs[i]) = {}
        PROVE  ~RejectsAliases(ins, bufs)
    <2>1. /\ \A i \in DOMAIN ins : ~Overlapping(ins[i])
          /\ \A k \in DOMAIN bufs : ~Overlapping(bufs[k])
      BY <1>2, RowsMeet
    <2>2. \A k \in DOMAIN bufs, i \in DOMAIN ins : ~Overlap(Spans(bufs[k]), Spans(ins[i]))
      BY <1>2, <2>1, MeetingSpans DEF NonEmpty
    <2>3. \A k \in DOMAIN bufs : \A i \in 1..k - 1 : ~Overlap(Spans(bufs[k]), Spans(bufs[i]))
      <3> TAKE k \in DOMAIN bufs
      <3> TAKE i \in 1..k - 1
      <3>1. i \in DOMAIN bufs /\ i # k
        OBVIOUS
      <3>2. Cells(bufs[k]) \cap Cells(bufs[i]) = {}
        BY <1>2, <3>1
      <3> QED BY <2>1, <3>1, <3>2, MeetingSpans DEF NonEmpty
    <2> QED BY <2>1, <2>2, <2>3 DEF RejectsAliases
  <1> QED BY <1>1, <1>2

-----------------------------------------------------------------------------
(***************************************************************************)
(* Its steps: overlapping operands.                                        *)
(***************************************************************************)

\* Operands that are tensors of the caller.
Typed(op, views) == \A f \in Fields(op) : f \in DOMAIN views /\ views[f] \in View

\* The operands of the two lists are apart when the aliasing check passes.
LEMMA AcceptedViews ==
    ASSUME NEW op, List(Inputs(op)), List(Buffers(op)), NEW views, Typed(op, views),
           ~RejectsAliases(ViewSeq(Inputs(op), views), ViewSeq(Buffers(op), views))
    PROVE  ~Aliased(op, views)
  <1> DEFINE R == Inputs(op)
             B == Buffers(op)
             ins == ViewSeq(R, views)
             bufs == ViewSeq(B, views)
  <1>1. /\ Len(R) \in Nat /\ DOMAIN R = 1..Len(R)
        /\ \A x : x \in Range(R) <=> \E k \in 1..Len(R) : R[k] = x
        /\ Len(B) \in Nat /\ DOMAIN B = 1..Len(B)
        /\ \A x : x \in Range(B) <=> \E k \in 1..Len(B) : B[k] = x
    BY ListShape
  <1>2. Fields(op) = Range(R) \union Range(B)
    BY DEF Fields
  <1>3. \A f \in Range(R) \union Range(B) : views[f] \in View
    BY <1>2 DEF Typed
  <1>4. ~RejectsAliases(ins, bufs)
    OBVIOUS
  <1> HIDE DEF R, B
  <1>5. /\ ins = [k \in 1..Len(R) |-> views[R[k]]]
        /\ bufs = [k \in 1..Len(B) |-> views[B[k]]]
    BY <1>1 DEF ViewSeq
  <1> HIDE DEF ins, bufs
  <1>6. /\ \A i \in DOMAIN ins : ins[i] \in View
        /\ \A k \in DOMAIN bufs : bufs[k] \in View
        /\ DOMAIN ins = 1..Len(R) /\ DOMAIN bufs = 1..Len(B)
    BY <1>1, <1>3, <1>5
  <1>7. /\ \A i \in DOMAIN ins : ~Overlapping(ins[i])
        /\ \A k \in DOMAIN bufs : ~Overlapping(bufs[k])
        /\ \A k \in DOMAIN bufs, i \in DOMAIN ins : Cells(bufs[k]) \cap Cells(ins[i]) = {}
        /\ \A k, i \in DOMAIN bufs : i # k => Cells(bufs[k]) \cap Cells(bufs[i]) = {}
    BY <1>1, <1>4, <1>6, AcceptedApart
  <1>8. ASSUME NEW f \in Range(B)
        PROVE  Cardinality(Cells(views[f])) = views[f].rows * views[f].inner
    <2>1. PICK k \in 1..Len(B) : B[k] = f
      BY <1>1
    <2>2. views[f] = bufs[k] /\ k \in DOMAIN bufs
      BY <2>1, <1>5, <1>6
    <2> QED BY <2>2, <1>6, <1>7, CellsCounted
  <1>9. ASSUME NEW f \in Range(B), NEW g \in Fields(op), g # f
        PROVE  Cells(views[f]) \cap Cells(views[g]) = {}
    <2>1. PICK k \in 1..Len(B) : B[k] = f
      BY <1>1
    <2>2. views[f] = bufs[k] /\ k \in DOMAIN bufs
      BY <2>1, <1>5, <1>6
    <2>3. CASE g \in Range(R)
      <3>1. PICK i \in 1..Len(R) : R[i] = g
        BY <2>3, <1>1
      <3>2. views[g] = ins[i] /\ i \in DOMAIN ins
        BY <3>1, <1>5, <1>6
      <3> QED BY <2>2, <3>2, <1>7
    <2>4. CASE g \in Range(B)
      <3>1. PICK i \in 1..Len(B) : B[i] = g
        BY <2>4, <1>1
      <3>2. views[g] = bufs[i] /\ i \in DOMAIN bufs /\ i # k
        BY <3>1, <2>1, <1>5, <1>6, <1>9
      <3> QED BY <2>2, <3>2, <1>7
    <2> QED BY <1>2, <2>3, <2>4
  <1>10. \A f \in Range(B) : views[f].rows * views[f].inner \in Nat
    <2>1. \A v \in View : v.rows \in Nat /\ v.inner \in Nat
      BY DEF View
    <2>2. \A x, y \in Nat : x * y \in Nat
      OBVIOUS
    <2> QED BY <1>3, <2>1, <2>2
  <1>11. Buffers(op) = B
    BY DEF B
  <1>12. ASSUME NEW f \in Range(B)
         PROVE  ~(Cardinality(Cells(views[f])) < views[f].rows * views[f].inner)
    <2> DEFINE c == views[f].rows * views[f].inner
    <2>1. c \in Nat /\ Cardinality(Cells(views[f])) = c
      BY <1>8, <1>10
    <2> HIDE DEF c
    <2>2. ~(Cardinality(Cells(views[f])) < c)
      BY <2>1
    <2> QED BY <2>2 DEF c
  <1> QED BY <1>9, <1>11, <1>12 DEF Aliased

\* A view of the recorded layout at the recorded address covers the recorded cells,
\* if its pitch is the recorded one or was not needed.
LEMMA SameCells ==
    ASSUME NEW v \in View, NEW w \in View, SameLayout(v, Signature(w)), v.base = w.base,
           v.pitch = w.pitch \/ Contiguous(w)
    PROVE  Cells(v) = Cells(w) /\ v.rows = w.rows /\ v.inner = w.inner
  <1>1. /\ v.rows = w.rows /\ v.inner = w.inner /\ (Contiguous(w) => Contiguous(v))
        /\ w.rows \in Nat /\ w.pitch \in Nat /\ v.pitch \in Nat
    BY DEF SameLayout, Signature, View
  <1>2. CASE v.pitch = w.pitch
    BY <1>1, <1>2 DEF Cells
  <1>3. CASE v.pitch # w.pitch
    <2>1. w.rows <= 1
      BY <1>1, <1>3 DEF Contiguous
    <2>2. \A i \in 0..w.rows - 1 : i = 0
      BY <1>1, <2>1
    <2>3. \A i \in 0..w.rows - 1 : i * v.pitch = i * w.pitch
      BY <1>1, <2>2
    <2> QED BY <1>1, <2>3 DEF Cells
  <1> QED BY <1>1, <1>2, <1>3

\* Operands that cover the same cells alias alike.
LEMMA SameAliases ==
    ASSUME NEW op, NEW v, NEW w,
           \A f \in Fields(op) : /\ Cells(v[f]) = Cells(w[f])
                                 /\ v[f].rows = w[f].rows /\ v[f].inner = w[f].inner,
           Aliased(op, v)
    PROVE  Aliased(op, w)
  <1>1. Range(Buffers(op)) \subseteq Fields(op)
    BY DEF Fields
  <1> QED BY <1>1 DEF Aliased

\* What check_operands compares, operand by operand.
LEMMA OperandsCompared ==
    ASSUME NEW R, NEW B, List(R), List(B), NEW v, NEW w,
           CheckOperands(Plan(ViewSeq(R, w), ViewSeq(B, w)), ViewSeq(R, v), ViewSeq(B, v))
    PROVE  /\ \A f \in Range(R) \union Range(B) : SameLayout(v[f], Signature(w[f]))
           /\ \/ \A f \in Range(R) \union Range(B) : v[f].base = w[f].base
              \/ ~RejectsAliases(ViewSeq(R, v), ViewSeq(B, v))
  <1> DEFINE all == R \o B
             len == Len(R) + Len(B)
             Joined(u) == ViewSeq(R, u) \o ViewSeq(B, u)
             plan == Plan(ViewSeq(R, w), ViewSeq(B, w))
  <1>1. CheckOperands(plan, ViewSeq(R, v), ViewSeq(B, v))
    OBVIOUS
  <1>2. len \in Nat /\ \A f \in Range(R) \union Range(B) : \E k \in 1..len : all[k] = f
    BY NamesJoined
  <1>3. ASSUME NEW u
        PROVE  /\ Len(ViewSeq(R, u)) = Len(R) /\ Len(ViewSeq(B, u)) = Len(B)
               /\ \A k \in 1..len : Joined(u)[k] = u[all[k]]
    BY OperandsJoined
  <1> HIDE DEF all, len, Joined
  <1>4. /\ plan.signatures = [k \in 1..len |-> Signature(Joined(w)[k])]
        /\ plan.pointers = [k \in 1..len |-> Joined(w)[k].base]
    BY <1>3 DEF Plan, Joined, len
  <1> HIDE DEF plan
  <1>5. /\ \A k \in 1..len : SameLayout(Joined(v)[k], plan.signatures[k])
        /\ \/ \A k \in 1..len : Joined(v)[k].base = plan.pointers[k]
           \/ ~RejectsAliases(ViewSeq(R, v), ViewSeq(B, v))
    BY <1>1, <1>3 DEF CheckOperands, CheckMetadata, Joined, len
  <1>6. /\ \A k \in 1..len : SameLayout(v[all[k]], Signature(w[all[k]]))
        /\ \/ \A k \in 1..len : v[all[k]].base = w[all[k]].base
           \/ ~RejectsAliases(ViewSeq(R, v), ViewSeq(B, v))
    BY <1>3, <1>4, <1>5
  <1> QED BY <1>2, <1>6

\* The operands of every plan the graph holds are tensors of the caller.
PlansTyped ==
    \A i \in Operators : captured[i] \in DOMAIN plans =>
        Typed(Op(Node(i)), plans[captured[i]].views)

OverlapInv == PlansTyped /\ OverlapOnlyByRestride

\* The views of a fresh operator are tensors.
LEMMA DefaultsTyped ==
    ASSUME NEW op, List(Inputs(op)), List(Buffers(op))
    PROVE  /\ \A f \in Fields(op) : Default(op, f) \in View
           /\ Typed(op, Defaults(op))
  <1>1. ASSUME NEW f \in Fields(op) PROVE Default(op, f) \in View
    <2> DEFINE all == Inputs(op) \o Buffers(op)
    <2>1. List(all) /\ Range(all) = Fields(op)
      BY ListJoin DEF Fields
    <2>2. Position(op, f) = CHOOSE k \in DOMAIN all : all[k] = f
      BY DEF Position
    <2> HIDE DEF all
    <2>3. DOMAIN all = 1..Len(all) /\ Len(all) \in Nat /\ \E k \in 1..Len(all) : all[k] = f
      BY <2>1, ListShape
    <2>4. Position(op, f) \in Nat
      BY <2>2, <2>3
    <2> QED BY <2>4 DEF Default, View, RegionCells
  <1> QED BY <1>1 DEF Typed, Defaults

\* So are those with another view of one operand.
LEMMA OfferedTyped ==
    ASSUME NEW op, List(Inputs(op)), List(Buffers(op)), NEW probe,
           NEW v \in Offered(op, probe), NEW old, Typed(op, old)
    PROVE  Typed(op, Also(v, old))
  <1>1. \A f \in Fields(op) : Default(op, f) \in View
    BY DefaultsTyped
  <1>2. ASSUME NEW f \in Fields(op), NEW w \in Alternatives(op, f) PROVE w \in View
    <2> DEFINE d == Default(op, f)
    <2>1. d \in View
      BY <1>1
    <2>2. \/ \E p \in {1, 3, RegionCells} : w = [d EXCEPT !.pitch = p]
          \/ \E b \in {2, RegionCells}, p \in {2, 3} :
                 w = [d EXCEPT !.base = @ + b, !.pitch = p]
          \/ w = [d EXCEPT !.rows = 3]
      BY DEF Alternatives
    <2> HIDE DEF d
    <2>3. d.base + 2 \in Nat /\ d.base + 6 \in Nat
      BY <2>1 DEF View
    <2>4. ASSUME NEW p \in Nat PROVE [d EXCEPT !.pitch = p] \in View
      BY <2>1 DEF View
    <2>5. ASSUME NEW b \in Nat, NEW p \in Nat
          PROVE  [d EXCEPT !.base = b, !.pitch = p] \in View
      BY <2>1 DEF View
    <2>6. [d EXCEPT !.rows = 3] \in View
      BY <2>1 DEF View
    <2>7. CASE \E p \in {1, 3, RegionCells} : w = [d EXCEPT !.pitch = p]
      BY <2>4, <2>7 DEF RegionCells
    <2>8. CASE \E b \in {2, RegionCells}, p \in {2, 3} :
                   w = [d EXCEPT !.base = @ + b, !.pitch = p]
      <3>1. PICK b \in {2, RegionCells}, p \in {2, 3} :
                     w = [d EXCEPT !.base = d.base + b, !.pitch = p]
        BY <2>8
      <3>2. d.base + b \in Nat /\ p \in Nat
        BY <2>3, <3>1 DEF RegionCells
      <3> QED BY <2>5, <3>1, <3>2
    <2> QED BY <2>2, <2>6, <2>7, <2>8
  <1>3. \A f \in DOMAIN v : f \in Fields(op) => v[f] \in View
    <2>1. CASE v = <<>>
      BY <2>1
    <2>2. CASE \E f \in Fields(op), w \in View : v = [n \in {f} |-> w]
      BY <2>2
    <2>3. \A f \in Fields(op) : [Default(op, f) EXCEPT !.rows = 3] \in View
      BY <1>1 DEF View
    <2>4. \/ v = <<>>
          \/ \E f \in Fields(op) : \E w \in Alternatives(op, f) : v = [n \in {f} |-> w]
          \/ \E f \in Fields(op) : v = [n \in {f} |-> [Default(op, f) EXCEPT !.rows = 3]]
      <3> HIDE DEF Fields, Alternatives, Default
      <3>1. CASE probe = "view"
        <4> DEFINE some == UNION {{[n \in {f} |-> w] : w \in Alternatives(op, f)} :
                                    f \in Fields(op) \cap program.varied}
        <4>1. v \in {<<>>} \union some
          BY <3>1 DEF Offered
        <4>2. ASSUME v \in some
              PROVE  \E f \in Fields(op) : \E w \in Alternatives(op, f) : v = [n \in {f} |-> w]
          BY <4>2, Zenon
        <4> HIDE DEF some
        <4> QED BY <4>1, <4>2
      <3>2. CASE probe = "shape"
        BY <3>2 DEF Offered
      <3>3. CASE probe \notin {"view", "shape"}
        BY <3>3 DEF Offered
      <3> QED BY <3>1, <3>2, <3>3
    <2> QED BY <2>1, <2>2, <2>3, <2>4, <1>2
  <1> QED BY <1>3 DEF Typed, Also

\* Views of the plans are typed by preparation, and later steps only drop plans or
\* register others under other handles.
LEMMA PlansTypedStep == HandlesIssued /\ PlansTyped /\ [Next]_vars => PlansTyped'
  <1> SUFFICES ASSUME HandlesIssued, PlansTyped, [Next]_vars PROVE PlansTyped'
    OBVIOUS
  <1>1. /\ program' = program /\ Operators' = Operators /\ \A i : program'.nodes[i] = Node(i)
        /\ Operators \subseteq Nodes
    BY ProgramKept, SameProgram DEF Operators
  <1>2. CASE UNCHANGED <<plans, captured>>
    BY <1>1, <1>2 DEF PlansTyped, Node
  <1>3. CASE PrepareNext
    <2>1. CASE Refuse
      BY <2>1, <1>2 DEF Refuse
    <2>2. ASSUME NEW i \in Unprepared, Op(Node(i)).kind # "refused",
                 NEW v \in Offered(Op(Node(i)), program.probe),
                 Register(i, Also(v, Defaults(Op(Node(i))))),
                 captured' = [captured EXCEPT ![i] = next' - 1]
          PROVE  PlansTyped'
      <3> DEFINE op == Op(Node(i))
                 w == Also(v, Defaults(op))
      <3>1. i \in Operators /\ Kind(Node(i)) # "refused" /\ Callable(Node(i))
        BY <2>2, ProgramNodes DEF Unprepared, Op, HandlesIssued
      <3>2. Sound(op)
        BY <3>1, NodeSound
      <3>3. Typed(op, w)
        <4>1. List(Inputs(op)) /\ List(Buffers(op))
          BY <3>2 DEF Sound
        <4> HIDE DEF op
        <4>2. Typed(op, Defaults(op))
          BY <4>1, DefaultsTyped
        <4> QED BY <4>1, <4>2, <2>2, OfferedTyped DEF op
      <3>4. /\ \A h \in 0..next - 1 : /\ h \in DOMAIN plans' <=> h \in DOMAIN plans
                                      /\ h \in DOMAIN plans => plans'[h] = plans[h]
            /\ plans'[next' - 1] = [node |-> i, views |-> w]
        BY <2>2, Registered
      <3> HIDE DEF w
      <3>5. ASSUME NEW j \in Operators, captured'[j] \in DOMAIN plans'
            PROVE  Typed(Op(Node(j)), plans'[captured'[j]].views)
        <4>1. CASE j = i
          BY <4>1, <2>2, <1>1, <3>3, <3>4 DEF HandlesIssued
        <4>2. CASE j # i
          <5>1. captured'[j] = captured[j] /\ captured[j] \in 0..next - 1
            BY <4>2, <2>2, <1>1 DEF HandlesIssued
          <5>2. captured[j] \in DOMAIN plans /\ plans'[captured'[j]] = plans[captured[j]]
            BY <5>1, <3>4, <3>5
          <5> QED BY <5>1, <5>2 DEF PlansTyped
        <4> QED BY <4>1, <4>2
      <3> QED BY <1>1, <3>5 DEF PlansTyped, Node
    <2> QED BY <1>3, <2>1, <2>2 DEF PrepareNext, Prepare
  <1>4. CASE Capture \/ LaunchNext \/ CallerNext \/ Done \/ UNCHANGED vars
    BY <1>4, <1>2 DEF Capture, LaunchNext, Launch, CallerNext, Done, vars
  <1>5. ASSUME NEW i \in Operators, Collect(i) PROVE PlansTyped'
    <2>1. /\ captured' = captured
          /\ \A h \in DOMAIN plans' : h \in DOMAIN plans /\ plans'[h] = plans[h]
      BY <1>5 DEF Collect
    <2> QED BY <1>1, <2>1 DEF PlansTyped, Node
  <1>6. ASSUME NEW i \in Operators, PrepareAgain(i) PROVE PlansTyped'
    <2>1. PICK v : Register(i, v)
      BY <1>6 DEF PrepareAgain
    <2>2. captured' = captured
      BY <1>6 DEF PrepareAgain
    <2>3. \A h \in 0..next - 1 : /\ h \in DOMAIN plans' <=> h \in DOMAIN plans
                                 /\ h \in DOMAIN plans => plans'[h] = plans[h]
      BY <2>1, Registered
    <2>4. \A j \in Operators : captured[j] \in 0..next - 1
      BY <1>1 DEF HandlesIssued
    <2>5. \A j \in Operators : captured[j] \in DOMAIN plans' =>
             captured[j] \in DOMAIN plans /\ plans'[captured[j]] = plans[captured[j]]
      BY <2>3, <2>4
    <2> QED BY <1>1, <2>2, <2>5 DEF PlansTyped, Node
  <1> QED
    BY <1>3, <1>4, <1>5, <1>6 DEF Next

\* A launch that ran over operands that alias was one of the bridge's own operators, at
\* the recorded addresses, on a strided operand with another pitch.
LEMMA RestrideOnly ==
    ASSUME HandlesIssued, PlansTyped, NEW i \in Operators, NEW v,
           NEW op, op = Op(Node(i)), NEW was, was = plans[captured[i]].views,
           Typed(op, v), Outcome(i, v) = "ran", Aliased(op, v)
    PROVE  /\ op.kind \notin AuxKinds /\ captured[i] \in DOMAIN plans
           /\ \A f \in Fields(op) : v[f].base = was[f].base
           /\ \E f \in Fields(op) : v[f].pitch # was[f].pitch /\ ~Contiguous(was[f])
  <1> DEFINE ins == ViewSeq(Inputs(op), v)
             bufs == ViewSeq(Buffers(op), v)
             record == Plan(ViewSeq(Inputs(op), was), ViewSeq(Buffers(op), was))
             auxiliary == op.kind \in AuxKinds
  <1>1. captured[i] \in DOMAIN plans
    BY DEF Outcome
  <1>2. /\ plans[captured[i]].node = i /\ Typed(op, was) /\ Admits(op, program.geometry, was)
        /\ Kind(Node(i)) # "refused" /\ Callable(Node(i))
    <2>1. i \in Nodes /\ captured[i] # 0
      BY <1>1 DEF Operators, HandlesIssued
    <2> QED BY <1>1, <2>1, ProgramNodes DEF PlansTyped, HandlesIssued
  <1>3. List(Inputs(op)) /\ List(Buffers(op))
    BY <1>2, NodeSound DEF Sound
  <1>4. Outcome(i, v) =
          CASE auxiliary /\ ~CheckAuxiliary(record, ins, bufs) -> "changed"
            [] ~auxiliary /\ ~CheckOperands(record, ins, bufs) -> "changed"
            [] auxiliary /\ ~AdmitsAuxiliary(ins, bufs) -> "status"
            [] ~auxiliary /\ ~NativeAdmits(op, program.geometry, v) -> "status"
            [] OTHER -> "ran"
    BY <1>1, <1>2 DEF Outcome
  <1> HIDE DEF ins, bufs, record
  <1>5. RejectsAliases(ins, bufs)
    BY <1>3, AcceptedViews DEF ins, bufs
  <1>6. ~auxiliary /\ CheckOperands(record, ins, bufs)
    BY <1>4, <1>5 DEF AdmitsAuxiliary
  <1>7. /\ \A f \in Fields(op) : SameLayout(v[f], Signature(was[f]))
        /\ \A f \in Fields(op) : v[f].base = was[f].base
    BY <1>3, <1>5, <1>6, OperandsCompared DEF ins, bufs, record, Fields
  <1>8. ~Aliased(op, was)
    BY <1>2, <1>3, AcceptedViews DEF Admits
  <1>9. ASSUME \A f \in Fields(op) : v[f].pitch = was[f].pitch \/ Contiguous(was[f])
        PROVE  FALSE
    <2>1. \A f \in Fields(op) : /\ Cells(v[f]) = Cells(was[f])
                                /\ v[f].rows = was[f].rows /\ v[f].inner = was[f].inner
      BY <1>2, <1>7, <1>9, SameCells DEF Typed
    <2> QED BY <1>8, <2>1, SameAliases
  <1> QED BY <1>1, <1>6, <1>7, <1>9

\* Steps that launch nothing keep what was found of the latest launch.
LEMMA OverlapKept ==
    ASSUME OverlapOnlyByRestride, UNCHANGED <<program, last>>
    PROVE  OverlapOnlyByRestride'
  BY DEF OverlapOnlyByRestride, Node

\* Every step keeps what is known of overlapping operands.
LEMMA OverlapStep == HandlesIssued /\ RunsInOrder /\ OverlapInv /\ [Next]_vars => OverlapInv'
  <1> SUFFICES ASSUME HandlesIssued, RunsInOrder, PlansTyped, OverlapOnlyByRestride,
                      [Next]_vars
               PROVE  OverlapInv'
    BY DEF OverlapInv
  <1>1. PlansTyped' /\ program' = program
    BY PlansTypedStep, ProgramKept
  <1>2. CASE UNCHANGED last
    BY <1>1, <1>2, OverlapKept DEF OverlapInv
  <1>3. ASSUME NEW i \in Operators, phase = "run",
               NEW old, old = IF captured[i] \in DOMAIN plans /\ plans[captured[i]].node = i
                              THEN plans[captured[i]].views ELSE Defaults(Op(Node(i))),
               NEW v \in Offered(Op(Node(i)), program.probe), Launch(i, Also(v, old))
        PROVE  OverlapInv'
    <2> DEFINE op == Op(Node(i))
               views == Also(v, old)
               plan == plans[captured[i]]
    <2>1. /\ last'.node = i /\ last'.outcome = Outcome(i, views) /\ last'.views = views
          /\ last'.owner = IF captured[i] \in DOMAIN plans THEN plan ELSE Nobody
      BY <1>3 DEF Launch
    <2>2. Op(program'.nodes[i]) = op
      BY <1>1 DEF Node
    <2>3. List(Inputs(op)) /\ List(Buffers(op))
      BY <1>3, AllDeclare DEF RunsInOrder, Operators, Sound
    <2>4. Typed(op, old)
      BY <1>3, <2>3, DefaultsTyped DEF PlansTyped
    <2>5. Typed(op, views)
      BY <1>3, <2>3, <2>4, OfferedTyped
    <2> HIDE DEF op, views, plan
    <2>6. ASSUME Outcome(i, views) = "ran", Aliased(op, views)
          PROVE  /\ op.kind \notin AuxKinds /\ last'.owner = plan
                 /\ \A f \in Fields(op) : views[f].base = plan.views[f].base
                 /\ \E f \in Fields(op) :
                        views[f].pitch # plan.views[f].pitch /\ ~Contiguous(plan.views[f])
      BY <2>1, <2>5, <2>6, RestrideOnly DEF op, plan
    <2>7. OverlapOnlyByRestride'
      BY <2>1, <2>2, <2>6 DEF OverlapOnlyByRestride, Node
    <2> QED BY <1>1, <2>7 DEF OverlapInv
  <1>4. CASE PrepareNext
    BY <1>4, <1>2 DEF PrepareNext, Prepare, Refuse
  <1>5. CASE Capture \/ CallerNext \/ Done \/ UNCHANGED vars
    BY <1>5, <1>2 DEF Capture, CallerNext, Done, vars
  <1>6. CASE LaunchNext
    BY <1>6, <1>3 DEF LaunchNext
  <1>7. ASSUME NEW i \in Operators, Collect(i) \/ PrepareAgain(i) PROVE OverlapInv'
    BY <1>7, <1>2 DEF Collect, PrepareAgain
  <1> QED
    BY <1>4, <1>5, <1>6, <1>7 DEF Next

-----------------------------------------------------------------------------
(***************************************************************************)
(* The theorems.                                                           *)
(***************************************************************************)

\* Handles, order of runs and launch checks hold in every reachable state of every
\* program, device and number of preparations.
THEOREM GraphInvariant == Spec => []Inv
  <1>1. Inv /\ [Next]_vars => Inv'
    BY HandlesStep, RunsStep, LaunchStep DEF Inv
  <1> QED
    BY InitInv, <1>1, PTL DEF Spec

\* In whatever order the graph runs its nodes, each reads what the order of the
\* program would have left: the declared mutations are all there are (_native.py:18).
THEOREM DataFlowIsPreserved == Spec => []DataFlowPreserved
  <1>1. Inv => DataFlowPreserved
    BY DEF Inv, RunsInOrder
  <1> QED
    BY GraphInvariant, <1>1, PTL

\* The native entry refuses an unchanged prepared operator only for a grid dimension,
\* or a commit of no requests or no heads (gdn.py:358-361).
THEOREM PreparedStaysAdmitted == Spec => []PreparedIsAdmitted
  <1>1. Inv => PreparedIsAdmitted
    BY DEF Inv, LaunchChecked
  <1> QED
    BY GraphInvariant, <1>1, PTL

\* Every pointer a kernel dereferences is the operand prepared under its name, with the
\* shape that was compared, in every binding and every combination of optional operands.
THEOREM OperandsDoArrive == Spec => []OperandsArrive
  <1>1. Inv => OperandsArrive
    <2> SUFFICES ASSUME Inv, NEW i \in HasRun \cap Operators, NEW f \in
                            KernelFields(Op(Node(i)))
                 PROVE  /\ f \in DOMAIN Native(Node(i))
                               /\ Native(Node(i))[f] = Tensor(Node(i), f)
                        /\ last.node = i =>
                               last.views[f].rows = 2 /\ last.views[f].inner = 2
      BY DEF OperandsArrive
    <2>1. Sound(Op(Node(i))) /\ Node(i).call # "caller"
      BY AllDeclare DEF Inv, RunsInOrder, Operators
    <2> QED BY <2>1, NodeDelivers DEF Inv, LaunchChecked
  <1> QED
    BY GraphInvariant, <1>1, PTL

\* No binding silently drops the error vector it was given (flare.py:60-69, 110-117).
THEOREM UpstreamIsHonoured == Spec => []UpstreamHonoured
  <1>1. Inv => UpstreamHonoured
    <2> SUFFICES ASSUME Inv, NEW i \in HasRun \cap Operators, Node(i).upstream # "none"
                 PROVE  Node(i).upstream \in ReadBy(Node(i))
      BY DEF UpstreamHonoured
    <2>1. Kind(Node(i)) # "refused" /\ Callable(Node(i))
      BY AllDeclare, ProgramNodes DEF Inv, RunsInOrder, HandlesIssued, Operators
    <2> QED BY <2>1, UpstreamRead
  <1> QED
    BY GraphInvariant, <1>1, PTL

\* A graph that outlives the owner of a node never launches what was prepared later
\* under the same handle (_native.py:22-27).
THEOREM ExpiredStaysExpired == Spec => ExpiredForGood
  <1>1. Inv => HandlesIssued
    BY DEF Inv
  <1> QED
    BY GraphInvariant, <1>1, ExpiredStep, PTL DEF Spec, ExpiredForGood

\* A kernel runs over a written operand that overlaps another only at the prepared
\* addresses and on a strided view with another pitch, in every program and with any
\* views: everywhere else the checks of preparation and launch leave no alias.
THEOREM OverlapsOnlyByRestride == Spec => []OverlapOnlyByRestride
  <1>1. Init => OverlapInv
    <2> SUFFICES ASSUME Init PROVE OverlapInv
      OBVIOUS
    <2>1. DOMAIN plans = {} /\ last.outcome = "none"
      BY DEF Init
    <2> QED BY <2>1 DEF OverlapInv, PlansTyped, OverlapOnlyByRestride
  <1>2. Inv /\ OverlapInv /\ [Next]_vars => OverlapInv'
    BY OverlapStep DEF Inv
  <1>3. OverlapInv => OverlapOnlyByRestride
    BY DEF OverlapInv
  <1> QED
    BY GraphInvariant, <1>1, <1>2, <1>3, PTL DEF Spec
=============================================================================
