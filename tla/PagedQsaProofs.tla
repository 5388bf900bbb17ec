--------------------------- MODULE PagedQsaProofs ---------------------------
(***************************************************************************)
(* Theorems about PagedQsa, for every page, ring and group size, number of *)
(* slots, pages and requests, interval and number of launches and starts.  *)
(*                                                                         *)
(* SequencesAreCached     what attention reads is the sequence itself      *)
(* RightCallersAdmitted   a caller that is right is never refused          *)
(* BystandersAreKept      a launch changes nothing of who is not in it     *)
(*                                                                         *)
(* PagedInv relates three pieces of state.  Sharing: two sequences share   *)
(* only the page behind which one of them began, and neither writes there  *)
(* again.  Ring: an entry whose tag lies in the group being completed, or  *)
(* behind it in the sequence, is the key supplied for that position.  Tail:*)
(* wherever the next interval may begin, the ring has the positions of its *)
(* incomplete group.                                                       *)
(***************************************************************************)
EXTENDS PagedQsa, FiniteSetTheorems, SequenceTheorems, TLAPS

-----------------------------------------------------------------------------
(***************************************************************************)
(* The inductive invariant.                                                *)
(***************************************************************************)

Capacity == TableWidth * PageSize
Positions == 0..Capacity - 1
Offsets == 0..PageSize - 1
Residues == 0..RingSize - 1
\* The first position of the group of pos.
GroupStart(pos) == (pos \div Ratio) * Ratio

Tables == {f \in [1..TableWidth -> Pages] : \A i, j \in 1..TableWidth : f[i] = f[j] => i = j}

ShapeInv ==
    /\ DOMAIN keys = Pages /\ \A p \in Pages : keys[p] = [o \in Offsets |-> keys[p][o]]
    /\ DOMAIN pooled = Pages
    /\ \A p \in Pages : pooled[p] = [g \in 0..Groups - 1 |-> pooled[p][g]]
    /\ DOMAIN ring = Slots /\ \A s \in Slots : ring[s] = [i \in Residues |-> ring[s][i]]
    /\ DOMAIN tags = Slots /\ \A s \in Slots : tags[s] = [i \in Residues |-> tags[s][i]]
    /\ tables \in [Slots -> Tables \union {<<>>}]
    /\ supplied \in [Slots -> Seq(Slots \X Nat \X Nat)]
    /\ anchors \in [Slots -> Int]
    /\ verified \in [Slots -> BOOLEAN]
    /\ launches \in Nat

AnchorInv ==
    \A s \in Running :
        /\ anchors[s] >= -1 /\ (verified[s] => anchors[s] >= 0)
        /\ Len(supplied[s]) <= Capacity

SharingInv ==
    \A s, t \in Running, i, j \in 1..TableWidth :
        s # t /\ tables[s][i] = tables[t][j] =>
            i = 1 /\ j = 1 /\ Resumes(s) >= PageSize /\ Resumes(t) >= PageSize

RingInv ==
    \A s \in Running, pos \in Positions :
        /\ GroupStart(Resumes(s)) <= pos /\ pos < Len(supplied[s])
        /\ tags[s][pos % RingSize] = pos
        => ring[s][pos % RingSize] = supplied[s][pos + 1]

TailInv ==
    \A s \in Running : \A first \in Resumes(s)..Len(supplied[s]) :
        \A pos \in GroupStart(first)..first - 1 : tags[s][pos % RingSize] = pos

PagedInv ==
    /\ ShapeInv /\ AnchorInv /\ SharingInv /\ RingInv /\ TailInv
    /\ CacheHoldsSequence

-----------------------------------------------------------------------------
(***************************************************************************)
(* Arithmetic.                                                             *)
(***************************************************************************)

\* What \div and % mean for a symbolic divisor.
LEMMA Division ==
    ASSUME NEW a \in Int, NEW b \in Int, b > 0
    PROVE a = b * (a \div b) + (a % b)
  BY Z3

\* The same with the types of the results.
LEMMA DivMod ==
    ASSUME NEW a \in Int, NEW b \in Nat \ {0}
    PROVE /\ a \div b \in Int /\ a % b \in 0..b - 1
          /\ a = b * (a \div b) + (a % b)
  <1>1. a \div b \in Int
    OBVIOUS
  <1>2. a % b \in 0..b - 1
    OBVIOUS
  <1>3. a = b * (a \div b) + (a % b)
    BY Division
  <1> QED BY <1>1, <1>2, <1>3

\* A quotient is the one multiple that fits.
LEMMA DivIs ==
    ASSUME NEW a \in Int, NEW b \in Nat \ {0}, NEW q \in Int, b * q <= a, a < b * (q + 1)
    PROVE a \div b = q
  <1>1. a = b * (a \div b) + (a % b) /\ a % b \in 0..b - 1 /\ a \div b \in Int
    BY DivMod
  <1> QED BY <1>1

\* Quotients are monotonic.
LEMMA DivMono ==
    ASSUME NEW a \in Int, NEW c \in Int, NEW b \in Nat \ {0}, a <= c
    PROVE a \div b <= c \div b
  <1>1. a = b * (a \div b) + (a % b) /\ a % b \in 0..b - 1 /\ a \div b \in Int
    BY DivMod
  <1>2. c = b * (c \div b) + (c % b) /\ c % b \in 0..b - 1 /\ c \div b \in Int
    BY DivMod
  <1> QED BY <1>1, <1>2

\* Positions of one residue are a whole period apart.
LEMMA ModNear ==
    ASSUME NEW a \in Int, NEW c \in Int, NEW b \in Nat \ {0}, a % b = c % b, a < c
    PROVE c - a >= b
  <1> DEFINE q == a \div b
             p == c \div b
             r == a % b
  <1>1. a = b * q + r /\ q \in Int /\ r \in Int
    BY DivMod
  <1>2. c = b * p + r /\ p \in Int
    BY DivMod
  <1> HIDE DEF q, p, r
  <1>3. c - a = b * p - b * q /\ b * p \in Int /\ b * q \in Int
    BY <1>1, <1>2
  <1>4. CASE p >= q + 1
    <2>1. b * p >= b * (q + 1) /\ b * (q + 1) = b * q + b
      BY <1>4, <1>1, <1>2
    <2> QED BY <2>1, <1>3
  <1>5. CASE p <= q
    <2>1. b * p <= b * q
      BY <1>5, <1>1, <1>2
    <2> QED BY <2>1, <1>3
  <1> QED BY <1>4, <1>5, <1>1, <1>2

\* Dividing twice is dividing by the product.
LEMMA DivDiv ==
    ASSUME NEW a \in Int, NEW b \in Nat \ {0}, NEW c \in Nat \ {0}
    PROVE (a \div b) \div c = a \div (b * c)
  <1> DEFINE q == a \div b
  <1>1. a = b * q + (a % b) /\ a % b \in 0..b - 1 /\ q \in Int
    BY DivMod
  <1>2. q = c * (q \div c) + (q % c) /\ q % c \in 0..c - 1 /\ q \div c \in Int
    BY DivMod, <1>1
  <1> HIDE DEF q
  <1>3. (b * c) \in Nat \ {0}
    OBVIOUS
  <1>4. a >= (b * c) * (q \div c)
    BY <1>1, <1>2
  <1>5. a < (b * c) * ((q \div c)+1)
    BY <1>1, <1>2
  <1>6. a \div (b * c) = q \div c
    BY DivIs, <1>2, <1>3, <1>4, <1>5
  <1> QED BY <1>6 DEF q

-----------------------------------------------------------------------------
(***************************************************************************)
(* Positions, groups, pages and cells.                                     *)
(***************************************************************************)

\* The constants are positive, and a page is a whole number of groups.
LEMMA Sizes ==
    /\ Ratio \in Nat \ {0} /\ PageSize \in Nat \ {0} /\ RingSize \in Nat \ {0}
    /\ TableWidth \in Nat \ {0} /\ MaxAccepted \in Nat \ {0}
    /\ Groups \in Nat \ {0} /\ PageSize = Ratio * Groups
    /\ RingSize >= Ratio + MaxAccepted
    /\ Capacity \in Nat \ {0} /\ PageSize <= Capacity
  <1>1. /\ Ratio \in Nat \ {0} /\ PageSize \in Nat \ {0} /\ RingSize \in Nat \ {0}
        /\ TableWidth \in Nat \ {0} /\ MaxAccepted \in Nat \ {0}
        /\ RingSize >= Ratio + MaxAccepted /\ PageSize % Ratio = 0
    BY Geometry
  <1>2. PageSize = Ratio * Groups /\ Groups \in Int
    BY <1>1, DivMod DEF Groups
  <1>3. Groups \in Nat \ {0}
    <2>1. CASE Groups <= 0
      <3>1. Ratio * Groups <= 0
        BY <1>1, <1>2, <2>1
      <3> QED BY <3>1, <1>1, <1>2
    <2> QED BY <2>1, <1>2
  <1>4. Capacity \in Nat \ {0} /\ PageSize <= Capacity
    BY <1>1 DEF Capacity
  <1> QED BY <1>1, <1>2, <1>3, <1>4

\* A group starts less than a group before each of its positions.
LEMMA GroupStarts ==
    ASSUME NEW pos \in Int
    PROVE /\ GroupStart(pos) \in Int /\ GroupStart(pos) <= pos
          /\ pos <= GroupStart(pos) + Ratio - 1
          /\ pos >= 0 => GroupStart(pos) >= 0
          /\ \A c \in Int : pos <= c => GroupStart(pos) <= GroupStart(c)
          /\ \A g \in Int : GroupStart(g * Ratio) = g * Ratio
  <1> DEFINE q == pos \div Ratio
  <1>0. Ratio \in Nat \ {0}
    BY Sizes
  <1>1. pos = Ratio * q + (pos % Ratio) /\ pos % Ratio \in 0..Ratio - 1 /\ q \in Int
    BY <1>0, DivMod
  <1>2. GroupStart(pos) = q * Ratio
    BY DEF GroupStart
  <1>3. \A c \in Int : pos <= c => q <= c \div Ratio /\ c \div Ratio \in Int
    BY <1>0, DivMono, DivMod
  <1>4. \A g \in Int : (g * Ratio) \div Ratio = g
    BY <1>0, DivIs
  <1>5. \A c \in Int : GroupStart(c) = (c \div Ratio) * Ratio
    BY DEF GroupStart
  <1> HIDE DEF q
  <1>6. q * Ratio = Ratio * q /\ Ratio * q \in Int
    BY <1>0, <1>1
  <1>7. pos >= 0 => q >= 0
    <2>1. SUFFICES ASSUME pos >= 0, q < 0 PROVE FALSE
      BY <1>1
    <2>2. Ratio * q <= Ratio * (-1)
      BY <2>1, <1>0, <1>1
    <2> QED BY <2>1, <2>2, <1>0, <1>1
  <1>8. q >= 0 => q * Ratio >= 0
    BY <1>0, <1>1
  <1>9. \A c \in Int : pos <= c => q * Ratio <= (c \div Ratio) * Ratio
    BY <1>0, <1>1, <1>3
  <1>10. \A g \in Int : GroupStart(g * Ratio) = g * Ratio
    BY <1>4, <1>0, <1>5
  <1> QED BY <1>0, <1>1, <1>2, <1>5, <1>6, <1>7, <1>8, <1>9, <1>10

\* A position has a page of the table and an offset in it, and is known by them.
LEMMA Placed ==
    ASSUME NEW pos \in Positions
    PROVE /\ pos \in Nat /\ Logical(pos) \in 1..TableWidth /\ pos % PageSize \in Offsets
          /\ pos = PageSize * (Logical(pos) - 1) + (pos % PageSize)
          /\ Logical(pos) = 1 => pos < PageSize
  <1> DEFINE q == pos \div PageSize
  <1>0. PageSize \in Nat \ {0} /\ TableWidth \in Nat \ {0} /\ pos \in Nat
        /\ pos < TableWidth * PageSize
    BY Sizes DEF Positions, Capacity
  <1>1. pos = PageSize * q + (pos % PageSize) /\ pos % PageSize \in 0..PageSize - 1 /\ q \in Int
    BY <1>0, DivMod
  <1>2. Logical(pos) = q + 1
    BY DEF Logical
  <1> HIDE DEF q
  <1>3. q >= 0
    <2>1. SUFFICES ASSUME q <= -1 PROVE FALSE
      BY <1>1
    <2>2. PageSize * q <= PageSize * (-1)
      BY <2>1, <1>0, <1>1
    <2> QED BY <2>2, <1>0, <1>1
  <1>4. q < TableWidth
    <2>1. SUFFICES ASSUME q >= TableWidth PROVE FALSE
      BY <1>0, <1>1
    <2>2. PageSize * q >= TableWidth * PageSize
      BY <2>1, <1>0, <1>1
    <2> QED BY <2>2, <1>0, <1>1
  <1> QED BY <1>0, <1>1, <1>2, <1>3, <1>4 DEF Offsets

\* The cell of a position of a table.
LEMMA CellPlaced ==
    ASSUME NEW table \in Tables, NEW pos \in Positions
    PROVE /\ Cell(table, pos) = <<table[Logical(pos)], pos % PageSize>>
          /\ Cell(table, pos)[1] \in Pages /\ Cell(table, pos)[2] \in Offsets
  <1>1. Logical(pos) \in 1..TableWidth /\ pos % PageSize \in Offsets
    BY Placed
  <1>2. table \in [1..TableWidth -> Pages]
    BY DEF Tables
  <1>3. Len(table) = TableWidth
    BY <1>2, Sizes
  <1> QED BY <1>1, <1>2, <1>3 DEF Cell, Physical

GroupIndex == {g \in Nat : (g + 1) * Ratio <= Capacity}

\* A group has a page, the page of its last position, and an offset in it.
LEMMA GroupPlaced ==
    ASSUME NEW g \in GroupIndex
    PROVE /\ g * Ratio + Ratio - 1 \in Positions /\ (g * Ratio + Ratio - 1) \div Ratio = g
          /\ g \div Groups + 1 = Logical(g * Ratio + Ratio - 1)
          /\ g \div Groups + 1 \in 1..TableWidth /\ g % Groups \in 0..Groups - 1
          /\ g = Groups * (g \div Groups) + (g % Groups)
  <1> DEFINE pos == g * Ratio + Ratio - 1
  <1>0. g \in Nat /\ Ratio \in Nat \ {0} /\ Groups \in Nat \ {0} /\ PageSize = Ratio * Groups
        /\ (g + 1) * Ratio <= Capacity /\ Capacity \in Nat
    BY Sizes DEF GroupIndex
  <1>1. pos \in Positions
    <2>1. (g + 1) * Ratio = g * Ratio + Ratio /\ g * Ratio \in Nat
      BY <1>0
    <2> QED BY <1>0, <2>1 DEF Positions
  <1>2. pos \div Ratio = g
    <2>1. Ratio * g <= pos /\ pos < Ratio * (g + 1) /\ pos \in Int
      BY <1>0
    <2> HIDE DEF pos
    <2> QED BY <2>1, <1>0, DivIs
  <1>3. pos \in Int
    BY <1>0
  <1> HIDE DEF pos
  <1>4. g \div Groups = pos \div PageSize
    BY <1>0, <1>2, <1>3, DivDiv
  <1>5. g \div Groups + 1 = Logical(pos)
    BY <1>4 DEF Logical
  <1>6. g % Groups \in 0..Groups - 1 /\ g = Groups * (g \div Groups) + (g % Groups)
    BY <1>0, DivMod
  <1>7. Logical(pos) \in 1..TableWidth
    BY <1>1, Placed
  <1> QED BY <1>1, <1>2, <1>5, <1>6, <1>7 DEF pos

\* The cell of a group of a table.
LEMMA PooledPlaced ==
    ASSUME NEW table \in Tables, NEW g \in GroupIndex
    PROVE /\ PooledCell(table, g) = <<table[g \div Groups + 1], g % Groups>>
          /\ PooledCell(table, g)[1] \in Pages /\ PooledCell(table, g)[2] \in 0..Groups - 1
  <1>1. g \div Groups + 1 \in 1..TableWidth /\ g % Groups \in 0..Groups - 1
    BY GroupPlaced
  <1>2. table \in [1..TableWidth -> Pages]
    BY DEF Tables
  <1>3. Len(table) = TableWidth
    BY <1>2, Sizes
  <1> QED BY <1>1, <1>2, <1>3 DEF PooledCell, Physical

\* A position that completes a group is its last one.
LEMMA Completes ==
    ASSUME NEW pos \in Positions, (pos + 1) % Ratio = 0
    PROVE /\ pos \div Ratio \in GroupIndex
          /\ pos = (pos \div Ratio) * Ratio + Ratio - 1
  <1>0. pos \in Nat /\ pos < Capacity /\ Capacity \in Nat /\ Ratio \in Nat \ {0}
    BY Sizes, Placed DEF Positions
  <1> DEFINE q == (pos + 1) \div Ratio
  <1>1. pos + 1 = Ratio * q /\ q \in Int
    BY <1>0, DivMod
  <1> HIDE DEF q
  <1>2. q >= 1
    <2>1. SUFFICES ASSUME q <= 0 PROVE FALSE
      BY <1>1
    <2>2. Ratio * q <= 0
      BY <2>1, <1>0, <1>1
    <2> QED BY <2>2, <1>0, <1>1
  <1>3. /\ Ratio * (q - 1) = Ratio * q - Ratio /\ Ratio * (q - 1 + 1) = Ratio * q
        /\ Ratio * (q - 1) = (q - 1) * Ratio /\ Ratio * q = q * Ratio /\ Ratio * q \in Int
    BY <1>0, <1>1
  <1>4. pos \div Ratio = q - 1
    BY <1>0, <1>1, <1>3, DivIs
  <1>5. q - 1 \in Nat /\ (q - 1 + 1) * Ratio = Ratio * q
    BY <1>0, <1>1, <1>2, <1>3
  <1>6. q - 1 \in GroupIndex
    BY <1>5, <1>0, <1>1, <1>3 DEF GroupIndex
  <1> QED BY <1>0, <1>1, <1>3, <1>4, <1>6


-----------------------------------------------------------------------------
(***************************************************************************)
(* Who owns a cell.  `t` may write from Resumes(t) on.                     *)
(***************************************************************************)

\* A sequence that runs has a whole table.
LEMMA RunningTables ==
    ASSUME ShapeInv, NEW s \in Running
    PROVE s \in Slots /\ tables[s] \in Tables /\ tables[s] # <<>>
  BY DEF ShapeInv, Running

\* Where the next interval of a sequence may begin is a position.
LEMMA ResumesFrom ==
    ASSUME ShapeInv, AnchorInv, NEW s \in Running
    PROVE Resumes(s) \in Nat /\ Len(supplied[s]) \in Nat /\ Len(supplied[s]) <= Capacity
  <1>1. s \in Slots /\ anchors[s] \in Int /\ verified[s] \in BOOLEAN
        /\ supplied[s] \in Seq(Slots \X Nat \X Nat)
    BY RunningTables DEF ShapeInv
  <1> QED BY <1>1 DEF AnchorInv, Resumes

\* The cell of a position that may still be written belongs to nothing else.
LEMMA CellOwner ==
    ASSUME ShapeInv, AnchorInv, SharingInv,
           NEW s \in Running, NEW t \in Running, NEW p \in Positions, NEW q \in Positions,
           q >= Resumes(t), Cell(tables[s], p) = Cell(tables[t], q)
    PROVE s = t /\ p = q
  <1>1. /\ tables[s] \in Tables /\ tables[t] \in Tables
    BY RunningTables
  <1>2. /\ tables[s][Logical(p)] = tables[t][Logical(q)]
        /\ p % PageSize = q % PageSize
    BY <1>1, CellPlaced
  <1>3. /\ Logical(p) \in 1..TableWidth /\ Logical(q) \in 1..TableWidth
        /\ p = PageSize * (Logical(p) - 1) + (p % PageSize)
        /\ q = PageSize * (Logical(q) - 1) + (q % PageSize)
        /\ Logical(q) = 1 => q < PageSize
        /\ q \in Nat
    BY Placed
  <1>4. s = t
    <2>1. SUFFICES ASSUME s # t PROVE FALSE
      OBVIOUS
    <2>2. Logical(q) = 1 /\ Resumes(t) >= PageSize
      BY <1>2, <1>3, <2>1 DEF SharingInv
    <2>3. Resumes(t) \in Nat /\ PageSize \in Nat
      BY ResumesFrom, Sizes
    <2> QED BY <1>3, <2>2, <2>3
  <1>5. Logical(p) = Logical(q)
    BY <1>1, <1>2, <1>3, <1>4 DEF Tables
  <1> QED BY <1>2, <1>3, <1>4, <1>5

\* So does the cell of a group that may still be completed.
LEMMA PooledOwner ==
    ASSUME ShapeInv, AnchorInv, SharingInv,
           NEW s \in Running, NEW t \in Running, NEW g \in GroupIndex, NEW h \in GroupIndex,
           h * Ratio + Ratio - 1 >= Resumes(t), PooledCell(tables[s], g) = PooledCell(tables[t], h)
    PROVE s = t /\ g = h
  <1> DEFINE q == h * Ratio + Ratio - 1
  <1>1. /\ tables[s] \in Tables /\ tables[t] \in Tables
    BY RunningTables
  <1>2. /\ tables[s][g \div Groups + 1] = tables[t][h \div Groups + 1]
        /\ g % Groups = h % Groups
    BY <1>1, PooledPlaced
  <1>3. /\ g \div Groups + 1 \in 1..TableWidth /\ h \div Groups + 1 \in 1..TableWidth
        /\ g = Groups * (g \div Groups) + (g % Groups)
        /\ h = Groups * (h \div Groups) + (h % Groups)
        /\ h \div Groups + 1 = Logical(q) /\ q \in Positions
    BY GroupPlaced
  <1>4. q \in Nat /\ (Logical(q) = 1 => q < PageSize)
    BY <1>3, Placed
  <1>5. q >= Resumes(t)
    OBVIOUS
  <1> HIDE DEF q
  <1>6. s = t
    <2>1. SUFFICES ASSUME s # t PROVE FALSE
      OBVIOUS
    <2>2. Logical(q) = 1 /\ Resumes(t) >= PageSize
      BY <1>2, <1>3, <2>1 DEF SharingInv
    <2>3. Resumes(t) \in Nat /\ PageSize \in Nat
      BY ResumesFrom, Sizes
    <2> QED BY <1>4, <1>5, <2>2, <2>3
  <1>7. g \div Groups + 1 = h \div Groups + 1
    BY <1>1, <1>2, <1>3, <1>6 DEF Tables
  <1>8. g \div Groups = h \div Groups
    <2>1. g \in Int /\ h \in Int /\ Groups \in Nat \ {0}
      BY Sizes DEF GroupIndex
    <2>2. g \div Groups \in Int /\ h \div Groups \in Int
      BY <2>1, DivMod
    <2> QED BY <1>7, <2>2
  <1> QED BY <1>2, <1>3, <1>6, <1>8

-----------------------------------------------------------------------------
(***************************************************************************)
(* A launch, told by the sequences it extends: those of A, each from F[s]  *)
(* on with N[s] keys, as a prefill if P[s].                                *)
(***************************************************************************)

Span(A, F, N, s) == IF s \in A THEN F[s]..F[s] + N[s] - 1 ELSE {}
RowOf(s, pos, first, count) ==
    [slot |-> s, pos |-> pos, key |-> <<s, pos, launches>>, cell |-> Cell(tables[s], pos),
     first |-> first, kept |-> pos - first + 1 > count - RingSize,
     group |-> PooledCell(tables[s], pos \div Ratio)]
RowsOf(A, F, N) == UNION {{RowOf(s, pos, F[s], N[s]) : pos \in F[s]..F[s] + N[s] - 1} : s \in A}

Intervals(A, F, N, P) ==
    /\ A \subseteq Running
    /\ F \in [A -> Nat] /\ N \in [A -> Nat \ {0}] /\ P \in [A -> BOOLEAN]
    /\ \A s \in A :
         /\ Resumes(s) <= F[s] /\ F[s] <= Len(supplied[s]) /\ F[s] + N[s] <= Capacity
         /\ P[s] \/ N[s] <= MaxAccepted + 1

\* What a launch of these rows, the first n kernels of it enqueued, does.
Extends(batch, A, F, N, P, n) ==
    LET active == RowsOf(A, F, N)  m == Ran(batch, active, n) IN
    /\ n \in 1..Kernels
    /\ keys' = m.keys /\ pooled' = m.pooled /\ ring' = m.ring /\ tags' = m.tags
    /\ anchors' = m.anchors
    /\ \A s \in A : Prefills(batch, s) = P[s]
    /\ supplied' = [s \in Slots |-> Sequence(active, n, s)]
    /\ verified' = [s \in Slots |-> IF n >= 5 /\ \E row \in active : row.slot = s
                                    THEN ~Prefills(batch, s) ELSE verified[s]]
    /\ launches' = launches + 1
    /\ tables' = tables

\* The rows of these sequences, and their positions.
LEMMA RowsAre ==
    ASSUME NEW A, NEW F, NEW N, NEW P, Intervals(A, F, N, P), ShapeInv, AnchorInv
    PROVE /\ A \subseteq Running
          /\ \A s \in A : /\ F[s] \in Nat /\ N[s] \in Nat /\ N[s] >= 1
                          /\ Span(A, F, N, s) \subseteq Positions
                          /\ \A pos \in Span(A, F, N, s) :
                               /\ pos >= F[s] /\ pos >= Resumes(s) /\ pos \in Nat
                               /\ RowOf(s, pos, F[s], N[s]) \in RowsOf(A, F, N)
          /\ \A row \in RowsOf(A, F, N) :
               /\ row.slot \in A
               /\ row.pos \in Span(A, F, N, row.slot)
               /\ row = RowOf(row.slot, row.pos, F[row.slot], N[row.slot])
  <1>1. A \subseteq Running
    BY DEF Intervals
  <1>2. \A s \in A : F[s] \in Nat /\ N[s] \in Nat /\ N[s] >= 1
    BY DEF Intervals
  <1>3. \A s \in A : Span(A, F, N, s) = F[s]..F[s] + N[s] - 1
    BY DEF Span
  <1>4. ASSUME NEW s \in A, NEW pos \in Span(A, F, N, s)
        PROVE pos >= F[s] /\ pos \in Nat /\ pos >= Resumes(s) /\ pos \in Positions
    <2>1. /\ F[s] + N[s] <= Capacity /\ Resumes(s) <= F[s]
      BY DEF Intervals
    <2>2. Resumes(s) \in Nat /\ Capacity \in Nat
      BY <1>1, ResumesFrom, Sizes
    <2>3. pos \in F[s]..F[s] + N[s] - 1 /\ F[s] \in Nat /\ N[s] \in Nat
      BY <1>2, <1>3
    <2> QED BY <2>1, <2>2, <2>3 DEF Positions
  <1>5. ASSUME NEW s \in A, NEW pos \in Span(A, F, N, s)
        PROVE RowOf(s, pos, F[s], N[s]) \in RowsOf(A, F, N)
    <2>1. RowOf(s, pos, F[s], N[s]) \in {RowOf(s, p, F[s], N[s]) : p \in F[s]..F[s] + N[s] - 1}
      BY <1>3
    <2> QED BY <2>1 DEF RowsOf
  <1>6. ASSUME NEW row \in RowsOf(A, F, N)
        PROVE /\ row.slot \in A /\ row.pos \in Span(A, F, N, row.slot)
              /\ row = RowOf(row.slot, row.pos, F[row.slot], N[row.slot])
    <2>0. PICK s \in A : row \in {RowOf(s, pos, F[s], N[s]) : pos \in F[s]..F[s] + N[s] - 1}
      BY DEF RowsOf
    <2>1. PICK pos \in F[s]..F[s] + N[s] - 1 : row = RowOf(s, pos, F[s], N[s])
      BY <2>0
    <2>2. row.slot = s /\ row.pos = pos
      BY <2>1 DEF RowOf
    <2> QED BY <1>3, <2>1, <2>2
  <1> QED BY <1>1, <1>2, <1>4, <1>5, <1>6

\* The fields of a row.
LEMMA RowFields ==
    ASSUME NEW s, NEW pos, NEW first, NEW count
    PROVE LET row == RowOf(s, pos, first, count) IN
          /\ row.slot = s /\ row.pos = pos /\ row.key = <<s, pos, launches>>
          /\ row.cell = Cell(tables[s], pos) /\ row.first = first
          /\ row.kept = (pos - first + 1 > count - RingSize)
          /\ row.group = PooledCell(tables[s], pos \div Ratio)
  BY DEF RowOf

-----------------------------------------------------------------------------
(***************************************************************************)
(* The kernels one by one: what each writes when the others leave its      *)
(* operands as the launch found them.                                      *)
(***************************************************************************)

IntoCell(active, p, o) == {row \in active : row.cell = <<p, o>>}
AppendedKeys(active) ==
    [p \in Pages |-> [o \in Offsets |->
       IF IntoCell(active, p, o) = {} THEN keys[p][o] ELSE TheRow(IntoCell(active, p, o)).key]]
IntoGroup(active, p, g) == {row \in active : (row.pos + 1) % Ratio = 0 /\ row.group = <<p, g>>}
KeyOf(row, pos) ==
    IF pos >= row.first THEN <<row.slot, pos, launches>> ELSE ring[row.slot][pos % RingSize]
GroupOf(row) == [t \in 1..Ratio |-> KeyOf(row, row.pos - Ratio + t)]
CompletedGroups(active) ==
    [p \in Pages |-> [g \in 0..Groups - 1 |->
       IF IntoGroup(active, p, g) = {} THEN pooled[p][g] ELSE GroupOf(TheRow(IntoGroup(active, p, g)))]]
IntoRing(active, s, i) == {row \in active : row.slot = s /\ row.pos % RingSize = i /\ row.kept}
RetainedKeys(active) ==
    [s \in Slots |-> [i \in Residues |->
       IF IntoRing(active, s, i) = {} THEN ring[s][i] ELSE TheRow(IntoRing(active, s, i)).key]]
RetainedTags(active) ==
    [s \in Slots |-> [i \in Residues |->
       IF IntoRing(active, s, i) = {} THEN tags[s][i] ELSE TheRow(IntoRing(active, s, i)).pos]]
OfSlot(active, s) == {row \in active : row.slot = s}
LastPosition(rows) == CHOOSE pos \in {row.pos : row \in rows} : \A row \in rows : row.pos <= pos
MovedAnchors(batch, active) ==
    [s \in Slots |->
       IF OfSlot(active, s) = {} THEN anchors[s]
       ELSE IF Prefills(batch, s) THEN LastPosition(OfSlot(active, s))
       ELSE TheRow(OfSlot(active, s)).first]

\* A launch is these, as far as it got.
LEMMA RanFields ==
    ASSUME NEW batch, NEW active, NEW n \in 1..Kernels
    PROVE LET m == Ran(batch, active, n) IN
          /\ m.keys = IF n >= 2 THEN AppendedKeys(active) ELSE keys
          /\ m.pooled = IF n >= 4 THEN CompletedGroups(active) ELSE pooled
          /\ m.ring = IF n >= 5 THEN RetainedKeys(active) ELSE ring
          /\ m.tags = IF n >= 5 THEN RetainedTags(active) ELSE tags
          /\ m.anchors = IF n >= 5 THEN MovedAnchors(batch, active) ELSE anchors
  <1> DEFINE a == IF n >= 2 THEN AppendKv(active, Memory) ELSE Memory
             c == IF n >= 4 THEN CompressCompleted(active, a) ELSE a
             m == IF n >= 5 THEN RetainRing(batch, active, c) ELSE c
  <1>1. /\ Memory.keys = keys /\ Memory.pooled = pooled /\ Memory.ring = ring
        /\ Memory.tags = tags /\ Memory.anchors = anchors
        /\ DOMAIN Memory = {"keys", "pooled", "ring", "tags", "anchors"}
    BY DEF Memory
  <1>2. /\ a.keys = (IF n >= 2 THEN AppendedKeys(active) ELSE keys)
        /\ a.pooled = pooled /\ a.ring = ring /\ a.tags = tags /\ a.anchors = anchors
        /\ DOMAIN a = {"keys", "pooled", "ring", "tags", "anchors"}
    <2>1. CASE n >= 2
      BY <2>1, <1>1 DEF AppendKv, AppendedKeys, IntoCell, Offsets
    <2>2. CASE ~(n >= 2)
      BY <2>2, <1>1
    <2> QED BY <2>1, <2>2
  <1> HIDE DEF a
  <1>3. /\ c.pooled = (IF n >= 4 THEN CompletedGroups(active) ELSE pooled)
        /\ c.keys = a.keys /\ c.ring = ring /\ c.tags = tags /\ c.anchors = anchors
        /\ DOMAIN c = {"keys", "pooled", "ring", "tags", "anchors"}
    <2>1. CASE n >= 4
      BY <2>1, <1>2 DEF CompressCompleted, CompletedGroups, IntoGroup, GroupOf, KeyOf
    <2>2. CASE ~(n >= 4)
      BY <2>2, <1>2
    <2> QED BY <2>1, <2>2
  <1> HIDE DEF c
  <1>4. /\ m.keys = c.keys /\ m.pooled = c.pooled
        /\ m.ring = (IF n >= 5 THEN RetainedKeys(active) ELSE ring)
        /\ m.tags = (IF n >= 5 THEN RetainedTags(active) ELSE tags)
        /\ m.anchors = (IF n >= 5 THEN MovedAnchors(batch, active) ELSE anchors)
    <2>1. CASE n >= 5
      <3>1. m.keys = c.keys /\ m.pooled = c.pooled
        BY <2>1, <1>3 DEF RetainRing
      <3>2. m.ring = RetainedKeys(active)
        BY <2>1, <1>3 DEF RetainRing, RetainedKeys, IntoRing, Residues
      <3>3. m.tags = RetainedTags(active)
        BY <2>1, <1>3 DEF RetainRing, RetainedTags, IntoRing, Residues
      <3>4. m.anchors = MovedAnchors(batch, active)
        BY <2>1, <1>3 DEF RetainRing, MovedAnchors, OfSlot, LastPosition
      <3> QED BY <2>1, <3>1, <3>2, <3>3, <3>4
    <2>2. CASE ~(n >= 5)
      BY <2>2, <1>3
    <2> QED BY <2>1, <2>2
  <1>5. m = Ran(batch, active, n)
    BY DEF m, c, a, Ran
  <1> HIDE DEF m
  <1> QED BY <1>2, <1>3, <1>4, <1>5

\* Some row of a set that has one.
LEMMA ARow ==
    ASSUME NEW S, S # {}
    PROVE TheRow(S) \in S
  BY DEF TheRow

-----------------------------------------------------------------------------
(***************************************************************************)
(* The caches after a launch.                                              *)
(***************************************************************************)

\* Main pages: the positions of the spans get their keys, no other cell of a
\* running sequence changes, nor any page outside the spans.
LEMMA KeysAfter ==
    ASSUME ShapeInv, AnchorInv, SharingInv,
           NEW batch, NEW A, NEW F, NEW N, NEW P, NEW n,
           Intervals(A, F, N, P), Extends(batch, A, F, N, P, n)
    PROVE /\ \A s \in Running, pos \in Positions :
               LET c == Cell(tables[s], pos) IN
               keys'[c[1]][c[2]] = IF n >= 2 /\ pos \in Span(A, F, N, s)
                                   THEN <<s, pos, launches>> ELSE keys[c[1]][c[2]]
          /\ \A p \in Pages :
               (\A s \in A : \A pos \in Span(A, F, N, s) : Cell(tables[s], pos)[1] # p)
                 => keys'[p] = keys[p]
          /\ DOMAIN keys' = Pages /\ \A p \in Pages : keys'[p] = [o \in Offsets |-> keys'[p][o]]
  <1> DEFINE active == RowsOf(A, F, N)
  <1>1. keys' = IF n >= 2 THEN AppendedKeys(active) ELSE keys
    BY RanFields DEF Extends
  <1>2. \A row \in active : /\ row.slot \in A /\ row.pos \in Span(A, F, N, row.slot)
                            /\ row = RowOf(row.slot, row.pos, F[row.slot], N[row.slot])
    BY RowsAre
  <1>3. \A row \in active : /\ row.slot \in Running /\ row.pos \in Positions
                            /\ row.pos >= Resumes(row.slot)
                            /\ row.cell = Cell(tables[row.slot], row.pos)
                            /\ row.key = <<row.slot, row.pos, launches>>
    BY <1>2, RowsAre, RowFields
  <1>4. \A s \in A : \A pos \in Span(A, F, N, s) :
          \E row \in active : row.cell = Cell(tables[s], pos)
    BY RowsAre, RowFields
  <1>5. \A s \in Running, pos \in Positions :
          /\ Cell(tables[s], pos) = <<Cell(tables[s], pos)[1], Cell(tables[s], pos)[2]>>
          /\ Cell(tables[s], pos)[1] \in Pages /\ Cell(tables[s], pos)[2] \in Offsets
    BY RunningTables, CellPlaced
  <1>6. DOMAIN keys = Pages /\ \A p \in Pages : keys[p] = [o \in Offsets |-> keys[p][o]]
    BY DEF ShapeInv
  <1> HIDE DEF active
  <1>7. \A p \in Pages, o \in Offsets :
          AppendedKeys(active)[p][o] = IF IntoCell(active, p, o) = {} THEN keys[p][o]
                                       ELSE TheRow(IntoCell(active, p, o)).key
    BY DEF AppendedKeys
  <1>8. ASSUME NEW s \in Running, NEW pos \in Positions
        PROVE LET c == Cell(tables[s], pos) IN
              keys'[c[1]][c[2]] = IF n >= 2 /\ pos \in Span(A, F, N, s)
                                  THEN <<s, pos, launches>> ELSE keys[c[1]][c[2]]
    <2> DEFINE p == Cell(tables[s], pos)[1]
               o == Cell(tables[s], pos)[2]
    <2>1. p \in Pages /\ o \in Offsets /\ Cell(tables[s], pos) = <<p, o>>
      BY <1>5
    <2> HIDE DEF p, o
    <2>2. \A row \in IntoCell(active, p, o) : row \in active /\ row.slot = s /\ row.pos = pos
      <3>1. SUFFICES ASSUME NEW row \in active, row.cell = <<p, o>>
                     PROVE row.slot = s /\ row.pos = pos
        BY DEF IntoCell
      <3>2. Cell(tables[s], pos) = Cell(tables[row.slot], row.pos)
        BY <1>3, <2>1, <3>1
      <3> QED BY <3>2, <1>3, CellOwner
    <2>3. CASE n >= 2 /\ pos \in Span(A, F, N, s)
      <3>1. s \in A
        BY <2>3 DEF Span
      <3>2. IntoCell(active, p, o) # {}
        BY <1>4, <2>1, <2>3, <3>1 DEF IntoCell
      <3>3. TheRow(IntoCell(active, p, o)).key = <<s, pos, launches>>
        BY <3>2, ARow, <2>2, <1>3
      <3>4. keys'[p][o] = <<s, pos, launches>>
        BY <1>1, <1>7, <2>1, <2>3, <3>2, <3>3
      <3> QED BY <2>3, <3>4 DEF p, o
    <2>4. CASE ~(n >= 2 /\ pos \in Span(A, F, N, s))
      <3>1. n >= 2 => IntoCell(active, p, o) = {}
        BY <2>2, <2>4, <1>2
      <3>2. keys'[p][o] = keys[p][o]
        BY <1>1, <1>7, <2>1, <3>1
      <3> QED BY <2>4, <3>2 DEF p, o
    <2> QED BY <2>3, <2>4
  <1>9. ASSUME NEW p \in Pages,
               \A s \in A : \A pos \in Span(A, F, N, s) : Cell(tables[s], pos)[1] # p
        PROVE keys'[p] = keys[p]
    <2>1. \A o \in Offsets : IntoCell(active, p, o) = {}
      BY <1>2, <1>3, <1>9 DEF IntoCell
    <2>2. AppendedKeys(active)[p] = [o \in Offsets |-> keys[p][o]]
      BY <2>1 DEF AppendedKeys
    <2> QED BY <1>1, <1>6, <2>2
  <1>10. DOMAIN keys' = Pages /\ \A p \in Pages : keys'[p] = [o \in Offsets |-> keys'[p][o]]
    <2>1. CASE n >= 2
      BY <2>1, <1>1 DEF AppendedKeys
    <2>2. CASE ~(n >= 2)
      BY <2>2, <1>1, <1>6
    <2> QED BY <2>1, <2>2
  <1> QED BY <1>8, <1>9, <1>10

\* The keys of group g when positions from `first` on are this launch's.
GroupFrom(s, g, first) ==
    [t \in 1..Ratio |->
       IF g * Ratio + t - 1 >= first THEN <<s, g * Ratio + t - 1, launches>>
       ELSE ring[s][(g * Ratio + t - 1) % RingSize]]

\* What a kernel that completes a group puts there.
LEMMA GroupIs ==
    ASSUME NEW s, NEW g \in GroupIndex, NEW first, NEW count,
           NEW row, row = RowOf(s, g * Ratio + Ratio - 1, first, count)
    PROVE GroupOf(row) = GroupFrom(s, g, first)
  <1>1. row.slot = s /\ row.pos = g * Ratio + Ratio - 1 /\ row.first = first
    BY RowFields
  <1>2. g * Ratio \in Int /\ Ratio \in Int
    BY Sizes DEF GroupIndex
  <1>3. \A t \in 1..Ratio : row.pos - Ratio + t = g * Ratio + t - 1
    BY <1>1, <1>2
  <1>4. \A t \in 1..Ratio : KeyOf(row, row.pos - Ratio + t)
          = IF g * Ratio + t - 1 >= first THEN <<s, g * Ratio + t - 1, launches>>
            ELSE ring[s][(g * Ratio + t - 1) % RingSize]
    BY <1>1, <1>3 DEF KeyOf
  <1> QED BY <1>4 DEF GroupOf, GroupFrom

\* Compressed pages: the groups whose last position is in a span are pooled, no
\* other group of a running sequence changes, nor any page outside the spans.
LEMMA PooledAfter ==
    ASSUME ShapeInv, AnchorInv, SharingInv,
           NEW batch, NEW A, NEW F, NEW N, NEW P, NEW n,
           Intervals(A, F, N, P), Extends(batch, A, F, N, P, n)
    PROVE /\ \A s \in Running, g \in GroupIndex :
               LET c == PooledCell(tables[s], g) IN
               pooled'[c[1]][c[2]] =
                 IF n >= 4 /\ g * Ratio + Ratio - 1 \in Span(A, F, N, s)
                 THEN GroupFrom(s, g, F[s])
                 ELSE pooled[c[1]][c[2]]
          /\ \A p \in Pages :
               (\A s \in A : \A pos \in Span(A, F, N, s) : Cell(tables[s], pos)[1] # p)
                 => pooled'[p] = pooled[p]
          /\ DOMAIN pooled' = Pages
          /\ \A p \in Pages : pooled'[p] = [g \in 0..Groups - 1 |-> pooled'[p][g]]
  <1> DEFINE active == RowsOf(A, F, N)
  <1>1. pooled' = IF n >= 4 THEN CompletedGroups(active) ELSE pooled
    BY RanFields DEF Extends
  <1>2. \A row \in active : /\ row.slot \in A /\ row.pos \in Span(A, F, N, row.slot)
                            /\ row = RowOf(row.slot, row.pos, F[row.slot], N[row.slot])
    BY RowsAre
  <1>3. \A row \in active : /\ row.slot \in Running /\ row.pos \in Positions
                            /\ row.pos >= Resumes(row.slot)
                            /\ row.group = PooledCell(tables[row.slot], row.pos \div Ratio)
    BY <1>2, RowsAre, RowFields
  <1>4. \A s \in A : \A pos \in Span(A, F, N, s) :
          \E row \in active : row.pos = pos /\ row.group = PooledCell(tables[s], pos \div Ratio)
    BY RowsAre, RowFields
  <1>5. \A s \in Running, g \in GroupIndex :
          LET c == PooledCell(tables[s], g) IN
          c = <<c[1], c[2]>> /\ c[1] \in Pages /\ c[2] \in 0..Groups - 1
    BY RunningTables, PooledPlaced
  <1>6. /\ DOMAIN pooled = Pages
        /\ \A p \in Pages : pooled[p] = [g \in 0..Groups - 1 |-> pooled[p][g]]
    BY DEF ShapeInv
  <1> HIDE DEF active
  <1>7. \A p \in Pages, o \in 0..Groups - 1 :
          CompletedGroups(active)[p][o] = IF IntoGroup(active, p, o) = {} THEN pooled[p][o]
                                          ELSE GroupOf(TheRow(IntoGroup(active, p, o)))
    BY DEF CompletedGroups
  <1>8. ASSUME NEW s \in Running, NEW g \in GroupIndex
        PROVE LET c == PooledCell(tables[s], g) IN
               pooled'[c[1]][c[2]] =
                 IF n >= 4 /\ g * Ratio + Ratio - 1 \in Span(A, F, N, s)
                 THEN GroupFrom(s, g, F[s])
                 ELSE pooled[c[1]][c[2]]
    <2> DEFINE p == PooledCell(tables[s], g)[1]
               o == PooledCell(tables[s], g)[2]
               last_ == g * Ratio + Ratio - 1
    <2>1. p \in Pages /\ o \in 0..Groups - 1 /\ PooledCell(tables[s], g) = <<p, o>>
      BY <1>5
    <2>0. last_ \div Ratio = g /\ last_ \in Int /\ (last_ + 1) % Ratio = 0
      <3>1. last_ \div Ratio = g
        BY GroupPlaced
      <3>2. last_ \in Int /\ last_ + 1 = Ratio * (g + 1) /\ last_ + 1 \in Int /\ Ratio \in Nat \ {0}
            /\ g + 1 \in Int
        BY Sizes DEF GroupIndex
      <3> HIDE DEF last_
      <3>3. (last_ + 1) \div Ratio = g + 1
        BY <3>2, DivIs
      <3>4. last_ + 1 = Ratio * ((last_ + 1) \div Ratio) + ((last_ + 1) % Ratio)
            /\ (last_ + 1) % Ratio \in Int
        BY <3>2, DivMod
      <3> QED BY <3>1, <3>2, <3>3, <3>4
    <2> HIDE DEF p, o
    <2>2. \A row \in IntoGroup(active, p, o) : row \in active /\ row.slot = s /\ row.pos = last_
      <3>1. SUFFICES ASSUME NEW row \in active, row.group = <<p, o>>, (row.pos + 1) % Ratio = 0
                     PROVE row.slot = s /\ row.pos = last_
        BY DEF IntoGroup
      <3> DEFINE h == row.pos \div Ratio
      <3>2. PooledCell(tables[s], g) = PooledCell(tables[row.slot], h)
        BY <1>3, <2>1, <3>1
      <3>3. h \in GroupIndex /\ row.pos = h * Ratio + Ratio - 1
        BY <1>3, <3>1, Completes
      <3>4. row.slot \in Running /\ row.pos >= Resumes(row.slot)
        BY <1>3
      <3> HIDE DEF h
      <3>5. s = row.slot /\ g = h
        BY <3>2, <3>3, <3>4, PooledOwner
      <3> QED BY <3>3, <3>5
    <2>3. CASE n >= 4 /\ last_ \in Span(A, F, N, s)
      <3>1. s \in A
        BY <2>3 DEF Span
      <3>2. IntoGroup(active, p, o) # {}
        <4>1. PICK row \in active : row.pos = last_ /\ row.group = PooledCell(tables[s], last_ \div Ratio)
          BY <1>4, <2>3, <3>1
        <4> QED BY <4>1, <2>0, <2>1 DEF IntoGroup
      <3> DEFINE row == TheRow(IntoGroup(active, p, o))
      <3>3. row \in active /\ row.slot = s /\ row.pos = last_
        BY <3>2, ARow, <2>2
      <3>4. row = RowOf(s, last_, F[s], N[s])
        BY <3>3, <1>2
      <3>5. pooled'[p][o] = GroupOf(row)
        BY <1>1, <1>7, <2>1, <2>3, <3>2
      <3> HIDE DEF row
      <3>6. GroupOf(row) = GroupFrom(s, g, F[s])
        BY <3>4, GroupIs
      <3> QED BY <2>3, <3>5, <3>6 DEF p, o
    <2>4. CASE ~(n >= 4 /\ last_ \in Span(A, F, N, s))
      <3>1. n >= 4 => IntoGroup(active, p, o) = {}
        BY <2>2, <2>4, <1>2
      <3>2. pooled'[p][o] = pooled[p][o]
        BY <1>1, <1>7, <2>1, <3>1
      <3> QED BY <2>4, <3>2 DEF p, o
    <2> QED BY <2>3, <2>4
  <1>9. ASSUME NEW p \in Pages,
               \A s \in A : \A pos \in Span(A, F, N, s) : Cell(tables[s], pos)[1] # p
        PROVE pooled'[p] = pooled[p]
    <2>1. \A o \in 0..Groups - 1 : IntoGroup(active, p, o) = {}
      <3>1. SUFFICES ASSUME NEW row \in active, NEW o, row.group = <<p, o>>, (row.pos + 1) % Ratio = 0
                     PROVE FALSE
        BY DEF IntoGroup
      <3> DEFINE h == row.pos \div Ratio
      <3>2. h \in GroupIndex /\ row.pos = h * Ratio + Ratio - 1
        BY <1>3, <3>1, Completes
      <3>3. h \div Groups + 1 = Logical(row.pos)
        <4> HIDE DEF h
        <4> QED BY <3>2, GroupPlaced
      <3>4. PooledCell(tables[row.slot], h)[1] = tables[row.slot][Logical(row.pos)]
        <4>1. tables[row.slot] \in Tables
          BY <1>3, RunningTables
        <4> HIDE DEF h
        <4> QED BY <4>1, <3>2, <3>3, PooledPlaced
      <3>5. Cell(tables[row.slot], row.pos)[1] = tables[row.slot][Logical(row.pos)]
        BY <1>3, RunningTables, CellPlaced
      <3>6. row.slot \in A /\ row.pos \in Span(A, F, N, row.slot)
        BY <1>2
      <3>7. row.group = PooledCell(tables[row.slot], h)
        BY <1>3
      <3> QED BY <3>1, <3>4, <3>5, <3>6, <3>7, <1>9
    <2>2. CompletedGroups(active)[p] = [o \in 0..Groups - 1 |-> pooled[p][o]]
      BY <2>1 DEF CompletedGroups
    <2> QED BY <1>1, <1>6, <2>2
  <1>10. /\ DOMAIN pooled' = Pages
         /\ \A p \in Pages : pooled'[p] = [g \in 0..Groups - 1 |-> pooled'[p][g]]
    <2>1. CASE n >= 4
      BY <2>1, <1>1 DEF CompletedGroups
    <2>2. CASE ~(n >= 4)
      BY <2>2, <1>1, <1>6
    <2> QED BY <2>1, <2>2
  <1> QED BY <1>8, <1>9, <1>10

-----------------------------------------------------------------------------
(***************************************************************************)
(* Ring, anchor and sequence after a launch.                               *)
(***************************************************************************)

\* The last RingSize positions of a span.
Latest(A, F, N, s) == {pos \in Span(A, F, N, s) : pos >= F[s] + N[s] - RingSize}

\* No two of them share an entry of the ring.
LEMMA LatestApart ==
    ASSUME ShapeInv, AnchorInv, NEW A, NEW F, NEW N, NEW P, Intervals(A, F, N, P),
           NEW s, NEW p \in Latest(A, F, N, s), NEW q \in Latest(A, F, N, s),
           p % RingSize = q % RingSize
    PROVE p = q
  <1>1. s \in A /\ p \in F[s]..F[s] + N[s] - 1 /\ q \in F[s]..F[s] + N[s] - 1
        /\ p >= F[s] + N[s] - RingSize /\ q >= F[s] + N[s] - RingSize
    BY DEF Latest, Span
  <1>2. F[s] \in Nat /\ N[s] \in Nat /\ RingSize \in Nat \ {0}
    BY <1>1, Sizes DEF Intervals
  <1>3. p \in Int /\ q \in Int /\ p - q < RingSize /\ q - p < RingSize
    BY <1>1, <1>2
  <1>4. ~(p < q)
    <2>1. SUFFICES ASSUME p < q PROVE FALSE
      OBVIOUS
    <2>2. q - p >= RingSize
      BY <1>2, <1>3, <2>1, ModNear
    <2> QED BY <1>2, <1>3, <2>2
  <1>5. ~(q < p)
    <2>1. SUFFICES ASSUME q < p PROVE FALSE
      OBVIOUS
    <2>2. p - q >= RingSize
      BY <1>2, <1>3, <2>1, ModNear
    <2> QED BY <1>2, <1>3, <2>2
  <1> QED BY <1>3, <1>4, <1>5

\* The ring keeps the last positions of a span, and the other entries what they had.
LEMMA RingAfter ==
    ASSUME ShapeInv, AnchorInv, SharingInv,
           NEW batch, NEW A, NEW F, NEW N, NEW P, NEW n,
           Intervals(A, F, N, P), Extends(batch, A, F, N, P, n)
    PROVE /\ n >= 5 => \A s \in A : \A pos \in Latest(A, F, N, s) :
               /\ ring'[s][pos % RingSize] = <<s, pos, launches>>
               /\ tags'[s][pos % RingSize] = pos
          /\ \A s \in Slots, i \in Residues :
               n < 5 \/ (\A pos \in Latest(A, F, N, s) : pos % RingSize # i) =>
                 ring'[s][i] = ring[s][i] /\ tags'[s][i] = tags[s][i]
          /\ \A s \in Slots : s \notin A => ring'[s] = ring[s] /\ tags'[s] = tags[s]
          /\ DOMAIN ring' = Slots /\ \A s \in Slots : ring'[s] = [i \in Residues |-> ring'[s][i]]
          /\ DOMAIN tags' = Slots /\ \A s \in Slots : tags'[s] = [i \in Residues |-> tags'[s][i]]
  <1> DEFINE active == RowsOf(A, F, N)
  <1>1. /\ ring' = IF n >= 5 THEN RetainedKeys(active) ELSE ring
        /\ tags' = IF n >= 5 THEN RetainedTags(active) ELSE tags
    BY RanFields DEF Extends
  <1>2. \A row \in active : /\ row.slot \in A /\ row.pos \in Span(A, F, N, row.slot)
                            /\ row = RowOf(row.slot, row.pos, F[row.slot], N[row.slot])
    BY RowsAre
  <1>3. \A row \in active : /\ row.key = <<row.slot, row.pos, launches>>
                            /\ row.kept = (row.pos - F[row.slot] + 1 > N[row.slot] - RingSize)
    BY <1>2, RowFields
  <1>4. A \subseteq Slots /\ A \subseteq Running
    BY RowsAre, RunningTables
  <1>5. \A s \in A : F[s] \in Nat /\ N[s] \in Nat /\ RingSize \in Nat \ {0}
    BY RowsAre, Sizes
  <1>6. \A row \in active : row.kept => row.pos \in Latest(A, F, N, row.slot)
    <2>1. SUFFICES ASSUME NEW row \in active, row.kept PROVE row.pos >= F[row.slot] + N[row.slot] - RingSize
      BY <1>2 DEF Latest
    <2>2. row.slot \in A /\ row.pos \in F[row.slot]..F[row.slot] + N[row.slot] - 1
      BY <1>2 DEF Span
    <2>3. row.pos - F[row.slot] + 1 > N[row.slot] - RingSize
      BY <1>3, <2>1
    <2> QED BY <2>2, <2>3, <1>5
  <1>7. ASSUME NEW s \in A, NEW pos \in Latest(A, F, N, s)
        PROVE \E row \in active : row.slot = s /\ row.pos = pos /\ row.kept
    <2>1. pos \in Span(A, F, N, s) /\ pos >= F[s] + N[s] - RingSize
      BY DEF Latest
    <2>2. pos - F[s] + 1 > N[s] - RingSize
      BY <2>1, <1>5 DEF Span
    <2> DEFINE row == RowOf(s, pos, F[s], N[s])
    <2>3. row \in active
      BY <2>1, RowsAre
    <2>4. row.slot = s /\ row.pos = pos /\ row.kept = (pos - F[s] + 1 > N[s] - RingSize)
      BY RowFields
    <2>5. row.kept
      BY <2>2, <2>4, Zenon
    <2> QED BY <2>3, <2>4, <2>5
  <1>8. /\ \A s \in Slots : /\ ring[s] = [i \in Residues |-> ring[s][i]]
                            /\ tags[s] = [i \in Residues |-> tags[s][i]]
        /\ DOMAIN ring = Slots /\ DOMAIN tags = Slots
    BY DEF ShapeInv
  <1> HIDE DEF active
  <1>9. \A s \in Slots, i \in Residues :
          /\ RetainedKeys(active)[s][i] = IF IntoRing(active, s, i) = {} THEN ring[s][i]
                                          ELSE TheRow(IntoRing(active, s, i)).key
          /\ RetainedTags(active)[s][i] = IF IntoRing(active, s, i) = {} THEN tags[s][i]
                                          ELSE TheRow(IntoRing(active, s, i)).pos
    BY DEF RetainedKeys, RetainedTags
  <1>10. ASSUME n >= 5, NEW s \in A, NEW pos \in Latest(A, F, N, s)
         PROVE /\ ring'[s][pos % RingSize] = <<s, pos, launches>>
               /\ tags'[s][pos % RingSize] = pos
    <2> DEFINE i == pos % RingSize
    <2>1. i \in Residues /\ s \in Slots
      <3>1. pos \in Int
        BY <1>5 DEF Latest, Span
      <3> QED BY <3>1, <1>4, Sizes, DivMod DEF Residues
    <2>2. IntoRing(active, s, i) # {}
      BY <1>7 DEF IntoRing
    <2>3. \A row \in IntoRing(active, s, i) : row \in active /\ row.slot = s /\ row.pos = pos
      <3>1. SUFFICES ASSUME NEW row \in active, row.slot = s, row.pos % RingSize = i, row.kept
                     PROVE row.pos = pos
        BY DEF IntoRing
      <3>2. row.pos \in Latest(A, F, N, s)
        BY <1>6, <3>1
      <3> QED BY <3>1, <3>2, LatestApart
    <2>4. TheRow(IntoRing(active, s, i)) \in IntoRing(active, s, i)
      BY <2>2, ARow
    <2> HIDE DEF i
    <2>5. ring'[s][i] = <<s, pos, launches>> /\ tags'[s][i] = pos
      BY <1>1, <1>3, <1>9, <1>10, <2>1, <2>2, <2>3, <2>4
    <2> QED BY <2>5 DEF i
  <1>11. ASSUME NEW s \in Slots, NEW i \in Residues,
                n < 5 \/ (\A pos \in Latest(A, F, N, s) : pos % RingSize # i)
         PROVE ring'[s][i] = ring[s][i] /\ tags'[s][i] = tags[s][i]
    <2>0. n \in Int
      BY DEF Extends, Kernels
    <2>1. n >= 5 => IntoRing(active, s, i) = {}
      BY <1>6, <1>11, <2>0 DEF IntoRing
    <2> QED BY <1>1, <1>9, <2>1
  <1>12. \A s \in Slots : /\ ring'[s] = [i \in Residues |-> ring'[s][i]]
                          /\ tags'[s] = [i \in Residues |-> tags'[s][i]]
    <2>1. CASE n >= 5
      BY <2>1, <1>1 DEF RetainedKeys, RetainedTags
    <2>2. CASE ~(n >= 5)
      BY <2>2, <1>1, <1>8
    <2> QED BY <2>1, <2>2
  <1>13. ASSUME NEW s \in Slots, s \notin A PROVE ring'[s] = ring[s] /\ tags'[s] = tags[s]
    <2>1. \A i \in Residues : ring'[s][i] = ring[s][i] /\ tags'[s][i] = tags[s][i]
      BY <1>11, <1>13 DEF Latest, Span
    <2>2. ring'[s] = [i \in Residues |-> ring[s][i]] /\ tags'[s] = [i \in Residues |-> tags[s][i]]
      BY <2>1, <1>12
    <2> QED BY <2>2, <1>8
  <1>14. DOMAIN ring' = Slots /\ DOMAIN tags' = Slots
    <2>1. CASE n >= 5
      BY <2>1, <1>1 DEF RetainedKeys, RetainedTags
    <2>2. CASE ~(n >= 5)
      BY <2>2, <1>1, <1>8
    <2> QED BY <2>1, <2>2
  <1> QED BY <1>10, <1>11, <1>12, <1>13, <1>14

\* Anchors move with the ring: to the start of a verified span, to the end of a
\* prefilled one.  Either way the next interval resumes no earlier than this one.
LEMMA AnchorsAfter ==
    ASSUME ShapeInv, AnchorInv, SharingInv,
           NEW batch, NEW A, NEW F, NEW N, NEW P, NEW n,
           Intervals(A, F, N, P), Extends(batch, A, F, N, P, n)
    PROVE /\ anchors' \in [Slots -> Int] /\ verified' \in [Slots -> BOOLEAN]
          /\ \A s \in Slots : n < 5 \/ s \notin A => anchors'[s] = anchors[s] /\ verified'[s] = verified[s]
          /\ n >= 5 => \A s \in A :
               /\ P[s] => anchors'[s] = F[s] + N[s] - 1 /\ ~verified'[s]
               /\ ~P[s] => anchors'[s] = F[s] /\ verified'[s]
  <1> DEFINE active == RowsOf(A, F, N)
  <1>1. /\ anchors' = IF n >= 5 THEN MovedAnchors(batch, active) ELSE anchors
        /\ verified' = [s \in Slots |-> IF n >= 5 /\ \E row \in active : row.slot = s
                                        THEN ~Prefills(batch, s) ELSE verified[s]]
        /\ \A s \in A : Prefills(batch, s) = P[s]
        /\ n \in Int
    BY RanFields DEF Extends, Kernels
  <1>2. \A row \in active : /\ row.slot \in A /\ row.pos \in Span(A, F, N, row.slot)
                            /\ row = RowOf(row.slot, row.pos, F[row.slot], N[row.slot])
    BY RowsAre
  <1>3. \A row \in active : row.first = F[row.slot]
    BY <1>2, RowFields
  <1>4. \A s \in A : /\ F[s] \in Nat /\ N[s] \in Nat /\ N[s] >= 1
                     /\ F[s] + N[s] - 1 \in Span(A, F, N, s)
    <2>1. \A s \in A : F[s] \in Nat /\ N[s] \in Nat /\ N[s] >= 1
      BY RowsAre
    <2> QED BY <2>1 DEF Span
  <1>5. \A s \in A : \A pos \in Span(A, F, N, s) : \E row \in active : row.slot = s /\ row.pos = pos
    BY RowsAre, RowFields
  <1>6. anchors \in [Slots -> Int] /\ verified \in [Slots -> BOOLEAN] /\ A \subseteq Slots
        /\ P \in [A -> BOOLEAN]
    BY RowsAre, RunningTables DEF ShapeInv, Intervals
  <1>7. \A s \in A : OfSlot(active, s) # {}
    BY <1>4, <1>5 DEF OfSlot
  <1>8. \A s \in Slots : s \notin A => OfSlot(active, s) = {}
    BY <1>2 DEF OfSlot
  <1>9. ASSUME NEW s \in A PROVE LastPosition(OfSlot(active, s)) = F[s] + N[s] - 1
    <2> DEFINE S == {row.pos : row \in OfSlot(active, s)}
               top == F[s] + N[s] - 1
    <2>1. S = Span(A, F, N, s)
      BY <1>2, <1>5 DEF OfSlot
    <2>2. \A row \in OfSlot(active, s) : row.pos \in Span(A, F, N, s)
      BY <1>2 DEF OfSlot
    <2>3. top \in S /\ \A row \in OfSlot(active, s) : row.pos <= top
      BY <2>1, <2>2, <1>4 DEF Span
    <2>4. \A pos \in S : (\A row \in OfSlot(active, s) : row.pos <= pos) => pos >= top
      BY <2>3
    <2>5. \A pos \in S : pos <= top
      BY <2>3
    <2>6. \A pos \in S : pos \in Int
      BY <2>1, <1>4 DEF Span
    <2>7. LastPosition(OfSlot(active, s)) \in S
          /\ \A row \in OfSlot(active, s) : row.pos <= LastPosition(OfSlot(active, s))
      BY <2>3 DEF LastPosition
    <2> HIDE DEF S, top
    <2>8. LastPosition(OfSlot(active, s)) = top
      BY <2>3, <2>4, <2>5, <2>6, <2>7
    <2> QED BY <2>8 DEF top
  <1>10. ASSUME NEW s \in A PROVE TheRow(OfSlot(active, s)).first = F[s]
    <2>1. TheRow(OfSlot(active, s)) \in OfSlot(active, s)
      BY <1>7, ARow
    <2> QED BY <2>1, <1>3 DEF OfSlot
  <1>11. \A s \in Slots : MovedAnchors(batch, active)[s] =
           IF s \notin A THEN anchors[s] ELSE IF P[s] THEN F[s] + N[s] - 1 ELSE F[s]
    BY <1>1, <1>7, <1>8, <1>9, <1>10 DEF MovedAnchors
  <1>12. \A s \in Slots : (\E row \in active : row.slot = s) <=> s \in A
    BY <1>2, <1>4, <1>5
  <1>13. MovedAnchors(batch, active) = [s \in Slots |-> MovedAnchors(batch, active)[s]]
    BY DEF MovedAnchors
  <1> HIDE DEF active
  <1>14. \A s \in Slots : anchors'[s] = IF n >= 5 /\ s \in A
                          THEN IF P[s] THEN F[s] + N[s] - 1 ELSE F[s] ELSE anchors[s]
    BY <1>1, <1>11
  <1>15. \A s \in Slots : anchors'[s] \in Int
    BY <1>14, <1>4, <1>6
  <1>16. anchors' = [s \in Slots |-> anchors'[s]]
    BY <1>1, <1>6, <1>13
  <1>17. anchors' \in [Slots -> Int]
    BY <1>15, <1>16
  <1>18. \A s \in Slots : verified'[s] = IF n >= 5 /\ s \in A THEN ~P[s] ELSE verified[s]
    BY <1>1, <1>12, <1>6
  <1>19. \A s \in Slots : verified'[s] \in BOOLEAN
    BY <1>18, <1>6, Zenon
  <1>20. verified' \in [Slots -> BOOLEAN]
    BY <1>1, <1>19
  <1>21. \A s \in Slots : n < 5 \/ s \notin A => anchors'[s] = anchors[s] /\ verified'[s] = verified[s]
    <2>1. n < 5 => ~(n >= 5)
      BY <1>1
    <2> QED BY <1>14, <1>18, <2>1, Zenon
  <1>22. n >= 5 => \A s \in A :
               /\ P[s] => anchors'[s] = F[s] + N[s] - 1 /\ ~verified'[s]
               /\ ~P[s] => anchors'[s] = F[s] /\ verified'[s]
    BY <1>6, <1>14, <1>18, Zenon
  <1> QED BY <1>17, <1>20, <1>21, <1>22

Keys == Slots \X Nat \X Nat

\* The sequence after a launch: cut where the interval began, and, once it is
\* acknowledged, extended by its keys.
LEMMA SequenceAfter ==
    ASSUME ShapeInv, AnchorInv, SharingInv,
           NEW batch, NEW A, NEW F, NEW N, NEW P, NEW n,
           Intervals(A, F, N, P), Extends(batch, A, F, N, P, n)
    PROVE /\ supplied' \in [Slots -> Seq(Keys)]
          /\ \A s \in Slots : n < 2 \/ s \notin A => supplied'[s] = supplied[s]
          /\ n >= 2 => \A s \in A :
               /\ Len(supplied'[s]) = IF n < Kernels THEN F[s] ELSE F[s] + N[s]
               /\ \A pos \in 0..F[s] - 1 : supplied'[s][pos + 1] = supplied[s][pos + 1]
               /\ n = Kernels => \A pos \in Span(A, F, N, s) :
                    supplied'[s][pos + 1] = <<s, pos, launches>>
  <1> DEFINE active == RowsOf(A, F, N)
  <1>1. supplied' = [s \in Slots |-> Sequence(active, n, s)] /\ n \in 1..7
    BY DEF Extends, Kernels
  <1>2. \A row \in active : /\ row.slot \in A /\ row.pos \in Span(A, F, N, row.slot)
                            /\ row = RowOf(row.slot, row.pos, F[row.slot], N[row.slot])
                            /\ row.first = F[row.slot]
    BY RowsAre, RowFields
  <1>3. A \subseteq Slots /\ supplied \in [Slots -> Seq(Keys)] /\ launches \in Nat
    BY RowsAre, RunningTables DEF ShapeInv, Keys
  <1>4. \A s \in A : F[s] \in Nat /\ N[s] \in Nat /\ N[s] >= 1 /\ F[s] <= Len(supplied[s])
    BY RowsAre DEF Intervals
  <1>5. ASSUME NEW s \in A
        PROVE OfSlot(active, s) = {RowOf(s, pos, F[s], N[s]) : pos \in Span(A, F, N, s)}
    BY <1>2, RowsAre, RowFields DEF OfSlot
  <1>6. ASSUME NEW s \in A
        PROVE Cardinality(OfSlot(active, s)) = N[s] /\ OfSlot(active, s) # {}
              /\ TheRow(OfSlot(active, s)).first = F[s]
    <2> DEFINE f == [pos \in Span(A, F, N, s) |-> RowOf(s, pos, F[s], N[s])]
    <2>1. Span(A, F, N, s) = F[s]..F[s] + N[s] - 1
      BY DEF Span
    <2>2. IsFiniteSet(Span(A, F, N, s)) /\ Cardinality(Span(A, F, N, s)) = N[s]
      BY <1>4, <2>1, FS_Interval
    <2>3. f \in Surjection(Span(A, F, N, s), OfSlot(active, s))
      <3>1. f \in [Span(A, F, N, s) -> OfSlot(active, s)]
        BY <1>5
      <3>2. \A row \in OfSlot(active, s) : \E pos \in Span(A, F, N, s) : f[pos] = row
        BY <1>5
      <3> HIDE DEF f
      <3> QED BY <3>1, <3>2 DEF Surjection
    <2>4. \A p, q \in Span(A, F, N, s) : f[p] = f[q] => p = q
      <3>1. \A p \in Span(A, F, N, s) : f[p].pos = p
        BY RowFields
      <3> QED BY <3>1
    <2>5. f \in Injection(Span(A, F, N, s), OfSlot(active, s))
      <3>1. f \in [Span(A, F, N, s) -> OfSlot(active, s)]
        BY <1>5
      <3> HIDE DEF f
      <3> QED BY <2>4, <3>1 DEF Injection, IsInjective
    <2> HIDE DEF f
    <2>6. ExistsBijection(Span(A, F, N, s), OfSlot(active, s))
      BY <2>3, <2>5 DEF Bijection, ExistsBijection
    <2>7. Cardinality(OfSlot(active, s)) = N[s]
      BY <2>2, <2>6, FS_Bijection
    <2>8. OfSlot(active, s) # {}
      <3>1. F[s] \in Span(A, F, N, s)
        BY <2>1, <1>4
      <3> QED BY <3>1, <1>5
    <2>9. TheRow(OfSlot(active, s)).first = F[s]
      <3>1. TheRow(OfSlot(active, s)) \in OfSlot(active, s)
        BY <2>8, ARow
      <3> QED BY <3>1, <1>2 DEF OfSlot
    <2> QED BY <2>7, <2>8, <2>9
  <1>7. \A s \in Slots : s \notin A => OfSlot(active, s) = {}
    BY <1>2 DEF OfSlot
  <1> HIDE DEF active
  <1> DEFINE before(s) == SubSeq(supplied[s], 1, F[s])
             new(s) == [i \in 1..N[s] |-> <<s, F[s] + i - 1, launches>>]
  <1>8. \A s \in Slots : n < 2 \/ s \notin A => supplied'[s] = supplied[s]
    BY <1>1, <1>7 DEF Sequence, OfSlot
  <1>9. n >= 2 => \A s \in A : supplied'[s] = IF n < Kernels THEN before(s) ELSE before(s) \o new(s)
    <2>1. SUFFICES ASSUME n >= 2, NEW s \in A
                   PROVE supplied'[s] = IF n < Kernels THEN before(s) ELSE before(s) \o new(s)
      OBVIOUS
    <2>2. supplied'[s] = Sequence(active, n, s)
      BY <1>1, <1>3
    <2>3. OfSlot(active, s) = {row \in active : row.slot = s} /\ ~(n < 2)
      BY <1>1, <2>1 DEF OfSlot
    <2>4. Sequence(active, n, s) =
            LET first == TheRow(OfSlot(active, s)).first
                old == SubSeq(supplied[s], 1, first) IN
            IF n < Kernels THEN old
            ELSE old \o [i \in 1..Cardinality(OfSlot(active, s)) |-> <<s, first + i - 1, launches>>]
      BY <2>3, <1>6 DEF Sequence
    <2> QED BY <2>2, <2>4, <1>6
  <1>10. ASSUME NEW s \in A
         PROVE /\ before(s) \in Seq(Keys) /\ Len(before(s)) = F[s]
               /\ \A pos \in 0..F[s] - 1 : before(s)[pos + 1] = supplied[s][pos + 1]
    <2>1. supplied[s] \in Seq(Keys) /\ F[s] \in Nat /\ F[s] <= Len(supplied[s])
      BY <1>3, <1>4
    <2>2. \A i \in 1..F[s] : supplied[s][i] \in Keys
      BY <2>1
    <2>3. /\ before(s) \in Seq(Keys)
          /\ Len(before(s)) = IF 1 <= F[s] THEN F[s] - 1 + 1 ELSE 0
          /\ \A i \in 1..F[s] - 1 + 1 : before(s)[i] = supplied[s][1 + i - 1]
      BY <2>1, <2>2, SubSeqProperties
    <2>4. Len(before(s)) = F[s]
      BY <2>1, <2>3
    <2> HIDE DEF before
    <2>5. \A pos \in 0..F[s] - 1 : before(s)[pos + 1] = supplied[s][pos + 1]
      <3>1. SUFFICES ASSUME NEW pos \in 0..F[s] - 1 PROVE before(s)[pos + 1] = supplied[s][pos + 1]
        OBVIOUS
      <3>2. pos + 1 \in 1..F[s] - 1 + 1 /\ 1 + (pos + 1) - 1 = pos + 1
        BY <2>1
      <3> QED BY <2>3, <3>2
    <2> QED BY <2>3, <2>4, <2>5
  <1>11. ASSUME NEW s \in A
         PROVE /\ new(s) \in Seq(Keys) /\ Len(new(s)) = N[s]
               /\ \A i \in 1..N[s] : new(s)[i] = <<s, F[s] + i - 1, launches>>
    <2>1. F[s] \in Nat /\ N[s] \in Nat /\ s \in Slots
      BY <1>3, <1>4
    <2>2. \A i \in 1..N[s] : <<s, F[s] + i - 1, launches>> \in Keys
      BY <2>1, <1>3 DEF Keys
    <2>3. new(s) \in [1..N[s] -> Keys]
      BY <2>2
    <2>4. \A i \in 1..N[s] : new(s)[i] = <<s, F[s] + i - 1, launches>>
      OBVIOUS
    <2> HIDE DEF new
    <2>5. new(s) \in Seq(Keys) /\ Len(new(s)) = N[s]
      BY <2>1, <2>3
    <2> QED BY <2>4, <2>5
  <1> HIDE DEF before, new
  <1>12. ASSUME NEW s \in A
         PROVE /\ before(s) \o new(s) \in Seq(Keys) /\ Len(before(s) \o new(s)) = F[s] + N[s]
               /\ \A pos \in 0..F[s] - 1 : (before(s) \o new(s))[pos + 1] = supplied[s][pos + 1]
               /\ \A pos \in Span(A, F, N, s) : (before(s) \o new(s))[pos + 1] = <<s, pos, launches>>
    <2>1. F[s] \in Nat /\ N[s] \in Nat
      BY <1>4
    <2> DEFINE b == before(s)
               c == new(s)
    <2>0. b \in Seq(Keys) /\ Len(b) = F[s] /\ c \in Seq(Keys) /\ Len(c) = N[s]
      BY <1>10, <1>11
    <2> HIDE DEF b, c
    <2> DEFINE whole == b \o c
    <2>2. /\ whole \in Seq(Keys) /\ Len(whole) = F[s] + N[s]
          /\ \A i \in 1..F[s] + N[s] : whole[i] = IF i <= F[s] THEN b[i] ELSE c[i - F[s]]
      <3>1. /\ whole \in Seq(Keys) /\ Len(whole) = Len(b) + Len(c)
            /\ \A i \in 1..Len(b) + Len(c) : whole[i] = IF i <= Len(b) THEN b[i] ELSE c[i - Len(b)]
        BY <2>0, ConcatProperties
      <3> QED BY <2>0, <3>1
    <2> HIDE DEF whole
    <2>3. ASSUME NEW pos \in 0..F[s] - 1
          PROVE whole[pos + 1] = supplied[s][pos + 1]
      <3>1. pos + 1 \in 1..F[s] + N[s] /\ pos + 1 <= F[s]
        BY <2>1
      <3> QED BY <3>1, <2>2, <1>10 DEF b
    <2>4. ASSUME NEW pos \in Span(A, F, N, s)
          PROVE whole[pos + 1] = <<s, pos, launches>>
      <3> DEFINE i == pos + 1 - F[s]
      <3>1. pos \in F[s]..F[s] + N[s] - 1
        BY DEF Span
      <3>2. /\ pos + 1 \in 1..F[s] + N[s] /\ ~(pos + 1 <= F[s])
            /\ i \in 1..N[s] /\ F[s] + i - 1 = pos
        BY <2>1, <3>1
      <3> DEFINE k == pos + 1
      <3>3. whole[k] = IF k <= F[s] THEN b[k] ELSE c[k - F[s]]
        <4>1. k \in 1..F[s] + N[s]
          BY <3>2
        <4> HIDE DEF k
        <4> QED BY <4>1, <2>2
      <3>5. whole[k] = c[i]
        BY <2>1, <3>1, <3>2, <3>3
      <3> HIDE DEF i
      <3>4. c[i] = <<s, F[s] + i - 1, launches>>
        BY <3>2, <1>11 DEF c
      <3> QED BY <3>2, <3>4, <3>5
    <2> QED BY <2>2, <2>3, <2>4 DEF b, c, whole
  <1>13. supplied' \in [Slots -> Seq(Keys)]
    <2>1. \A s \in Slots : supplied'[s] \in Seq(Keys)
      <3>1. SUFFICES ASSUME NEW s \in Slots PROVE supplied'[s] \in Seq(Keys)
        OBVIOUS
      <3>2. CASE n < 2 \/ s \notin A
        BY <3>2, <1>3, <1>8
      <3>3. CASE n >= 2 /\ s \in A
        BY <3>3, <1>9, <1>10, <1>12
      <3> QED BY <1>1, <3>2, <3>3
    <2> QED BY <1>1, <2>1
  <1>14. n >= 2 => \A s \in A :
               /\ Len(supplied'[s]) = IF n < Kernels THEN F[s] ELSE F[s] + N[s]
               /\ \A pos \in 0..F[s] - 1 : supplied'[s][pos + 1] = supplied[s][pos + 1]
               /\ n = Kernels => \A pos \in Span(A, F, N, s) :
                    supplied'[s][pos + 1] = <<s, pos, launches>>
    <2>1. SUFFICES ASSUME n >= 2, NEW s \in A
                   PROVE /\ Len(supplied'[s]) = IF n < Kernels THEN F[s] ELSE F[s] + N[s]
                         /\ \A pos \in 0..F[s] - 1 : supplied'[s][pos + 1] = supplied[s][pos + 1]
                         /\ n = Kernels => \A pos \in Span(A, F, N, s) :
                              supplied'[s][pos + 1] = <<s, pos, launches>>
      OBVIOUS
    <2>2. CASE n < Kernels
      <3>1. supplied'[s] = before(s)
        BY <1>9, <2>1, <2>2
      <3>2. n # Kernels
        BY <1>1, <2>2 DEF Kernels
      <3> QED BY <3>1, <3>2, <1>10, <2>2
    <2>3. CASE ~(n < Kernels)
      <3>1. supplied'[s] = before(s) \o new(s)
        BY <1>9, <2>1, <2>3
      <3> QED BY <3>1, <1>12, <2>3
    <2> QED BY <2>2, <2>3
  <1> QED BY <1>8, <1>13, <1>14

-----------------------------------------------------------------------------
(***************************************************************************)
(* A launch preserves the invariant.                                       *)
(***************************************************************************)

\* A number plus whole periods has its residue.
LEMMA ModShift ==
    ASSUME NEW a \in Int, NEW b \in Nat \ {0}, NEW k \in Int
    PROVE (a + b * k) % b = a % b
  <1> DEFINE q == a \div b
             r == a % b
             c == a + b * k
             p == c \div b
  <1>1. a = b * q + r /\ r \in 0..b - 1 /\ q \in Int
    BY DivMod
  <1>2. c \in Int /\ c = a + b * k
    OBVIOUS
  <1> HIDE DEF q, r
  <1>3. b * q <= a /\ a < b * q + b /\ b * q \in Int /\ b * k \in Int
    BY <1>1
  <1>4. b * (q + k) = b * q + b * k /\ b * (q + k + 1) = b * q + b * k + b
    BY <1>1
  <1> HIDE DEF c
  <1>5. p = q + k
    BY <1>1, <1>2, <1>3, <1>4, DivIs
  <1> HIDE DEF p
  <1>6. c = b * p + (c % b) /\ c % b \in Int
    BY <1>2, DivMod DEF p
  <1>7. c % b = r
    BY <1>1, <1>2, <1>3, <1>4, <1>5, <1>6
  <1> QED BY <1>7 DEF c, r

\* Whatever precedes the latest positions of a span shares an entry with one.
LEMMA LatestCover ==
    ASSUME ShapeInv, AnchorInv, NEW A, NEW F, NEW N, NEW P, Intervals(A, F, N, P),
           NEW s \in A, NEW pos \in Span(A, F, N, s)
    PROVE \E p \in Latest(A, F, N, s) : p % RingSize = pos % RingSize
  <1> DEFINE top == F[s] + N[s] - 1
             d == top - pos
             k == d \div RingSize
             p == pos + RingSize * k
  <1>0. F[s] \in Nat /\ N[s] \in Nat /\ N[s] >= 1 /\ RingSize \in Nat \ {0}
    BY RowsAre, Sizes
  <1>1. pos \in F[s]..top /\ pos \in Int /\ top \in Int
    BY <1>0 DEF Span
  <1>2. d = RingSize * k + (d % RingSize) /\ k \in Int /\ d % RingSize \in 0..RingSize - 1
    <2>1. d \in Int
      BY <1>1
    <2> HIDE DEF d
    <2> QED BY <1>0, <2>1, DivMod
  <1>3. k >= 0
    <2>1. SUFFICES ASSUME k <= -1 PROVE FALSE
      BY <1>2
    <2> HIDE DEF k
    <2>2. RingSize * k <= RingSize * (-1)
      BY <1>0, <1>2, <2>1
    <2> QED BY <2>2, <1>0, <1>1, <1>2
  <1> HIDE DEF k
  <1>4. RingSize * k \in Nat
    BY <1>0, <1>2, <1>3
  <1>5. p \in F[s]..top /\ p > top - RingSize
    BY <1>0, <1>1, <1>2, <1>4
  <1>6. p % RingSize = pos % RingSize
    BY <1>0, <1>1, <1>2, ModShift
  <1> HIDE DEF p
  <1>7. p \in Latest(A, F, N, s)
    BY <1>0, <1>5 DEF Latest, Span
  <1> QED BY <1>6, <1>7

\* A launch resumes nothing earlier, and the extended sequences as their kind says.
LEMMA ResumesAfter ==
    ASSUME ShapeInv, AnchorInv, SharingInv,
           NEW batch, NEW A, NEW F, NEW N, NEW P, NEW n,
           Intervals(A, F, N, P), Extends(batch, A, F, N, P, n)
    PROVE /\ Running' = Running
          /\ \A s \in Running : /\ Resumes(s)' \in Int /\ Resumes(s)' >= Resumes(s)
                                /\ n < 5 \/ s \notin A => Resumes(s)' = Resumes(s)
          /\ n >= 5 => \A s \in A : Resumes(s)' = IF P[s] THEN F[s] + N[s] ELSE F[s]
  <1>1. Running' = Running
    BY DEF Extends, Running
  <1>2. \A s \in Running : s \in Slots
    BY RunningTables
  <1>3. \A s \in Running : n < 5 \/ s \notin A => Resumes(s)' = Resumes(s)
    BY <1>2, AnchorsAfter DEF Resumes
  <1>4. n >= 5 => \A s \in A : Resumes(s)' = IF P[s] THEN F[s] + N[s] ELSE F[s]
    <2>1. SUFFICES ASSUME n >= 5, NEW s \in A
                   PROVE Resumes(s)' = IF P[s] THEN F[s] + N[s] ELSE F[s]
      OBVIOUS
    <2>2. F[s] \in Nat /\ N[s] \in Nat /\ P[s] \in BOOLEAN
      BY DEF Intervals
    <2>3. CASE P[s]
      <3>1. anchors'[s] = F[s] + N[s] - 1 /\ ~verified'[s]
        BY <2>1, <2>3, AnchorsAfter
      <3> QED BY <2>2, <2>3, <3>1 DEF Resumes
    <2>4. CASE ~P[s]
      <3>1. anchors'[s] = F[s] /\ verified'[s]
        BY <2>1, <2>4, AnchorsAfter
      <3> QED BY <2>4, <3>1 DEF Resumes
    <2> QED BY <2>3, <2>4
  <1>5. \A s \in Running : Resumes(s)' \in Int /\ Resumes(s)' >= Resumes(s)
    <2>1. SUFFICES ASSUME NEW s \in Running PROVE Resumes(s)' \in Int /\ Resumes(s)' >= Resumes(s)
      OBVIOUS
    <2>2. Resumes(s) \in Nat /\ n \in Int
      BY ResumesFrom DEF Extends, Kernels
    <2>3. CASE n < 5 \/ s \notin A
      BY <2>2, <2>3, <1>3
    <2>4. CASE n >= 5 /\ s \in A
      <3>1. Resumes(s) <= F[s] /\ F[s] \in Nat /\ N[s] \in Nat
        BY <2>4 DEF Intervals
      <3> QED BY <2>2, <2>4, <3>1, <1>4
    <2> QED BY <2>2, <2>3, <2>4
  <1> QED BY <1>1, <1>3, <1>4, <1>5

\* How long an extended sequence is, and that its beginning stays.
LEMMA LengthAfter ==
    ASSUME ShapeInv, AnchorInv, SharingInv,
           NEW batch, NEW A, NEW F, NEW N, NEW P, NEW n,
           Intervals(A, F, N, P), Extends(batch, A, F, N, P, n),
           NEW s \in A, n >= 2
    PROVE /\ F[s] \in Nat /\ N[s] \in Nat /\ N[s] >= 1 /\ F[s] + N[s] <= Capacity
          /\ Resumes(s) \in Nat /\ Resumes(s) <= F[s] /\ F[s] <= Len(supplied[s])
          /\ Len(supplied[s]) \in Nat
          /\ Len(supplied'[s]) = IF n = Kernels THEN F[s] + N[s] ELSE F[s]
          /\ \A pos \in 0..F[s] - 1 : supplied'[s][pos + 1] = supplied[s][pos + 1]
          /\ n = Kernels => \A pos \in Span(A, F, N, s) : supplied'[s][pos + 1] = <<s, pos, launches>>
  <1>1. n \in 1..7 /\ Kernels = 7
    BY DEF Extends, Kernels
  <1>2. F[s] \in Nat /\ N[s] \in Nat /\ N[s] >= 1 /\ F[s] + N[s] <= Capacity
    BY RowsAre DEF Intervals
  <1>3. Resumes(s) \in Nat /\ Resumes(s) <= F[s] /\ F[s] <= Len(supplied[s]) /\ Len(supplied[s]) \in Nat
    BY RowsAre, ResumesFrom DEF Intervals
  <1>4. Len(supplied'[s]) = IF n = Kernels THEN F[s] + N[s] ELSE F[s]
    BY <1>1, SequenceAfter
  <1>5. \A pos \in 0..F[s] - 1 : supplied'[s][pos + 1] = supplied[s][pos + 1]
    BY SequenceAfter
  <1>6. n = Kernels => \A pos \in Span(A, F, N, s) : supplied'[s][pos + 1] = <<s, pos, launches>>
    BY SequenceAfter
  <1> QED BY <1>2, <1>3, <1>4, <1>5, <1>6

\* A launch keeps every function's domain; anchors move into the table's range,
\* and who shares a page still resumes behind it.
LEMMA LaunchKeepsShape ==
    ASSUME ShapeInv, AnchorInv, SharingInv,
           NEW batch, NEW A, NEW F, NEW N, NEW P, NEW n,
           Intervals(A, F, N, P), Extends(batch, A, F, N, P, n)
    PROVE ShapeInv' /\ AnchorInv' /\ SharingInv'
  <1>1. launches' \in Nat /\ tables' \in [Slots -> Tables \union {<<>>}]
    BY DEF ShapeInv, Extends
  <1>2. DOMAIN keys' = Pages /\ \A p \in Pages : keys'[p] = [o \in Offsets |-> keys'[p][o]]
    BY KeysAfter
  <1>3. /\ DOMAIN pooled' = Pages
        /\ \A p \in Pages : pooled'[p] = [g \in 0..Groups - 1 |-> pooled'[p][g]]
    BY PooledAfter
  <1>4. /\ DOMAIN ring' = Slots /\ \A s \in Slots : ring'[s] = [i \in Residues |-> ring'[s][i]]
        /\ DOMAIN tags' = Slots /\ \A s \in Slots : tags'[s] = [i \in Residues |-> tags'[s][i]]
    BY RingAfter
  <1>5. supplied' \in [Slots -> Seq(Slots \X Nat \X Nat)]
    BY SequenceAfter DEF Keys
  <1>6. anchors' \in [Slots -> Int] /\ verified' \in [Slots -> BOOLEAN]
    BY AnchorsAfter
  <1>7. ShapeInv'
    BY <1>1, <1>2, <1>3, <1>4, <1>5, <1>6 DEF ShapeInv, Offsets, Residues, Groups, Tables
  <1>8. ASSUME NEW s \in Running
        PROVE /\ anchors'[s] >= -1 /\ (verified'[s] => anchors'[s] >= 0)
              /\ Len(supplied'[s]) <= Capacity
    <2>0. s \in Slots /\ n \in Int /\ Capacity \in Nat
      BY RunningTables, Sizes DEF Extends, Kernels
    <2>1. anchors'[s] >= -1 /\ (verified'[s] => anchors'[s] >= 0)
      <3>1. CASE n < 5 \/ s \notin A
        BY <2>0, <3>1, AnchorsAfter DEF AnchorInv
      <3>2. CASE n >= 5 /\ s \in A
        <4>1. F[s] \in Nat /\ N[s] \in Nat /\ N[s] >= 1
          BY <3>2, RowsAre
        <4>2. anchors'[s] = F[s] + N[s] - 1 \/ anchors'[s] = F[s]
          BY <3>2, AnchorsAfter
        <4> QED BY <4>1, <4>2
      <3> QED BY <2>0, <3>1, <3>2
    <2>2. Len(supplied'[s]) <= Capacity
      <3>1. CASE n < 2 \/ s \notin A
        BY <2>0, <3>1, SequenceAfter DEF AnchorInv
      <3>2. CASE n >= 2 /\ s \in A
        BY <2>0, <3>2, LengthAfter
      <3> QED BY <2>0, <3>1, <3>2
    <2> QED BY <2>1, <2>2
  <1>9. AnchorInv'
    BY <1>8, ResumesAfter DEF AnchorInv, Capacity
  <1>10. SharingInv'
    <2>1. SUFFICES ASSUME NEW s \in Running, NEW t \in Running,
                          NEW i \in 1..TableWidth, NEW j \in 1..TableWidth,
                          s # t, tables[s][i] = tables[t][j]
                   PROVE i = 1 /\ j = 1 /\ Resumes(s)' >= PageSize /\ Resumes(t)' >= PageSize
      BY ResumesAfter DEF SharingInv, Extends
    <2>2. i = 1 /\ j = 1 /\ Resumes(s) >= PageSize /\ Resumes(t) >= PageSize
      BY <2>1 DEF SharingInv
    <2>3. PageSize \in Nat /\ Resumes(s) \in Nat /\ Resumes(t) \in Nat
      BY Sizes, ResumesFrom
    <2> QED BY <2>2, <2>3, ResumesAfter
  <1> QED BY <1>7, <1>9, <1>10

\* The ring keeps the keys of the positions its tags name.
LEMMA LaunchKeepsRing ==
    ASSUME ShapeInv, AnchorInv, SharingInv, RingInv,
           NEW batch, NEW A, NEW F, NEW N, NEW P, NEW n,
           Intervals(A, F, N, P), Extends(batch, A, F, N, P, n)
    PROVE RingInv'
  <1>1. SUFFICES ASSUME NEW s \in Running, NEW pos \in Positions,
                        GroupStart(Resumes(s)') <= pos, pos < Len(supplied'[s]),
                        tags'[s][pos % RingSize] = pos
                 PROVE ring'[s][pos % RingSize] = supplied'[s][pos + 1]
    BY ResumesAfter DEF RingInv, Positions, Capacity, GroupStart
  <1>2. s \in Slots /\ n \in 1..7 /\ Kernels = 7
    BY RunningTables DEF Extends, Kernels
  <1>3. pos \in Nat /\ pos < Capacity /\ pos % RingSize \in Residues
    <2>1. pos \in Nat /\ pos < Capacity
      BY Placed, Sizes DEF Positions
    <2> QED BY <2>1, Sizes, DivMod DEF Residues
  <1>4. GroupStart(Resumes(s)) <= pos
    <2>1. Resumes(s) \in Int /\ Resumes(s)' \in Int /\ Resumes(s) <= Resumes(s)'
      BY ResumesAfter, ResumesFrom
    <2> DEFINE r == Resumes(s)
               r2 == Resumes(s)'
    <2> HIDE DEF r, r2
    <2>2. r \in Int /\ r2 \in Int /\ r <= r2
      BY <2>1 DEF r, r2
    <2>3. GroupStart(r) <= GroupStart(r2) /\ GroupStart(r) \in Int /\ GroupStart(r2) \in Int
      BY <2>2, GroupStarts
    <2>4. GroupStart(r2) <= pos
      BY <1>1 DEF r2
    <2>5. GroupStart(r) <= pos
      BY <2>3, <2>4, <1>3
    <2> QED BY <2>5 DEF r
  <1>5. pos < Len(supplied[s]) /\ tags[s][pos % RingSize] = pos
          => ring[s][pos % RingSize] = supplied[s][pos + 1]
    BY <1>4 DEF RingInv
  <1>6. CASE n < 2 \/ s \notin A
    <2>1. supplied'[s] = supplied[s]
      BY <1>2, <1>6, SequenceAfter
    <2>2. ring'[s][pos % RingSize] = ring[s][pos % RingSize]
          /\ tags'[s][pos % RingSize] = tags[s][pos % RingSize]
      BY <1>2, <1>3, <1>6, RingAfter
    <2> QED BY <1>1, <1>5, <2>1, <2>2
  <1>7. CASE n >= 2 /\ s \in A
    <2>1. /\ F[s] \in Nat /\ N[s] \in Nat /\ F[s] <= Len(supplied[s]) /\ Len(supplied[s]) \in Nat
          /\ Len(supplied'[s]) = IF n = Kernels THEN F[s] + N[s] ELSE F[s]
          /\ \A p \in 0..F[s] - 1 : supplied'[s][p + 1] = supplied[s][p + 1]
          /\ n = Kernels => \A p \in Span(A, F, N, s) : supplied'[s][p + 1] = <<s, p, launches>>
      BY <1>7, LengthAfter
    <2>2. CASE n >= 5 /\ \E p \in Latest(A, F, N, s) : p % RingSize = pos % RingSize
      <3>1. PICK p \in Latest(A, F, N, s) : p % RingSize = pos % RingSize
        BY <2>2
      <3>2. /\ ring'[s][pos % RingSize] = <<s, p, launches>> /\ tags'[s][pos % RingSize] = p
        BY <1>7, <2>2, <3>1, RingAfter
      <3>3. p = pos /\ pos \in Span(A, F, N, s)
        BY <1>1, <3>1, <3>2 DEF Latest
      <3>4. pos >= F[s]
        BY <1>7, <3>3, RowsAre
      <3>5. n = Kernels
        BY <1>1, <1>3, <2>1, <3>4
      <3> QED BY <2>1, <3>2, <3>3, <3>5
    <2>3. CASE ~(n >= 5 /\ \E p \in Latest(A, F, N, s) : p % RingSize = pos % RingSize)
      <3>1. n < 5 \/ \A p \in Latest(A, F, N, s) : p % RingSize # pos % RingSize
        BY <1>2, <2>3
      <3>2. ring'[s][pos % RingSize] = ring[s][pos % RingSize]
            /\ tags'[s][pos % RingSize] = tags[s][pos % RingSize]
        BY <1>2, <1>3, <3>1, RingAfter
      <3>3. pos < F[s]
        <4>1. SUFFICES ASSUME pos >= F[s] PROVE FALSE
          BY <1>3, <2>1
        <4>2. n = Kernels /\ pos \in Span(A, F, N, s)
          BY <1>1, <1>3, <1>7, <2>1, <4>1 DEF Span
        <4>3. \E p \in Latest(A, F, N, s) : p % RingSize = pos % RingSize
          BY <1>7, <4>2, LatestCover
        <4> QED BY <1>2, <3>1, <4>2, <4>3
      <3>4. pos < Len(supplied[s]) /\ pos \in 0..F[s] - 1
        BY <1>3, <2>1, <3>3
      <3> QED BY <1>1, <1>5, <2>1, <3>2, <3>4
    <2> QED BY <2>2, <2>3
  <1> QED BY <1>2, <1>6, <1>7

\* Wherever the next interval may begin, the ring has its incomplete group.
LEMMA LaunchKeepsTail ==
    ASSUME ShapeInv, AnchorInv, SharingInv, TailInv,
           NEW batch, NEW A, NEW F, NEW N, NEW P, NEW n,
           Intervals(A, F, N, P), Extends(batch, A, F, N, P, n)
    PROVE TailInv'
  <1>1. SUFFICES ASSUME NEW s \in Running, NEW first \in Resumes(s)'..Len(supplied'[s]),
                        NEW pos \in GroupStart(first)..first - 1
                 PROVE tags'[s][pos % RingSize] = pos
    BY ResumesAfter DEF TailInv, GroupStart
  <1>2. s \in Slots /\ n \in 1..7 /\ Kernels = 7 /\ Ratio \in Nat \ {0} /\ RingSize \in Nat \ {0}
        /\ MaxAccepted \in Nat /\ RingSize >= Ratio + MaxAccepted
    BY RunningTables, Sizes DEF Extends, Kernels
  <1>3. /\ Resumes(s)' \in Int /\ Resumes(s)' >= Resumes(s) /\ Resumes(s) \in Nat
        /\ Len(supplied[s]) \in Nat
    BY ResumesAfter, ResumesFrom
  <1>4. Len(supplied'[s]) \in Nat
    BY <1>2, SequenceAfter
  <1>5. first \in Nat /\ first >= Resumes(s) /\ first >= Resumes(s)' /\ first <= Len(supplied'[s])
    BY <1>3, <1>4
  <1>6. /\ GroupStart(first) \in Int /\ GroupStart(first) >= 0
        /\ first <= GroupStart(first) + Ratio - 1
    BY <1>5, GroupStarts
  <1>7. pos \in Nat /\ pos < first /\ first - pos <= Ratio - 1 /\ GroupStart(first) <= pos
    BY <1>2, <1>5, <1>6
  <1>8. pos % RingSize \in Residues
    <2>1. pos \in Int /\ RingSize \in Nat \ {0}
      BY <1>2, <1>7
    <2> QED BY <2>1, DivMod DEF Residues
  <1>9. CASE n < 2 \/ s \notin A
    <2>1. supplied'[s] = supplied[s] /\ Resumes(s)' = Resumes(s)
      BY <1>2, <1>9, SequenceAfter, ResumesAfter
    <2>2. tags[s][pos % RingSize] = pos
      <3>1. first \in Resumes(s)..Len(supplied[s])
        BY <1>3, <1>5, <2>1
      <3> QED BY <3>1 DEF TailInv
    <2> QED BY <1>2, <1>8, <1>9, <2>2, RingAfter
  <1>10. CASE n >= 2 /\ s \in A
    <2>1. /\ F[s] \in Nat /\ N[s] \in Nat /\ N[s] >= 1
          /\ Resumes(s) <= F[s] /\ F[s] <= Len(supplied[s])
          /\ Len(supplied'[s]) = IF n = Kernels THEN F[s] + N[s] ELSE F[s]
      BY <1>10, LengthAfter
    <2>2. CASE n < 5
      <3>1. first \in Resumes(s)..Len(supplied[s])
        BY <1>2, <1>3, <1>5, <2>1, <2>2
      <3>2. tags[s][pos % RingSize] = pos
        BY <3>1 DEF TailInv
      <3> QED BY <1>2, <1>8, <2>2, <3>2, RingAfter
    <2>3. CASE n >= 5
      <3>1. F[s] <= first /\ (P[s] => first = F[s] + N[s]) /\ first <= F[s] + N[s]
        <4>1. Resumes(s)' = IF P[s] THEN F[s] + N[s] ELSE F[s]
          BY <1>10, <2>3, ResumesAfter
        <4>2. CASE P[s]
          BY <1>5, <2>1, <4>1, <4>2
        <4>3. CASE ~P[s]
          BY <1>5, <2>1, <4>1, <4>3
        <4> QED BY <4>2, <4>3
      <3>2. P[s] \/ N[s] <= MaxAccepted + 1
        BY <1>10 DEF Intervals
      <3>3. CASE pos >= F[s]
        <4>1. pos < F[s] + N[s]
          BY <1>7, <2>1, <3>1
        <4>2. pos \in Span(A, F, N, s)
          BY <1>7, <1>10, <2>1, <3>3, <4>1 DEF Span
        <4>3. pos >= F[s] + N[s] - RingSize
          <5>1. CASE P[s]
            BY <1>2, <1>7, <2>1, <3>1, <5>1
          <5>2. CASE N[s] <= MaxAccepted + 1
            BY <1>2, <1>7, <2>1, <3>3, <5>2
          <5> QED BY <3>2, <5>1, <5>2
        <4>4. pos \in Latest(A, F, N, s)
          BY <4>2, <4>3 DEF Latest
        <4> QED BY <1>10, <2>3, <4>4, RingAfter
      <3>4. CASE pos < F[s]
        <4>1. GroupStart(F[s]) <= GroupStart(first) /\ GroupStart(F[s]) \in Int
              /\ F[s] <= GroupStart(F[s]) + Ratio - 1
          BY <1>5, <2>1, <3>1, GroupStarts
        <4>2. F[s] \in Resumes(s)..Len(supplied[s]) /\ pos \in GroupStart(F[s])..F[s] - 1
          BY <1>3, <1>6, <1>7, <2>1, <3>4, <4>1
        <4>3. tags[s][pos % RingSize] = pos
          BY <4>2 DEF TailInv
        <4>4. ASSUME NEW p \in Latest(A, F, N, s) PROVE p % RingSize # pos % RingSize
          <5>1. p \in F[s]..F[s] + N[s] - 1
            BY <1>10 DEF Latest, Span
          <5>2. p - pos < RingSize
            <6>1. CASE P[s]
              BY <1>2, <1>7, <2>1, <3>1, <5>1, <6>1
            <6>2. CASE N[s] <= MaxAccepted + 1
              BY <1>2, <1>7, <2>1, <4>2, <4>1, <5>1, <6>2
            <6> QED BY <3>2, <6>1, <6>2
          <5>3. SUFFICES ASSUME p % RingSize = pos % RingSize PROVE FALSE
            OBVIOUS
          <5>4. p \in Int /\ pos \in Int /\ pos < p
            BY <1>7, <2>1, <3>4, <5>1
          <5>5. p - pos >= RingSize
            BY <1>2, <5>3, <5>4, ModNear
          <5> QED BY <1>2, <5>2, <5>4, <5>5
        <4> QED BY <1>2, <1>8, <4>3, <4>4, RingAfter
      <3> QED BY <1>7, <2>1, <3>3, <3>4
    <2> QED BY <1>2, <2>2, <2>3
  <1> QED BY <1>2, <1>9, <1>10

-----------------------------------------------------------------------------
(***************************************************************************)
(* A launch keeps the caches the sequences.                                *)
(***************************************************************************)

\* A complete group of a sequence, key by key.
LEMMA GroupOfSequence ==
    ASSUME NEW seq \in Seq(Keys), NEW g \in Nat, (g + 1) * Ratio <= Len(seq)
    PROVE SubSeq(seq, g * Ratio + 1, (g + 1) * Ratio) = [t \in 1..Ratio |-> seq[g * Ratio + t]]
  <1> DEFINE m == g * Ratio
             lo == m + 1
             hi == m + Ratio
             sub == SubSeq(seq, lo, hi)
  <1>0. Ratio \in Nat /\ m \in Nat /\ (g + 1) * Ratio = m + Ratio /\ Len(seq) \in Nat
    BY Sizes
  <1>1. /\ lo \in Int /\ hi \in Int /\ lo >= 1 /\ hi <= Len(seq) /\ hi - lo + 1 = Ratio
        /\ hi = (g + 1) * Ratio /\ \A i \in 1..Ratio : lo + i - 1 = m + i
        /\ (lo <= hi <=> Ratio >= 1)
    <2> HIDE DEF m
    <2> QED BY <1>0
  <1> HIDE DEF lo, hi
  <1>2. \A i \in lo..hi : seq[i] \in Keys
    <2>1. \A i \in lo..hi : i \in 1..Len(seq)
      BY <1>0, <1>1
    <2> QED BY <2>1, ElementOfSeq
  <1>3. /\ sub \in Seq(Keys)
        /\ Len(sub) = IF lo <= hi THEN hi - lo + 1 ELSE 0
        /\ \A i \in 1..hi - lo + 1 : sub[i] = seq[lo + i - 1]
    <2>1. lo \in Int /\ hi \in Int
      BY <1>1
    <2> QED BY <1>2, <2>1, SubSeqProperties
  <1> HIDE DEF sub
  <1>4. Len(sub) = Ratio
    BY <1>0, <1>1, <1>3
  <1>5. \A i \in 1..Ratio : sub[i] = seq[m + i]
    BY <1>1, <1>3
  <1>6. sub = [t \in 1..Ratio |-> sub[t]]
    BY <1>3, <1>4
  <1>7. sub = [t \in 1..Ratio |-> seq[m + t]]
    BY <1>5, <1>6
  <1>8. sub = SubSeq(seq, m + 1, (g + 1) * Ratio)
    BY <1>1 DEF sub, lo
  <1> QED BY <1>7, <1>8

\* The complete groups of a sequence that fits its table.
LEMMA GroupsOf ==
    ASSUME NEW len \in Nat, len <= Capacity, NEW g \in 0..(len \div Ratio) - 1
    PROVE g \in GroupIndex /\ g \in Nat /\ (g + 1) * Ratio <= len /\ g * Ratio + Ratio <= len
          /\ g * Ratio \in Nat
  <1>1. Ratio \in Nat \ {0} /\ Capacity \in Nat
    BY Sizes
  <1> DEFINE q == len \div Ratio
  <1>2. len = Ratio * q + (len % Ratio) /\ len % Ratio \in 0..Ratio - 1 /\ q \in Int
    BY <1>1, DivMod
  <1>3. g \in 0..q - 1
    OBVIOUS
  <1> HIDE DEF q
  <1>4. g \in Nat /\ g + 1 <= q
    BY <1>2, <1>3
  <1>5. (g + 1) * Ratio <= q * Ratio /\ q * Ratio = Ratio * q /\ (g + 1) * Ratio = g * Ratio + Ratio
        /\ g * Ratio \in Nat
    BY <1>1, <1>2, <1>4
  <1> QED BY <1>1, <1>2, <1>4, <1>5 DEF GroupIndex

KeysHeld ==
    \A s \in Running : \A pos \in 0..Len(supplied[s]) - 1 :
        keys[Cell(tables[s], pos)[1]][Cell(tables[s], pos)[2]] = supplied[s][pos + 1]
GroupsHeld ==
    \A s \in Running : \A g \in 0..(Len(supplied[s]) \div Ratio) - 1 :
        pooled[PooledCell(tables[s], g)[1]][PooledCell(tables[s], g)[2]] =
            SubSeq(supplied[s], g * Ratio + 1, (g + 1) * Ratio)

\* The property, in two parts.
LEMMA CacheParts == CacheHoldsSequence <=> KeysHeld /\ GroupsHeld
  BY DEF CacheHoldsSequence, KeysHeld, GroupsHeld

\* A main cell of a sequence holds its key: the launch wrote it, or it is no
\* position the launch wrote.
LEMMA LaunchKeepsKeys ==
    ASSUME ShapeInv, AnchorInv, SharingInv, KeysHeld,
           NEW batch, NEW A, NEW F, NEW N, NEW P, NEW n,
           Intervals(A, F, N, P), Extends(batch, A, F, N, P, n)
    PROVE KeysHeld'
  <1> DEFINE c(s, pos) == Cell(tables[s], pos)
  <1>1. SUFFICES ASSUME NEW s \in Running, NEW pos \in 0..Len(supplied'[s]) - 1
                 PROVE keys'[c(s, pos)[1]][c(s, pos)[2]] = supplied'[s][pos + 1]
    <2>1. \A s, pos : Cell(tables[s], pos)' = Cell(tables'[s], pos)
      BY DEF Cell, Physical, Logical
    <2> QED BY <2>1, ResumesAfter DEF KeysHeld, Extends
  <1>2. s \in Slots /\ n \in 1..7 /\ Kernels = 7
    BY RunningTables DEF Extends, Kernels
  <1>3. Len(supplied'[s]) \in Nat /\ Len(supplied'[s]) <= Capacity /\ Capacity \in Nat
    <2>1. ShapeInv' /\ AnchorInv' /\ s \in Running'
      BY LaunchKeepsShape, ResumesAfter
    <2>2. Len(supplied'[s]) <= Capacity
      BY <2>1 DEF AnchorInv, Capacity
    <2> QED BY <1>2, <2>2, SequenceAfter, Sizes
  <1>4. pos \in Nat /\ pos < Len(supplied'[s]) /\ pos \in Positions
    BY <1>3 DEF Positions
  <1>5. keys'[c(s, pos)[1]][c(s, pos)[2]] = IF n >= 2 /\ pos \in Span(A, F, N, s)
                                   THEN <<s, pos, launches>> ELSE keys[c(s, pos)[1]][c(s, pos)[2]]
    BY <1>4, KeysAfter
  <1>6. pos \in 0..Len(supplied[s]) - 1 => keys[c(s, pos)[1]][c(s, pos)[2]] = supplied[s][pos + 1]
    BY DEF KeysHeld
  <1> HIDE DEF c
  <1>7. CASE n < 2 \/ s \notin A
    <2>1. supplied'[s] = supplied[s]
      BY <1>2, <1>7, SequenceAfter
    <2>2. ~(n >= 2 /\ pos \in Span(A, F, N, s))
      BY <1>2, <1>7 DEF Span
    <2> QED BY <1>1, <1>5, <1>6, <2>1, <2>2
  <1>8. CASE n >= 2 /\ s \in A
    <2>1. /\ F[s] \in Nat /\ N[s] \in Nat /\ F[s] <= Len(supplied[s]) /\ Len(supplied[s]) \in Nat
          /\ Len(supplied'[s]) = IF n = Kernels THEN F[s] + N[s] ELSE F[s]
          /\ \A p \in 0..F[s] - 1 : supplied'[s][p + 1] = supplied[s][p + 1]
          /\ n = Kernels => \A p \in Span(A, F, N, s) : supplied'[s][p + 1] = <<s, p, launches>>
      BY <1>8, LengthAfter
    <2>2. CASE pos < F[s]
      <3>1. pos \notin Span(A, F, N, s)
        BY <1>8, <2>2, RowsAre
      <3>2. pos \in 0..Len(supplied[s]) - 1 /\ pos \in 0..F[s] - 1
        BY <1>4, <2>1, <2>2
      <3> QED BY <1>5, <1>6, <2>1, <3>1, <3>2
    <2>3. CASE pos >= F[s]
      <3>1. n = Kernels /\ pos \in Span(A, F, N, s)
        BY <1>3, <1>4, <1>8, <2>1, <2>3 DEF Span
      <3> QED BY <1>5, <1>8, <2>1, <3>1
    <2> QED BY <1>4, <2>1, <2>2, <2>3
  <1> QED BY <1>2, <1>7, <1>8

\* So does the cell of a complete group: its keys come from the interval and from
\* the ring, whose tail is that of the sequence.
LEMMA LaunchKeepsGroups ==
    ASSUME ShapeInv, AnchorInv, SharingInv, RingInv, TailInv, GroupsHeld,
           NEW batch, NEW A, NEW F, NEW N, NEW P, NEW n,
           Intervals(A, F, N, P), Extends(batch, A, F, N, P, n)
    PROVE GroupsHeld'
  <1> DEFINE c(s, g) == PooledCell(tables[s], g)
             grp(s, g) == SubSeq(supplied[s], g * Ratio + 1, (g + 1) * Ratio)
  <1>1. SUFFICES ASSUME NEW s \in Running, NEW g \in 0..(Len(supplied'[s]) \div Ratio) - 1
                 PROVE pooled'[c(s, g)[1]][c(s, g)[2]] =
                         SubSeq(supplied'[s], g * Ratio + 1, (g + 1) * Ratio)
    <2>1. \A s, g : PooledCell(tables[s], g)' = PooledCell(tables'[s], g)
      BY DEF PooledCell, Physical, Groups
    <2>2. GroupsHeld' <=> \A s \in Running' : \A g \in 0..(Len(supplied'[s]) \div Ratio) - 1 :
            pooled'[PooledCell(tables'[s], g)[1]][PooledCell(tables'[s], g)[2]] =
              SubSeq(supplied'[s], g * Ratio + 1, (g + 1) * Ratio)
      BY <2>1 DEF GroupsHeld
    <2>3. Running' = Running /\ tables' = tables
      BY ResumesAfter DEF Extends
    <2> QED BY <2>2, <2>3
  <1>2. s \in Slots /\ n \in 1..7 /\ Kernels = 7 /\ Ratio \in Nat \ {0}
    BY RunningTables, Sizes DEF Extends, Kernels
  <1>3. /\ Len(supplied'[s]) \in Nat /\ Len(supplied'[s]) <= Capacity /\ Capacity \in Nat
        /\ supplied'[s] \in Seq(Keys) /\ supplied[s] \in Seq(Keys) /\ Len(supplied[s]) \in Nat
    <2>1. ShapeInv' /\ AnchorInv' /\ s \in Running'
      BY LaunchKeepsShape, ResumesAfter
    <2>2. Len(supplied'[s]) <= Capacity
      BY <2>1 DEF AnchorInv, Capacity
    <2>3. supplied'[s] \in Seq(Keys) /\ supplied[s] \in Seq(Keys)
      BY <1>2, SequenceAfter DEF ShapeInv, Keys
    <2> QED BY <2>2, <2>3, Sizes
  <1> DEFINE end == Len(supplied'[s])
  <1>4. /\ g \in GroupIndex /\ g \in Nat /\ (g + 1) * Ratio <= end
        /\ g * Ratio + Ratio <= end /\ g * Ratio \in Nat
    <2>1. end \in Nat /\ end <= Capacity /\ g \in 0..(end \div Ratio) - 1
      BY <1>3
    <2> HIDE DEF end
    <2> QED BY <2>1, GroupsOf
  <1>5. SubSeq(supplied'[s], g * Ratio + 1, (g + 1) * Ratio)
          = [t \in 1..Ratio |-> supplied'[s][g * Ratio + t]]
    BY <1>3, <1>4, GroupOfSequence
  <1>6. pooled'[c(s, g)[1]][c(s, g)[2]] =
                 IF n >= 4 /\ g * Ratio + Ratio - 1 \in Span(A, F, N, s)
                 THEN GroupFrom(s, g, F[s]) ELSE pooled[c(s, g)[1]][c(s, g)[2]]
    BY <1>4, PooledAfter
  <1>7. ASSUME g * Ratio + Ratio <= Len(supplied[s])
        PROVE pooled[c(s, g)[1]][c(s, g)[2]] = [t \in 1..Ratio |-> supplied[s][g * Ratio + t]]
    <2>1. (g + 1) * Ratio <= Len(supplied[s])
      BY <1>2, <1>4, <1>7
    <2>2. g \in 0..(Len(supplied[s]) \div Ratio) - 1
      <3> DEFINE len == Len(supplied[s])
                 q == len \div Ratio
                 h == g + 1
      <3>1. len = Ratio * q + (len % Ratio) /\ len % Ratio \in 0..Ratio - 1 /\ q \in Int /\ len \in Nat
        <4>1. len \in Nat
          BY <1>3
        <4> HIDE DEF len
        <4> QED BY <1>2, <4>1, DivMod
      <3>2. h * Ratio <= len /\ h \in Nat
        BY <1>4, <2>1
      <3> HIDE DEF q, h, len
      <3>3. h <= q
        <4>1. SUFFICES ASSUME q + 1 <= h PROVE FALSE
          BY <3>1, <3>2
        <4>2. Ratio * (q + 1) <= Ratio * h /\ Ratio * (q + 1) = Ratio * q + Ratio
              /\ Ratio * h = h * Ratio /\ Ratio * h \in Int /\ Ratio * q \in Int
          BY <1>2, <3>1, <3>2, <4>1
        <4> QED BY <1>2, <3>1, <3>2, <4>2
      <3>4. g + 1 <= q
        BY <3>3 DEF h
      <3>5. g \in 0..q - 1
        BY <1>4, <3>1, <3>4
      <3> QED BY <3>5 DEF q, len
    <2>3. pooled[c(s, g)[1]][c(s, g)[2]] = SubSeq(supplied[s], g * Ratio + 1, (g + 1) * Ratio)
      BY <2>2 DEF GroupsHeld
    <2>4. SubSeq(supplied[s], g * Ratio + 1, (g + 1) * Ratio) = [t \in 1..Ratio |-> supplied[s][g * Ratio + t]]
      BY <1>3, <1>4, <2>1, GroupOfSequence
    <2> QED BY <2>3, <2>4
  <1> HIDE DEF c, end
  <1>8. CASE n < 2 \/ s \notin A
    <2>1. supplied'[s] = supplied[s]
      BY <1>2, <1>8, SequenceAfter
    <2>2. ~(n >= 4 /\ g * Ratio + Ratio - 1 \in Span(A, F, N, s))
      BY <1>2, <1>8 DEF Span
    <2>3. g * Ratio + Ratio <= Len(supplied[s])
      BY <1>4, <2>1 DEF end
    <2> QED BY <1>5, <1>6, <1>7, <2>1, <2>2, <2>3
  <1>9. CASE n >= 2 /\ s \in A
    <2> DEFINE m == g * Ratio
    <2>0. /\ m \in Nat /\ m + Ratio <= end /\ m = g * Ratio
          /\ Ratio * g = m /\ Ratio * (g + 1) = m + Ratio
      BY <1>2, <1>4
    <2> HIDE DEF m
    <2>1. /\ F[s] \in Nat /\ N[s] \in Nat /\ F[s] <= Len(supplied[s]) /\ Len(supplied[s]) \in Nat
          /\ end = IF n = Kernels THEN F[s] + N[s] ELSE F[s]
          /\ \A p \in 0..F[s] - 1 : supplied'[s][p + 1] = supplied[s][p + 1]
          /\ n = Kernels => \A p \in Span(A, F, N, s) : supplied'[s][p + 1] = <<s, p, launches>>
      BY <1>9, LengthAfter DEF end
    <2>4. F[s] \in Nat /\ N[s] \in Nat /\ g \in Nat /\ Ratio \in Nat \ {0}
      BY <1>2, <1>4, <2>1
    <2>2. CASE m + Ratio <= F[s]
      <3>1. ~(m + Ratio - 1 \in Span(A, F, N, s))
        BY <1>2, <2>0, <1>9, <2>1, <2>2 DEF Span
      <3>2. \A t \in 1..Ratio : supplied'[s][m + t] = supplied[s][m + t]
        <4>1. SUFFICES ASSUME NEW t \in 1..Ratio PROVE supplied'[s][m + t] = supplied[s][m + t]
          OBVIOUS
        <4> DEFINE p == m + t - 1
        <4>2. p \in 0..F[s] - 1 /\ p + 1 = m + t
          BY <2>0, <2>4, <2>2
        <4> HIDE DEF p
        <4>3. supplied'[s][p + 1] = supplied[s][p + 1]
          BY <2>1, <4>2
        <4> QED BY <4>2, <4>3
      <3>3. m + Ratio <= Len(supplied[s])
        BY <1>2, <2>0, <2>1, <2>2
      <3>4. pooled[c(s, g)[1]][c(s, g)[2]] = [t \in 1..Ratio |-> supplied[s][m + t]]
        BY <1>7, <3>3, <2>0
      <3> QED BY <1>5, <1>6, <2>0, <3>1, <3>2, <3>4
    <2>3. CASE m + Ratio > F[s]
      <3>1. n = Kernels /\ m + Ratio - 1 \in Span(A, F, N, s)
        BY <1>2, <2>0, <1>9, <2>1, <2>3 DEF Span
      <3>2. pooled'[c(s, g)[1]][c(s, g)[2]] = GroupFrom(s, g, F[s])
        BY <1>2, <1>6, <2>0, <3>1
      <3>3. ASSUME NEW t \in 1..Ratio
            PROVE supplied'[s][m + t] = IF m + t - 1 >= F[s] THEN <<s, m + t - 1, launches>>
                                        ELSE ring[s][(m + t - 1) % RingSize]
        <4> DEFINE p == m + t - 1
        <4>1. p \in Nat /\ p + 1 = m + t /\ p <= m + Ratio - 1 /\ m <= p /\ m \in Nat
          BY <1>2, <2>0
        <4> HIDE DEF p
        <4>2. CASE p >= F[s]
          <5>1. p \in Span(A, F, N, s)
            BY <1>2, <2>0, <1>9, <2>1, <3>1, <4>1, <4>2 DEF Span
          <5> QED BY <2>1, <3>1, <4>1, <4>2, <5>1 DEF p
        <4>3. CASE p < F[s]
          <5>1. F[s] \div Ratio = g
            <6>1. Ratio * g <= F[s] /\ F[s] < Ratio * (g + 1)
              BY <2>0, <2>4, <2>3, <4>1, <4>3
            <6>2. g \in Int /\ F[s] \in Int
              BY <2>4
            <6>3. \A a \in Int : Ratio * g <= a /\ a < Ratio * (g + 1) => a \div Ratio = g
              BY <2>4, <6>2, DivIs
            <6> QED BY <6>1, <6>2, <6>3
          <5>2. GroupStart(F[s]) = m
            BY <2>0, <5>1 DEF GroupStart
          <5>3. Resumes(s) \in Nat /\ Resumes(s) <= F[s]
            BY <1>9, LengthAfter
          <5>4. tags[s][p % RingSize] = p
            <6>1. F[s] \in Resumes(s)..Len(supplied[s]) /\ p \in GroupStart(F[s])..F[s] - 1
              BY <2>1, <4>1, <4>3, <5>2, <5>3
            <6> QED BY <6>1 DEF TailInv
          <5>5. GroupStart(Resumes(s)) <= p
            <6>1. \A a, b \in Int : a <= b => GroupStart(a) \in Int /\ GroupStart(a) <= GroupStart(b)
              BY GroupStarts
            <6>2. Resumes(s) \in Int /\ F[s] \in Int /\ Resumes(s) <= F[s]
              BY <2>4, <5>3
            <6>3. GroupStart(Resumes(s)) \in Int /\ GroupStart(Resumes(s)) <= GroupStart(F[s])
              BY <6>1, <6>2
            <6> QED BY <4>1, <5>2, <6>3
          <5>6. p \in Positions /\ p < Len(supplied[s])
            <6>1. p \in Nat /\ p < F[s] /\ F[s] \in Nat
              BY <2>4, <4>1, <4>3
            <6>2. F[s] <= Len(supplied[s]) /\ Len(supplied[s]) \in Nat
              BY <2>1
            <6>3. p < Len(supplied[s])
              BY <6>1, <6>2
            <6>4. end <= Capacity /\ Capacity \in Nat /\ end \in Nat
              BY <1>3 DEF end
            <6>5. F[s] <= end
              BY <2>1, <2>4
            <6> QED BY <6>1, <6>3, <6>4, <6>5 DEF Positions
          <5>7. ring[s][p % RingSize] = supplied[s][p + 1]
            BY <5>4, <5>5, <5>6 DEF RingInv
          <5>8. supplied'[s][p + 1] = supplied[s][p + 1]
            <6>1. p \in 0..F[s] - 1
              BY <2>4, <4>1, <4>3
            <6> QED BY <2>1, <6>1
          <5>9. ~(p >= F[s])
            BY <2>1, <4>1, <4>3
          <5> QED BY <4>1, <5>7, <5>8, <5>9 DEF p
        <4> QED BY <2>1, <4>1, <4>2, <4>3
      <3>4. \A t \in 1..Ratio : supplied'[s][g * Ratio + t] =
              IF g * Ratio + t - 1 >= F[s] THEN <<s, g * Ratio + t - 1, launches>>
              ELSE ring[s][(g * Ratio + t - 1) % RingSize]
        BY <3>3 DEF m
      <3>5. GroupFrom(s, g, F[s]) = [t \in 1..Ratio |-> supplied'[s][g * Ratio + t]]
        BY <3>4 DEF GroupFrom
      <3> QED BY <1>5, <3>2, <3>5
    <2> QED BY <1>2, <2>0, <2>1, <2>2, <2>3
  <1> QED BY <1>2, <1>8, <1>9

\* A launch of such intervals keeps the inductive invariant, wherever it stops.
LEMMA LaunchKeepsInvariant ==
    ASSUME PagedInv,
           NEW batch, NEW A, NEW F, NEW N, NEW P, NEW n,
           Intervals(A, F, N, P), Extends(batch, A, F, N, P, n)
    PROVE PagedInv'
  <1>1. ShapeInv /\ AnchorInv /\ SharingInv /\ RingInv /\ TailInv /\ KeysHeld /\ GroupsHeld
    BY CacheParts DEF PagedInv
  <1>2. ShapeInv' /\ AnchorInv' /\ SharingInv'
    BY <1>1, LaunchKeepsShape
  <1>3. RingInv'
    BY <1>1, LaunchKeepsRing
  <1>4. TailInv'
    BY <1>1, LaunchKeepsTail
  <1>5. KeysHeld'
    BY <1>1, LaunchKeepsKeys
  <1>6. GroupsHeld'
    BY <1>1, LaunchKeepsGroups
  <1>7. CacheHoldsSequence'
    BY <1>5, <1>6 DEF CacheHoldsSequence, KeysHeld, GroupsHeld
  <1> QED BY <1>2, <1>3, <1>4, <1>7 DEF PagedInv

\* Ring, anchor and pages of a sequence that is not extended.
LEMMA OthersKept ==
    ASSUME PagedInv,
           NEW batch, NEW A, NEW F, NEW N, NEW P, NEW n,
           Intervals(A, F, N, P), Extends(batch, A, F, N, P, n),
           NEW s \in Running, s \notin A
    PROVE /\ ring'[s] = ring[s] /\ tags'[s] = tags[s] /\ anchors'[s] = anchors[s]
          /\ \A i \in 1..TableWidth :
               keys'[tables[s][i]] = keys[tables[s][i]] /\ pooled'[tables[s][i]] = pooled[tables[s][i]]
  <1>1. ShapeInv /\ AnchorInv /\ SharingInv /\ s \in Slots
    BY RunningTables DEF PagedInv
  <1>2. ring'[s] = ring[s] /\ tags'[s] = tags[s] /\ anchors'[s] = anchors[s]
    BY <1>1, RingAfter, AnchorsAfter
  <1>3. ASSUME NEW i \in 1..TableWidth
        PROVE keys'[tables[s][i]] = keys[tables[s][i]] /\ pooled'[tables[s][i]] = pooled[tables[s][i]]
    <2> DEFINE p == tables[s][i]
    <2>1. p \in Pages
      BY <1>1, RunningTables DEF Tables
    <2>2. ASSUME NEW t \in A, NEW pos \in Span(A, F, N, t), Cell(tables[t], pos)[1] = p
          PROVE FALSE
      <3>1. t \in Running /\ t # s /\ pos \in Positions /\ pos >= Resumes(t) /\ tables[t] \in Tables
        BY <1>1, RowsAre, RunningTables
      <3>2. Cell(tables[t], pos)[1] = tables[t][Logical(pos)] /\ Logical(pos) \in 1..TableWidth
        BY <3>1, CellPlaced, Placed
      <3>3. Logical(pos) = 1 /\ Resumes(t) >= PageSize
        BY <1>1, <2>2, <3>1, <3>2 DEF SharingInv
      <3>4. pos < PageSize /\ pos \in Nat /\ PageSize \in Nat /\ Resumes(t) \in Nat
        BY <1>1, <3>1, <3>3, Placed, ResumesFrom, Sizes
      <3> QED BY <3>1, <3>3, <3>4
    <2> HIDE DEF p
    <2>3. \A t \in A : \A pos \in Span(A, F, N, t) : Cell(tables[t], pos)[1] # p
      BY <2>2
    <2>4. keys'[p] = keys[p] /\ pooled'[p] = pooled[p]
      BY <1>1, <2>1, <2>3, KeysAfter, PooledAfter
    <2> QED BY <2>4 DEF p
  <1> QED BY <1>2, <1>3

-----------------------------------------------------------------------------
(***************************************************************************)
(* What the caller asks for.                                               *)
(***************************************************************************)

\* The rows of q are `count` rows of its sequence from `first` on, then padding.
Holds(q, first, count) ==
    /\ \E k \in Nat : DOMAIN q.rows = 1..k /\ count <= k
    /\ \A i \in DOMAIN q.rows :
         q.rows[i] = IF i <= count
                     THEN [pos |-> first + i - 1, cell |-> Cell(tables[q.slot], first + i - 1)]
                     ELSE None

Genuine(q) ==
    /\ q.slot \in Running /\ q.main = tables[q.slot] /\ q.compressed = tables[q.slot]
    /\ q.prefilling \in BOOLEAN
    /\ First(q) \in Nat /\ Count(q) \in Nat \ {0} /\ Holds(q, First(q), Count(q))
    /\ Resumes(q.slot) <= First(q) /\ First(q) <= Len(supplied[q.slot])
    /\ First(q) + Count(q) <= Capacity
    /\ q.prefilling \/ Count(q) <= MaxAccepted + 1

\* A row of a sequence is not the absent one.
LEMMA RowsPresent ==
    ASSUME ShapeInv, NEW s \in Running, NEW pos \in Positions
    PROVE [pos |-> pos, cell |-> Cell(tables[s], pos)] # None
  <1>1. Cell(tables[s], pos) = <<Cell(tables[s], pos)[1], Cell(tables[s], pos)[2]>>
        /\ Cell(tables[s], pos)[1] \in Pages /\ Cell(tables[s], pos)[2] \in Offsets
    BY RunningTables, CellPlaced
  <1> QED BY <1>1, NoneIsNone DEF Positions, Capacity, Offsets

\* First and Count of such rows.
LEMMA HoldsFirst ==
    ASSUME ShapeInv, NEW q, q.slot \in Running, NEW first \in Nat, NEW count \in Nat \ {0},
           first + count <= Capacity, Holds(q, first, count)
    PROVE /\ First(q) = first /\ Count(q) = count
          /\ \A i \in 1..count : q.rows[i] # None /\ i \in DOMAIN q.rows
                                 /\ q.rows[i].pos = first + i - 1
                                 /\ q.rows[i].cell = Cell(tables[q.slot], first + i - 1)
          /\ {i \in DOMAIN q.rows : q.rows[i] # None} = 1..count
  <1>1. PICK k \in Nat : DOMAIN q.rows = 1..k /\ count <= k
    BY DEF Holds
  <1>2. \A i \in 1..count : i \in DOMAIN q.rows /\ first + i - 1 \in Positions
    BY <1>1, Sizes DEF Positions
  <1> DEFINE row(i) == [pos |-> first + i - 1, cell |-> Cell(tables[q.slot], first + i - 1)]
  <1>0. \A i \in DOMAIN q.rows : q.rows[i] = IF i <= count THEN row(i) ELSE None
    BY DEF Holds
  <1>9. \A i : row(i).pos = first + i - 1 /\ row(i).cell = Cell(tables[q.slot], first + i - 1)
    OBVIOUS
  <1>10. \A i \in 1..count : row(i) # None
    BY <1>2, RowsPresent
  <1> HIDE DEF row
  <1>3. \A i \in 1..count : q.rows[i] = row(i)
    BY <1>0, <1>2
  <1>4. \A i \in 1..count : q.rows[i] # None
    BY <1>3, <1>10
  <1>5. \A i \in DOMAIN q.rows : ~(i \in 1..count) => q.rows[i] = None
    BY <1>0, <1>1
  <1>6. {i \in DOMAIN q.rows : q.rows[i] # None} = 1..count
    BY <1>2, <1>4, <1>5
  <1>7. Count(q) = count
    <2>1. Cardinality(1..count) = count
      BY FS_Interval
    <2> QED BY <1>6, <2>1 DEF Count
  <1>8. First(q) = first
    <2>1. 1 \in 1..count /\ first + 1 - 1 = first
      OBVIOUS
    <2>2. q.rows[1].pos = first + 1 - 1
      BY <1>3, <1>9, <2>1
    <2> QED BY <2>1, <2>2 DEF First
  <1>11. \A i \in 1..count : /\ q.rows[i].pos = first + i - 1
                              /\ q.rows[i].cell = Cell(tables[q.slot], first + i - 1)
    BY <1>3, <1>9
  <1> QED BY <1>2, <1>4, <1>6, <1>7, <1>8, <1>11

\* What a genuine request contributes to a launch.
LEMMA GenuineRows ==
    ASSUME ShapeInv, NEW q, Genuine(q)
    PROVE {Row(q, i) : i \in {i \in DOMAIN q.rows : q.rows[i] # None}}
            = {RowOf(q.slot, pos, First(q), Count(q)) : pos \in First(q)..First(q) + Count(q) - 1}
  <1> DEFINE first == First(q)
             count == Count(q)
  <1>1. /\ q.slot \in Running /\ q.compressed = tables[q.slot]
        /\ first \in Nat /\ count \in Nat \ {0} /\ Holds(q, first, count) /\ first + count <= Capacity
    BY DEF Genuine
  <1>2. First(q) = first /\ Count(q) = count
    OBVIOUS
  <1> HIDE DEF first, count
  <1>3. /\ \A i \in 1..count : /\ q.rows[i].pos = first + i - 1
                               /\ q.rows[i].cell = Cell(tables[q.slot], first + i - 1)
        /\ {i \in DOMAIN q.rows : q.rows[i] # None} = 1..count
    BY <1>1, HoldsFirst
  <1>4. ASSUME NEW i \in 1..count PROVE Row(q, i) = RowOf(q.slot, first + i - 1, first, count)
    <2> DEFINE pos == first + i - 1
    <2>1. q.rows[i].pos = pos /\ q.rows[i].cell = Cell(tables[q.slot], pos)
      BY <1>3
    <2>2. (i > count - RingSize) = (pos - first + 1 > count - RingSize)
      <3>1. pos - first + 1 = i
        BY <1>1
      <3> QED BY <3>1
    <2>3. Kept(q, i) = (pos - first + 1 > count - RingSize)
      BY <1>2, <2>2 DEF Kept
    <2> HIDE DEF pos
    <2>4. Row(q, i) = RowOf(q.slot, pos, first, count)
      BY <1>1, <1>2, <2>1, <2>3, Zenon DEF Row, RowOf
    <2> QED BY <2>4 DEF pos
  <1>5. \A pos \in first..first + count - 1 : pos - first + 1 \in 1..count
                                              /\ first + (pos - first + 1) - 1 = pos
    BY <1>1
  <1>6. \A i \in 1..count : first + i - 1 \in first..first + count - 1
    BY <1>1
  <1>7. {Row(q, i) : i \in 1..count} = {RowOf(q.slot, pos, first, count) : pos \in first..first + count - 1}
    <2>1. \A i \in 1..count :
            Row(q, i) \in {RowOf(q.slot, pos, first, count) : pos \in first..first + count - 1}
      BY <1>4, <1>6
    <2>2. ASSUME NEW pos \in first..first + count - 1
          PROVE RowOf(q.slot, pos, first, count) \in {Row(q, i) : i \in 1..count}
      <3>1. RowOf(q.slot, pos, first, count) = Row(q, pos - first + 1)
        BY <1>4, <1>5
      <3> QED BY <1>5, <3>1
    <2> QED BY <2>1, <2>2
  <1> QED BY <1>2, <1>3, <1>7

\* A launch whose admitted requests are genuine extends their sequences.
LEMMA LaunchExtends ==
    ASSUME ShapeInv, AnchorInv, NEW batch, NEW n \in 1..Kernels, NEW honest,
           \A r \in Requests : Nonempty(batch[r]) /\ Admitted(batch, r) => Genuine(batch[r]),
           Launch(batch, n, honest), launches' = launches + 1, tables' = tables
    PROVE \E A, F, N, P : /\ Intervals(A, F, N, P) /\ Extends(batch, A, F, N, P, n)
                          /\ last'.admitted = A
  <1> DEFINE Good == {r \in Requests \ Errors(batch) : Nonempty(batch[r])}
             A == {batch[r].slot : r \in Good}
             Owner(s) == CHOOSE r \in Good : batch[r].slot = s
             F == [s \in A |-> First(batch[Owner(s)])]
             N == [s \in A |-> Count(batch[Owner(s)])]
             P == [s \in A |-> batch[Owner(s)].prefilling]
             active == Active(batch, Errors(batch))
  <1>1. \A r \in Good : /\ r \in Requests /\ Nonempty(batch[r]) /\ Admitted(batch, r)
                        /\ Genuine(batch[r])
    BY DEF Errors
  <1>2. \A r \in Good : \A other \in Requests : Nonempty(batch[other]) /\ batch[other].slot = batch[r].slot
                                                => other = r
    BY <1>1 DEF Admitted
  <1>3. \A s \in A : Owner(s) \in Good /\ batch[Owner(s)].slot = s
    OBVIOUS
  <1>4. \A r \in Good : batch[r].slot \in A /\ Owner(batch[r].slot) = r
    <2>1. SUFFICES ASSUME NEW r \in Good PROVE batch[r].slot \in A /\ Owner(batch[r].slot) = r
      OBVIOUS
    <2>2. batch[r].slot \in A
      OBVIOUS
    <2>3. Owner(batch[r].slot) \in Good /\ batch[Owner(batch[r].slot)].slot = batch[r].slot
      BY <1>3, <2>2
    <2> HIDE DEF Good, Owner
    <2> QED BY <1>1, <1>2, <2>2, <2>3
  <1>5. \A s \in A : F[s] = First(batch[Owner(s)]) /\ N[s] = Count(batch[Owner(s)])
                     /\ P[s] = batch[Owner(s)].prefilling
    OBVIOUS
  <1>6. Intervals(A, F, N, P)
    <2>1. \A s \in A : Genuine(batch[Owner(s)]) /\ batch[Owner(s)].slot = s
      BY <1>1, <1>3
    <2>2. F = [s \in A |-> F[s]] /\ N = [s \in A |-> N[s]] /\ P = [s \in A |-> P[s]]
      OBVIOUS
    <2> HIDE DEF A, F, N, P, Owner
    <2>3. A \subseteq Running
      BY <2>1 DEF Genuine
    <2>4. \A s \in A : F[s] \in Nat /\ N[s] \in Nat \ {0}
      BY <1>5, <2>1 DEF Genuine
    <2>5. \A s \in A : P[s] \in BOOLEAN
      BY <1>5, <2>1, Zenon DEF Genuine
    <2>6. \A s \in A : Resumes(s) <= F[s] /\ F[s] <= Len(supplied[s]) /\ F[s] + N[s] <= Capacity
      BY <1>5, <2>1 DEF Genuine
    <2>7. \A s \in A : P[s] \/ N[s] <= MaxAccepted + 1
      BY <1>5, <2>1 DEF Genuine
    <2>8. F \in [A -> Nat] /\ N \in [A -> Nat \ {0}]
      BY <2>2, <2>4
    <2>9. P \in [A -> BOOLEAN]
      BY <2>2, <2>5
    <2> QED BY <2>3, <2>6, <2>7, <2>8, <2>9 DEF Intervals
  <1>7. active = RowsOf(A, F, N)
    <2> DEFINE of(r) == {Row(batch[r], i) : i \in {i \in DOMAIN batch[r].rows : batch[r].rows[i] # None}}
               span(s) == {RowOf(s, pos, F[s], N[s]) : pos \in F[s]..F[s] + N[s] - 1}
    <2>1. active = UNION {of(r) : r \in Good}
      BY DEF Active
    <2>2. \A r \in Good : of(r) = span(batch[r].slot)
      <3>1. SUFFICES ASSUME NEW r \in Good PROVE of(r) = span(batch[r].slot)
        OBVIOUS
      <3>2. of(r) = {RowOf(batch[r].slot, pos, First(batch[r]), Count(batch[r])) :
                       pos \in First(batch[r])..First(batch[r]) + Count(batch[r]) - 1}
        BY <1>1, GenuineRows
      <3>3. F[batch[r].slot] = First(batch[r]) /\ N[batch[r].slot] = Count(batch[r])
        BY <1>4, <1>5
      <3> HIDE DEF of, F, N
      <3> QED BY <3>2, <3>3
    <2>3. RowsOf(A, F, N) = UNION {span(s) : s \in A}
      BY DEF RowsOf
    <2> HIDE DEF of, span, active, F, N, Owner
    <2>4. {of(r) : r \in Good} = {span(s) : s \in A}
      BY <2>2
    <2> QED BY <2>1, <2>3, <2>4
  <1>8. \A s \in A : Prefills(batch, s) = P[s]
    <2>1. SUFFICES ASSUME NEW s \in A PROVE Prefills(batch, s) = P[s]
      OBVIOUS
    <2> DEFINE r == Owner(s)
    <2>2. r \in Good /\ batch[r].slot = s /\ P[s] = batch[r].prefilling
      BY <1>3, <1>5
    <2> HIDE DEF r, P, Good
    <2>3. r \in Requests /\ Nonempty(batch[r]) /\ batch[r].prefilling \in BOOLEAN
      BY <1>1, <2>2 DEF Genuine
    <2>4. \A other \in Requests : Nonempty(batch[other]) /\ batch[other].slot = s => other = r
      BY <1>2, <2>2
    <2>5. Prefills(batch, s) <=> batch[r].prefilling
      BY <2>2, <2>3, <2>4, Zenon DEF Prefills
    <2>6. Prefills(batch, s) \in BOOLEAN
      BY Zenon DEF Prefills
    <2> QED BY <2>2, <2>3, <2>5, <2>6, Zenon
  <1>9. last'.admitted = A
    <2>1. last'.admitted = {row.slot : row \in active}
      BY DEF Launch
    <2>2. \A row \in active : row.slot \in A
      BY <1>6, <1>7, RowsAre
    <2>3. \A s \in A : \E row \in active : row.slot = s
      <3>1. SUFFICES ASSUME NEW s \in A PROVE \E row \in active : row.slot = s
        OBVIOUS
      <3> HIDE DEF A, F, N, P, active
      <3>2. F[s] \in Nat /\ N[s] \in Nat /\ N[s] >= 1
        BY <1>6, RowsAre
      <3>3. F[s] \in Span(A, F, N, s)
        BY <3>2 DEF Span
      <3>4. RowOf(s, F[s], F[s], N[s]) \in RowsOf(A, F, N)
        BY <1>6, <3>3, RowsAre
      <3> QED BY <1>7, <3>4, RowFields
    <2> HIDE DEF A, active
    <2> QED BY <2>1, <2>2, <2>3
  <1>10. Extends(batch, A, F, N, P, n)
    <2>1. /\ keys' = Ran(batch, active, n).keys /\ pooled' = Ran(batch, active, n).pooled
          /\ ring' = Ran(batch, active, n).ring /\ tags' = Ran(batch, active, n).tags
          /\ anchors' = Ran(batch, active, n).anchors
          /\ supplied' = [s \in Slots |-> Sequence(active, n, s)]
          /\ verified' = [s \in Slots |-> IF n >= 5 /\ \E row \in active : row.slot = s
                                          THEN ~Prefills(batch, s) ELSE verified[s]]
      BY DEF Launch
    <2> HIDE DEF A, F, N, P, active
    <2> QED BY <1>7, <1>8, <2>1 DEF Extends
  <1> HIDE DEF A, F, N, P
  <1> QED BY <1>6, <1>9, <1>10

-----------------------------------------------------------------------------
(***************************************************************************)
(* The requests of a caller that is right are genuine; so are those of one *)
(* that is wrong, as far as they are admitted.                             *)
(***************************************************************************)

Fields == {"slot", "rows", "length", "accepted", "prefilling", "main", "compressed"}
Asked(q) ==
    /\ DOMAIN q = Fields
    /\ \E k \in Nat : q.rows = [i \in 1..k |-> q.rows[i]] /\ Count(q) <= k
    /\ Genuine(q)
    /\ First(q) = anchors[q.slot] + q.accepted /\ q.accepted \in Nat
    /\ verified[q.slot] \/ q.accepted = 1
    /\ q.length \in Nat /\ First(q) + Count(q) <= q.length /\ q.length <= Capacity
    /\ \A i \in DOMAIN q.rows : i > Count(q) => First(q) + i - 1 >= q.length

\* What the caller asks for: an interval of its own sequence, from where it may
\* resume, that fits.
LEMMA RequestedAreAsked ==
    ASSUME ShapeInv, AnchorInv, NEW accepts \in SUBSET Nat,
           NEW shapes \in SUBSET (Shapes \union Companions),
           NEW q \in Requested(accepts, shapes), Nonempty(q)
    PROVE Asked(q)
  <1>1. PICK s \in Running, a \in accepts, shape \in shapes : q = Request(s, a, shape) /\ Askable(q)
    BY DEF Requested
  <1> DEFINE first == anchors[s] + a
             count == shape.rows
  <1>2. /\ count \in Nat /\ shape.pad \in Nat /\ shape.surplus \in Nat /\ shape.prefilling \in BOOLEAN
        /\ shape.pad = 0 \/ shape.surplus = 0
        /\ shape.prefilling \/ count <= MaxAccepted + 1
    BY IntervalsFit
  <1>3. /\ q.slot = s /\ q.rows = Rows(tables[s], first, shape) /\ q.length = first + count + shape.surplus
        /\ q.accepted = a /\ q.prefilling = shape.prefilling
        /\ q.main = tables[s] /\ q.compressed = tables[s]
    BY <1>1 DEF Request
  <1>4. s \in Slots /\ a \in Nat /\ anchors[s] \in Int /\ verified[s] \in BOOLEAN /\ anchors[s] >= -1
        /\ (verified[s] => anchors[s] >= 0) /\ Len(supplied[s]) \in Nat
    BY RunningTables, ResumesFrom DEF ShapeInv, AnchorInv
  <1>5. first \in Int
    BY <1>4
  <1> HIDE DEF first, count
  <1>6. DOMAIN q.rows = 1..count + shape.pad
        /\ \A i \in 1..count + shape.pad : q.rows[i] =
             IF i > count THEN None ELSE [pos |-> first + i - 1, cell |-> Cell(tables[s], first + i - 1)]
    BY <1>3 DEF Rows, count
  <1>7. count >= 1
    <2>1. SUFFICES ASSUME count = 0 PROVE FALSE
      BY <1>2
    <2>2. q.rows # <<>> /\ q.rows[1] # None
      BY DEF Nonempty
    <2>3. shape.pad # 0
      <3>1. SUFFICES ASSUME shape.pad = 0 PROVE FALSE
        OBVIOUS
      <3>2. q.rows = <<>>
        <4>1. q.rows = [i \in 1..0 |-> None]
          BY <1>3, <2>1, <3>1 DEF Rows, count
        <4> QED BY <4>1
      <3> QED BY <2>2, <3>2
    <2>4. 1 \in 1..count + shape.pad /\ 1 > count
      BY <1>2, <2>1, <2>3
    <2> QED BY <1>6, <2>2, <2>4
  <1>8. First(q) = first
    <2>1. 1 \in 1..count + shape.pad /\ ~(1 > count) /\ first + 1 - 1 = first
      BY <1>2, <1>5, <1>7
    <2>2. q.rows[1] = [pos |-> first + 1 - 1, cell |-> Cell(tables[s], first + 1 - 1)]
      BY <1>6, <2>1
    <2> QED BY <2>1, <2>2 DEF First
  <1>9. verified[s] \/ a = 1
    BY <1>1, <1>3 DEF Askable
  <1>10. Resumes(s) <= first /\ Resumes(s) \in Nat
    <2>1. CASE verified[s]
      BY <1>4, <2>1 DEF Resumes, first
    <2>2. CASE ~verified[s]
      BY <1>4, <1>9, <2>2 DEF Resumes, first
    <2> QED BY <2>1, <2>2
  <1>11. first \in Nat /\ first <= Len(supplied[s]) /\ q.length <= Capacity
    <2>1. First(q) <= Len(supplied[q.slot]) /\ q.length <= TableWidth * PageSize
      BY <1>1 DEF Askable
    <2> QED BY <1>3, <1>5, <1>8, <1>10, <2>1 DEF Capacity
  <1>12. first + count <= q.length /\ q.length \in Nat /\ first + count <= Capacity
    BY <1>2, <1>3, <1>11, Sizes
  <1>13. Holds(q, first, count)
    <2>1. count + shape.pad \in Nat /\ count <= count + shape.pad
      BY <1>2
    <2>2. \A i \in DOMAIN q.rows : q.rows[i] = IF i <= count
             THEN [pos |-> first + i - 1, cell |-> Cell(tables[q.slot], first + i - 1)] ELSE None
      <3>1. SUFFICES ASSUME NEW i \in 1..count + shape.pad
                     PROVE q.rows[i] = IF i <= count
                        THEN [pos |-> first + i - 1, cell |-> Cell(tables[q.slot], first + i - 1)] ELSE None
        BY <1>6
      <3>2. (i > count) <=> ~(i <= count)
        BY <1>2
      <3> QED BY <1>3, <1>6, <3>2
    <2> QED BY <1>6, <2>1, <2>2 DEF Holds
  <1>14. Count(q) = count
    <2>1. count \in Nat \ {0}
      BY <1>2, <1>7
    <2> QED BY <1>3, <1>11, <1>12, <1>13, <2>1, HoldsFirst
  <1>15. \A i \in DOMAIN q.rows : i > count => first + i - 1 >= q.length
    <2>1. SUFFICES ASSUME NEW i \in 1..count + shape.pad, i > count PROVE first + i - 1 >= q.length
      BY <1>6
    <2>2. shape.surplus = 0
      BY <1>2, <2>1
    <2> QED BY <1>2, <1>3, <1>11, <2>1, <2>2
  <1>16. Genuine(q)
    BY <1>2, <1>3, <1>7, <1>8, <1>10, <1>11, <1>12, <1>13, <1>14 DEF Genuine
  <1>17. First(q) = anchors[q.slot] + q.accepted
    BY <1>3, <1>8 DEF first
  <1>18. DOMAIN q = Fields
    BY <1>1 DEF Request, Fields
  <1>19. \E k \in Nat : q.rows = [i \in 1..k |-> q.rows[i]] /\ Count(q) <= k
    <2>1. count + shape.pad \in Nat /\ count <= count + shape.pad
      BY <1>2
    <2>2. q.rows = [i \in 1..count + shape.pad |-> q.rows[i]]
      <3>1. q.rows = Rows(tables[s], first, shape)
        BY <1>3
      <3> QED BY <3>1 DEF Rows, count
    <2> QED BY <1>14, <2>1, <2>2
  <1> QED BY <1>3, <1>4, <1>8, <1>9, <1>11, <1>12, <1>14, <1>15, <1>16, <1>17, <1>18, <1>19 DEF Asked

\* Of a batch, whoever is not empty was asked for.
LEMMA BatchesAreAsked ==
    ASSUME ShapeInv, AnchorInv, NEW batch \in Batches, NEW r \in Requests, Nonempty(batch[r])
    PROVE Asked(batch[r])
  <1>1. /\ Accepts \in SUBSET Nat /\ {1} \in SUBSET Nat
        /\ Shapes \in SUBSET (Shapes \union Companions)
        /\ Companions \in SUBSET (Shapes \union Companions)
    BY IntervalsFit
  <1>2. PICK q \in Requested(Accepts, Shapes), other \in Requested({1}, Companions) \union Inactive :
          batch = [o \in Requests |-> IF o = 1 THEN q ELSE other]
    BY DEF Batches
  <1>3. \A i \in Inactive : i.rows = <<>>
    BY DEF Inactive
  <1>4. batch[r] \in Requested(Accepts, Shapes) \/ batch[r] \in Requested({1}, Companions)
    BY <1>2, <1>3 DEF Nonempty
  <1>5. CASE batch[r] \in Requested(Accepts, Shapes)
    BY <1>1, <1>5, RequestedAreAsked
  <1>6. CASE batch[r] \in Requested({1}, Companions)
    BY <1>1, <1>6, RequestedAreAsked
  <1> QED BY <1>4, <1>5, <1>6

\* The pages of a length: those of its positions, all in the table.
LEMMA VisiblePages ==
    ASSUME NEW q, q.length \in Nat, q.length <= Capacity
    PROVE /\ Visible(q) \subseteq 1..TableWidth
          /\ \A pos \in Nat : pos < q.length => Logical(pos) \in Visible(q)
  <1> DEFINE len == q.length
             top == (len + PageSize - 1) \div PageSize
  <1>0. /\ PageSize \in Nat \ {0} /\ TableWidth \in Nat \ {0} /\ len \in Nat
        /\ len <= TableWidth * PageSize
    BY Sizes DEF Capacity
  <1>1. Visible(q) = 1..top
    BY DEF Visible
  <1> HIDE DEF len
  <1>2. /\ top \in Int
        /\ len + PageSize - 1 = PageSize * top + ((len + PageSize - 1) % PageSize)
        /\ (len + PageSize - 1) % PageSize \in 0..PageSize - 1
    <2>1. len + PageSize - 1 \in Int
      BY <1>0
    <2> QED BY <1>0, <2>1, DivMod
  <1> HIDE DEF top
  <1>3. top <= TableWidth
    <2>1. SUFFICES ASSUME top >= TableWidth + 1 PROVE FALSE
      BY <1>0, <1>2
    <2>2. PageSize * top >= PageSize * (TableWidth + 1)
      BY <1>0, <1>2, <2>1
    <2>3. PageSize * (TableWidth + 1) = TableWidth * PageSize + PageSize /\ TableWidth * PageSize \in Nat
      BY <1>0
    <2> QED BY <1>0, <1>2, <2>2, <2>3
  <1>4. ASSUME NEW pos \in Nat, pos < len PROVE Logical(pos) \in 1..top
    <2> DEFINE d == pos \div PageSize
    <2>1. pos = PageSize * d + (pos % PageSize) /\ pos % PageSize \in 0..PageSize - 1 /\ d \in Int
      BY <1>0, DivMod
    <2>2. Logical(pos) = d + 1
      BY DEF Logical
    <2> HIDE DEF d
    <2>3. d >= 0
      <3>1. SUFFICES ASSUME d <= -1 PROVE FALSE
        BY <2>1
      <3>2. PageSize * d <= PageSize * (-1)
        BY <3>1, <1>0, <2>1
      <3> QED BY <3>2, <1>0, <2>1
    <2>4. d + 1 <= top
      <3>1. SUFFICES ASSUME top <= d PROVE FALSE
        BY <1>2, <2>1
      <3>2. PageSize * top <= PageSize * d
        BY <3>1, <1>0, <1>2, <2>1
      <3> QED BY <3>2, <1>0, <1>2, <1>4, <2>1
    <2> QED BY <1>2, <2>1, <2>2, <2>3, <2>4
  <1> QED BY <1>0, <1>1, <1>2, <1>3, <1>4 DEF len

\* What is known of what was asked for, and of what a wrong caller makes of it.
LEMMA AskedFields ==
    ASSUME ShapeInv, AnchorInv, NEW q, Asked(q)
    PROVE /\ q.slot \in Running /\ tables[q.slot] \in Tables
          /\ q.main = tables[q.slot] /\ q.compressed = tables[q.slot]
          /\ First(q) \in Nat /\ Count(q) \in Nat \ {0}
          /\ First(q) + Count(q) <= q.length /\ q.length \in Nat /\ q.length <= Capacity
          /\ \A i \in 1..Count(q) : /\ q.rows[i] # None /\ i \in DOMAIN q.rows
                                    /\ q.rows[i].pos = First(q) + i - 1
                                    /\ q.rows[i].cell = Cell(tables[q.slot], First(q) + i - 1)
                                    /\ First(q) + i - 1 \in Positions
          /\ {i \in DOMAIN q.rows : q.rows[i] # None} = 1..Count(q)
          /\ \E k \in Nat : q.rows = [i \in 1..k |-> q.rows[i]] /\ Len(q.rows) = k
                            /\ DOMAIN q.rows = 1..k /\ Count(q) <= k
  <1>1. Genuine(q) /\ q.length \in Nat /\ q.length <= Capacity /\ First(q) + Count(q) <= q.length
    BY DEF Asked
  <1>2. /\ q.slot \in Running /\ q.main = tables[q.slot] /\ q.compressed = tables[q.slot]
        /\ First(q) \in Nat /\ Count(q) \in Nat \ {0} /\ Holds(q, First(q), Count(q))
        /\ First(q) + Count(q) <= Capacity
    BY <1>1 DEF Genuine
  <1>3. /\ \A i \in 1..Count(q) : q.rows[i] # None /\ i \in DOMAIN q.rows
                                  /\ q.rows[i].pos = First(q) + i - 1
                                  /\ q.rows[i].cell = Cell(tables[q.slot], First(q) + i - 1)
        /\ {i \in DOMAIN q.rows : q.rows[i] # None} = 1..Count(q)
    BY <1>2, HoldsFirst
  <1>4. \E k \in Nat : q.rows = [i \in 1..k |-> q.rows[i]] /\ Len(q.rows) = k
                       /\ DOMAIN q.rows = 1..k /\ Count(q) <= k
    <2>1. PICK k \in Nat : q.rows = [i \in 1..k |-> q.rows[i]] /\ Count(q) <= k
      BY DEF Asked
    <2>2. DOMAIN q.rows = 1..k /\ Len(q.rows) = k
      BY <2>1
    <2> QED BY <2>1, <2>2
  <1>5. \A i \in 1..Count(q) : First(q) + i - 1 \in Positions
    BY <1>2, Sizes DEF Positions
  <1> QED BY <1>1, <1>2, <1>3, <1>4, <1>5, RunningTables

Repaged(table, page, p) == [table EXCEPT ![page] = p]

\* A request whose last page is nobody's, or one that it or another request has
\* at another place, is refused.
LEMMA WrongPage ==
    ASSUME ShapeInv, AnchorInv, NEW batch, NEW b2, NEW r \in Requests,
           \A o \in Requests : Nonempty(batch[o]) => Asked(batch[o]),
           \A o \in Requests \ {r} : b2[o] = batch[o],
           Nonempty(batch[r]),
           First(b2[r]) = First(batch[r]), b2[r].length = batch[r].length,
           NEW page, page = Logical(First(batch[r]) + Count(batch[r]) - 1),
           NEW p, p # tables[batch[r].slot][page],
           p = None \/ \E o \in Requests : \E l \in Visible(batch[o]) :
                          Nonempty(batch[o]) /\ p = tables[batch[o].slot][l],
           \/ /\ b2[r].main = Repaged(tables[batch[r].slot], page, p)
              /\ b2[r].compressed = tables[batch[r].slot]
           \/ /\ b2[r].compressed = Repaged(tables[batch[r].slot], page, p)
              /\ b2[r].main = tables[batch[r].slot],
           Admitted(b2, r)
    PROVE FALSE
  <1> DEFINE q == batch[r]
             w == b2[r]
             T == tables[q.slot]
             first == First(q)
             U == [T EXCEPT ![page] = p]
  <1>1. Asked(q) /\ Nonempty(q)
    OBVIOUS
  <1>2. /\ T \in Tables /\ first \in Nat /\ Count(q) \in Nat \ {0}
        /\ first + Count(q) <= q.length /\ q.length \in Nat /\ q.length <= Capacity
    BY <1>1, AskedFields
  <1>3. w.length = q.length /\ First(w) = first
    OBVIOUS
  <1>4. T \in [1..TableWidth -> Pages] /\ Len(T) = TableWidth
    BY <1>2, Sizes DEF Tables
  <1>5. \/ w.main = U /\ w.compressed = T
        \/ w.compressed = U /\ w.main = T
    BY DEF Repaged
  <1>6. page \in Visible(q) /\ page \in 1..TableWidth /\ page >= Logical(first) /\ Visible(w) = Visible(q)
    <2> DEFINE pos == first + Count(q) - 1
    <2>1. pos \in Nat /\ pos < q.length /\ first \in Int /\ pos \in Int /\ first <= pos
      BY <1>2
    <2>2. page = Logical(pos)
      OBVIOUS
    <2>3. Visible(w) = Visible(q)
      BY <1>3 DEF Visible
    <2> HIDE DEF pos, q
    <2>4. page \in Visible(q) /\ Visible(q) \subseteq 1..TableWidth
      BY <1>2, <2>1, <2>2, VisiblePages
    <2>5. first \div PageSize <= pos \div PageSize
      BY <2>1, Sizes, DivMono
    <2>6. pos \div PageSize \in Int /\ first \div PageSize \in Int
      BY <2>1, Sizes, DivMod
    <2>7. page >= Logical(first)
      BY <2>2, <2>5, <2>6 DEF Logical
    <2> QED BY <2>3, <2>4, <2>7
  <1>7. U = [i \in 1..TableWidth |-> IF i = page THEN p ELSE T[i]] /\ Len(U) = TableWidth
    BY <1>4, Sizes
  <1>8. /\ \A l \in 1..TableWidth : Physical(T, l) = T[l] /\ Physical(U, l) = U[l]
        /\ U[page] = p /\ \A l \in 1..TableWidth : l # page => U[l] = T[l]
    BY <1>4, <1>6, <1>7 DEF Physical
  <1>9. Visible(q) \subseteq 1..TableWidth
    BY <1>2, VisiblePages
  <1>10. PagesPresent(w) /\ Exclusive(b2, r)
    BY DEF Admitted
  <1>11. p # None
    <2>1. Physical(w.main, page) \in Pages /\ Physical(w.compressed, page) \in Pages
      BY <1>6, <1>10 DEF PagesPresent
    <2>2. p \in Pages
      BY <1>5, <1>6, <1>8, <2>1
    <2> QED BY <2>2, NoneIsNone
  <1>12. PICK o \in Requests : \E l \in Visible(batch[o]) :
            Nonempty(batch[o]) /\ p = tables[batch[o].slot][l]
    BY <1>11
  <1>13. PICK l \in Visible(batch[o]) : Nonempty(batch[o]) /\ p = tables[batch[o].slot][l]
    BY <1>12
  <1>14. \A other \in {x \in Requests : x = r \/ Nonempty(b2[x])} :
           \A seen \in Visible(b2[other]) \ (IF other = r THEN {page} ELSE {}) :
             /\ w.main[page] # Physical(b2[other].main, seen)
             /\ w.compressed[page] # Physical(b2[other].compressed, seen)
    BY <1>3, <1>6, <1>10 DEF Exclusive
  <1>15. w.main[page] = p \/ w.compressed[page] = p
    BY <1>5, <1>8
  <1>16. CASE o = r
    <2>1. l # page
      BY <1>13, <1>16
    <2>2. l \in Visible(b2[r]) \ (IF r = r THEN {page} ELSE {}) /\ l \in 1..TableWidth
      BY <1>6, <1>9, <1>13, <1>16, <2>1
    <2>3. w.main[page] # Physical(w.main, l) /\ w.compressed[page] # Physical(w.compressed, l)
      BY <1>14, <2>2
    <2>4. Physical(w.main, l) = T[l] /\ Physical(w.compressed, l) = T[l] /\ p = T[l]
      BY <1>5, <1>8, <1>13, <1>16, <2>1, <2>2
    <2> QED BY <1>15, <2>3, <2>4
  <1>17. CASE o # r
    <2> DEFINE x == batch[o]
    <2>1. b2[o] = x /\ Nonempty(x) /\ Asked(x)
      BY <1>13, <1>17
    <2>2. /\ x.main = tables[x.slot] /\ x.compressed = tables[x.slot] /\ tables[x.slot] \in Tables
          /\ x.length \in Nat /\ x.length <= Capacity
      BY <2>1, AskedFields
    <2>3. p = tables[x.slot][l] /\ l \in Visible(x)
      BY <1>13
    <2> HIDE DEF x
    <2>4. l \in 1..TableWidth /\ Len(tables[x.slot]) = TableWidth
      BY <2>2, <2>3, VisiblePages, Sizes DEF Tables
    <2>5. Physical(x.main, l) = p /\ Physical(x.compressed, l) = p
      BY <2>2, <2>3, <2>4 DEF Physical
    <2>6. w.main[page] # Physical(x.main, l) /\ w.compressed[page] # Physical(x.compressed, l)
      BY <1>14, <1>17, <2>1, <2>3
    <2> QED BY <1>15, <2>5, <2>6
  <1> QED BY <1>16, <1>17

\* The ways a request can be wrong, field by field.
Miscounted(q, w) ==
    /\ w.slot = q.slot /\ w.rows = q.rows /\ w.accepted # q.accepted /\ w.accepted \in Int
Misplaced(q, w) ==
    /\ w.slot = q.slot /\ w.accepted = q.accepted
    /\ First(w) \in Int /\ First(w) # First(q)
Misdirected(q, w, others) == w.slot \in {o.slot : o \in others} \ {q.slot}
Shortened(q, w) ==
    /\ w.slot = q.slot /\ w.rows = q.rows /\ w.prefilling = q.prefilling
    /\ w.main = q.main /\ w.compressed = q.compressed
Holed(q, w) ==
    /\ w.slot = q.slot /\ w.length = q.length /\ w.rows = [q.rows EXCEPT ![Count(q)] = None]
MispagedBy(q, w, others, page) ==
    /\ First(w) = First(q) /\ w.length = q.length
    /\ \E p : /\ p # q.main[page]
              /\ p = None \/ p \in UNION {{o.main[l] : l \in Visible(o)} : o \in others}
              /\ \/ w.main = [q.main EXCEPT ![page] = p] /\ w.compressed = q.compressed
                 \/ w.compressed = [q.compressed EXCEPT ![page] = p] /\ w.main = q.main

\* Every wrong request is one of these.
LEMMA WrongWays ==
    ASSUME ShapeInv, AnchorInv, NEW batch, NEW q, Asked(q), NEW w \in Wrong(q, batch)
    PROVE LET others == {batch[r] : r \in {o \in Requests : Nonempty(batch[o])}} IN
          \/ Miscounted(q, w) \/ Misplaced(q, w) \/ Misdirected(q, w, others)
          \/ Shortened(q, w) \/ Holed(q, w)
          \/ MispagedBy(q, w, others, Logical(First(q) + Count(q) - 1))
  <1> DEFINE page == Logical(First(q) + Count(q) - 1)
             others == {batch[r] : r \in {o \in Requests : Nonempty(batch[o])}}
             seen == UNION {{o.main[l] : l \in Visible(o)} : o \in others}
             Moved(d) == [q EXCEPT !.rows = [i \in DOMAIN q.rows |->
                            IF q.rows[i] = None THEN None
                            ELSE [pos |-> q.rows[i].pos + d, cell |-> Cell(q.main, q.rows[i].pos + d)]]]
             Paged(p) == [q EXCEPT !.main[page] = p, !.rows = [i \in DOMAIN q.rows |->
                              IF q.rows[i] = None THEN None
                              ELSE [q.rows[i] EXCEPT !.cell = Cell([q.main EXCEPT ![page] = p], q.rows[i].pos)]]]
             Recompressed(p) == [q EXCEPT !.compressed[page] = p]
  <1>1. DOMAIN q = Fields /\ q.accepted \in Nat /\ q.length \in Nat
    BY DEF Asked
  <1>2. /\ First(q) \in Nat /\ 1 \in DOMAIN q.rows /\ q.rows[1] # None /\ q.rows[1].pos = First(q)
        /\ q.rows[1] = [pos |-> First(q), cell |-> Cell(tables[q.slot], First(q))]
        /\ q.main = tables[q.slot] /\ q.compressed = tables[q.slot]
    <2>1. /\ First(q) \in Nat /\ Count(q) \in Nat \ {0}
          /\ \A i \in 1..Count(q) : q.rows[i] # None /\ i \in DOMAIN q.rows
                                    /\ q.rows[i].pos = First(q) + i - 1
          /\ q.main = tables[q.slot] /\ q.compressed = tables[q.slot]
      BY AskedFields
    <2>2. 1 \in 1..Count(q) /\ First(q) + 1 - 1 = First(q)
      BY <2>1
    <2>3. q.rows[1] # None /\ 1 \in DOMAIN q.rows
      BY <2>1, <2>2
    <2>4. Holds(q, First(q), Count(q))
      BY DEF Asked, Genuine
    <2>5. q.rows[1] = [pos |-> First(q) + 1 - 1, cell |-> Cell(tables[q.slot], First(q) + 1 - 1)]
      BY <2>2, <2>3, <2>4 DEF Holds
    <2> QED BY <2>1, <2>2, <2>3, <2>5
  <1>3. \/ w \in {[q EXCEPT !.accepted = a] : a \in {q.accepted - 1, q.accepted + 1}}
        \/ w \in {m \in {Moved(-1), Moved(1)} : First(m) >= 0}
        \/ w \in {[q EXCEPT !.slot = s] : s \in {o.slot : o \in others} \ {q.slot}}
        \/ w \in {[q EXCEPT !.length = @ - 1]}
        \/ w \in {[q EXCEPT !.rows[Count(q)] = None]}
        \/ w \in {Paged(p) : p \in (seen \ {q.main[page]}) \union {None}}
        \/ w \in {Recompressed(p) : p \in (seen \ {q.compressed[page]}) \union {None}}
    BY DEF Wrong
  <1>11. q.main[page] # None
    <2>1. /\ First(q) + Count(q) - 1 \in Nat /\ First(q) + Count(q) - 1 < q.length
          /\ q.length <= Capacity /\ tables[q.slot] \in Tables
      BY AskedFields
    <2>2. page \in 1..TableWidth
      BY <1>1, <2>1, VisiblePages
    <2>3. q.main[page] \in Pages
      BY <1>2, <2>1, <2>2 DEF Tables
    <2> QED BY <2>3, NoneIsNone
  <1>4. CASE w \in {[q EXCEPT !.accepted = a] : a \in {q.accepted - 1, q.accepted + 1}}
    <2>1. PICK a \in {q.accepted - 1, q.accepted + 1} : w = [q EXCEPT !.accepted = a]
      BY <1>4
    <2>2. w.slot = q.slot /\ w.rows = q.rows /\ w.accepted = a
      BY <1>1, <2>1 DEF Fields
    <2> QED BY <1>1, <2>2 DEF Miscounted
  <1>5. CASE w \in {m \in {Moved(-1), Moved(1)} : First(m) >= 0}
    <2>1. PICK d \in {-1, 1} : w = Moved(d)
      BY <1>5
    <2> DEFINE rows == [i \in DOMAIN q.rows |-> IF q.rows[i] = None THEN None
                  ELSE [pos |-> q.rows[i].pos + d, cell |-> Cell(q.main, q.rows[i].pos + d)]]
    <2>2. w = [q EXCEPT !.rows = rows]
      BY <2>1
    <2>3. rows[1].pos = First(q) + d
      BY <1>2
    <2> HIDE DEF rows
    <2>4. w.slot = q.slot /\ w.rows = rows /\ w.accepted = q.accepted
      BY <1>1, <2>2 DEF Fields
    <2>5. First(w) = First(q) + d
      BY <2>3, <2>4 DEF First
    <2>6. First(w) \in Int /\ First(w) # First(q)
      BY <1>2, <2>5
    <2> QED BY <2>4, <2>6 DEF Misplaced
  <1>6. CASE w \in {[q EXCEPT !.slot = s] : s \in {o.slot : o \in others} \ {q.slot}}
    <2>1. PICK s \in {o.slot : o \in others} \ {q.slot} : w = [q EXCEPT !.slot = s]
      BY <1>6
    <2>2. w.slot = s
      BY <1>1, <2>1 DEF Fields
    <2> QED BY <2>1, <2>2 DEF Misdirected
  <1>7. CASE w \in {[q EXCEPT !.length = @ - 1]}
    <2>1. w = [q EXCEPT !.length = q.length - 1]
      BY <1>7
    <2> QED BY <1>1, <2>1 DEF Shortened, Fields
  <1>8. CASE w \in {[q EXCEPT !.rows[Count(q)] = None]}
    <2> DEFINE rows == [q.rows EXCEPT ![Count(q)] = None]
    <2>1. w = [q EXCEPT !.rows = rows]
      BY <1>8
    <2> HIDE DEF rows
    <2>2. w.slot = q.slot /\ w.length = q.length /\ w.rows = rows
      BY <1>1, <2>1 DEF Fields
    <2> QED BY <2>2 DEF Holed, rows
  <1>9. CASE w \in {Paged(p) : p \in (seen \ {q.main[page]}) \union {None}}
    <2>1. PICK p \in (seen \ {q.main[page]}) \union {None} : w = Paged(p)
      BY <1>9
    <2> DEFINE table == [q.main EXCEPT ![page] = p]
               rows == [i \in DOMAIN q.rows |-> IF q.rows[i] = None THEN None
                  ELSE [q.rows[i] EXCEPT !.cell = Cell(table, q.rows[i].pos)]]
    <2>2. w = [q EXCEPT !.main = table, !.rows = rows]
      BY <2>1
    <2>3. rows[1].pos = First(q)
      BY <1>2
    <2> HIDE DEF rows
    <2>4. /\ w.rows = rows /\ w.length = q.length /\ w.main = table
          /\ w.compressed = q.compressed
      BY <1>1, <2>2 DEF Fields
    <2>5. First(w) = First(q)
      BY <2>3, <2>4 DEF First
    <2>6. p # q.main[page] /\ (p = None \/ p \in seen)
      BY <1>11, <2>1
    <2> HIDE DEF page, seen, others
    <2> QED BY <2>4, <2>5, <2>6 DEF MispagedBy, page, seen, others
  <1>10. CASE w \in {Recompressed(p) : p \in (seen \ {q.compressed[page]}) \union {None}}
    <2>1. PICK p \in (seen \ {q.compressed[page]}) \union {None} : w = Recompressed(p)
      BY <1>10
    <2> DEFINE table == [q.compressed EXCEPT ![page] = p]
    <2>2. w = [q EXCEPT !.compressed = table]
      BY <2>1
    <2>4. /\ w.rows = q.rows /\ w.length = q.length /\ w.main = q.main
          /\ w.compressed = table
      BY <1>1, <2>2 DEF Fields
    <2>5. First(w) = First(q)
      BY <2>4 DEF First
    <2>6. p # q.main[page] /\ (p = None \/ p \in seen)
      BY <1>2, <1>11, <2>1
    <2> HIDE DEF page, seen, others
    <2> QED BY <2>4, <2>5, <2>6 DEF MispagedBy, page, seen, others
  <1> QED BY <1>3, <1>4, <1>5, <1>6, <1>7, <1>8, <1>9, <1>10

\* A wrong request is refused, or still an interval of its own sequence.
LEMMA WrongIsRefused ==
    ASSUME ShapeInv, AnchorInv, NEW batch, NEW b2, NEW r \in Requests,
           \A o \in Requests : Nonempty(batch[o]) => Asked(batch[o]),
           \A o \in Requests \ {r} : b2[o] = batch[o],
           Nonempty(batch[r]), b2[r] \in Wrong(batch[r], batch),
           Nonempty(b2[r]), Admitted(b2, r)
    PROVE Genuine(b2[r])
  <1> DEFINE q == batch[r]
             w == b2[r]
             page == Logical(First(q) + Count(q) - 1)
             others == {batch[o] : o \in {x \in Requests : Nonempty(batch[x])}}
  <1>1. Asked(q) /\ Genuine(q)
    BY DEF Asked
  <1>2. /\ q.slot \in Running /\ First(q) \in Nat /\ Count(q) \in Nat \ {0}
        /\ First(q) + Count(q) <= q.length /\ q.length \in Nat
        /\ q.main = tables[q.slot] /\ q.compressed = tables[q.slot]
    BY <1>1, AskedFields
  <1>3. First(q) = anchors[q.slot] + q.accepted /\ q.accepted \in Nat /\ anchors[q.slot] \in Int
    <2>1. q.slot \in Slots
      BY <1>2, RunningTables
    <2> QED BY <1>1, <2>1 DEF Asked, ShapeInv
  <1>4. First(w) = anchors[w.slot] + w.accepted
    BY DEF Admitted, Continues
  <1>5. \/ Miscounted(q, w) \/ Misplaced(q, w) \/ Misdirected(q, w, others)
        \/ Shortened(q, w) \/ Holed(q, w) \/ MispagedBy(q, w, others, page)
    BY <1>1, WrongWays
  <1>6. CASE Miscounted(q, w)
    <2>1. /\ w.slot = q.slot /\ w.rows = q.rows /\ w.accepted # q.accepted /\ w.accepted \in Int
      BY <1>6 DEF Miscounted
    <2>2. First(w) = First(q)
      BY <2>1 DEF First
    <2>3. w.accepted = q.accepted
      <3>1. anchors[q.slot] + w.accepted = anchors[q.slot] + q.accepted
        BY <1>3, <1>4, <2>1, <2>2
      <3> QED BY <1>3, <2>1, <3>1
    <2> QED BY <2>1, <2>3
  <1>7. CASE Misplaced(q, w)
    BY <1>3, <1>4, <1>7 DEF Misplaced
  <1>8. CASE Misdirected(q, w, others)
    <2>1. PICK x \in Requests : Nonempty(batch[x]) /\ w.slot = batch[x].slot /\ w.slot # q.slot
      BY <1>8 DEF Misdirected
    <2>2. x # r /\ b2[x] = batch[x]
      BY <2>1
    <2>3. \A other \in Requests \ {r} : Nonempty(b2[other]) => b2[other].slot # w.slot
      BY DEF Admitted
    <2> QED BY <2>1, <2>2, <2>3
  <1>9. CASE Shortened(q, w)
    <2>1. /\ w.slot = q.slot /\ w.rows = q.rows /\ w.prefilling = q.prefilling
          /\ w.main = q.main /\ w.compressed = q.compressed
      BY <1>9 DEF Shortened
    <2>2. First(w) = First(q) /\ Count(w) = Count(q)
      BY <2>1 DEF First, Count
    <2> HIDE DEF q, w
    <2>3. Genuine(w)
      BY <1>1, <2>1, <2>2 DEF Genuine, Holds
    <2> QED BY <2>3 DEF w
  <1>10. CASE Holed(q, w)
    <2> DEFINE c == Count(q)
    <2>1. /\ w.slot = q.slot /\ w.length = q.length /\ w.rows = [q.rows EXCEPT ![c] = None]
      BY <1>10 DEF Holed
    <2>2. PICK k \in Nat : q.rows = [i \in 1..k |-> q.rows[i]] /\ c <= k
      BY <1>1, AskedFields
    <2> HIDE DEF q, w, c
    <2>3. c \in 1..k
      BY <1>2, <2>2 DEF c
    <2>4. w.rows = [i \in 1..k |-> IF i = c THEN None ELSE q.rows[i]]
      BY <2>1, <2>2
    <2>5. w.rows[c] = None /\ (c # 1 => w.rows[1] = q.rows[1]) /\ Len(w.rows) = k
      BY <2>3, <2>4
    <2>6. c # 1
      BY <2>5 DEF Nonempty, w
    <2>7. First(w) = First(q)
      BY <2>5, <2>6 DEF First
    <2>8. RowsAdmitted(w)
      BY DEF Admitted, w
    <2>9. c \in 1..Len(w.rows)
      BY <2>3, <2>5
    <2>10. w.rows[c] = None => First(w) + c - 1 >= w.length
      BY <2>8, <2>9 DEF RowsAdmitted
    <2> QED BY <1>2, <2>1, <2>5, <2>7, <2>10 DEF c
  <1>11. CASE MispagedBy(q, w, others, page)
    <2>1. /\ First(w) = First(q) /\ w.length = q.length
      BY <1>11 DEF MispagedBy
    <2>2. PICK p :
              /\ p # q.main[page]
              /\ p = None \/ p \in UNION {{o.main[l] : l \in Visible(o)} : o \in others}
              /\ \/ w.main = [q.main EXCEPT ![page] = p] /\ w.compressed = q.compressed
                 \/ w.compressed = [q.compressed EXCEPT ![page] = p] /\ w.main = q.main
      BY <1>11 DEF MispagedBy
    <2>3. p = None \/ \E o \in Requests : \E l \in Visible(batch[o]) :
                          Nonempty(batch[o]) /\ p = tables[batch[o].slot][l]
      <3>1. SUFFICES ASSUME p # None PROVE \E o \in Requests : \E l \in Visible(batch[o]) :
                          Nonempty(batch[o]) /\ p = tables[batch[o].slot][l]
        OBVIOUS
      <3>2. PICK x \in others : p \in {x.main[l] : l \in Visible(x)}
        BY <2>2, <3>1
      <3>3. PICK o \in Requests : x = batch[o] /\ Nonempty(batch[o])
        OBVIOUS
      <3>4. Asked(batch[o])
        BY <3>3
      <3>5. batch[o].main = tables[batch[o].slot]
        BY <3>4, AskedFields
      <3> QED BY <3>2, <3>3, <3>5
    <2>4. \/ /\ w.main = Repaged(tables[q.slot], page, p)
             /\ w.compressed = tables[q.slot]
          \/ /\ w.compressed = Repaged(tables[q.slot], page, p)
             /\ w.main = tables[q.slot]
      BY <1>2, <2>2 DEF Repaged
    <2>5. p # tables[q.slot][page]
      BY <1>2, <2>2
    <2>6. page = Logical(First(q) + Count(q) - 1)
      OBVIOUS
    <2> HIDE DEF others, page
    <2> QED BY <2>1, <2>3, <2>4, <2>5, <2>6, WrongPage
  <1> QED BY <1>5, <1>6, <1>7, <1>8, <1>9, <1>10, <1>11

-----------------------------------------------------------------------------
(***************************************************************************)
(* A caller that is right is admitted.                                     *)
(***************************************************************************)

\* Every request of a right caller passes every check of the validation.
LEMMA HonestIsAdmitted ==
    ASSUME ShapeInv, AnchorInv, SharingInv, TailInv, NEW batch,
           \A o \in Requests : Nonempty(batch[o]) => Asked(batch[o]),
           Honest(batch), NEW r \in Requests, Nonempty(batch[r])
    PROVE Admitted(batch, r)
  <1> DEFINE q == batch[r]
             s == q.slot
             first == First(q)
             count == Count(q)
  <1>1. Asked(q) /\ Genuine(q)
    BY DEF Asked
  <1>2. /\ s \in Running /\ s \in Slots /\ tables[s] \in Tables
        /\ q.main = tables[s] /\ q.compressed = tables[s]
        /\ first \in Nat /\ count \in Nat \ {0}
        /\ first + count <= q.length /\ q.length \in Nat /\ q.length <= Capacity
    BY <1>1, AskedFields, RunningTables
  <1>3. /\ first = anchors[s] + q.accepted /\ q.accepted \in Nat /\ (verified[s] \/ q.accepted = 1)
        /\ \A i \in DOMAIN q.rows : i > count => first + i - 1 >= q.length
        /\ Resumes(s) <= first /\ first <= Len(supplied[s])
    BY <1>1 DEF Asked, Genuine
  <1>4. /\ q.prefilling \/ q.accepted <= MaxAccepted
        /\ \A other \in Requests \ {r} : Nonempty(batch[other]) => batch[other].slot # s
    BY DEF Honest
  <1>5. anchors[s] \in Int /\ (verified[s] => anchors[s] >= 0) /\ anchors[s] >= -1
        /\ Resumes(s) \in Nat /\ Len(supplied[s]) \in Nat
    BY <1>2, ResumesFrom DEF ShapeInv, AnchorInv
  <1>6. Continues(q)
    <2>1. anchors[s] = -1 => first = 0 /\ q.accepted = 1
      BY <1>3, <1>5
    <2>2. q.accepted >= 0
      BY <1>3
    <2> QED BY <1>3, <1>4, <2>1, <2>2 DEF Continues
  <1>7. RowsAdmitted(q)
    <2>1. \A i \in 1..count : /\ q.rows[i] # None /\ i \in DOMAIN q.rows
                                    /\ q.rows[i].pos = first + i - 1
                                    /\ q.rows[i].cell = Cell(tables[s], first + i - 1)
                                    /\ first + i - 1 \in Positions
      BY <1>1, AskedFields
    <2>2. PICK k \in Nat : Len(q.rows) = k /\ DOMAIN q.rows = 1..k
      BY <1>1, AskedFields
    <2>3. SUFFICES ASSUME NEW i \in 1..k
                   PROVE IF q.rows[i] = None THEN first + i - 1 >= q.length
                         ELSE /\ q.rows[i].pos = first + i - 1 /\ first + i - 1 < q.length
                              /\ q.rows[i].cell = Cell(q.main, first + i - 1) /\ q.rows[i].cell[1] \in Pages
                              /\ (first + i - 1 + 1) % Ratio = 0 =>
                                   PooledCell(q.compressed, (first + i - 1) \div Ratio)[1] \in Pages
      BY <2>2 DEF RowsAdmitted
    <2> DEFINE pos == first + i - 1
    <2>4. CASE i > count
      <3>1. i \in DOMAIN q.rows
        BY <2>2
      <3>2. {j \in DOMAIN q.rows : q.rows[j] # None} = 1..count
        BY <1>1, AskedFields
      <3>3. q.rows[i] = None
        BY <1>2, <2>4, <3>1, <3>2
      <3> QED BY <1>3, <2>4, <3>1, <3>3
    <2>5. CASE i <= count
      <3>1. i \in 1..count
        BY <1>2, <2>5
      <3>2. /\ q.rows[i] # None /\ q.rows[i].pos = pos
            /\ q.rows[i].cell = Cell(q.main, pos) /\ pos \in Positions
        BY <1>2, <2>1, <3>1
      <3>3. pos < q.length
        BY <1>2, <3>1
      <3>4. Cell(q.main, pos)[1] \in Pages
        BY <1>2, <3>2, CellPlaced
      <3>5. (pos + 1) % Ratio = 0 => PooledCell(q.compressed, pos \div Ratio)[1] \in Pages
        BY <1>2, <3>2, Completes, PooledPlaced
      <3> HIDE DEF pos
      <3>6. IF q.rows[i] = None THEN pos >= q.length
            ELSE /\ q.rows[i].pos = pos /\ pos < q.length
                 /\ q.rows[i].cell = Cell(q.main, pos) /\ q.rows[i].cell[1] \in Pages
                 /\ (pos + 1) % Ratio = 0 => PooledCell(q.compressed, pos \div Ratio)[1] \in Pages
        BY <3>2, <3>3, <3>4, <3>5
      <3> QED BY <3>6 DEF pos
    <2> QED BY <1>2, <2>4, <2>5
  <1>8. PagesPresent(q)
    <2>1. Visible(q) \subseteq 1..TableWidth
      BY <1>2, VisiblePages
    <2>2. \A l \in 1..TableWidth : Physical(tables[s], l) = tables[s][l] /\ tables[s][l] \in Pages
      BY <1>2, Sizes DEF Tables, Physical
    <2> QED BY <1>2, <2>1, <2>2 DEF PagesPresent
  <1>9. TailRetained(q)
    <2>1. first \in Resumes(s)..Len(supplied[s])
      BY <1>2, <1>3, <1>5
    <2>2. \A pos \in GroupStart(first)..first - 1 : tags[s][pos % RingSize] = pos
      BY <1>2, <2>1 DEF TailInv
    <2> QED BY <2>2 DEF TailRetained, GroupStart
  <1>10. Exclusive(batch, r)
    <2>1. SUFFICES ASSUME NEW page \in Visible(q), page >= Logical(first),
                          NEW other \in Requests, other = r \/ Nonempty(batch[other]),
                          NEW seen \in Visible(batch[other]) \ (IF other = r THEN {page} ELSE {})
                   PROVE /\ q.main[page] # Physical(batch[other].main, seen)
                         /\ q.compressed[page] # Physical(batch[other].compressed, seen)
      BY DEF Exclusive
    <2> DEFINE x == batch[other]
    <2>2. Asked(x)
      BY <2>1
    <2>3. /\ x.slot \in Running /\ tables[x.slot] \in Tables
          /\ x.main = tables[x.slot] /\ x.compressed = tables[x.slot]
          /\ x.length \in Nat /\ x.length <= Capacity
      BY <2>2, AskedFields
    <2>4. page \in 1..TableWidth
      BY <1>2, VisiblePages
    <2>5. other # r => x.slot # s
      BY <1>4, <2>1
    <2>6. seen \in Visible(x) /\ (other = r => seen # page)
      OBVIOUS
    <2>7. other = r => x.slot = s
      OBVIOUS
    <2> HIDE DEF x, first, s
    <2>8. seen \in 1..TableWidth /\ Physical(tables[x.slot], seen) = tables[x.slot][seen]
      <3>1. seen \in 1..TableWidth
        BY <2>3, <2>6, VisiblePages
      <3>2. Len(tables[x.slot]) = TableWidth
        BY <2>3, Sizes DEF Tables
      <3> QED BY <3>1, <3>2 DEF Physical
    <2>9. tables[s][page] # tables[x.slot][seen]
      <3>1. CASE other = r
        BY <1>2, <2>3, <2>4, <2>6, <2>7, <2>8, <3>1 DEF Tables
      <3>2. CASE other # r
        <4>1. SUFFICES ASSUME tables[s][page] = tables[x.slot][seen] PROVE FALSE
          OBVIOUS
        <4>2. page = 1 /\ Resumes(s) >= PageSize
          BY <1>2, <2>3, <2>4, <2>5, <2>8, <3>2, <4>1 DEF SharingInv
        <4>3. first >= PageSize /\ PageSize \in Nat \ {0}
          BY <1>2, <1>3, <1>5, <4>2, Sizes
        <4>4. PageSize \div PageSize <= first \div PageSize /\ PageSize \div PageSize = 1
          <5>1. PageSize \div PageSize = 1
            BY <4>3, DivIs
          <5> QED BY <1>2, <4>3, <5>1, DivMono
        <4>5. first \div PageSize \in Int
          BY <1>2, <4>3, DivMod
        <4>6. Logical(first) >= 2
          BY <4>4, <4>5 DEF Logical
        <4>7. Logical(first) \in Int
          BY <4>5 DEF Logical
        <4>8. page >= Logical(first)
          BY <2>1
        <4> QED BY <4>2, <4>6, <4>7, <4>8
      <3> QED BY <3>1, <3>2
    <2> QED BY <1>2, <2>3, <2>8, <2>9 DEF x
  <1> QED BY <1>2, <1>4, <1>6, <1>7, <1>8, <1>9, <1>10 DEF Admitted, Capacity

-----------------------------------------------------------------------------
(***************************************************************************)
(* A sequence that begins.                                                 *)
(***************************************************************************)

\* Pages nobody else has, each once, when there are enough of them.
LEMMA FreshPages ==
    ASSUME NEW free \in SUBSET Pages, NEW k \in Nat, Cardinality(free) >= Cardinality(1..k)
    PROVE LET f == CHOOSE f \in [1..k -> free] : \A i, j \in 1..k : i # j => f[i] # f[j] IN
          f \in [1..k -> free] /\ \A i, j \in 1..k : i # j => f[i] # f[j]
  <1> DEFINE c == Cardinality(free)
  <1>1. IsFiniteSet(free)
    BY Geometry, FS_Subset
  <1>2. c \in Nat /\ ExistsBijection(1..c, free)
    BY <1>1, FS_CardinalityType
  <1>3. Cardinality(1..k) = k
    BY FS_Interval
  <1> HIDE DEF c
  <1>4. 1..k \subseteq 1..c
    BY <1>2, <1>3 DEF c
  <1>5. PICK g \in [1..c -> free] : \A i, j \in 1..c : g[i] = g[j] => i = j
    <2>1. PICK g \in Bijection(1..c, free) : TRUE
      BY <1>2 DEF ExistsBijection
    <2>2. g \in Injection(1..c, free)
      BY <2>1 DEF Bijection
    <2>3. g \in [1..c -> free] /\ \A i, j \in 1..c : g[i] = g[j] => i = j
      BY <2>2 DEF Injection, IsInjective
    <2> QED BY <2>3
  <1> DEFINE h == [i \in 1..k |-> g[i]]
  <1>6. h \in [1..k -> free] /\ \A i, j \in 1..k : i # j => h[i] # h[j]
    BY <1>4, <1>5
  <1> HIDE DEF h
  <1> QED BY <1>6

\* Slot s begins a sequence on pages f, behind the first page of `from` or not.
Begins(s, prefix, from, f) ==
    /\ s \in Slots /\ prefix \in 0..1 /\ from # s
    /\ prefix = 1 => /\ from \in Running /\ Resumes(from) >= PageSize
                     /\ Len(supplied[from]) >= PageSize
    /\ f \in [1..TableWidth - prefix -> Pages \ PagesOf(Slots \ {s})]
    /\ \A i, j \in 1..TableWidth - prefix : i # j => f[i] # f[j]
    /\ tables' = [tables EXCEPT ![s] = (IF prefix = 0 THEN <<>> ELSE SubSeq(tables[from], 1, 1)) \o f]
    /\ supplied' = [supplied EXCEPT ![s] =
                      IF prefix = 0 THEN <<>> ELSE SubSeq(supplied[from], 1, PageSize)]
    /\ anchors' = [anchors EXCEPT ![s] = prefix * PageSize - 1]
    /\ verified' = [verified EXCEPT ![s] = FALSE]
    /\ UNCHANGED <<keys, pooled, ring, tags, launches>>

\* What Start does, with the pages it chose.
LEMMA StartBegins ==
    ASSUME Start
    PROVE \E s, prefix, from, f : Begins(s, prefix, from, f)
  <1>0. PageSize \in Nat /\ TableWidth \in Nat \ {0}
    BY Sizes
  <1> DEFINE free(s) == Pages \ PagesOf(Slots \ {s})
             wanted(prefix) == 1..TableWidth - prefix
             f(s, prefix) == CHOOSE f \in [wanted(prefix) -> free(s)] :
                               \A i, j \in wanted(prefix) : i # j => f[i] # f[j]
  <1>1. PICK s \in Slots, prefix \in 0..1, from \in Running \union {None} :
          /\ prefix = 0 <=> from = None
          /\ from # s
          /\ prefix > 0 => /\ Resumes(from) >= prefix * PageSize
                           /\ Len(supplied[from]) >= prefix * PageSize
          /\ Cardinality(free(s)) >= Cardinality(wanted(prefix))
          /\ tables' = [tables EXCEPT ![s] =
               (IF prefix = 0 THEN <<>> ELSE SubSeq(tables[from], 1, prefix)) \o f(s, prefix)]
          /\ supplied' = [supplied EXCEPT ![s] =
               IF prefix = 0 THEN <<>> ELSE SubSeq(supplied[from], 1, prefix * PageSize)]
          /\ anchors' = [anchors EXCEPT ![s] = prefix * PageSize - 1]
          /\ verified' = [verified EXCEPT ![s] = FALSE]
    BY Zenon DEF Start
  <1>2. UNCHANGED <<keys, pooled, ring, tags, launches>>
    BY DEF Start
  <1>3. /\ f(s, prefix) \in [wanted(prefix) -> free(s)]
        /\ \A i, j \in wanted(prefix) : i # j => f(s, prefix)[i] # f(s, prefix)[j]
    <2>1. free(s) \in SUBSET Pages /\ TableWidth - prefix \in Nat
      BY <1>0
    <2> HIDE DEF free
    <2> QED BY <1>1, <2>1, FreshPages
  <1> HIDE DEF f, free
  <1>4. prefix = 1 => from \in Running /\ prefix * PageSize = PageSize
    BY <1>0, <1>1
  <1>5. prefix = 0 \/ prefix = 1
    OBVIOUS
  <1>6. Begins(s, prefix, from, f(s, prefix))
    <2> DEFINE g == f(s, prefix)
    <2>1. /\ g \in [1..TableWidth - prefix -> Pages \ PagesOf(Slots \ {s})]
          /\ \A i, j \in 1..TableWidth - prefix : i # j => g[i] # g[j]
      BY <1>3 DEF free
    <2>2. /\ tables' = [tables EXCEPT ![s] = (IF prefix = 0 THEN <<>> ELSE SubSeq(tables[from], 1, 1)) \o g]
          /\ supplied' = [supplied EXCEPT ![s] =
                            IF prefix = 0 THEN <<>> ELSE SubSeq(supplied[from], 1, PageSize)]
      BY <1>1, <1>4, <1>5
    <2>3. prefix = 1 => /\ from \in Running /\ Resumes(from) >= PageSize
                        /\ Len(supplied[from]) >= PageSize
      BY <1>0, <1>1, <1>4
    <2> HIDE DEF g
    <2>4. Begins(s, prefix, from, g)
      BY <1>1, <1>2, <2>1, <2>2, <2>3 DEF Begins
    <2> QED BY <2>4 DEF g
  <1> QED BY <1>6

\* The table, the keys and the position it begins with.
BegunWith(s, prefix, from) ==
    /\ tables' = [tables EXCEPT ![s] = tables'[s]] /\ tables'[s] \in Tables
    /\ \A i \in 1..TableWidth : ~(prefix = 1 /\ i = 1) => tables'[s][i] \notin PagesOf(Slots \ {s})
    /\ \A i \in 1..prefix : tables'[s][i] = tables[from][i]
    /\ supplied' = [supplied EXCEPT ![s] = supplied'[s]]
    /\ supplied'[s] \in Seq(Keys) /\ Len(supplied'[s]) = prefix * PageSize
    /\ \A i \in 1..prefix * PageSize : supplied'[s][i] = supplied[from][i]
    /\ Running' = Running \union {s}
    /\ Resumes(s)' = prefix * PageSize
    /\ \A t \in Slots \ {s} : Resumes(t)' = Resumes(t) /\ tables'[t] = tables[t]
                              /\ supplied'[t] = supplied[t]

\* A sequence that begins has a whole table, and only the shared page of another.
LEMMA BeginsWith ==
    ASSUME ShapeInv, AnchorInv, NEW s, NEW prefix, NEW from, NEW f, Begins(s, prefix, from, f)
    PROVE BegunWith(s, prefix, from)
  <1> DEFINE W == TableWidth
             shared == IF prefix = 0 THEN <<>> ELSE SubSeq(tables[from], 1, 1)
             keep == IF prefix = 0 THEN <<>> ELSE SubSeq(supplied[from], 1, PageSize)
             T == shared \o f
  <1>0. /\ W \in Nat \ {0} /\ PageSize \in Nat \ {0} /\ s \in Slots /\ prefix \in {0, 1} /\ from # s
        /\ prefix \in Int
    BY Sizes DEF Begins
  <1>1. /\ tables \in [Slots -> Tables \union {<<>>}] /\ supplied \in [Slots -> Seq(Keys)]
        /\ anchors \in [Slots -> Int] /\ verified \in [Slots -> BOOLEAN]
    BY DEF ShapeInv, Keys
  <1>2. /\ tables' = [tables EXCEPT ![s] = T] /\ supplied' = [supplied EXCEPT ![s] = keep]
        /\ anchors' = [anchors EXCEPT ![s] = prefix * PageSize - 1]
        /\ verified' = [verified EXCEPT ![s] = FALSE]
    BY DEF Begins
  <1>3. f \in [1..W - prefix -> Pages \ PagesOf(Slots \ {s})]
        /\ \A i, j \in 1..W - prefix : i # j => f[i] # f[j]
    BY DEF Begins
  <1>4. prefix = 1 => /\ from \in Running /\ from \in Slots \ {s} /\ tables[from] \in Tables
                      /\ Len(supplied[from]) >= PageSize /\ Len(supplied[from]) \in Nat
    BY RunningTables, ResumesFrom DEF Begins
  <1>5. f \in Seq(Pages) /\ Len(f) = W - prefix
    BY <1>0, <1>3
  <1>6. /\ shared \in Seq(Pages) /\ Len(shared) = prefix
        /\ prefix = 1 => shared[1] = tables[from][1]
    <2>1. CASE prefix = 0
      BY <2>1
    <2>2. CASE prefix = 1
      <3>1. tables[from] \in [1..W -> Pages]
        BY <1>4, <2>2 DEF Tables
      <3>2. \A i \in 1..1 : tables[from][i] \in Pages
        BY <1>0, <3>1
      <3>3. /\ SubSeq(tables[from], 1, 1) \in Seq(Pages) /\ Len(SubSeq(tables[from], 1, 1)) = 1
            /\ SubSeq(tables[from], 1, 1)[1] = tables[from][1]
        BY <3>2, SubSeqProperties
      <3> QED BY <2>2, <3>3
    <2> QED BY <1>0, <2>1, <2>2
  <1> HIDE DEF shared
  <1>7. /\ T \in Seq(Pages) /\ Len(T) = W
        /\ \A i \in 1..W : T[i] = IF i <= prefix THEN shared[i] ELSE f[i - prefix]
    <2>1. prefix + (W - prefix) = W
      BY <1>0
    <2>2. /\ shared \o f \in Seq(Pages) /\ Len(shared \o f) = Len(shared) + Len(f)
          /\ \A i \in 1..Len(shared) + Len(f) :
               (shared \o f)[i] = IF i <= Len(shared) THEN shared[i] ELSE f[i - Len(shared)]
      BY <1>5, <1>6, ConcatProperties
    <2>3. Len(shared) + Len(f) = W
      BY <1>5, <1>6, <2>1
    <2> QED BY <1>6, <2>2, <2>3
  <1> HIDE DEF T
  <1>8. T \in [1..W -> Pages]
    BY <1>7, LenProperties
  <1>9. \A i \in 1..W : ~(prefix = 1 /\ i = 1) =>
           T[i] = f[i - prefix] /\ i - prefix \in 1..W - prefix /\ T[i] \notin PagesOf(Slots \ {s})
    <2>1. SUFFICES ASSUME NEW i \in 1..W, ~(prefix = 1 /\ i = 1)
                   PROVE /\ T[i] = f[i - prefix] /\ i - prefix \in 1..W - prefix
                         /\ T[i] \notin PagesOf(Slots \ {s})
      OBVIOUS
    <2>2. ~(i <= prefix) /\ i - prefix \in 1..W - prefix
      BY <1>0, <2>1
    <2>3. T[i] = f[i - prefix]
      BY <1>7, <2>2
    <2>4. f[i - prefix] \in Pages \ PagesOf(Slots \ {s})
      BY <1>3, <2>2
    <2> QED BY <2>2, <2>3, <2>4
  <1>10. prefix = 1 => T[1] = tables[from][1] /\ T[1] \in PagesOf(Slots \ {s})
    <2>1. SUFFICES ASSUME prefix = 1 PROVE T[1] = tables[from][1] /\ T[1] \in PagesOf(Slots \ {s})
      OBVIOUS
    <2>2. T[1] = tables[from][1]
      BY <1>0, <1>6, <1>7, <2>1
    <2>3. Len(tables[from]) = W
      BY <1>0, <1>4, <2>1 DEF Tables
    <2>4. 1 \in 1..Len(tables[from])
      BY <1>0, <2>3
    <2> QED BY <1>4, <2>1, <2>2, <2>4 DEF PagesOf
  <1>11. T \in Tables
    <2>1. ASSUME NEW i \in 1..W, NEW j \in 1..W, T[i] = T[j] PROVE i = j
      <3>1. CASE prefix = 1 /\ (i = 1 \/ j = 1)
        BY <1>9, <1>10, <2>1, <3>1
      <3>2. CASE ~(prefix = 1 /\ (i = 1 \/ j = 1))
        <4>1. f[i - prefix] = f[j - prefix] /\ i - prefix \in 1..W - prefix /\ j - prefix \in 1..W - prefix
          BY <1>9, <2>1, <3>2
        <4>2. i - prefix = j - prefix
          BY <1>3, <4>1
        <4> QED BY <1>0, <4>2
      <3> QED BY <3>1, <3>2
    <2> QED BY <1>8, <2>1 DEF Tables
  <1>12. /\ keep \in Seq(Keys) /\ Len(keep) = prefix * PageSize
         /\ prefix = 1 => \A i \in 1..PageSize : keep[i] = supplied[from][i]
    <2>1. CASE prefix = 0
      BY <1>0, <2>1
    <2>2. CASE prefix = 1
      <3>1. \A i \in 1..PageSize : i \in 1..Len(supplied[from]) /\ supplied[from] \in Seq(Keys)
        BY <1>0, <1>1, <1>4, <2>2
      <3>2. \A i \in 1..PageSize : supplied[from][i] \in Keys
        BY <3>1, ElementOfSeq
      <3> DEFINE sub == SubSeq(supplied[from], 1, PageSize)
      <3>3. /\ sub \in Seq(Keys) /\ Len(sub) = IF 1 <= PageSize THEN PageSize - 1 + 1 ELSE 0
            /\ \A i \in 1..PageSize - 1 + 1 : sub[i] = supplied[from][1 + i - 1]
        BY <1>0, <3>2, SubSeqProperties
      <3>4. keep = sub
        BY <2>2
      <3> HIDE DEF sub, keep
      <3> QED BY <1>0, <2>2, <3>3, <3>4
    <2> QED BY <1>0, <2>1, <2>2
  <1> HIDE DEF keep
  <1>13. tables'[s] = T /\ supplied'[s] = keep
    BY <1>0, <1>1, <1>2
  <1>14. Running' = Running \union {s}
    <2>1. T # <<>>
      BY <1>0, <1>7
    <2> QED BY <1>0, <1>1, <1>2, <2>1 DEF Running
  <1>15. Resumes(s)' = prefix * PageSize
    <2>1. prefix * PageSize - 1 \in Int /\ prefix * PageSize - 1 + 1 = prefix * PageSize
      BY <1>0
    <2>2. verified'[s] = FALSE /\ anchors'[s] = prefix * PageSize - 1
      BY <1>0, <1>1, <1>2
    <2> QED BY <2>1, <2>2 DEF Resumes
  <1>16. \A t \in Slots \ {s} : Resumes(t)' = Resumes(t) /\ tables'[t] = tables[t] /\ supplied'[t] = supplied[t]
    BY <1>1, <1>2 DEF Resumes
  <1>17. tables' = [tables EXCEPT ![s] = tables'[s]] /\ supplied' = [supplied EXCEPT ![s] = supplied'[s]]
    BY <1>2, <1>13
  <1>18. \A i \in 1..prefix : tables'[s][i] = tables[from][i]
    BY <1>0, <1>10, <1>13
  <1>19. \A i \in 1..prefix * PageSize : supplied'[s][i] = supplied[from][i]
    <2>1. (prefix = 1 => prefix * PageSize = PageSize) /\ (prefix = 0 => prefix * PageSize = 0)
      BY <1>0
    <2> QED BY <1>0, <1>12, <1>13, <2>1
  <1> QED BY <1>9, <1>10, <1>11, <1>12, <1>13, <1>14, <1>15, <1>16, <1>17, <1>18, <1>19 DEF BegunWith

\* Nothing is cached before the first launch, and nobody runs.
LEMMA InitHolds == Init => PagedInv
  <1> SUFFICES ASSUME Init PROVE PagedInv
    OBVIOUS
  <1>1. Running = {}
    BY DEF Init, Running
  <1>2. ShapeInv
    <2>1. <<>> \in Seq(Slots \X Nat \X Nat)
      BY EmptySeq
    <2> QED BY <2>1 DEF Init, ShapeInv, Offsets, Residues
  <1>3. AnchorInv /\ SharingInv /\ RingInv /\ TailInv /\ CacheHoldsSequence
    BY <1>1 DEF AnchorInv, SharingInv, RingInv, TailInv, CacheHoldsSequence
  <1> QED BY <1>2, <1>3 DEF PagedInv

\* A page begins with a group.
LEMMA PageStartsGroup ==
    ASSUME NEW p \in {0, 1}
    PROVE GroupStart(p * PageSize) = p * PageSize
  <1>1. PageSize = Groups * Ratio /\ Groups \in Int /\ 0 * PageSize = 0 * Ratio
    BY Sizes
  <1>2. \A g \in Int : GroupStart(g * Ratio) = g * Ratio
    BY GroupStarts
  <1>3. 0 \in Int /\ 1 * PageSize = Groups * Ratio
    BY <1>1, Sizes
  <1> QED BY <1>1, <1>2, <1>3

\* A sequence that begins shares at most the first page of another, which none of
\* those that have it writes again, and is cached as far as it was supplied.
LEMMA StartKeepsInvariant ==
    ASSUME PagedInv, Start
    PROVE PagedInv'
  <1>1. ShapeInv /\ AnchorInv /\ SharingInv /\ RingInv /\ TailInv /\ KeysHeld /\ GroupsHeld
    BY CacheParts DEF PagedInv
  <1>2. PICK s, prefix, from, f : Begins(s, prefix, from, f)
    BY StartBegins
  <1>0. BegunWith(s, prefix, from)
    BY <1>1, <1>2, BeginsWith
  <1>3. /\ s \in Slots /\ prefix \in {0, 1} /\ from # s
        /\ prefix = 1 => /\ from \in Running /\ Resumes(from) >= PageSize
                         /\ Len(supplied[from]) >= PageSize
        /\ anchors' = [anchors EXCEPT ![s] = prefix * PageSize - 1]
        /\ verified' = [verified EXCEPT ![s] = FALSE]
        /\ UNCHANGED <<keys, pooled, ring, tags, launches>>
    BY <1>2 DEF Begins
  <1>4. /\ tables' = [tables EXCEPT ![s] = tables'[s]] /\ tables'[s] \in Tables
        /\ \A i \in 1..TableWidth : ~(prefix = 1 /\ i = 1) => tables'[s][i] \notin PagesOf(Slots \ {s})
        /\ prefix = 1 => tables'[s][1] = tables[from][1]
    <2>1. tables' = [tables EXCEPT ![s] = tables'[s]]
      BY <1>0 DEF BegunWith
    <2>2. tables'[s] \in Tables
      BY <1>0 DEF BegunWith
    <2>3. \A i \in 1..TableWidth : ~(prefix = 1 /\ i = 1) => tables'[s][i] \notin PagesOf(Slots \ {s})
      BY <1>0 DEF BegunWith
    <2>4. prefix = 1 => tables'[s][1] = tables[from][1]
      <3>1. \A i \in 1..prefix : tables'[s][i] = tables[from][i]
        BY <1>0 DEF BegunWith
      <3> QED BY <3>1
    <2> QED BY <2>1, <2>2, <2>3, <2>4
  <1>17. /\ supplied' = [supplied EXCEPT ![s] = supplied'[s]]
         /\ supplied'[s] \in Seq(Keys) /\ Len(supplied'[s]) = prefix * PageSize
         /\ prefix = 1 => \A i \in 1..PageSize : supplied'[s][i] = supplied[from][i]
    <2>1. supplied' = [supplied EXCEPT ![s] = supplied'[s]]
      BY <1>0 DEF BegunWith
    <2>2. supplied'[s] \in Seq(Keys) /\ Len(supplied'[s]) = prefix * PageSize
      BY <1>0 DEF BegunWith
    <2>3. prefix = 1 => \A i \in 1..PageSize : supplied'[s][i] = supplied[from][i]
      <3>1. \A i \in 1..prefix * PageSize : supplied'[s][i] = supplied[from][i]
        BY <1>0 DEF BegunWith
      <3>2. prefix = 1 => prefix * PageSize = PageSize
        BY Sizes
      <3> QED BY <3>1, <3>2
    <2> QED BY <2>1, <2>2, <2>3
  <1>18. Running' = Running \union {s}
    BY <1>0 DEF BegunWith
  <1>16. Resumes(s)' = prefix * PageSize
    BY <1>0 DEF BegunWith
  <1>5. \A t \in Slots \ {s} : Resumes(t)' = Resumes(t) /\ tables'[t] = tables[t]
                               /\ supplied'[t] = supplied[t]
    BY <1>0 DEF BegunWith
  <1>6. \A t \in Running' : t = s \/ (t \in Running /\ t \in Slots \ {s})
    BY <1>1, <1>4, <1>17, <1>18, RunningTables
  <1>7. /\ PageSize \in Nat \ {0} /\ TableWidth \in Nat \ {0} /\ PageSize <= Capacity
        /\ prefix * PageSize \in Nat /\ prefix * PageSize <= Capacity /\ Capacity \in Nat
        /\ (prefix = 1 => prefix * PageSize = PageSize) /\ (prefix = 0 => prefix * PageSize = 0)
    BY <1>3, Sizes
  <1>8. ShapeInv'
    <2>1. /\ tables' \in [Slots -> Tables \union {<<>>}]
      BY <1>1, <1>4, <1>17, <1>18 DEF ShapeInv
    <2>2. supplied' \in [Slots -> Seq(Slots \X Nat \X Nat)]
      BY <1>1, <1>4, <1>17, <1>18 DEF ShapeInv, Keys
    <2>3. anchors' \in [Slots -> Int]
      <3>1. prefix * PageSize - 1 \in Int
        BY <1>7
      <3> QED BY <1>1, <1>3, <3>1 DEF ShapeInv
    <2>4. verified' \in [Slots -> BOOLEAN]
      BY <1>1, <1>3 DEF ShapeInv
    <2>5. Tables' = Tables /\ Groups' = Groups /\ Offsets' = Offsets /\ Residues' = Residues
      BY DEF Tables, Groups, Offsets, Residues
    <2> QED BY <1>1, <1>3, <2>1, <2>2, <2>3, <2>4, <2>5 DEF ShapeInv
  <1>9. AnchorInv'
    <2>1. SUFFICES ASSUME NEW t \in Running'
                   PROVE /\ anchors'[t] >= -1 /\ (verified'[t] => anchors'[t] >= 0)
                         /\ Len(supplied'[t]) <= Capacity
      BY DEF AnchorInv, Capacity
    <2>2. CASE t = s
      <3>1. anchors'[s] = prefix * PageSize - 1 /\ verified'[s] = FALSE
        BY <1>1, <1>3 DEF ShapeInv
      <3> QED BY <1>4, <1>17, <1>18, <1>7, <2>2, <3>1
    <2>3. CASE t # s
      <3>1. t \in Running /\ t \in Slots \ {s}
        BY <1>6, <2>3
      <3>2. anchors'[t] = anchors[t] /\ verified'[t] = verified[t] /\ supplied'[t] = supplied[t]
        BY <1>1, <1>3, <1>5, <3>1 DEF ShapeInv
      <3> QED BY <1>1, <3>1, <3>2 DEF AnchorInv
    <2> QED BY <2>2, <2>3
  <1>10. SharingInv'
    <2>1. ASSUME NEW t \in Running, t \in Slots \ {s}, NEW i \in 1..TableWidth, NEW j \in 1..TableWidth,
                 tables'[s][i] = tables[t][j]
          PROVE i = 1 /\ j = 1 /\ Resumes(s)' >= PageSize /\ Resumes(t) >= PageSize
      <3>1. tables[t][j] \in PagesOf(Slots \ {s})
        <4>1. tables[t] \in [1..TableWidth -> Pages]
          BY <1>1, RunningTables DEF Tables
        <4>2. Len(tables[t]) = TableWidth
          BY <1>7, <4>1
        <4> QED BY <2>1, <4>2 DEF PagesOf
      <3>2. prefix = 1 /\ i = 1
        BY <1>4, <1>17, <1>18, <2>1, <3>1
      <3>3. tables[from][1] = tables[t][j] /\ from \in Running /\ Resumes(from) >= PageSize
        BY <1>3, <1>4, <1>17, <1>18, <2>1, <3>2
      <3>4. 1 \in 1..TableWidth
        BY <1>7
      <3>5. CASE t = from
        <4>1. tables[from] \in Tables
          BY <1>1, <3>3, RunningTables
        <4>2. j = 1
          BY <3>3, <3>4, <3>5, <4>1 DEF Tables
        <4> QED BY <1>7, <1>16, <3>2, <3>3, <3>5, <4>2
      <3>6. CASE t # from
        <4>1. j = 1 /\ Resumes(t) >= PageSize
          BY <1>1, <3>3, <3>4, <3>6 DEF SharingInv
        <4> QED BY <1>7, <1>16, <3>2, <4>1
      <3> QED BY <3>5, <3>6
    <2>2. SUFFICES ASSUME NEW a \in Running', NEW t \in Running',
                          NEW i \in 1..TableWidth, NEW j \in 1..TableWidth,
                          a # t, tables'[a][i] = tables'[t][j]
                   PROVE i = 1 /\ j = 1 /\ Resumes(a)' >= PageSize /\ Resumes(t)' >= PageSize
      BY DEF SharingInv
    <2>3. CASE a = s
      BY <1>5, <1>6, <2>1, <2>2, <2>3
    <2>4. CASE t = s
      BY <1>5, <1>6, <2>1, <2>2, <2>4
    <2>5. CASE a # s /\ t # s
      BY <1>1, <1>5, <1>6, <2>2, <2>5 DEF SharingInv
    <2> QED BY <2>3, <2>4, <2>5
  <1>11. RingInv'
    <2>0. \A pos : GroupStart(pos)' = GroupStart(pos)
      BY DEF GroupStart
    <2>1. SUFFICES ASSUME NEW t \in Running', NEW pos \in Positions,
                          GroupStart(Resumes(t)') <= pos, pos < Len(supplied'[t]),
                          tags'[t][pos % RingSize] = pos
                   PROVE ring'[t][pos % RingSize] = supplied'[t][pos + 1]
      BY <2>0 DEF RingInv, GroupStart, Positions, Capacity
    <2>2. CASE t = s
      <3>1. GroupStart(prefix * PageSize) = prefix * PageSize
        BY <1>3, PageStartsGroup
      <3> QED BY <1>4, <1>17, <1>18, <1>7, <1>16, <2>1, <2>2, <3>1, Placed
    <2>3. CASE t # s
      <3>1. t \in Running /\ t \in Slots \ {s}
        BY <1>6, <2>3
      <3>2. Resumes(t)' = Resumes(t) /\ supplied'[t] = supplied[t] /\ ring' = ring /\ tags' = tags
        BY <1>3, <1>5, <3>1
      <3> QED BY <1>1, <2>1, <3>1, <3>2 DEF RingInv
    <2> QED BY <2>2, <2>3
  <1>12. TailInv'
    <2>1. SUFFICES ASSUME NEW t \in Running', NEW first \in Resumes(t)'..Len(supplied'[t]),
                          NEW pos \in GroupStart(first)..first - 1
                   PROVE tags'[t][pos % RingSize] = pos
      BY DEF TailInv, GroupStart
    <2>2. CASE t = s
      <3>1. GroupStart(prefix * PageSize) = prefix * PageSize
        BY <1>3, PageStartsGroup
      <3>2. first = prefix * PageSize
        BY <1>4, <1>17, <1>18, <1>7, <1>16, <2>2
      <3> QED BY <1>7, <3>1, <3>2
    <2>3. CASE t # s
      <3>1. t \in Running /\ t \in Slots \ {s}
        BY <1>6, <2>3
      <3>2. Resumes(t)' = Resumes(t) /\ supplied'[t] = supplied[t] /\ tags' = tags
        BY <1>3, <1>5, <3>1
      <3> QED BY <1>1, <3>1, <3>2 DEF TailInv
    <2> QED BY <2>2, <2>3
  <1>13. KeysHeld'
    <2>0. \A t, pos : Cell(tables[t], pos)' = Cell(tables'[t], pos)
      BY DEF Cell, Physical, Logical
    <2>1. SUFFICES ASSUME NEW t \in Running', NEW pos \in 0..Len(supplied'[t]) - 1
                   PROVE keys[Cell(tables'[t], pos)[1]][Cell(tables'[t], pos)[2]] = supplied'[t][pos + 1]
      BY <1>3, <2>0 DEF KeysHeld
    <2>2. CASE t = s
      <3>1. prefix = 1 /\ pos \in Nat /\ pos < PageSize /\ pos \in Positions /\ from \in Running
        BY <1>3, <1>4, <1>17, <1>18, <1>7, <2>2 DEF Positions
      <3>2. Logical(pos) = 1
        <4>1. pos \div PageSize = 0
          <5>1. PageSize * 0 <= pos /\ pos < PageSize * (0 + 1) /\ pos \in Int
            BY <1>7, <3>1
          <5> QED BY <1>7, <5>1, DivIs
        <4> QED BY <4>1 DEF Logical
      <3>3. tables[from] \in Tables
        BY <1>1, <3>1, RunningTables
      <3>4. Cell(tables'[s], pos) = Cell(tables[from], pos)
        BY <1>4, <1>17, <1>18, <3>1, <3>2, <3>3, CellPlaced
      <3>5. Len(supplied[from]) \in Nat /\ pos \in 0..Len(supplied[from]) - 1
        BY <1>1, <1>3, <1>7, <3>1, ResumesFrom
      <3>6. keys[Cell(tables[from], pos)[1]][Cell(tables[from], pos)[2]] = supplied[from][pos + 1]
        BY <1>1, <3>1, <3>5 DEF KeysHeld
      <3>7. supplied'[s][pos + 1] = supplied[from][pos + 1]
        BY <1>4, <1>17, <1>18, <1>7, <3>1
      <3> QED BY <2>2, <3>4, <3>6, <3>7
    <2>3. CASE t # s
      <3>1. t \in Running /\ t \in Slots \ {s}
        BY <1>6, <2>3
      <3>2. tables'[t] = tables[t] /\ supplied'[t] = supplied[t]
        BY <1>5, <3>1
      <3> QED BY <1>1, <2>1, <3>1, <3>2 DEF KeysHeld
    <2> QED BY <2>2, <2>3
  <1>14. GroupsHeld'
    <2>0. \A t, g : PooledCell(tables[t], g)' = PooledCell(tables'[t], g)
      BY DEF PooledCell, Physical, Groups
    <2>1. SUFFICES ASSUME NEW t \in Running', NEW g \in 0..(Len(supplied'[t]) \div Ratio) - 1
                   PROVE pooled[PooledCell(tables'[t], g)[1]][PooledCell(tables'[t], g)[2]] =
                           SubSeq(supplied'[t], g * Ratio + 1, (g + 1) * Ratio)
      BY <1>3, <2>0 DEF GroupsHeld
    <2>2. CASE t = s
      <3>0. Len(supplied'[s]) = prefix * PageSize /\ prefix = 1
        <4>1. 0 \div Ratio = 0
          BY Sizes, DivIs
        <4> QED BY <1>3, <1>4, <1>17, <1>18, <1>7, <2>2, <4>1
      <3>1. /\ g \in GroupIndex /\ g \in Nat /\ (g + 1) * Ratio <= PageSize /\ g * Ratio + Ratio <= PageSize
            /\ g * Ratio \in Nat /\ from \in Running
        BY <1>3, <1>4, <1>17, <1>18, <1>7, <2>2, <3>0, GroupsOf
      <3>2. g \div Groups + 1 = 1
        <4>1. g * Ratio + Ratio - 1 \in Positions /\ g \div Groups + 1 = Logical(g * Ratio + Ratio - 1)
          BY <3>1, GroupPlaced
        <4>2. /\ g * Ratio + Ratio - 1 \in Nat /\ g * Ratio + Ratio - 1 < PageSize
          BY <3>1, Sizes
        <4> DEFINE last_ == g * Ratio + Ratio - 1
        <4>3. last_ \in Int /\ PageSize * 0 <= last_ /\ last_ < PageSize * (0 + 1)
          BY <1>7, <4>2
        <4> HIDE DEF last_
        <4>4. last_ \div PageSize = 0
          BY <1>7, <4>3, DivIs
        <4>5. Logical(last_) = 1
          BY <4>4 DEF Logical
        <4> QED BY <4>1, <4>5 DEF last_
      <3>3. tables[from] \in Tables
        BY <1>1, <3>1, RunningTables
      <3>4. PooledCell(tables'[s], g) = PooledCell(tables[from], g)
        BY <1>4, <1>17, <1>18, <3>0, <3>1, <3>2, <3>3, PooledPlaced
      <3>5. /\ Len(supplied[from]) \in Nat /\ (g + 1) * Ratio <= Len(supplied[from])
            /\ Len(supplied[from]) <= Capacity /\ supplied[from] \in Seq(Keys)
        <4>1. /\ Len(supplied[from]) \in Nat /\ Len(supplied[from]) <= Capacity
          BY <1>1, <3>1, ResumesFrom
        <4>2. from \in Slots
          BY <1>1, <3>1, RunningTables
        <4>3. supplied[from] \in Seq(Keys)
          BY <1>1, <4>2 DEF ShapeInv, Keys
        <4>4. (g + 1) * Ratio <= PageSize /\ (g + 1) * Ratio \in Int
          BY <3>1, Sizes
        <4>5. Len(supplied[from]) >= PageSize
          BY <1>3, <3>0
        <4> DEFINE n == (g + 1) * Ratio
                   len == Len(supplied[from])
        <4>6. n \in Int /\ n <= PageSize /\ len >= PageSize /\ len \in Nat
          BY <4>1, <4>4, <4>5
        <4> HIDE DEF n, len
        <4>7. n <= len
          BY <1>7, <4>6
        <4> QED BY <4>1, <4>3, <4>7 DEF n, len
      <3>6. g \in 0..(Len(supplied[from]) \div Ratio) - 1
        <4>1. ((g + 1) * Ratio) \div Ratio <= Len(supplied[from]) \div Ratio
          <5>1. (g + 1) * Ratio \in Int /\ Len(supplied[from]) \in Int /\ Ratio \in Nat \ {0}
            BY <3>1, <3>5, Sizes
          <5> QED BY <3>5, <5>1, DivMono
        <4>2. ((g + 1) * Ratio) \div Ratio = g + 1
          BY <3>1, Sizes, DivIs
        <4>3. Len(supplied[from]) \div Ratio \in Int
          BY <3>5, Sizes, DivMod
        <4> QED BY <3>1, <4>1, <4>2, <4>3
      <3>7. pooled[PooledCell(tables[from], g)[1]][PooledCell(tables[from], g)[2]] =
              SubSeq(supplied[from], g * Ratio + 1, (g + 1) * Ratio)
        BY <1>1, <3>1, <3>6 DEF GroupsHeld
      <3>8. /\ SubSeq(supplied[from], g * Ratio + 1, (g + 1) * Ratio) = [i \in 1..Ratio |-> supplied[from][g * Ratio + i]]
            /\ SubSeq(supplied'[s], g * Ratio + 1, (g + 1) * Ratio) = [i \in 1..Ratio |-> supplied'[s][g * Ratio + i]]
        <4>1. (g + 1) * Ratio <= Len(supplied'[s])
          BY <1>7, <3>0, <3>1
        <4> QED BY <1>4, <1>17, <1>18, <3>1, <3>5, <4>1, GroupOfSequence
      <3>9. \A i \in 1..Ratio : supplied'[s][g * Ratio + i] = supplied[from][g * Ratio + i]
        <4> DEFINE m == g * Ratio
        <4>1. m \in Nat /\ m + Ratio <= PageSize /\ Ratio \in Nat
          BY <3>1, Sizes
        <4> HIDE DEF m
        <4>2. \A i \in 1..Ratio : m + i \in 1..PageSize
          BY <1>7, <4>1
        <4>3. \A i \in 1..Ratio : supplied'[s][m + i] = supplied[from][m + i]
          BY <1>4, <1>17, <1>18, <3>0, <4>2
        <4> QED BY <4>3 DEF m
      <3> QED BY <2>2, <3>4, <3>7, <3>8, <3>9
    <2>3. CASE t # s
      <3>1. t \in Running /\ t \in Slots \ {s}
        BY <1>6, <2>3
      <3>2. tables'[t] = tables[t] /\ supplied'[t] = supplied[t]
        BY <1>5, <3>1
      <3> QED BY <1>1, <2>1, <3>1, <3>2 DEF GroupsHeld
    <2> QED BY <2>2, <2>3
  <1>15. CacheHoldsSequence'
    BY <1>13, <1>14 DEF CacheHoldsSequence, KeysHeld, GroupsHeld
  <1> QED BY <1>8, <1>9, <1>10, <1>11, <1>12, <1>15 DEF PagedInv

-----------------------------------------------------------------------------
(***************************************************************************)
(* The theorems.                                                           *)
(***************************************************************************)

\* What every launch has in common: whom it admits is genuine, and a right
\* caller's requests are as they should be.
LEMMA LaunchesAre ==
    ASSUME ShapeInv, AnchorInv, Serve \/ FailingLaunch \/ WrongCaller
    PROVE \E batch, honest : \E n \in 1..Kernels :
            /\ Launch(batch, n, honest) /\ launches' = launches + 1 /\ tables' = tables
            /\ \A r \in Requests : Nonempty(batch[r]) /\ Admitted(batch, r) => Genuine(batch[r])
            /\ honest \in BOOLEAN
            /\ honest => Honest(batch)
                         /\ \A r \in Requests : Nonempty(batch[r]) => Asked(batch[r])
  <1>0. Kernels = 7 /\ Kernels \in 1..Kernels /\ TRUE \in BOOLEAN /\ FALSE \in BOOLEAN
    BY DEF Kernels
  <1>1. \A batch \in Batches : \A r \in Requests :
          Nonempty(batch[r]) => Asked(batch[r]) /\ Genuine(batch[r])
    BY BatchesAreAsked DEF Asked
  <1>2. CASE Serve
    <2>1. PICK batch \in Batches : Honest(batch) /\ Launch(batch, Kernels, TRUE)
      BY <1>2 DEF Serve
    <2>2. launches' = launches + 1 /\ tables' = tables
      BY <1>2 DEF Serve
    <2> QED BY <1>0, <1>1, <2>1, <2>2
  <1>3. CASE FailingLaunch
    <2>1. PICK batch \in Batches, n \in 1..Kernels - 1 : Honest(batch) /\ Launch(batch, n, TRUE)
      BY <1>3 DEF FailingLaunch
    <2>2. launches' = launches + 1 /\ tables' = tables
      BY <1>3 DEF FailingLaunch
    <2>3. n \in 1..Kernels
      BY <1>0
    <2> QED BY <1>0, <1>1, <2>1, <2>2, <2>3
  <1>4. CASE WrongCaller
    <2>1. PICK batch \in Batches : \E r \in Requests :
            /\ Nonempty(batch[r])
            /\ \E wrong \in Wrong(batch[r], batch) :
                 Launch([batch EXCEPT ![r] = wrong], Kernels, FALSE)
      BY <1>4 DEF WrongCaller
    <2>2. PICK r \in Requests :
            /\ Nonempty(batch[r])
            /\ \E wrong \in Wrong(batch[r], batch) :
                 Launch([batch EXCEPT ![r] = wrong], Kernels, FALSE)
      BY <2>1
    <2>3. PICK wrong \in Wrong(batch[r], batch) : Launch([batch EXCEPT ![r] = wrong], Kernels, FALSE)
      BY <2>2
    <2> DEFINE b2 == [batch EXCEPT ![r] = wrong]
    <2>4. b2[r] = wrong /\ \A o \in Requests \ {r} : b2[o] = batch[o]
      BY <2>2 DEF Batches
    <2>5. Launch(b2, Kernels, FALSE)
      BY <2>3
    <2> HIDE DEF b2
    <2>6. launches' = launches + 1 /\ tables' = tables
      BY <1>4 DEF WrongCaller
    <2>7. ASSUME NEW o \in Requests, Nonempty(b2[o]), Admitted(b2, o) PROVE Genuine(b2[o])
      <3>1. CASE o = r
        <4>1. \A x \in Requests : Nonempty(batch[x]) => Asked(batch[x])
          BY <1>1
        <4>2. b2[r] \in Wrong(batch[r], batch)
          BY <2>3, <2>4
        <4> QED BY <2>2, <2>4, <2>7, <3>1, <4>1, <4>2, WrongIsRefused
      <3>2. CASE o # r
        BY <1>1, <2>4, <2>7, <3>2
      <3> QED BY <3>1, <3>2
    <2> QED BY <1>0, <2>5, <2>6, <2>7
  <1> QED BY <1>2, <1>3, <1>4

\* Every step keeps the inductive invariant.
LEMMA StepKeepsInvariant == PagedInv /\ [Next]_vars => PagedInv'
  <1> SUFFICES ASSUME PagedInv, [Next]_vars PROVE PagedInv'
    OBVIOUS
  <1>1. CASE Start
    BY <1>1, StartKeepsInvariant
  <1>2. CASE Serve \/ FailingLaunch \/ WrongCaller
    <2>0. ShapeInv /\ AnchorInv
      BY DEF PagedInv
    <2>1. PICK batch, honest : \E n \in 1..Kernels :
            /\ Launch(batch, n, honest) /\ launches' = launches + 1 /\ tables' = tables
            /\ \A r \in Requests : Nonempty(batch[r]) /\ Admitted(batch, r) => Genuine(batch[r])
      BY <1>2, <2>0, LaunchesAre
    <2>2. PICK n \in 1..Kernels :
            /\ Launch(batch, n, honest) /\ launches' = launches + 1 /\ tables' = tables
            /\ \A r \in Requests : Nonempty(batch[r]) /\ Admitted(batch, r) => Genuine(batch[r])
      BY <2>1
    <2>3. PICK A, F, N, P : Intervals(A, F, N, P) /\ Extends(batch, A, F, N, P, n)
      BY <2>0, <2>2, LaunchExtends
    <2> QED BY <2>3, LaunchKeepsInvariant
  <1>3. CASE UNCHANGED vars
    <2>1. UNCHANGED <<keys, pooled, ring, tags, anchors, verified, tables, supplied, launches>>
      BY <1>3 DEF vars
    <2> QED BY <2>1 DEF PagedInv, ShapeInv, AnchorInv, SharingInv, RingInv, TailInv,
               CacheHoldsSequence, Running, Resumes, Cell, PooledCell, Physical, Logical, Groups,
               Tables, Capacity, Positions, Offsets, Residues, GroupStart
  <1> QED BY <1>1, <1>2, <1>3 DEF Next

\* The inductive invariant holds.
THEOREM PagedInvariant == Spec => []PagedInv
  <1> QED BY InitHolds, StepKeepsInvariant, PTL DEF Spec

\* What attention of the next rows reads is the sequence itself, for every page,
\* ring and group size, any number of slots, pages and requests, however long the
\* runs of launches and starts: main pages and pooled groups alike, through
\* rejected drafts, shared prefixes, failing launches and wrong callers.
THEOREM SequencesAreCached == Spec => []CacheHoldsSequence
  <1>1. PagedInv => CacheHoldsSequence
    BY DEF PagedInv
  <1> QED BY <1>1, PagedInvariant, PTL

\* No request of a caller that is right is ever refused: the ring has the tail of
\* whatever it accepts, and no older page it shares is taken for a conflict.
THEOREM RightCallersAdmitted == Spec => []RightCallerAdmitted
  <1>1. Init => RightCallerAdmitted
    BY DEF Init, Quiet, RightCallerAdmitted
  <1>2. PagedInv /\ RightCallerAdmitted /\ [Next]_vars => RightCallerAdmitted'
    <2> SUFFICES ASSUME PagedInv, RightCallerAdmitted, [Next]_vars PROVE RightCallerAdmitted'
      OBVIOUS
    <2>0. ShapeInv /\ AnchorInv /\ SharingInv /\ TailInv
      BY DEF PagedInv
    <2>1. CASE Start
      BY <2>1 DEF Start, Quiet, RightCallerAdmitted
    <2>2. CASE Serve \/ FailingLaunch \/ WrongCaller
      <3>1. PICK batch, honest : \E n \in 1..Kernels :
              /\ Launch(batch, n, honest) /\ honest \in BOOLEAN
              /\ honest => Honest(batch)
                           /\ \A r \in Requests : Nonempty(batch[r]) => Asked(batch[r])
        BY <2>0, <2>2, LaunchesAre
      <3>2. last'.honest = honest /\ last'.refused = {batch[r].slot : r \in Errors(batch)}
        BY <3>1 DEF Launch
      <3>3. ASSUME honest PROVE Errors(batch) = {}
        <4>1. \A r \in Requests : Nonempty(batch[r]) => Admitted(batch, r)
          BY <2>0, <3>1, <3>3, HonestIsAdmitted
        <4> QED BY <4>1 DEF Errors
      <3>4. honest => last'.refused = {}
        BY <3>2, <3>3
      <3> QED BY <3>2, <3>4 DEF RightCallerAdmitted
    <2>3. CASE UNCHANGED vars
      BY <2>3 DEF vars, RightCallerAdmitted
    <2> QED BY <2>1, <2>2, <2>3 DEF Next
  <1> QED BY <1>1, <1>2, PagedInvariant, PTL DEF Spec

\* A launch leaves ring, anchor and every page of a sequence it does not extend as
\* they were, whoever else is in it and wherever it stops, for callers that hand
\* out no page of a sequence outside the launch.
THEOREM BystandersAreKept == Spec => RefusedChangeNothing
  <1>1. PagedInv /\ [Next]_vars => [BystandersKept]_vars
    <2> SUFFICES ASSUME PagedInv, [Next]_vars PROVE [BystandersKept]_vars
      OBVIOUS
    <2>0. ShapeInv /\ AnchorInv /\ launches \in Nat
      BY DEF PagedInv, ShapeInv
    <2>1. CASE Start
      <3>1. launches' = launches
        BY <2>1 DEF Start
      <3>2. ~(launches' > launches)
        BY <2>0, <3>1
      <3> QED BY <3>2 DEF BystandersKept
    <2>2. CASE Serve \/ FailingLaunch \/ WrongCaller
      <3>1. PICK batch, honest : \E n \in 1..Kernels :
              /\ Launch(batch, n, honest) /\ launches' = launches + 1 /\ tables' = tables
              /\ \A r \in Requests : Nonempty(batch[r]) /\ Admitted(batch, r) => Genuine(batch[r])
        BY <2>0, <2>2, LaunchesAre
      <3>2. PICK n \in 1..Kernels :
              /\ Launch(batch, n, honest) /\ launches' = launches + 1 /\ tables' = tables
              /\ \A r \in Requests : Nonempty(batch[r]) /\ Admitted(batch, r) => Genuine(batch[r])
        BY <3>1
      <3>3. PICK A, F, N, P : Intervals(A, F, N, P) /\ Extends(batch, A, F, N, P, n) /\ last'.admitted = A
        BY <2>0, <3>2, LaunchExtends
      <3>4. \A s \in Running : s \notin A =>
              /\ ring'[s] = ring[s] /\ tags'[s] = tags[s] /\ anchors'[s] = anchors[s]
              /\ \A i \in 1..TableWidth :
                   keys'[tables[s][i]] = keys[tables[s][i]] /\ pooled'[tables[s][i]] = pooled[tables[s][i]]
        BY <3>3, OthersKept
      <3> QED BY <3>3, <3>4 DEF BystandersKept
    <2>3. CASE UNCHANGED vars
      BY <2>3
    <2> QED BY <2>1, <2>2, <2>3 DEF Next
  <1> QED BY <1>1, PagedInvariant, PTL DEF Spec, RefusedChangeNothing
=============================================================================
