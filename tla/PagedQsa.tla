------------------------------ MODULE PagedQsa ------------------------------
(* The streaming step of query-sparse attention: ala_qsa_run validates packed
   requests, appends their keys to main pages, pools each completed group of
   Ratio raw keys into a compressed page, and keeps the last raw keys of every
   slot in a ring for groups that a later, possibly shorter, interval completes.

   A key is named by its slot, position and the launch that supplied it.  A raw
   key, its K/V rows and its rotary positions travel together; the encoder of a
   pooled key is injective, and one value stands for K and V.  Attention selects
   among the groups and the tail before its own position, so what it may read is
   exactly what the caches hold there; scores are left out.

   The caller (external) starts a sequence in a slot with anchor -1 or at a page
   boundary behind shared prefix pages, claims how much of the last interval it
   accepted, and may get any of it wrong.                                     *)
EXTENDS Integers, Sequences, FiniteSets, TLC

CONSTANTS
  Ratio, PageSize, RingSize, TableWidth, Pages, Slots, Requests,
  MaxAccepted,       \* a verification accepts at most this many (8)
  Shapes,            \* intervals: [rows, pad, surplus, prefilling]
  Accepts,           \* accepted counts the caller claims
  Companions,        \* intervals of a second request
  MaxLaunches, MaxStarts, MaxTroubles,                     \* bounds
  None

ASSUME Geometry ==
  /\ IsFiniteSet(Pages)
  /\ {Ratio, PageSize, RingSize, TableWidth, MaxAccepted} \subseteq Nat \ {0}
  /\ PageSize % Ratio = 0 /\ PageSize % RingSize = 0
  /\ RingSize >= (Ratio - 1) + MaxAccepted + 1      \* "ring_size < 12" is refused
\* A verification supplies at most the accepted keys and one more, a prefill any
\* number; padding lies past the length.
ASSUME IntervalsFit ==
  /\ Accepts \subseteq Nat
  /\ \A s \in Shapes \union Companions :
       /\ {s.rows, s.pad, s.surplus} \subseteq Nat /\ s.prefilling \in BOOLEAN
       /\ s.pad = 0 \/ s.surplus = 0
       /\ s.prefilling \/ s.rows <= MaxAccepted + 1
\* No page, slot or row is the absent one.
ASSUME NoneIsNone ==
  /\ None \notin Pages \union Slots
  /\ \A pos \in 0..TableWidth * PageSize - 1, page \in Pages, o \in 0..PageSize - 1 :
       [pos |-> pos, cell |-> <<page, o>>] # None

VARIABLES
  keys,              \* main pages: page -> offset -> key
  pooled,            \* compressed pages: page -> offset -> group
  ring, tags,        \* slot -> residue -> key, position
  anchors,           \* slot -> start of the last interval, end of a last prefill
  verified,          \* slot -> whether the last interval was a verification
  tables,            \* slot -> the pages of its sequence
  supplied,          \* slot -> keys of the sequence so far, drafts included
  launches, starts, troubles,      \* bounds
  last               \* the last launch: who was admitted, and was the caller right
vars == <<keys, pooled, ring, tags, anchors, verified, tables, supplied, launches, starts, troubles, last>>

Groups == PageSize \div Ratio
Quiet == [admitted |-> {}, refused |-> {}, honest |-> FALSE]
Init ==
  /\ keys = [p \in Pages |-> [o \in 0..PageSize - 1 |-> None]]
  /\ pooled = [p \in Pages |-> [o \in 0..Groups - 1 |-> None]]
  /\ ring = [s \in Slots |-> [i \in 0..RingSize - 1 |-> None]]
  /\ tags = [s \in Slots |-> [i \in 0..RingSize - 1 |-> -1]]
  /\ anchors = [s \in Slots |-> -1] /\ verified = [s \in Slots |-> FALSE]
  /\ tables = [s \in Slots |-> <<>>] /\ supplied = [s \in Slots |-> <<>>]
  /\ launches = 0 /\ starts = 0 /\ troubles = 0 /\ last = Quiet
-----------------------------------------------------------------------------
(* Addresses.  A request is [slot, rows, length, accepted, prefilling, main,
   compressed]; a row is padding or has a position and a main cell.           *)
Logical(pos) == pos \div PageSize + 1
Physical(table, page) == IF page \in 1..Len(table) THEN table[page] ELSE None
Cell(table, pos) == <<Physical(table, Logical(pos)), pos % PageSize>>
PooledCell(table, group) == <<Physical(table, group \div Groups + 1), group % Groups>>
Visible(q) == 1..((q.length + PageSize - 1) \div PageSize)
First(q) == q.rows[1].pos
Count(q) == Cardinality({i \in DOMAIN q.rows : q.rows[i] # None})

\* nonempty_request: an empty or inactive row owns nothing, whatever its stale
\* slot and pages are.
Nonempty(q) == q.slot # None /\ q.rows # <<>> /\ q.rows[1] # None

\* validate_qsa
Continues(q) ==
  /\ First(q) = anchors[q.slot] + q.accepted
  /\ q.accepted >= 0 /\ (q.prefilling \/ q.accepted <= MaxAccepted)
  /\ anchors[q.slot] = -1 => First(q) = 0 /\ q.accepted = 1
RowsAdmitted(q) ==
  \A i \in 1..Len(q.rows) :
    LET row == q.rows[i]  pos == First(q) + i - 1 IN
    IF row = None THEN pos >= q.length
    ELSE /\ row.pos = pos /\ pos < q.length
         /\ row.cell = Cell(q.main, pos) /\ row.cell[1] \in Pages
         /\ (pos + 1) % Ratio = 0 => PooledCell(q.compressed, pos \div Ratio)[1] \in Pages
PagesPresent(q) ==
  \A page \in Visible(q) :
    Physical(q.main, page) \in Pages /\ Physical(q.compressed, page) \in Pages
\* The accepted keys of the incomplete group are still in the ring.
TailRetained(q) ==
  \A pos \in ((First(q) \div Ratio) * Ratio)..(First(q) - 1) :
    tags[q.slot][pos % RingSize] = pos
\* A page this request writes is seen by nobody else, nor twice by itself.
\* Mutant: only the other requests' main tables are compared.
MutantExclusive(batch, r) ==
  \A page \in {p \in Visible(batch[r]) : p >= Logical(First(batch[r]))},
     other \in {o \in Requests : o # r /\ Nonempty(batch[o])} :
    \A seen \in Visible(batch[other]) : batch[r].main[page] # Physical(batch[other].main, seen)
Exclusive(batch, r) ==
  LET q == batch[r] IN
  \A page \in {p \in Visible(q) : p >= Logical(First(q))},
     other \in {o \in Requests : o = r \/ Nonempty(batch[o])} :
    \A seen \in Visible(batch[other]) \ (IF other = r THEN {page} ELSE {}) :
      /\ q.main[page] # Physical(batch[other].main, seen)
      /\ q.compressed[page] # Physical(batch[other].compressed, seen)
Admitted(batch, r) ==
  LET q == batch[r] IN
  /\ q.length <= TableWidth * PageSize
  /\ First(q) >= 0 /\ First(q) < q.length
  /\ Continues(q)
  /\ \A other \in Requests \ {r} : Nonempty(batch[other]) => batch[other].slot # q.slot
  /\ RowsAdmitted(q) /\ PagesPresent(q) /\ TailRetained(q)
  /\ Exclusive(batch, r)
Errors(batch) == {r \in Requests : Nonempty(batch[r]) /\ ~Admitted(batch, r)}
\* Of an interval longer than the ring, the last rows are kept.
\* Mutant: the first ones are.
MutantKept(q, i) == i <= RingSize
Kept(q, i) == i > Count(q) - RingSize
\* active: the rows that compute, each with what it writes where.
Row(q, i) ==
  LET pos == q.rows[i].pos IN
  [slot |-> q.slot, pos |-> pos, key |-> <<q.slot, pos, launches>>, cell |-> q.rows[i].cell,
   first |-> First(q), kept |-> Kept(q, i),
   group |-> PooledCell(q.compressed, pos \div Ratio)]
Active(batch, errors) ==
  UNION {{Row(batch[r], i) : i \in {i \in DOMAIN batch[r].rows : batch[r].rows[i] # None}} :
           r \in {r \in Requests \ errors : Nonempty(batch[r])}}
-----------------------------------------------------------------------------
(* The kernels that keep state, each a function of [keys, pooled, ring, tags,
   anchors]; the active rows were decided by the validation before them.      *)
Memory == [keys |-> keys, pooled |-> pooled, ring |-> ring, tags |-> tags, anchors |-> anchors]
TheRow(rows) == CHOOSE row \in rows : TRUE

AppendKv(active, m) ==
  LET Into(p, o) == {row \in active : row.cell = <<p, o>>} IN
  [m EXCEPT !.keys = [p \in Pages |-> [o \in 0..PageSize - 1 |->
     IF Into(p, o) = {} THEN m.keys[p][o] ELSE TheRow(Into(p, o)).key]]]

\* A key of the group comes from this interval, or from the ring.
CompressCompleted(active, m) ==
  LET Into(p, g) == {row \in active : (row.pos + 1) % Ratio = 0 /\ row.group = <<p, g>>}
      Source(row, pos) == IF pos >= row.first THEN <<row.slot, pos, launches>>
                          ELSE m.ring[row.slot][pos % RingSize]
      Group(row) == [t \in 1..Ratio |-> Source(row, row.pos - Ratio + t)] IN
  [m EXCEPT !.pooled = [p \in Pages |-> [g \in 0..Groups - 1 |->
     IF Into(p, g) = {} THEN m.pooled[p][g] ELSE Group(TheRow(Into(p, g)))]]]

Prefills(batch, s) ==
  \E r \in Requests : Nonempty(batch[r]) /\ batch[r].slot = s /\ batch[r].prefilling
\* The last RingSize rows, and where the next interval starts counting.
RetainRing(batch, active, m) ==
  LET Into(s, i) == {row \in active : row.slot = s /\ row.pos % RingSize = i /\ row.kept}
      Mine(s) == {row \in active : row.slot = s}
      End(s) == CHOOSE pos \in {row.pos : row \in Mine(s)} : \A row \in Mine(s) : row.pos <= pos IN
  [m EXCEPT
     !.ring = [s \in Slots |-> [i \in 0..RingSize - 1 |->
        IF Into(s, i) = {} THEN m.ring[s][i] ELSE TheRow(Into(s, i)).key]],
     !.tags = [s \in Slots |-> [i \in 0..RingSize - 1 |->
        IF Into(s, i) = {} THEN m.tags[s][i] ELSE TheRow(Into(s, i)).pos]],
     !.anchors = [s \in Slots |->
        IF Mine(s) = {} THEN m.anchors[s]
        ELSE IF Prefills(batch, s) THEN End(s) ELSE TheRow(Mine(s)).first]]

\* The first n of validate, append, encode, compress, retain, select, attention
\* were enqueued: a launch that fails stops the ones after it.
Kernels == 7
\* Mutant: the ring is written before the groups are completed.
MutantRan(batch, active, n) ==
  LET appended == IF n >= 2 THEN AppendKv(active, Memory) ELSE Memory
      retained == IF n >= 4 THEN RetainRing(batch, active, appended) ELSE appended IN
  IF n >= 5 THEN CompressCompleted(active, retained) ELSE retained
Ran(batch, active, n) ==
  LET appended   == IF n >= 2 THEN AppendKv(active, Memory) ELSE Memory
      compressed == IF n >= 4 THEN CompressCompleted(active, appended) ELSE appended IN
  IF n >= 5 THEN RetainRing(batch, active, compressed) ELSE compressed
-----------------------------------------------------------------------------
(* The caller *)
Running == {s \in Slots : tables[s] # <<>>}
PagesOf(slots) == UNION {{tables[s][i] : i \in 1..Len(tables[s])} : s \in slots}

\* The first position the next interval may supply: a verified interval may be
\* resumed anywhere from its start, a prefilled one only after its end.
Resumes(s) == IF verified[s] THEN anchors[s] ELSE anchors[s] + 1

\* A sequence takes over a slot: fresh pages, anchor -1; ring and tags keep what
\* the last one left.  With a shared prefix it begins at a page boundary.
Start ==
  /\ starts < MaxStarts /\ starts' = starts + 1
  /\ \E s \in Slots, prefix \in 0..1, from \in Running \union {None} :
       /\ prefix = 0 <=> from = None
       /\ from # s
       /\ prefix > 0 => /\ Resumes(from) >= prefix * PageSize
                        /\ Len(supplied[from]) >= prefix * PageSize
       /\ LET free == Pages \ PagesOf(Slots \ {s})
              shared == IF prefix = 0 THEN <<>> ELSE SubSeq(tables[from], 1, prefix)
              wanted == 1..(TableWidth - prefix) IN
          /\ Cardinality(free) >= Cardinality(wanted)
          /\ tables' = [tables EXCEPT ![s] = shared \o
               CHOOSE f \in [wanted -> free] : \A i, j \in wanted : i # j => f[i] # f[j]]
          /\ supplied' = [supplied EXCEPT ![s] =
               IF prefix = 0 THEN <<>> ELSE SubSeq(supplied[from], 1, prefix * PageSize)]
          /\ anchors' = [anchors EXCEPT ![s] = prefix * PageSize - 1]
          /\ verified' = [verified EXCEPT ![s] = FALSE]
  /\ last' = Quiet
  /\ UNCHANGED <<keys, pooled, ring, tags, launches, troubles>>

Rows(table, first, shape) ==
  [i \in 1..(shape.rows + shape.pad) |->
     IF i > shape.rows THEN None
     ELSE [pos |-> first + i - 1, cell |-> Cell(table, first + i - 1)]]
Request(s, accepted, shape) ==
  LET first == anchors[s] + accepted IN
  [slot |-> s, rows |-> Rows(tables[s], first, shape),
   length |-> first + shape.rows + shape.surplus, accepted |-> accepted,
   prefilling |-> shape.prefilling, main |-> tables[s], compressed |-> tables[s]]
\* What the caller may ask for: after positions it supplied, with room for the
\* interval; of a prefilled interval it takes back nothing, its count is 1.
Askable(q) ==
  /\ First(q) <= Len(supplied[q.slot]) /\ q.length <= TableWidth * PageSize
  /\ verified[q.slot] \/ q.accepted = 1
Requested(accepts, shapes) ==
  {q \in {Request(s, a, shape) : s \in Running, a \in accepts, shape \in shapes} : Askable(q)}
\* A row of an earlier replay, with its slot and pages.
Inactive == {[slot |-> s, rows |-> <<>>, length |-> PageSize, accepted |-> 0, prefilling |-> FALSE,
              main |-> tables[s], compressed |-> tables[s]] : s \in Running}

Wrong(q, batch) ==
  LET page == Logical(First(q) + Count(q) - 1)
      others == {batch[r] : r \in {o \in Requests : Nonempty(batch[o])}}
      seen == UNION {{o.main[l] : l \in Visible(o)} : o \in others}
      Moved(d) == [q EXCEPT !.rows = [i \in DOMAIN q.rows |->
                     IF q.rows[i] = None THEN None
                     ELSE [pos |-> q.rows[i].pos + d, cell |-> Cell(q.main, q.rows[i].pos + d)]]] IN
  {[q EXCEPT !.accepted = a] : a \in {q.accepted - 1, q.accepted + 1}}        \* miscounted
  \union {m \in {Moved(-1), Moved(1)} : First(m) >= 0}                          \* misplaced
  \union {[q EXCEPT !.slot = s] : s \in {o.slot : o \in others} \ {q.slot}}
  \union {[q EXCEPT !.length = @ - 1]}
  \union {[q EXCEPT !.rows[Count(q)] = None]}
  \union {[q EXCEPT !.main[page] = p, !.rows = [i \in DOMAIN q.rows |->
            IF q.rows[i] = None THEN None
            ELSE [q.rows[i] EXCEPT !.cell = Cell([q.main EXCEPT ![page] = p], q.rows[i].pos)]]] :
            p \in (seen \ {q.main[page]}) \union {None}}
  \union {[q EXCEPT !.compressed[page] = p] : p \in (seen \ {q.compressed[page]}) \union {None}}
Honest(batch) ==
  \A r \in Requests : Nonempty(batch[r]) =>
    /\ batch[r].prefilling \/ batch[r].accepted <= MaxAccepted
    /\ \A o \in Requests \ {r} : Nonempty(batch[o]) => batch[r].slot # batch[o].slot

\* The keys of a sequence, as far as an acknowledged interval goes; of an interval
\* whose launch failed, the caller keeps none.
Sequence(active, n, s) ==
  LET mine == {row \in active : row.slot = s} IN
  IF mine = {} \/ n < 2 THEN supplied[s]
  ELSE LET first  == TheRow(mine).first
           before == SubSeq(supplied[s], 1, first) IN
       IF n < Kernels THEN before
       ELSE before \o [i \in 1..Cardinality(mine) |-> <<s, first + i - 1, launches>>]

Launch(batch, n, honest) ==
  LET errors == Errors(batch)
      active == Active(batch, errors)
      m == Ran(batch, active, n) IN
  /\ keys' = m.keys /\ pooled' = m.pooled /\ ring' = m.ring /\ tags' = m.tags
  /\ anchors' = m.anchors
  /\ verified' = [s \in Slots |-> IF n >= 5 /\ \E row \in active : row.slot = s
                                THEN ~Prefills(batch, s) ELSE verified[s]]
  /\ supplied' = [s \in Slots |-> Sequence(active, n, s)]
  /\ last' = [admitted |-> {row.slot : row \in active},
              refused |-> {batch[r].slot : r \in errors}, honest |-> honest]
Batches ==
  {[r \in Requests |-> IF r = 1 THEN q ELSE other] :
     q \in Requested(Accepts, Shapes), other \in Requested({1}, Companions) \union Inactive}
Serve ==
  /\ launches < MaxLaunches /\ launches' = launches + 1
  /\ \E batch \in Batches : Honest(batch) /\ Launch(batch, Kernels, TRUE)
  /\ UNCHANGED <<tables, starts, troubles>>
FailingLaunch ==
  /\ launches < MaxLaunches /\ launches' = launches + 1
  /\ troubles < MaxTroubles /\ troubles' = troubles + 1
  /\ \E batch \in Batches, n \in 1..Kernels - 1 : Honest(batch) /\ Launch(batch, n, TRUE)
  /\ UNCHANGED <<tables, starts>>
WrongCaller ==
  /\ launches < MaxLaunches /\ launches' = launches + 1
  /\ troubles < MaxTroubles /\ troubles' = troubles + 1
  /\ \E batch \in Batches : \E r \in Requests :
       /\ Nonempty(batch[r])
       /\ \E wrong \in Wrong(batch[r], batch) :
            Launch([batch EXCEPT ![r] = wrong], Kernels, FALSE)
  /\ UNCHANGED <<tables, starts>>
Next == Start \/ Serve \/ FailingLaunch \/ WrongCaller
Spec == Init /\ [][Next]_vars
-----------------------------------------------------------------------------
(* Properties *)
\* What attention of the next rows reads is the sequence itself: every main cell
\* before the end of the last acknowledged interval holds the key last supplied
\* for its position, and every complete group before it is pooled from those keys,
\* through rejected drafts, retries, restarts, intervals longer than the ring,
\* failing launches and callers that get a count, page, slot or position wrong.
\* (qsa.cu validate_qsa, append_kv, compress_completed, retain_ring)
CacheHoldsSequence ==
  \A s \in Running :
    LET seq == supplied[s]  end == Len(seq) IN
    /\ \A pos \in 0..end - 1 :
         LET cell == Cell(tables[s], pos) IN keys[cell[1]][cell[2]] = seq[pos + 1]
    /\ \A group \in 0..(end \div Ratio) - 1 :
         LET cell == PooledCell(tables[s], group) IN
         pooled[cell[1]][cell[2]] = SubSeq(seq, group * Ratio + 1, (group + 1) * Ratio)

\* A caller that is right is never refused: whatever was drafted, rejected or
\* refused before, the ring still has the accepted tail, and neither stale rows of
\* a replayed graph nor shared older pages are taken for conflicts.
\* (qsa.cu validate_qsa)
RightCallerAdmitted == last.honest => last.refused = {}

\* A request that is refused, or not in the launch, keeps its ring, its anchor and
\* every page of its sequence, whoever else is in the launch and wherever the
\* launch stops.  A wrong page is one another request of the launch sees: one of
\* a sequence outside it is not checked, and the caller's contract.
\* (qsa.cu active, retain_ring, validate_qsa)
BystandersKept ==
  \A s \in Running :
    s \notin last'.admitted /\ launches' > launches =>
      /\ ring'[s] = ring[s] /\ tags'[s] = tags[s] /\ anchors'[s] = anchors[s]
      /\ \A i \in 1..TableWidth :
           keys'[tables[s][i]] = keys[tables[s][i]] /\ pooled'[tables[s][i]] = pooled[tables[s][i]]
RefusedChangeNothing == [][BystandersKept]_vars
=============================================================================
