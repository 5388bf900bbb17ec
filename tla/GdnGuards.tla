------------------------------ MODULE GdnGuards ------------------------------
(***************************************************************************)
(* The device-side admission checks of the GDN serving kernels:            *)
(* validate_gdn and validate_commit of csrc/serving/gdn.cu, as pure        *)
(* operators over the operands of one launch.                              *)
(*                                                                         *)
(* A launch p is a record; a function over Row stands for a device vector: *)
(*   mode          "decode", "verify" or "prefill"                         *)
(*   live          *p.live, any integer                                    *)
(*   starts        packed row starts, a function over 0..Requests          *)
(*   src, dst      initial_slots and final_slots                           *)
(*   checkpoint    the rows whose checkpoint fields are not zero           *)
(* A commit c has live, slots and counts; rec holds the record stamps      *)
(* recorded_lengths (len) and recorded_slots (slot).  A guard g has the V2 *)
(* vectors upstream, epochs, ready and consumed.                           *)
(***************************************************************************)
EXTENDS Integers

CONSTANTS Requests,   \* rows of a descriptor (Gdn::requests)
          Slots,      \* rows of the state pool, row 0 is null (Gdn::slots)
          Tokens,     \* packed tokens of a launch (Gdn::tokens)
          Width       \* capacity of a record window (Gdn::width)

\* What valid() and ala_gdn_commit demand of a static descriptor.
ASSUME DescriptorAssumption ==
    /\ Requests \in Nat \ {0}
    /\ Slots \in Nat \ {0, 1}
    /\ Tokens \in Nat \ {0}
    /\ Width \in Nat \ {0}

Row == 0..(Requests - 1)
LiveSlot == 1..(Slots - 1)

\* enum Error of abi.h.
Ok == 0
Bounds == 1
Slot == 2
Conflict == 3
Prefix == 4
History == 5
Page == 6
Unsupported == 7
Error == Ok..Unsupported

Length(p, r) == p.starts[r + 1] - p.starts[r]

\* valid() takes a decode of capacity one only.
Capacity(p) == IF p.mode = "decode" THEN 1 ELSE Width

ValidRange(p, r) ==
    /\ p.starts[r] >= 0
    /\ p.starts[r + 1] >= p.starts[r]
    /\ p.starts[r + 1] <= Tokens
    /\ Length(p, r) <= Capacity(p)

LiveRow(p, r) == r < p.live

SlotsInRange(p, r) == {p.src[r], p.dst[r]} \subseteq 0..(Slots - 1)

\* Null decode and verify rows are inactive; a prefill may read zero and
\* write a live slot.
Active(p, r) ==
    /\ ValidRange(p, r)
    /\ Length(p, r) > 0
    /\ SlotsInRange(p, r)
    /\ IF p.mode = "prefill" THEN p.dst[r] > 0 ELSE p.src[r] > 0

Reads(p, r) == Active(p, r) /\ p.src[r] > 0
Writes(p, r) == Active(p, r) /\ p.mode # "verify" /\ p.dst[r] > 0

\* Mutant: two writers clash, a reader and a writer do not.
MutantClashes(p, r) ==
    \E o \in Row \ {r} : LiveRow(p, o) /\ Writes(p, r) /\ Writes(p, o) /\ p.dst[r] = p.dst[o]

\* Row r and another live row touch one state slot and one of them writes it.
Clashes(p, r) ==
    \E o \in Row \ {r} :
        /\ LiveRow(p, o)
        /\ \/ Writes(p, r) /\ Writes(p, o) /\ p.dst[r] = p.dst[o]
           \/ Writes(p, r) /\ Reads(p, o) /\ p.dst[r] = p.src[o]
           \/ Reads(p, r) /\ Writes(p, o) /\ p.src[r] = p.dst[o]

\* Mutant: no look at the packed interval.
MutantLaunchError(p, r) ==
    IF p.live \notin 0..Requests THEN Bounds
    ELSE IF ~LiveRow(p, r) THEN Ok
    ELSE IF r \in p.checkpoint THEN Unsupported
    ELSE IF ~SlotsInRange(p, r) THEN Slot
    ELSE IF Clashes(p, r) THEN Conflict
    ELSE Ok

\* What validate_gdn finds without a V2 guard.
LaunchError(p, r) ==
    IF p.live \notin 0..Requests THEN Bounds
    ELSE IF ~LiveRow(p, r) THEN Ok
    ELSE IF ~ValidRange(p, r) THEN Bounds
    ELSE IF r \in p.checkpoint THEN Unsupported
    ELSE IF ~SlotsInRange(p, r) THEN Slot
    ELSE IF Clashes(p, r) THEN Conflict
    ELSE Ok

\* Mutant: neighbours are compared, rows further apart are not.
MutantOverlaps(p, r) ==
    \E o \in {r - 1, r + 1} \cap Row :
        /\ LiveRow(p, o)
        /\ ValidRange(p, o) /\ Length(p, o) > 0 /\ Length(p, r) > 0
        /\ p.starts[r] < p.starts[o + 1]
        /\ p.starts[o] < p.starts[r + 1]

\* V2: the packed token intervals of two rows overlap, so both would write
\* the same output tokens.
Overlaps(p, r) ==
    \E o \in Row \ {r} :
        /\ LiveRow(p, o)
        /\ ValidRange(p, o) /\ Length(p, o) > 0 /\ Length(p, r) > 0
        /\ p.starts[r] < p.starts[o + 1]
        /\ p.starts[o] < p.starts[r + 1]

\* An upstream error vector holds enum values; anything else is Bounds.
Dependency(dep) == IF dep \in 0..Unsupported THEN dep ELSE Bounds

\* Mutant: a new round is enough, outstanding records are not looked at.
MutantStaleRound(g, r) ==
    \/ g.epochs[r] <= 0
    \/ g.epochs[r] <= g.ready[r]
    \/ g.epochs[r] <= g.consumed[r]

\* The round of a verification must be new, and no record may be outstanding.
StaleRound(g, r) ==
    \/ g.epochs[r] <= 0
    \/ g.epochs[r] <= g.ready[r]
    \/ g.epochs[r] <= g.consumed[r]
    \/ g.ready[r] > g.consumed[r]

\* ala_gdn_checked_v2: a dependency and no epochs.
CheckedError(p, g, r) ==
    IF LaunchError(p, r) # Ok \/ ~LiveRow(p, r) THEN LaunchError(p, r)
    ELSE IF Overlaps(p, r) THEN Conflict
    ELSE Dependency(g.upstream[r])

\* ala_gdn_verify_v2: a dependency and epochs.
VerifyError(p, g, r) ==
    IF CheckedError(p, g, r) # Ok \/ ~LiveRow(p, r) THEN CheckedError(p, g, r)
    ELSE IF Length(p, r) > 0 /\ p.src[r] > 0 /\ StaleRound(g, r) THEN History
    ELSE Ok

\* Mutant: an inactive row clears its stamps, as in V1.
MutantKeepRecords(p, g, r) == VerifyError(p, g, r) # Ok

\* V2 verify leaves the record stamps of row r alone: the row failed, or it
\* is inactive and its records are outstanding.
KeepRecords(p, g, r) ==
    \/ VerifyError(p, g, r) # Ok
    \/ /\ \/ ~LiveRow(p, r)
          \/ ~ValidRange(p, r)
          \/ Length(p, r) = 0
          \/ p.src[r] = 0
       /\ g.ready[r] > g.consumed[r]

\* Two rows of one commit would replay records on the same slot.
SharedCommitSlot(c, r) ==
    \E o \in Row \ {r} :
        /\ o < c.live
        /\ c.slots[r] > 0 /\ c.slots[o] = c.slots[r]
        /\ c.counts[r] > 0 /\ c.counts[o] > 0

\* Mutant: the recorded slot is not compared.
MutantPrefixError(c, rec, r) ==
    IF c.live \notin 0..Requests THEN Bounds
    ELSE IF r >= c.live THEN Ok
    ELSE IF SharedCommitSlot(c, r) THEN Conflict
    ELSE IF c.slots[r] \notin 0..(Slots - 1) THEN Slot
    ELSE IF c.counts[r] \notin 0..Width \/ c.counts[r] > rec.len[r] THEN Prefix
    ELSE Ok

\* What validate_commit finds without a V2 guard.
PrefixError(c, rec, r) ==
    IF c.live \notin 0..Requests THEN Bounds
    ELSE IF r >= c.live THEN Ok
    ELSE IF SharedCommitSlot(c, r) THEN Conflict
    ELSE IF c.slots[r] \notin 0..(Slots - 1) THEN Slot
    ELSE IF \/ c.counts[r] \notin 0..Width
            \/ c.counts[r] > rec.len[r]
            \/ c.counts[r] > 0 /\ c.slots[r] # rec.slot[r] THEN Prefix
    ELSE Ok

\* Mutant: a consumed round is consumed again.
MutantConsumedRecord(c, rec, g, r) ==
    \/ c.slots[r] # rec.slot[r]
    \/ g.epochs[r] <= 0
    \/ g.epochs[r] # g.ready[r]

\* Mutant: records of an earlier round pass.
MutantEarlierRecord(c, rec, g, r) ==
    \/ c.slots[r] # rec.slot[r]
    \/ g.epochs[r] <= 0
    \/ g.epochs[r] <= g.consumed[r]

\* Mutant: only records of earlier rounds pass.
MutantFinishedRecord(c, rec, g, r) ==
    \/ c.slots[r] # rec.slot[r]
    \/ g.epochs[r] <= 0
    \/ g.epochs[r] <= g.ready[r]
    \/ g.epochs[r] <= g.consumed[r]

\* The record of row r is not the one this round may consume.
WrongRecord(c, rec, g, r) ==
    \/ c.slots[r] # rec.slot[r]
    \/ g.epochs[r] <= 0
    \/ g.epochs[r] # g.ready[r]
    \/ g.epochs[r] <= g.consumed[r]

\* ala_gdn_commit_v2.
CommitError(c, rec, g, r) ==
    IF PrefixError(c, rec, r) # Ok \/ r >= c.live THEN PrefixError(c, rec, r)
    ELSE IF g.upstream[r] # 0 THEN Dependency(g.upstream[r])
    ELSE IF rec.len[r] > 0 /\ WrongRecord(c, rec, g, r) THEN History
    ELSE Ok
=============================================================================
