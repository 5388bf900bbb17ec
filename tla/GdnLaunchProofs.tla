--------------------------- MODULE GdnLaunchProofs ---------------------------
(***************************************************************************)
(* Theorems about GdnLaunch, for every number of rows, slots and tokens,   *)
(* every operand of a run and of a commit, and every interleaving of the   *)
(* row blocks.                                                             *)
(*                                                                         *)
(* LaunchTypes             slots hold inputs of the launch, in range       *)
(* RunsAreScheduleFree     a run leaves the pool as its rows alone would   *)
(* GuardedOutputsAreOwned  no row writes over another's outputs            *)
(* CommitsAreScheduleFree  a commit adds one accepted prefix to a slot     *)
(*                                                                         *)
(* The inductive invariant names, at every moment of a kernel, the rows    *)
(* that have stored (Stored) and says that the pool is the one the call    *)
(* found but for their slots.  A row that has still to load reads a slot   *)
(* no stored row writes: the admission checks refuse the pair.  A row of   *)
(* no inputs passes them whatever slots it names, so nothing is said of    *)
(* what it loads; it stores nothing.                                       *)
(***************************************************************************)
EXTENDS GdnLaunch, SequenceTheorems, TLAPS

-----------------------------------------------------------------------------
(***************************************************************************)
(* The inductive invariant.                                                *)
(***************************************************************************)

Modes == {"decode", "verify", "prefill"}
Run == [mode : Modes, live : Int, starts : [0..Requests -> Int], src : [Row -> Int],
        dst : [Row -> Int], guarded : BOOLEAN]
Replay == [mode : {"commit"}, live : Int, slots : [Row -> Int], counts : [Row -> Int]]

InRun == call.mode \in Modes
InCommit == call.mode = "commit"

CallInv ==
    /\ InRun => call \in Run
    /\ InCommit => call \in Replay
    /\ kernel \in {"recurrent", "gather", "scatter"} => InRun
    /\ kernel \in {"gather", "scatter"} => call.mode = "prefill"
    /\ kernel = "commit" => InCommit
    /\ kernel = "idle" => Finished

\* What the admission checks leave of a run.
Accepted(r) == LiveRow(call, r) /\ errors[r] = Ok
AdmissionInv ==
    InRun => \A r \in Row : Accepted(r) =>
        /\ ValidRange(call, r) /\ SlotsInRange(call, r) /\ ~Clashes(call, r)
        /\ call.guarded => ~Overlaps(call, r)

\* The blocks still at work, and what the others loaded.
BlockInv ==
    InRun => \A r \in Row :
        /\ pc[r] # "done" => Ran(r)
        /\ kernel \in {"gather", "scatter"} => pc[r] # "store"
        /\ kernel = "recurrent" /\ pc[r] = "store" /\ Length(call, r) > 0 =>
             regs[r] = IF Null(call, r) THEN Zero ELSE Found(call.src[r])
        /\ Ran(r) /\ (kernel = "scatter" \/ (kernel = "gather" /\ pc[r] = "done")) =>
             regs[r] = Found(call.src[r])

\* Row r of a run has written what it writes.
Stored(r) == Ran(r) /\ pc[r] = "done" /\ kernel # "gather"
Writer(r, s) ==
    /\ Ran(r) /\ call.mode # "verify" /\ ~Null(call, r)
    /\ call.dst[r] = s /\ Length(call, r) > 0

PoolInv ==
    InRun => \A s \in LiveSlot :
        /\ (\A r \in Row : Writer(r, s) => ~Stored(r)) => state[s] = before[s]
        /\ \A r \in Row : Writer(r, s) /\ Stored(r) => state[s] = Computed(r, Length(call, r))

OutputInv ==
    InRun /\ call.mode # "verify" /\ call.guarded =>
        \A r \in Row : Stored(r) =>
            \A i \in 1..Length(call, r) : output[call.starts[r] + i - 1] = Computed(r, i)

RecordInv ==
    call.mode = "verify" => \A r \in Row :
        /\ recLen[r] > 0 => /\ Ran(r) /\ ~Null(call, r) /\ recLen[r] = Length(call, r)
                            /\ recSlot[r] = call.src[r]
        /\ Stored(r) /\ ~Null(call, r) /\ Length(call, r) > 0 =>
             delta[r].base = Found(call.src[r]) /\ Len(delta[r].inputs) = Length(call, r)

\* A row of a commit that replays its records.
Taken(r) == r < call.live /\ errors[r] = Ok /\ call.slots[r] # 0 /\ call.counts[r] # 0
PrefixInv ==
    InCommit => \A r \in Row :
        /\ r < call.live /\ errors[r] = Ok =>
             call.slots[r] \in 0..(Slots - 1) /\ call.counts[r] \in 0..Width
        /\ Taken(r) =>
             /\ delta[r].base = before[call.slots[r]]
             /\ Len(delta[r].inputs) >= call.counts[r]
             /\ \A o \in Row \ {r} : Taken(o) => call.slots[o] # call.slots[r]
        /\ pc[r] # "done" => Taken(r)
        /\ kernel = "commit" /\ pc[r] = "store" => regs[r] = before[call.slots[r]]

ReplayInv ==
    InCommit => \A s \in LiveSlot :
        /\ (\A r \in Row : Taken(r) /\ call.slots[r] = s => pc[r] # "done") => state[s] = before[s]
        /\ \A r \in Row : Taken(r) /\ call.slots[r] = s /\ pc[r] = "done" =>
             state[s] = Replayed(r, before[s])

RunInv == AdmissionInv /\ BlockInv /\ PoolInv /\ OutputInv /\ RecordInv
LaunchInv == TypeOK /\ CallInv /\ RunInv /\ PrefixInv /\ ReplayInv

-----------------------------------------------------------------------------
(***************************************************************************)
(* Operands and values.                                                    *)
(***************************************************************************)

LEMMA RowTypes ==
    /\ Requests \in Nat /\ Slots \in Nat /\ Tokens \in Nat /\ Width \in Nat
    /\ \A r \in Row : r \in Int /\ r \in 0..Requests /\ r + 1 \in 0..Requests
    /\ \A s \in LiveSlot : s \in 1..(Slots - 1) /\ s \in Nat /\ s > 0
  BY DescriptorAssumption DEF Row, LiveSlot

LEMMA ZeroValue == Zero \in Value /\ Len(Zero) = 0
  BY DEF Zero, Value

LEMMA ValueConcat ==
    ASSUME NEW a \in Value, NEW b \in Value
    PROVE  a \o b \in Value /\ Len(a \o b) = Len(a) + Len(b)
  BY ConcatProperties DEF Value

\* The first n inputs of an interval within the packed tokens.
LEMMA InputsValue ==
    ASSUME call \in Run, NEW r \in Row, ValidRange(call, r), NEW n \in 0..Length(call, r)
    PROVE  Inputs(call, r, n) \in Value /\ Len(Inputs(call, r, n)) = n
  <1>1. call.starts[r] \in Int /\ call.starts[r + 1] \in Int /\ n \in Nat
    BY RowTypes DEF Run, Length
  <1>2. ASSUME NEW i \in 1..n
        PROVE  [token |-> call.starts[r] + i - 1] \in [slot : 0..(Slots - 1)] \cup [token : Token]
    <2>1. call.starts[r] + i - 1 \in Token
      BY <1>1, RowTypes DEF ValidRange, Length, Token
    <2> QED
      BY <2>1
  <1> QED
    BY <1>1, <1>2 DEF Inputs, Value

LEMMA RowCase ==
    ASSUME LaunchInv, InRun, NEW r \in Row, Ran(r)
    PROVE  /\ call \in Run /\ Accepted(r) /\ ValidRange(call, r) /\ SlotsInRange(call, r)
           /\ ~Clashes(call, r)
           /\ call.guarded => ~Overlaps(call, r)
           /\ call.src[r] \in 0..(Slots - 1) /\ call.dst[r] \in 0..(Slots - 1)
           /\ call.starts[r] \in Int /\ call.starts[r + 1] \in Int
           /\ Length(call, r) \in 0..Width
  <1>1. call \in Run /\ Accepted(r)
    BY DEF LaunchInv, CallInv, Ran, Skipped, Accepted
  <1>2. ValidRange(call, r) /\ SlotsInRange(call, r) /\ ~Clashes(call, r)
        /\ (call.guarded => ~Overlaps(call, r))
    BY <1>1 DEF LaunchInv, RunInv, AdmissionInv
  <1>3. call.starts[r] \in Int /\ call.starts[r + 1] \in Int
    BY <1>1, RowTypes DEF Run
  <1>4. Length(call, r) \in 0..Width
    BY <1>2, <1>3, RowTypes, DescriptorAssumption DEF ValidRange, Capacity, Length
  <1> QED
    BY <1>1, <1>2, <1>3, <1>4 DEF SlotsInRange

LEMMA FoundValue ==
    ASSUME TypeOK, NEW s \in 0..(Slots - 1)
    PROVE  Found(s) \in Value /\ Loaded(s) \in Value
  BY ZeroValue, RowTypes DEF TypeOK, Found, Loaded, LiveSlot

\* Two rows do not write one slot, and none writes what another reads.
LEMMA SlotsApart ==
    ASSUME LaunchInv, InRun, NEW r \in Row, NEW o \in Row, NEW s \in LiveSlot,
           Ran(r), ~Null(call, r), Length(call, r) > 0, Writer(o, s),
           Writer(r, s) \/ call.src[r] = s
    PROVE  o = r
  <1> SUFFICES ASSUME o # r PROVE FALSE
    OBVIOUS
  <1>1. Ran(o)
    BY DEF Writer
  <1>2. s > 0
    BY RowTypes
  <1>3. Active(call, r)
    BY RowCase DEF Active, Null
  <1>4. Writes(call, o)
    BY <1>1, <1>2, RowCase DEF Writes, Active, Null, Writer
  <1>5. call.dst[o] = s
    BY DEF Writer
  <1>6. LiveRow(call, o) /\ ~Clashes(call, r)
    BY <1>1, RowCase DEF Accepted
  <1>7. CASE Writer(r, s)
    <2>1. Writes(call, r) /\ call.dst[r] = call.dst[o]
      BY <1>2, <1>3, <1>5, <1>7 DEF Writes, Writer
    <2> QED
      BY <1>4, <1>6, <2>1 DEF Clashes
  <1>8. CASE call.src[r] = s
    <2>1. Reads(call, r) /\ call.src[r] = call.dst[o]
      BY <1>2, <1>3, <1>5, <1>8 DEF Reads
    <2> QED
      BY <1>4, <1>6, <2>1 DEF Clashes
  <1> QED
    BY <1>7, <1>8

\* A block that has not stored reads what the call found.
LEMMA LoadedFound ==
    ASSUME LaunchInv, InRun, NEW r \in Row, Ran(r), ~Null(call, r), Length(call, r) > 0,
           ~Stored(r)
    PROVE  Loaded(call.src[r]) = Found(call.src[r])
  <1>1. CASE call.src[r] = 0
    BY <1>1 DEF Loaded, Found
  <1>2. CASE call.src[r] # 0
    <2>1. call.src[r] \in LiveSlot
      BY <1>2, RowCase, RowTypes DEF LiveSlot
    <2>2. \A o \in Row : Writer(o, call.src[r]) => ~Stored(o)
      BY <2>1, SlotsApart
    <2>3. state[call.src[r]] = before[call.src[r]]
      BY <2>1, <2>2 DEF LaunchInv, RunInv, PoolInv
    <2> QED
      BY <1>2, <2>3 DEF Loaded, Found
  <1> QED
    BY <1>1, <1>2

-----------------------------------------------------------------------------
(***************************************************************************)
(* The start of a run.                                                     *)
(***************************************************************************)

LEMMA InitLaunch == Init => LaunchInv
  <1> SUFFICES ASSUME Init PROVE LaunchInv
    OBVIOUS
  <1> USE DEF Init
  <1>1. call.mode = "none"
    BY DEF NoCall
  <1>2. TypeOK
    <2>1. \A s \in LiveSlot : <<[slot |-> s]>> \in Value
      BY RowTypes DEF Value, LiveSlot
    <2>2. Unwritten \in Value
      BY DescriptorAssumption DEF Value, Unwritten
    <2>3. <<>> \in Value
      BY DEF Value
    <2> QED
      BY <2>1, <2>2, <2>3, DescriptorAssumption DEF TypeOK, Zero, Error, Ok, Unsupported
  <1>3. CallInv /\ PrefixInv /\ ReplayInv
    BY <1>1 DEF CallInv, PrefixInv, ReplayInv, InRun, InCommit, Modes, Finished
  <1>4. RunInv
    BY <1>1 DEF RunInv, AdmissionInv, BlockInv, PoolInv, OutputInv, RecordInv, InRun, Modes
  <1> QED
    BY <1>2, <1>3, <1>4 DEF LaunchInv

\* What a vector of errors says of the rows of a run without an error.
Admits(p, err, guarded) ==
    \A r \in Row : LiveRow(p, r) /\ err[r] = Ok =>
        /\ ValidRange(p, r) /\ SlotsInRange(p, r) /\ ~Clashes(p, r)
        /\ guarded => ~Overlaps(p, r)

LEMMA V1Admits ==
    ASSUME NEW p \in Launches
    PROVE  Admits(p, [r \in Row |-> LaunchError(p, r)], FALSE)
           /\ [r \in Row |-> LaunchError(p, r)] \in [Row -> Error]
  BY DEF Admits, LaunchError, LiveRow, Error, Ok, Bounds, Unsupported, Slot, Conflict

LEMMA V2Admits ==
    ASSUME NEW p \in Launches, NEW dep \in Upstream
    PROVE  /\ Admits(p, [r \in Row |-> CheckedError(p, [upstream |-> dep], r)], TRUE)
           /\ [r \in Row |-> CheckedError(p, [upstream |-> dep], r)] \in [Row -> Error]
  <1> DEFINE err(r) == CheckedError(p, [upstream |-> dep], r)
  <1>1. \A r \in Row : LaunchError(p, r) \in Error
    BY V1Admits
  <1>2. \A r \in Row : dep[r] \in Int
    BY LaunchAssumption
  <1>3. ASSUME NEW r \in Row PROVE err(r) \in Error
    BY <1>1, <1>2 DEF CheckedError, Dependency, Error, Ok, Bounds, Unsupported, Conflict
  <1>4. ASSUME NEW r \in Row, LiveRow(p, r), err(r) = Ok
        PROVE  LaunchError(p, r) = Ok /\ ~Overlaps(p, r)
    BY <1>4 DEF CheckedError, Ok, Conflict
  <1>5. Admits(p, [r \in Row |-> LaunchError(p, r)], FALSE)
    BY V1Admits
  <1>6. Admits(p, [r \in Row |-> err(r)], TRUE)
    BY <1>4, <1>5 DEF Admits
  <1> QED
    BY <1>3, <1>6

LEMMA LaunchStep ==
    ASSUME LaunchInv, NEW p \in Launches, NEW err \in [Row -> Error], NEW guarded \in BOOLEAN,
           NEW native \in BOOLEAN, native => p.mode = "prefill",
           Admits(p, err, guarded), Launch(p, err, guarded, native)
    PROVE  LaunchInv'
  <1> USE DEF Launch
  <1>1. /\ p.mode \in Modes /\ p.live \in Int /\ p.starts \in [0..Requests -> Int]
        /\ p.src \in [Row -> Int] /\ p.dst \in [Row -> Int]
    BY LaunchAssumption DEF Modes
  <1> DEFINE c == [mode |-> p.mode, live |-> p.live, starts |-> p.starts, src |-> p.src,
                   dst |-> p.dst, guarded |-> guarded]
  <1>2. /\ c.mode = p.mode /\ c.live = p.live /\ c.starts = p.starts /\ c.src = p.src
        /\ c.dst = p.dst /\ c.guarded = guarded /\ c \in Run
    BY <1>1 DEF Run
  <1>3. call' = c
    OBVIOUS
  <1> HIDE DEF c
  <1>4. InRun' /\ ~InCommit' /\ errors' = err
    BY <1>1, <1>2, <1>3 DEF InRun, InCommit, Modes
  <1>5. \A r \in Row : /\ LiveRow(c, r) <=> LiveRow(p, r)
                       /\ ValidRange(c, r) <=> ValidRange(p, r)
                       /\ SlotsInRange(c, r) <=> SlotsInRange(p, r)
                       /\ Length(c, r) = Length(p, r)
                       /\ Null(c, r) <=> Null(p, r)
    BY <1>2 DEF LiveRow, ValidRange, SlotsInRange, Length, Capacity, Null
  <1>6. \A r \in Row : /\ Reads(c, r) <=> Reads(p, r)
                       /\ Writes(c, r) <=> Writes(p, r)
    BY <1>2, <1>5 DEF Reads, Writes, Active
  <1>7. \A r \in Row : /\ Clashes(c, r) <=> Clashes(p, r)
                       /\ Overlaps(c, r) <=> Overlaps(p, r)
    BY <1>2, <1>5, <1>6 DEF Clashes, Overlaps
  <1>8. \A r \in Row : Ran(r)' <=> LiveRow(c, r) /\ err[r] = Ok /\ ValidRange(c, r)
    BY <1>3, <1>4 DEF Ran, Skipped
  <1>9. /\ pc' \in [Row -> {"load", "store", "done"}]
        /\ \A r \in Row : pc'[r] = IF Ran(r)' THEN "load" ELSE "done"
    BY <1>5, <1>8 DEF Begin, Skipped
  <1>10. kernel' \in {"gather", "recurrent"} /\ (kernel' = "gather" => p.mode = "prefill")
    OBVIOUS
  <1>11. \A r \in Row : ~Stored(r)'
    BY <1>9 DEF Stored
  <1>12. AdmissionInv'
    BY <1>2, <1>3, <1>4, <1>5, <1>7 DEF Admits, AdmissionInv, Accepted
  <1>13. TypeOK'
    <2>1. ASSUME NEW r \in Row, err[r] = Ok, LiveRow(p, r), p.src[r] > 0
          PROVE  Length(p, r) \in 0..Width /\ p.src[r] \in 0..(Slots - 1)
      <3>1. ValidRange(p, r) /\ SlotsInRange(p, r)
        BY <2>1 DEF Admits
      <3>2. p.starts[r] \in Int /\ p.starts[r + 1] \in Int
        BY <1>1, RowTypes
      <3> QED
        BY <3>1, <3>2, RowTypes, DescriptorAssumption
           DEF ValidRange, SlotsInRange, Length, Capacity
    <2>2. recLen' \in [Row -> 0..Width] /\ recSlot' \in [Row -> 0..(Slots - 1)]
      <3>1. CASE p.mode = "verify"
        BY <2>1, <3>1, DescriptorAssumption
      <3>2. CASE p.mode # "verify"
        BY <3>2 DEF LaunchInv, TypeOK
      <3> QED
        BY <3>1, <3>2
    <2> QED
      BY <1>9, <1>10, <2>2 DEF TypeOK, LaunchInv
  <1>14. CallInv'
    BY <1>2, <1>3, <1>4, <1>10 DEF CallInv
  <1>15. BlockInv'
    BY <1>9, <1>10 DEF BlockInv
  <1>16. PoolInv' /\ OutputInv'
    BY <1>11 DEF PoolInv, OutputInv
  <1>17. RecordInv'
    <2> SUFFICES ASSUME p.mode = "verify", NEW r \in Row, recLen'[r] > 0
                 PROVE  /\ Ran(r)' /\ ~Null(c, r) /\ recLen'[r] = Length(c, r)
                        /\ recSlot'[r] = c.src[r]
      BY <1>2, <1>3, <1>11 DEF RecordInv
    <2>1. err[r] = Ok /\ LiveRow(p, r) /\ p.src[r] > 0
          /\ recLen'[r] = Length(p, r) /\ recSlot'[r] = p.src[r]
      OBVIOUS
    <2>2. ValidRange(p, r)
      BY <2>1 DEF Admits
    <2> QED
      BY <1>1, <1>2, <1>5, <1>8, <2>1, <2>2 DEF Null
  <1>18. PrefixInv' /\ ReplayInv'
    BY <1>4 DEF PrefixInv, ReplayInv
  <1> QED
    BY <1>12, <1>13, <1>14, <1>15, <1>16, <1>17, <1>18 DEF LaunchInv, RunInv

-----------------------------------------------------------------------------
(***************************************************************************)
(* The blocks of a run.                                                    *)
(***************************************************************************)

\* What no block changes.
Same == UNCHANGED <<recLen, recSlot, errors, call, kernel, before>>

LEMMA SameRun ==
    ASSUME LaunchInv, Same
    PROVE  /\ InRun' <=> InRun
           /\ InCommit' <=> InCommit
           /\ \A r \in Row : /\ Ran(r)' <=> Ran(r)
                             /\ Null(call, r)' <=> Null(call, r)
                             /\ Length(call, r)' = Length(call, r)
           /\ \A s : Found(s)' = Found(s)
           /\ \A r, n : Computed(r, n)' = Computed(r, n)
           /\ \A r, s : Writer(r, s)' <=> Writer(r, s)
           /\ AdmissionInv'
  BY DEF Same, InRun, InCommit, Ran, Skipped, Null, Length, Found, Computed, Inputs, Writer,
         LiveRow, ValidRange, Capacity, LaunchInv, RunInv, AdmissionInv, Accepted,
         SlotsInRange, Clashes, Overlaps, Reads, Writes, Active

LEMMA LoadStep ==
    ASSUME LaunchInv, NEW r \in Row, LoadState(r)
    PROVE  LaunchInv'
  <1> USE DEF LoadState
  <1>1. InRun /\ ~InCommit /\ kernel = "recurrent" /\ Ran(r) /\ ~Stored(r)
    BY DEF LaunchInv, CallInv, RunInv, BlockInv, InRun, InCommit, Modes, Stored
  <1>2. Same
    BY DEF Same
  <1>3. pc' = [pc EXCEPT ![r] = "store"] /\ pc \in [Row -> {"load", "store", "done"}]
    BY DEF LaunchInv, TypeOK
  <1>4. regs \in [Row -> Value] /\ (IF Null(call, r) THEN Zero ELSE Loaded(call.src[r])) \in Value
    BY <1>1, RowCase, FoundValue, ZeroValue DEF LaunchInv, TypeOK
  <1>5. TypeOK'
    BY <1>3, <1>4 DEF LaunchInv, TypeOK
  <1>6. CallInv'
    BY <1>1, <1>2, <1>3 DEF Same, LaunchInv, CallInv, InRun, InCommit
  <1>7. \A o \in Row : Stored(o)' <=> Stored(o)
    BY <1>1, <1>2, <1>3, SameRun DEF Stored
  <1>8. BlockInv'
    <2>1. Length(call, r) > 0 =>
            regs'[r] = IF Null(call, r) THEN Zero ELSE Found(call.src[r])
      BY <1>1, <1>4, LoadedFound
    <2>2. \A o \in Row \ {r} : pc'[o] = pc[o] /\ regs'[o] = regs[o]
      BY <1>3, <1>4
    <2>3. pc'[r] = "store" /\ kernel' = "recurrent" /\ call' = call
      BY <1>1, <1>3
    <2> QED
      BY <1>1, <1>2, <2>1, <2>2, <2>3, SameRun DEF BlockInv, LaunchInv, RunInv
  <1>9. PoolInv' /\ OutputInv'
    BY <1>1, <1>2, <1>7, SameRun DEF PoolInv, OutputInv, LaunchInv, RunInv, Same
  <1>10. RecordInv'
    BY <1>1, <1>2, <1>7, SameRun DEF RecordInv, LaunchInv, RunInv, Same
  <1>11. PrefixInv' /\ ReplayInv'
    BY <1>1, <1>2, SameRun DEF PrefixInv, ReplayInv
  <1> QED
    BY <1>2, <1>5, <1>6, <1>8, <1>9, <1>10, <1>11, SameRun DEF LaunchInv, RunInv

LEMMA GatherStep ==
    ASSUME LaunchInv, NEW r \in Row, GatherState(r)
    PROVE  LaunchInv'
  <1> USE DEF GatherState
  <1>1. InRun /\ ~InCommit /\ kernel = "gather" /\ Ran(r)
    BY DEF LaunchInv, CallInv, RunInv, BlockInv, InRun, InCommit, Modes
  <1>2. Same
    BY DEF Same
  <1>3. pc' = [pc EXCEPT ![r] = "done"] /\ pc \in [Row -> {"load", "store", "done"}]
    BY DEF LaunchInv, TypeOK
  <1>4. regs \in [Row -> Value] /\ Loaded(call.src[r]) \in Value
    BY <1>1, RowCase, FoundValue DEF LaunchInv, TypeOK
  <1>5. TypeOK'
    BY <1>3, <1>4 DEF LaunchInv, TypeOK
  <1>6. CallInv'
    BY <1>1, <1>2, <1>3 DEF Same, LaunchInv, CallInv, InRun, InCommit
  <1>7. \A o \in Row : ~Stored(o) /\ ~Stored(o)'
    BY <1>1, <1>2 DEF Stored, Same
  <1>8. BlockInv'
    <2>1. \A s \in LiveSlot : state[s] = before[s]
      BY <1>1, <1>7 DEF LaunchInv, RunInv, PoolInv
    <2>2. Loaded(call.src[r]) = Found(call.src[r])
      BY <1>1, <2>1, RowCase, RowTypes DEF Loaded, Found, LiveSlot
    <2>3. \A o \in Row \ {r} : pc'[o] = pc[o] /\ regs'[o] = regs[o]
      BY <1>3, <1>4
    <2>4. pc'[r] = "done" /\ regs'[r] = Found(call.src[r]) /\ kernel' = "gather" /\ call' = call
      BY <1>1, <1>3, <1>4, <2>2
    <2> QED
      BY <1>1, <1>2, <2>3, <2>4, SameRun DEF BlockInv, LaunchInv, RunInv
  <1>9. PoolInv' /\ OutputInv'
    BY <1>1, <1>2, <1>7, SameRun DEF PoolInv, OutputInv, LaunchInv, RunInv, Same
  <1>10. RecordInv'
    BY <1>1, <1>2, <1>7, SameRun DEF RecordInv, LaunchInv, RunInv, Same
  <1>11. PrefixInv' /\ ReplayInv'
    BY <1>1, <1>2, SameRun DEF PrefixInv, ReplayInv
  <1> QED
    BY <1>2, <1>5, <1>6, <1>8, <1>9, <1>10, <1>11, SameRun DEF LaunchInv, RunInv

\* What a row stores, of the registers or scratch it loaded.
LEMMA StoreRow ==
    ASSUME LaunchInv, NEW r \in Row, InRun, Ran(r), ~Stored(r), Same, kernel # "gather",
           Length(call, r) > 0 /\ ~Null(call, r) => regs[r] = Found(call.src[r]),
           output' = Outputs(r, regs[r]), state' = Final(r, regs[r]),
           pc' = [pc EXCEPT ![r] = "done"]
    PROVE  /\ state' \in [LiveSlot -> Value] /\ output' \in [Token -> Value]
           /\ PoolInv' /\ OutputInv'
           /\ \A o \in Row : Stored(o)' <=> Stored(o) \/ o = r
           /\ call.mode = "verify" => state' = state
  <1>1. /\ call \in Run /\ ValidRange(call, r) /\ call.dst[r] \in 0..(Slots - 1)
        /\ call.starts[r] \in Int /\ call.starts[r + 1] \in Int /\ Length(call, r) \in Nat
        /\ call.starts[r + 1] = call.starts[r] + Length(call, r)
    BY RowCase, DescriptorAssumption DEF Length
  <1>2. /\ regs[r] \in Value /\ state \in [LiveSlot -> Value] /\ output \in [Token -> Value]
        /\ pc \in [Row -> {"load", "store", "done"}]
    BY DEF LaunchInv, TypeOK
  <1>3. \A n \in 0..Length(call, r) : regs[r] \o Inputs(call, r, n) \in Value
    BY <1>1, <1>2, InputsValue, ValueConcat
  <1>4. state' \in [LiveSlot -> Value]
    <2>1. regs[r] \o Inputs(call, r, Length(call, r)) \in Value
      BY <1>1, <1>3
    <2> QED
      BY <1>2, <2>1 DEF Final
  <1>5. output' \in [Token -> Value]
    <2>1. ASSUME NEW t \in Token, t \in call.starts[r]..(call.starts[r + 1] - 1)
          PROVE  t - call.starts[r] + 1 \in 0..Length(call, r)
      BY <1>1, <2>1
    <2> QED
      BY <1>2, <1>3, <2>1, ZeroValue DEF Outputs
  <1>6. \A o \in Row : Stored(o)' <=> Stored(o) \/ o = r
    BY <1>2, SameRun DEF Stored, Same
  <1>7. PoolInv'
    <2> SUFFICES ASSUME NEW s \in LiveSlot
                 PROVE  /\ (\A o \in Row : Writer(o, s) => ~Stored(o)') => state'[s] = before[s]
                        /\ \A o \in Row : Writer(o, s) /\ Stored(o)' =>
                             state'[s] = Computed(o, Length(call, o))
      BY SameRun DEF PoolInv, Same
    <2>1. s > 0
      BY RowTypes
    <2>2. CASE Writer(r, s)
      <3>1. state'[s] = Computed(r, Length(call, r))
        BY <1>1, <1>2, <2>1, <2>2 DEF Writer, Final, Computed
      <3>2. \A o \in Row : Writer(o, s) => o = r
        BY <2>2, SlotsApart DEF Writer
      <3> QED
        BY <1>6, <2>2, <3>1, <3>2
    <2>3. CASE ~Writer(r, s)
      <3>1. state'[s] = state[s]
        BY <1>1, <1>2, <2>3 DEF Writer, Final
      <3> QED
        BY <1>6, <2>3, <3>1 DEF LaunchInv, RunInv, PoolInv
    <2> QED
      BY <2>2, <2>3
  <1>8. OutputInv'
    <2> SUFFICES ASSUME call.mode # "verify", call.guarded, NEW o \in Row, Stored(o)',
                        NEW i \in 1..Length(call, o)
                 PROVE  output'[call.starts[o] + i - 1] = Computed(o, i)
      BY SameRun DEF OutputInv, Same
    <2> DEFINE t == call.starts[o] + i - 1
    <2>1. Ran(o)
      BY <1>6 DEF Stored
    <2>2. /\ call.starts[o] \in Int /\ call.starts[o + 1] \in Int /\ ValidRange(call, o)
          /\ Length(call, o) \in Nat /\ call.starts[o + 1] = call.starts[o] + Length(call, o)
      BY <2>1, RowCase, DescriptorAssumption DEF Length
    <2>3. t \in Token /\ t \in call.starts[o]..(call.starts[o + 1] - 1)
      BY <2>2, RowTypes DEF ValidRange, Token
    <2>4. CASE o = r
      <3>1. output'[t] = IF Null(call, r) THEN Zero
                         ELSE regs[r] \o Inputs(call, r, t - call.starts[r] + 1)
        BY <2>3, <2>4 DEF Outputs
      <3>2. t - call.starts[r] + 1 = i /\ Length(call, r) > 0
        BY <2>2, <2>4
      <3> QED
        BY <2>4, <3>1, <3>2 DEF Computed
    <2>5. CASE o # r
      <3>1. Stored(o)
        BY <1>6, <2>5
      <3>2. output[t] = Computed(o, i)
        BY <3>1 DEF LaunchInv, RunInv, OutputInv
      <3>3. LiveRow(call, o) /\ Length(call, o) > 0
        BY <2>1, <2>2, RowCase DEF Accepted
      <3>4. ~Overlaps(call, r)
        BY RowCase
      <3>5. t \notin call.starts[r]..(call.starts[r + 1] - 1)
        <4> SUFFICES ASSUME t \in call.starts[r]..(call.starts[r + 1] - 1) PROVE FALSE
          OBVIOUS
        <4>1. /\ Length(call, r) > 0
              /\ call.starts[r] < call.starts[o + 1] /\ call.starts[o] < call.starts[r + 1]
          BY <1>1, <2>2, <2>3
        <4> QED
          BY <2>2, <2>5, <3>3, <3>4, <4>1 DEF Overlaps
      <3> QED
        BY <2>3, <3>2, <3>5 DEF Outputs
    <2> QED
      BY <2>4, <2>5
  <1> QED
    BY <1>4, <1>5, <1>6, <1>7, <1>8 DEF Final

LEMMA StoreStep ==
    ASSUME LaunchInv, NEW r \in Row, StoreState(r)
    PROVE  LaunchInv'
  <1> USE DEF StoreState
  <1>1. InRun /\ ~InCommit /\ kernel = "recurrent" /\ Ran(r) /\ ~Stored(r)
    BY DEF LaunchInv, CallInv, RunInv, BlockInv, InRun, InCommit, Modes, Stored
  <1>2. Same
    BY DEF Same
  <1>3. pc' = [pc EXCEPT ![r] = "done"] /\ pc \in [Row -> {"load", "store", "done"}]
    BY DEF LaunchInv, TypeOK
  <1>4. Length(call, r) > 0 /\ ~Null(call, r) => regs[r] = Found(call.src[r])
    BY <1>1 DEF LaunchInv, RunInv, BlockInv
  <1>5. /\ state' \in [LiveSlot -> Value] /\ output' \in [Token -> Value]
        /\ PoolInv' /\ OutputInv'
        /\ \A o \in Row : Stored(o)' <=> Stored(o) \/ o = r
    BY <1>1, <1>2, <1>4, StoreRow
  <1> DEFINE inputs == Inputs(call, r, Length(call, r))
  <1>6. inputs \in Value /\ Len(inputs) = Length(call, r) /\ regs[r] \in Value
    <2>1. Length(call, r) \in 0..Length(call, r)
      BY <1>1, RowCase, DescriptorAssumption
    <2> QED
      BY <1>1, <2>1, RowCase, InputsValue DEF LaunchInv, TypeOK
  <1>7. delta \in [Row -> [base : Value, inputs : Value]]
    BY DEF LaunchInv, TypeOK
  <1> HIDE DEF inputs
  <1> DEFINE d == [base |-> regs[r], inputs |-> inputs]
  <1>8. d.base = regs[r] /\ d.inputs = inputs /\ d \in [base : Value, inputs : Value]
    BY <1>6
  <1>9. delta' = IF call.mode = "verify" /\ ~Null(call, r) THEN [delta EXCEPT ![r] = d] ELSE delta
    BY DEF inputs
  <1> HIDE DEF d
  <1>10. TypeOK'
    BY <1>3, <1>5, <1>7, <1>8, <1>9 DEF LaunchInv, TypeOK
  <1>11. CallInv'
    BY <1>1, <1>2, <1>3 DEF Same, LaunchInv, CallInv, InRun, InCommit
  <1>12. BlockInv'
    <2>1. \A o \in Row \ {r} : pc'[o] = pc[o]
      BY <1>3
    <2>2. pc'[r] = "done" /\ regs' = regs /\ kernel' = "recurrent" /\ call' = call
      BY <1>1, <1>3
    <2> QED
      BY <1>1, <1>2, <2>1, <2>2, SameRun DEF BlockInv, LaunchInv, RunInv
  <1>13. RecordInv'
    <2>1. ASSUME call.mode = "verify", NEW o \in Row, o # r PROVE delta'[o] = delta[o]
      BY <1>7, <1>9, <2>1
    <2>2. ASSUME call.mode = "verify", ~Null(call, r) PROVE delta'[r] = d
      BY <1>7, <1>9, <2>2
    <2>3. recLen' = recLen /\ recSlot' = recSlot /\ call' = call
      OBVIOUS
    <2>4. ASSUME call.mode = "verify", NEW o \in Row, Stored(o)', ~Null(call, o), Length(call, o) > 0
          PROVE  delta'[o].base = Found(call.src[o]) /\ Len(delta'[o].inputs) = Length(call, o)
      <3>1. CASE o = r
        BY <1>4, <1>6, <1>8, <2>2, <2>4, <3>1
      <3>2. CASE o # r
        BY <1>5, <2>1, <2>4, <3>2 DEF LaunchInv, RunInv, RecordInv
      <3> QED
        BY <3>1, <3>2
    <2> QED
      BY <1>2, <2>3, <2>4, SameRun DEF RecordInv, LaunchInv, RunInv
  <1>14. PrefixInv' /\ ReplayInv'
    BY <1>1, <1>2, SameRun DEF PrefixInv, ReplayInv
  <1> QED
    BY <1>2, <1>5, <1>10, <1>11, <1>12, <1>13, <1>14, SameRun DEF LaunchInv, RunInv

LEMMA ScatterStep ==
    ASSUME LaunchInv, NEW r \in Row, ScatterPrefill(r)
    PROVE  LaunchInv'
  <1> USE DEF ScatterPrefill
  <1>1. InRun /\ ~InCommit /\ kernel = "scatter" /\ call.mode = "prefill" /\ Ran(r) /\ ~Stored(r)
    BY DEF LaunchInv, CallInv, RunInv, BlockInv, InRun, InCommit, Modes, Stored
  <1>2. Same
    BY DEF Same
  <1>3. pc' = [pc EXCEPT ![r] = "done"] /\ pc \in [Row -> {"load", "store", "done"}]
    BY DEF LaunchInv, TypeOK
  <1>4. regs[r] = Found(call.src[r])
    BY <1>1 DEF LaunchInv, RunInv, BlockInv
  <1>5. /\ state' \in [LiveSlot -> Value] /\ output' \in [Token -> Value]
        /\ PoolInv' /\ OutputInv'
        /\ \A o \in Row : Stored(o)' <=> Stored(o) \/ o = r
    BY <1>1, <1>2, <1>4, StoreRow
  <1>6. TypeOK'
    BY <1>3, <1>5 DEF LaunchInv, TypeOK
  <1>7. CallInv'
    BY <1>1, <1>2, <1>3 DEF Same, LaunchInv, CallInv, InRun, InCommit
  <1>8. BlockInv'
    <2>1. \A o \in Row \ {r} : pc'[o] = pc[o]
      BY <1>3
    <2>2. pc'[r] = "done" /\ regs' = regs /\ kernel' = "scatter" /\ call' = call
      BY <1>1, <1>3
    <2> QED
      BY <1>1, <1>2, <2>1, <2>2, SameRun DEF BlockInv, LaunchInv, RunInv
  <1>9. RecordInv'
    BY <1>1 DEF RecordInv
  <1>10. PrefixInv' /\ ReplayInv'
    BY <1>1, <1>2, SameRun DEF PrefixInv, ReplayInv
  <1> QED
    BY <1>2, <1>5, <1>6, <1>7, <1>8, <1>9, <1>10, SameRun DEF LaunchInv, RunInv

LEMMA ForwardStep ==
    ASSUME LaunchInv, ForwardPrefill
    PROVE  LaunchInv'
  <1> USE DEF ForwardPrefill
  <1>1. InRun /\ ~InCommit /\ call.mode = "prefill" /\ kernel = "gather" /\ kernel' = "scatter"
    BY DEF LaunchInv, CallInv, InRun, InCommit, Modes
  <1>2. /\ InRun' /\ ~InCommit' /\ call' = call /\ errors' = errors /\ before' = before
        /\ \A r \in Row : /\ Ran(r)' <=> Ran(r)
                          /\ Null(call, r)' <=> Null(call, r)
        /\ \A r, n : Computed(r, n)' = Computed(r, n)
        /\ \A r, s : Writer(r, s)' <=> Writer(r, s)
    BY <1>1 DEF InRun, InCommit, Ran, Skipped, Null, Length, Found, Computed, Inputs, Writer,
                LiveRow, ValidRange, Capacity
  <1>3. \A r \in Row : Ran(r) <=> r < call.live /\ errors[r] = Ok
    BY <1>1 DEF Ran, Skipped, LiveRow, LaunchInv, RunInv, AdmissionInv, Accepted
  <1>4. /\ pc' \in [Row -> {"load", "store", "done"}]
        /\ \A r \in Row : pc'[r] = IF Ran(r) THEN "load" ELSE "done"
    BY <1>3 DEF Begin
  <1>5. \A r \in Row : ~Stored(r) /\ ~Stored(r)'
    BY <1>1, <1>2, <1>4 DEF Stored
  <1>6. TypeOK'
    BY <1>1, <1>4 DEF LaunchInv, TypeOK
  <1>7. CallInv'
    BY <1>1, <1>2 DEF LaunchInv, CallInv
  <1>8. AdmissionInv'
    BY <1>1, <1>2 DEF LaunchInv, RunInv, AdmissionInv, Accepted
  <1>9. BlockInv'
    <2>1. \A r \in Row : Ran(r) => regs[r] = Found(call.src[r])
      BY <1>1 DEF LaunchInv, RunInv, BlockInv, Finished
    <2>2. \A r \in Row : Found(call.src[r])' = Found(call.src[r])
      BY DEF Found
    <2> QED
      BY <1>1, <1>2, <1>4, <2>1, <2>2 DEF BlockInv
  <1>10. PoolInv' /\ OutputInv'
    BY <1>1, <1>2, <1>5 DEF PoolInv, OutputInv, LaunchInv, RunInv
  <1>11. RecordInv'
    BY <1>1, <1>2 DEF RecordInv
  <1>12. PrefixInv' /\ ReplayInv'
    BY <1>2 DEF PrefixInv, ReplayInv
  <1> QED
    BY <1>6, <1>7, <1>8, <1>9, <1>10, <1>11, <1>12 DEF LaunchInv, RunInv

LEMMA ReturnStep ==
    ASSUME LaunchInv, Return
    PROVE  LaunchInv'
  <1> USE DEF Return
  <1>1. kernel' = "idle" /\ kernel # "gather" /\ Finished
    OBVIOUS
  <1>2. \A r \in Row : pc[r] = "done" /\ pc'[r] = "done"
    BY DEF Finished
  <1>3. /\ InRun' <=> InRun
        /\ InCommit' <=> InCommit
        /\ \A r \in Row : /\ Ran(r)' <=> Ran(r)
                          /\ Null(call, r)' <=> Null(call, r)
                          /\ Taken(r)' <=> Taken(r)
        /\ \A r : Length(call, r)' = Length(call, r) /\ Found(r)' = Found(r)
        /\ \A r, n : Computed(r, n)' = Computed(r, n) /\ Replayed(r, n)' = Replayed(r, n)
        /\ \A r, s : Writer(r, s)' <=> Writer(r, s)
    BY DEF InRun, InCommit, Ran, Skipped, Null, Length, Found, Computed, Inputs, Writer,
           LiveRow, ValidRange, Capacity, Taken, Replayed
  <1>4. \A r \in Row : Stored(r)' <=> Stored(r)
    BY <1>1, <1>3 DEF Stored
  <1>5. TypeOK' /\ CallInv'
    BY <1>1, <1>3 DEF LaunchInv, TypeOK, CallInv, Finished
  <1>6. AdmissionInv'
    BY <1>3 DEF LaunchInv, RunInv, AdmissionInv, Accepted, LiveRow, ValidRange, Length, Capacity,
                SlotsInRange, Clashes, Overlaps, Reads, Writes, Active
  <1>7. BlockInv'
    BY <1>1, <1>2 DEF BlockInv
  <1>8. PoolInv' /\ OutputInv' /\ RecordInv'
    BY <1>3, <1>4 DEF LaunchInv, RunInv, PoolInv, OutputInv, RecordInv
  <1>9. PrefixInv'
    BY <1>1, <1>2, <1>3 DEF LaunchInv, PrefixInv
  <1>10. ReplayInv'
    BY <1>2, <1>3 DEF LaunchInv, ReplayInv
  <1> QED
    BY <1>5, <1>6, <1>7, <1>8, <1>9, <1>10 DEF LaunchInv, RunInv

-----------------------------------------------------------------------------
(***************************************************************************)
(* The commit.                                                             *)
(***************************************************************************)

LEMMA CommitStep ==
    ASSUME LaunchInv, CommitV1
    PROVE  LaunchInv'
  <1> DEFINE err(c) == [r \in Row |-> PrefixError(c, [len |-> recLen, slot |-> recSlot], r)]
  <1>1. PICK c \in Commits :
          /\ kernel = "idle" /\ call.mode = "verify" /\ errors' = err(c)
          /\ call' = [mode |-> "commit", live |-> c.live, slots |-> c.slots,
                      counts |-> c.counts]
          /\ kernel' = "commit"
          /\ pc' = Begin([r \in Row |-> /\ r < c.live /\ err(c)[r] = Ok
                                        /\ c.slots[r] # 0 /\ c.counts[r] # 0])
          /\ before' = state
          /\ UNCHANGED <<state, output, delta, recLen, recSlot, regs>>
    BY DEF CommitV1
  <1>2. c.live \in Int /\ c.slots \in [Row -> Int] /\ c.counts \in [Row -> Int]
    BY LaunchAssumption
  <1> DEFINE o == [mode |-> "commit", live |-> c.live, slots |-> c.slots, counts |-> c.counts]
  <1>3. o.mode = "commit" /\ o.live = c.live /\ o.slots = c.slots /\ o.counts = c.counts
        /\ o \in Replay
    BY <1>2 DEF Replay
  <1>4. call' = o
    BY <1>1
  <1> HIDE DEF o
  <1>5. ~InRun' /\ InCommit'
    BY <1>3, <1>4 DEF InRun, InCommit, Modes
  <1> DEFINE rec == [len |-> recLen, slot |-> recSlot]
  <1>6. rec.len = recLen /\ rec.slot = recSlot
    OBVIOUS
  <1> HIDE DEF rec
  <1>7. err(c) \in [Row -> Error] /\ \A r \in Row : err(c)[r] = PrefixError(c, rec, r)
    BY DEF rec, PrefixError, Error, Ok, Bounds, Unsupported, Slot, Conflict, Prefix
  <1>8. ASSUME NEW r \in Row, r < c.live, err(c)[r] = Ok
        PROVE  /\ c.slots[r] \in 0..(Slots - 1) /\ c.counts[r] \in 0..Width
               /\ c.counts[r] <= recLen[r] /\ ~SharedCommitSlot(c, r)
               /\ c.counts[r] > 0 => c.slots[r] = recSlot[r]
    <2>1. PrefixError(c, rec, r) = Ok
      BY <1>7, <1>8
    <2>2. c.counts[r] \in Int /\ recLen[r] \in Int /\ r \in Int /\ c.live \in Int
      BY <1>2, RowTypes, DescriptorAssumption DEF LaunchInv, TypeOK
    <2> HIDE DEF err
    <2> QED
      BY <1>6, <1>8, <2>1, <2>2 DEF PrefixError, Ok, Bounds, Slot, Conflict, Prefix
  <1> HIDE DEF err
  <1>9. \A r \in Row : Taken(r)' <=> r < c.live /\ err(c)[r] = Ok /\ c.slots[r] # 0 /\ c.counts[r] # 0
    BY <1>1, <1>3, <1>4 DEF Taken
  <1>10. /\ pc' \in [Row -> {"load", "store", "done"}]
         /\ \A r \in Row : pc'[r] = IF Taken(r)' THEN "load" ELSE "done"
    BY <1>1, <1>9 DEF Begin
  <1>11. TypeOK'
    BY <1>1, <1>7, <1>10 DEF LaunchInv, TypeOK
  <1>12. CallInv'
    BY <1>1, <1>3, <1>4, <1>5 DEF CallInv
  <1>13. RunInv'
    <2>1. ~InRun' /\ ~(call.mode = "verify")'
      BY <1>3, <1>4, <1>5
    <2> QED
      BY <2>1 DEF RunInv, AdmissionInv, BlockInv, PoolInv, OutputInv, RecordInv
  <1>14. ASSUME NEW r \in Row, Taken(r)'
         PROVE  /\ delta[r].base = state[c.slots[r]]
                /\ Len(delta[r].inputs) >= c.counts[r]
                /\ \A q \in Row \ {r} : Taken(q)' => c.slots[q] # c.slots[r]
    <2>1. /\ c.slots[r] \in LiveSlot /\ c.counts[r] \in Nat /\ c.counts[r] > 0
          /\ c.counts[r] <= recLen[r] /\ recLen[r] \in Nat
          /\ c.slots[r] = recSlot[r] /\ ~SharedCommitSlot(c, r)
      BY <1>8, <1>9, <1>14, DescriptorAssumption DEF LiveSlot, LaunchInv, TypeOK
    <2>2. InRun /\ kernel = "idle" /\ pc[r] = "done" /\ recLen[r] > 0
      BY <1>1, <2>1 DEF InRun, Modes, LaunchInv, CallInv, Finished
    <2>3. /\ Ran(r) /\ ~Null(call, r) /\ recLen[r] = Length(call, r) /\ recSlot[r] = call.src[r]
      BY <1>1, <2>2 DEF LaunchInv, RunInv, RecordInv
    <2>4. Stored(r) /\ Length(call, r) > 0
      BY <2>2, <2>3 DEF Stored
    <2>5. delta[r].base = Found(call.src[r]) /\ Len(delta[r].inputs) = Length(call, r)
      BY <1>1, <2>3, <2>4 DEF LaunchInv, RunInv, RecordInv
    <2>6. state[c.slots[r]] = before[c.slots[r]]
      BY <1>1, <2>1, <2>2 DEF LaunchInv, RunInv, PoolInv, Writer
    <2>7. c.slots[r] > 0 /\ Found(call.src[r]) = before[c.slots[r]]
      BY <2>1, <2>3, RowTypes DEF Found
    <2>8. ASSUME NEW q \in Row \ {r}, Taken(q)' PROVE c.slots[q] # c.slots[r]
      <3>1. q < c.live /\ c.counts[q] > 0
        BY <1>8, <1>9, <2>8, DescriptorAssumption
      <3> QED
        BY <2>1, <2>7, <3>1 DEF SharedCommitSlot
    <2> QED
      BY <2>1, <2>3, <2>5, <2>6, <2>7, <2>8
  <1>15. PrefixInv'
    <2>1. \A r \in Row : r < c.live /\ err(c)[r] = Ok =>
             c.slots[r] \in 0..(Slots - 1) /\ c.counts[r] \in 0..Width
      BY <1>8
    <2>2. \A r \in Row : pc'[r] # "store" /\ (pc'[r] # "done" => Taken(r)')
      BY <1>10
    <2>3. errors' = err(c) /\ delta' = delta /\ before' = state
      BY <1>1
    <2> QED
      BY <1>3, <1>4, <1>14, <2>1, <2>2, <2>3 DEF PrefixInv
  <1>16. ReplayInv'
    BY <1>1, <1>10 DEF ReplayInv
  <1> QED
    BY <1>11, <1>12, <1>13, <1>15, <1>16 DEF LaunchInv

LEMMA TakenRow ==
    ASSUME LaunchInv, InCommit, NEW r \in Row, Taken(r)
    PROVE  /\ call.slots[r] \in LiveSlot /\ call.counts[r] \in Nat
           /\ Len(delta[r].inputs) >= call.counts[r] /\ delta[r].base = before[call.slots[r]]
           /\ \A o \in Row : Taken(o) /\ call.slots[o] = call.slots[r] => o = r
  BY DescriptorAssumption DEF LaunchInv, PrefixInv, Taken, LiveSlot

LEMMA SameCommit ==
    ASSUME Same
    PROVE  /\ InRun' <=> InRun
           /\ InCommit' <=> InCommit
           /\ \A r \in Row : Taken(r)' <=> Taken(r)
           /\ call' = call /\ before' = before /\ errors' = errors /\ kernel' = kernel
  BY DEF Same, InRun, InCommit, Taken

LEMMA CommitOnly ==
    ASSUME InCommit
    PROVE  ~InRun /\ call.mode # "verify" /\ RunInv
  BY DEF InRun, InCommit, Modes, RunInv, AdmissionInv, BlockInv, PoolInv, OutputInv, RecordInv

LEMMA LoadCommitStep ==
    ASSUME LaunchInv, NEW r \in Row, LoadCommit(r)
    PROVE  LaunchInv'
  <1> USE DEF LoadCommit
  <1>1. InCommit /\ kernel = "commit" /\ pc[r] = "load" /\ Taken(r)
    BY DEF LaunchInv, CallInv, PrefixInv
  <1>2. Same
    BY DEF Same
  <1>3. pc' = [pc EXCEPT ![r] = "store"] /\ pc \in [Row -> {"load", "store", "done"}]
    BY DEF LaunchInv, TypeOK
  <1>4. regs \in [Row -> Value] /\ state[call.slots[r]] \in Value
    BY <1>1, TakenRow DEF LaunchInv, TypeOK
  <1>5. TypeOK'
    BY <1>3, <1>4 DEF LaunchInv, TypeOK
  <1>6. CallInv'
    BY <1>1, <1>2, SameCommit, CommitOnly DEF LaunchInv, CallInv
  <1>7. RunInv'
    <2>1. InCommit'
      BY <1>1, <1>2, SameCommit
    <2>2. ~InRun' /\ ~(call.mode = "verify")'
      BY <1>1, <1>2, SameCommit, CommitOnly
    <2> QED
      BY <2>2 DEF RunInv, AdmissionInv, BlockInv, PoolInv, OutputInv, RecordInv
  <1>8. PrefixInv'
    <2>1. state[call.slots[r]] = before[call.slots[r]]
      BY <1>1, TakenRow DEF LaunchInv, ReplayInv
    <2>2. regs'[r] = before[call.slots[r]] /\ pc'[r] = "store"
      BY <1>3, <1>4, <2>1
    <2>3. \A o \in Row \ {r} : regs'[o] = regs[o] /\ pc'[o] = pc[o]
      BY <1>3, <1>4
    <2>4. delta' = delta
      OBVIOUS
    <2> QED
      BY <1>1, <1>2, <2>2, <2>3, <2>4, SameCommit DEF LaunchInv, PrefixInv
  <1>9. ReplayInv'
    <2>1. \A o \in Row : pc'[o] = "done" <=> pc[o] = "done"
      BY <1>1, <1>3
    <2>2. \A o, v : Replayed(o, v)' = Replayed(o, v)
      BY DEF Replayed
    <2> QED
      BY <1>1, <1>2, <2>1, <2>2, SameCommit DEF LaunchInv, ReplayInv
  <1> QED
    BY <1>5, <1>6, <1>7, <1>8, <1>9 DEF LaunchInv

LEMMA StoreCommitStep ==
    ASSUME LaunchInv, NEW r \in Row, StoreCommit(r)
    PROVE  LaunchInv'
  <1> USE DEF StoreCommit
  <1>1. InCommit /\ kernel = "commit" /\ pc[r] = "store" /\ Taken(r)
    BY DEF LaunchInv, CallInv, PrefixInv
  <1>2. Same
    BY DEF Same
  <1>3. pc' = [pc EXCEPT ![r] = "done"] /\ pc \in [Row -> {"load", "store", "done"}]
    BY DEF LaunchInv, TypeOK
  <1> DEFINE s == call.slots[r]
  <1> DEFINE replayed == Replayed(r, regs[r])
  <1>4. s \in LiveSlot /\ regs[r] = before[s]
    BY <1>1, TakenRow DEF LaunchInv, PrefixInv
  <1>5. replayed \in Value
    <2>1. delta[r].inputs \in Value /\ call.counts[r] \in Nat
          /\ Len(delta[r].inputs) >= call.counts[r] /\ regs[r] \in Value
      BY <1>1, TakenRow DEF LaunchInv, TypeOK
    <2>2. \A i \in 1..call.counts[r] :
            delta[r].inputs[i] \in [slot : 0..(Slots - 1)] \cup [token : Token]
      BY <2>1, ElementOfSeq DEF Value
    <2>3. SubSeq(delta[r].inputs, 1, call.counts[r]) \in Value
      BY <2>1, <2>2, SubSeqProperties DEF Value
    <2> QED
      BY <2>1, <2>3, ValueConcat DEF Replayed
  <1>6. state \in [LiveSlot -> Value] /\ state' = [state EXCEPT ![s] = replayed]
    BY DEF LaunchInv, TypeOK
  <1>7. replayed = Replayed(r, before[s])
    BY <1>4
  <1> HIDE DEF s, replayed
  <1>8. TypeOK'
    <2>1. state' \in [LiveSlot -> Value] /\ pc' \in [Row -> {"load", "store", "done"}]
      BY <1>3, <1>5, <1>6
    <2> QED
      BY <2>1 DEF LaunchInv, TypeOK
  <1>9. CallInv'
    BY <1>1, <1>2, SameCommit, CommitOnly DEF LaunchInv, CallInv
  <1>10. RunInv'
    <2>1. ~InRun' /\ ~(call.mode = "verify")'
      BY <1>1, <1>2, SameCommit, CommitOnly
    <2> QED
      BY <2>1 DEF RunInv, AdmissionInv, BlockInv, PoolInv, OutputInv, RecordInv
  <1>11. PrefixInv'
    <2>1. \A o \in Row \ {r} : pc'[o] = pc[o]
      BY <1>3
    <2>2. delta' = delta /\ regs' = regs /\ pc'[r] = "done"
      BY <1>3
    <2> QED
      BY <1>1, <1>2, <2>1, <2>2, SameCommit DEF LaunchInv, PrefixInv
  <1>12. ReplayInv'
    <2>1. \A o, v : Replayed(o, v)' = Replayed(o, v)
      BY DEF Replayed
    <2>2. \A o \in Row : Taken(o) /\ call.slots[o] = s => o = r
      BY <1>1, TakenRow DEF s
    <2>3. call.slots[r] = s
      BY DEF s
    <2> SUFFICES ASSUME NEW t \in LiveSlot
                 PROVE  /\ (\A o \in Row : Taken(o) /\ call.slots[o] = t => pc'[o] # "done") =>
                             state'[t] = before[t]
                        /\ \A o \in Row : Taken(o) /\ call.slots[o] = t /\ pc'[o] = "done" =>
                             state'[t] = Replayed(o, before[t])
      BY <1>2, <2>1, SameCommit DEF ReplayInv
    <2>4. CASE t = s
      BY <1>1, <1>3, <1>6, <1>7, <2>2, <2>3, <2>4
    <2>5. CASE t # s
      <3>1. state'[t] = state[t]
        BY <1>6, <2>5
      <3>2. \A o \in Row : Taken(o) /\ call.slots[o] = t => pc'[o] = pc[o]
        BY <1>3, <2>3, <2>5
      <3> QED
        BY <1>1, <3>1, <3>2 DEF LaunchInv, ReplayInv
    <2> QED
      BY <2>4, <2>5
  <1> QED
    BY <1>8, <1>9, <1>10, <1>11, <1>12 DEF LaunchInv

-----------------------------------------------------------------------------
(***************************************************************************)
(* The theorems.                                                           *)
(***************************************************************************)

LEMMA RunStep ==
    ASSUME LaunchInv, RunV1 \/ CheckedV2
    PROVE  LaunchInv'
  <1>1. CASE RunV1
    <2>1. PICK p \in Launches, native \in BOOLEAN :
            /\ native => p.mode = "prefill"
            /\ Launch(p, [r \in Row |-> LaunchError(p, r)], FALSE, native)
      BY <1>1 DEF RunV1
    <2> QED
      BY <2>1, V1Admits, LaunchStep
  <1>2. CASE CheckedV2
    <2>1. PICK p \in Launches, dep \in Upstream, native \in BOOLEAN :
            /\ native => p.mode = "prefill"
            /\ Launch(p, [r \in Row |-> CheckedError(p, [upstream |-> dep], r)], TRUE, native)
      BY <1>2 DEF CheckedV2
    <2> QED
      BY <2>1, V2Admits, LaunchStep
  <1> QED
    BY <1>1, <1>2

LEMMA SkipStep ==
    ASSUME LaunchInv, UNCHANGED vars
    PROVE  LaunchInv'
  <1> USE DEF vars
  <1>1. Same
    BY DEF Same
  <1>2. TypeOK' /\ CallInv'
    BY DEF LaunchInv, TypeOK, CallInv, Finished, InRun, InCommit
  <1>3. \A r \in Row : Stored(r)' <=> Stored(r)
    BY <1>1, SameRun DEF Stored
  <1>4. BlockInv'
    BY <1>1, SameRun DEF LaunchInv, RunInv, BlockInv
  <1>5. PoolInv' /\ OutputInv' /\ RecordInv'
    BY <1>1, <1>3, SameRun DEF LaunchInv, RunInv, PoolInv, OutputInv, RecordInv
  <1>6. \A r, v : Replayed(r, v)' = Replayed(r, v)
    BY DEF Replayed
  <1>7. PrefixInv' /\ ReplayInv'
    BY <1>1, <1>6, SameCommit DEF LaunchInv, PrefixInv, ReplayInv
  <1> QED
    BY <1>1, <1>2, <1>4, <1>5, <1>7, SameRun DEF LaunchInv, RunInv

\* What holds between the blocks of every kernel: stored rows have written what
\* they compute alone, the others have loaded what the call found.
THEOREM LaunchInvariant == Spec => []LaunchInv
  <1>1. LaunchInv /\ [Next]_vars => LaunchInv'
    BY RunStep, CommitStep, LoadStep, StoreStep, GatherStep, ScatterStep, LoadCommitStep,
       StoreCommitStep, ForwardStep, ReturnStep, SkipStep DEF Next
  <1> QED
    BY <1>1, InitLaunch, PTL DEF Spec

\* Slots, outputs and records hold inputs of the launch, whatever the operands.
THEOREM LaunchTypes == Spec => []TypeOK
  <1>1. LaunchInv => TypeOK
    BY DEF LaunchInv
  <1> QED
    BY <1>1, LaunchInvariant, PTL

\* However the blocks of a run interleave, it leaves every slot as if its one
\* accepted writer had run alone.  (gdn.cu validate_gdn, recurrent_gdn;
\* prefill.cu gather_state, scatter_prefill)
THEOREM RunsAreScheduleFree == Spec => []StateScheduleFree
  <1>1. LaunchInv => StateScheduleFree
    <2> SUFFICES ASSUME LaunchInv, kernel = "idle", InRun, NEW s \in LiveSlot
                 PROVE  LET writers == {r \in Row : Writer(r, s)} IN
                        \/ writers = {} /\ state[s] = before[s]
                        \/ \E r \in writers : /\ writers = {r}
                                              /\ state[s] = Computed(r, Length(call, r))
      BY DEF StateScheduleFree, Returned, Writer, InRun, Modes
    <2>1. \A r \in Row : Writer(r, s) => Stored(r)
      BY DEF LaunchInv, CallInv, Finished, Stored, Writer
    <2>2. CASE \E r \in Row : Writer(r, s)
      <3>1. PICK r \in Row : Writer(r, s)
        BY <2>2
      <3>2. \A o \in Row : Writer(o, s) => o = r
        BY <3>1, SlotsApart DEF Writer
      <3>3. state[s] = Computed(r, Length(call, r))
        BY <2>1, <3>1 DEF LaunchInv, RunInv, PoolInv
      <3> QED
        BY <3>1, <3>2, <3>3
    <2>3. CASE ~\E r \in Row : Writer(r, s)
      BY <2>3 DEF LaunchInv, RunInv, PoolInv
    <2> QED
      BY <2>2, <2>3
  <1> QED
    BY <1>1, LaunchInvariant, PTL

\* A guarded run gives each row the outputs it computed.  (gdn.cu validate_gdn)
THEOREM GuardedOutputsAreOwned == Spec => []OutputsOwned
  <1>1. LaunchInv => OutputsOwned
    <2> SUFFICES ASSUME LaunchInv, kernel = "idle", call.mode \in {"decode", "prefill"},
                        call.guarded, NEW r \in Row, Ran(r), NEW i \in 1..Length(call, r)
                 PROVE  output[call.starts[r] + i - 1] = Computed(r, i)
      BY DEF OutputsOwned, Returned
    <2>1. InRun /\ call.mode # "verify"
      BY DEF InRun, Modes
    <2>2. Stored(r)
      BY DEF LaunchInv, CallInv, Finished, Stored
    <2> QED
      BY <2>1, <2>2 DEF LaunchInv, RunInv, OutputInv
  <1> QED
    BY <1>1, LaunchInvariant, PTL

\* A commit adds to each slot the accepted prefix of one row at most, on the
\* state it was verified against.  (gdn.cu validate_commit, commit_gdn)
THEOREM CommitsAreScheduleFree == Spec => []CommitScheduleFree
  <1>1. LaunchInv => CommitScheduleFree
    <2> SUFFICES ASSUME LaunchInv, kernel = "idle", InCommit, NEW s \in LiveSlot
                 PROVE  LET rows == {r \in Row : /\ r < call.live /\ errors[r] = Ok
                                                 /\ call.slots[r] = s /\ call.counts[r] > 0} IN
                        \/ rows = {} /\ state[s] = before[s]
                        \/ \E r \in rows : /\ rows = {r}
                                           /\ delta[r].base = before[s]
                                           /\ Len(delta[r].inputs) >= call.counts[r]
                                           /\ state[s] = Replayed(r, before[s])
      BY DEF CommitScheduleFree, Returned, InCommit
    <2> DEFINE rows == {r \in Row : /\ r < call.live /\ errors[r] = Ok
                                    /\ call.slots[r] = s /\ call.counts[r] > 0}
    <2>1. \A r \in Row : r \in rows <=> Taken(r) /\ call.slots[r] = s
      <3>1. s # 0
        BY RowTypes
      <3>2. \A r \in Row : r < call.live /\ errors[r] = Ok => call.counts[r] \in 0..Width
        BY DEF LaunchInv, PrefixInv
      <3> QED
        BY <3>1, <3>2, DescriptorAssumption DEF Taken
    <2>2. rows \subseteq Row
      OBVIOUS
    <2> HIDE DEF rows
    <2>3. \A r \in Row : pc[r] = "done"
      BY DEF LaunchInv, CallInv, Finished
    <2>4. CASE rows = {}
      BY <2>1, <2>4 DEF LaunchInv, ReplayInv, rows
    <2>5. CASE rows # {}
      <3>1. PICK r \in rows : TRUE
        BY <2>5
      <3>2. r \in Row /\ Taken(r) /\ call.slots[r] = s
        BY <2>1, <2>2, <3>1
      <3>3. rows = {r}
        BY <2>1, <2>2, <3>1, <3>2, TakenRow
      <3>4. /\ delta[r].base = before[s] /\ Len(delta[r].inputs) >= call.counts[r]
        BY <3>2, TakenRow
      <3>5. state[s] = Replayed(r, before[s])
        BY <2>3, <3>2 DEF LaunchInv, ReplayInv
      <3> QED
        BY <3>1, <3>3, <3>4, <3>5 DEF rows
    <2> QED
      BY <2>4, <2>5
  <1> QED
    BY <1>1, LaunchInvariant, PTL
=============================================================================
