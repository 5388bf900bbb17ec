------------------------ MODULE GdnTransactionProofs ------------------------
(***************************************************************************)
(* Theorems about GdnTransaction, for every number of rows, slots, tokens, *)
(* epochs and every set of operands a caller may pass.                     *)
(*                                                                         *)
(* TypeCorrect       device vectors keep their types                       *)
(* RoundsOrdered     the order of epochs, rows and slots guards rely on    *)
(* RecordsStayCommittable, RecordsRetained                                 *)
(*                   outstanding records are not lost                      *)
(* StrandedRowsStay  records whose round the caller left are not touched   *)
(* RoundsStayResolvable                                                    *)
(*                   a commit that consumes the records exists             *)
(* RoundsConsumedOnce                                                      *)
(*                   a round changes the state at most once                *)
(*                                                                         *)
(* The inductive invariant adds to RecordsCommittable what holds while a   *)
(* call is between kernels: the rows a verification computes are not       *)
(* outstanding and have the stamps of the call, the rows a commit accepts  *)
(* are outstanding in their caller's round, and outstanding rows are on    *)
(* different slots.  RoundsConsumedOnce adds that what a slot absorbed is  *)
(* of rounds that are consumed or about to be stamped.                     *)
(***************************************************************************)
EXTENDS GdnTransaction, TLAPS

-----------------------------------------------------------------------------
(***************************************************************************)
(* What the admission checks guarantee.                                    *)
(***************************************************************************)

\* A device error vector holds enum values.
LEMMA VerifyErrorType ==
    ASSUME NEW p, NEW g, NEW r
    PROVE  VerifyError(p, g, r) \in Error
  <1>1. LaunchError(p, r) \in Error
    BY DEF LaunchError, Error, Ok, Bounds, Slot, Conflict, Unsupported
  <1>2. ASSUME NEW d PROVE Dependency(d) \in Error
    BY DEF Dependency, Error, Ok, Bounds, Unsupported
  <1>3. CheckedError(p, g, r) \in Error
    BY <1>1, <1>2 DEF CheckedError, Error, Ok, Conflict, Unsupported
  <1> QED
    BY <1>3 DEF VerifyError, Error, Ok, History, Unsupported

LEMMA CommitErrorType ==
    ASSUME NEW c, NEW rec, NEW g, NEW r
    PROVE  CommitError(c, rec, g, r) \in Error
  <1>1. PrefixError(c, rec, r) \in Error
    BY DEF PrefixError, Error, Ok, Bounds, Slot, Conflict, Prefix, Unsupported
  <1>2. ASSUME NEW d PROVE Dependency(d) \in Error
    BY DEF Dependency, Error, Ok, Bounds, Unsupported
  <1> QED
    BY <1>1, <1>2 DEF CommitError, Error, Ok, History, Unsupported

\* A verified row has a valid interval and slots, and if it computes anything
\* its round is new and nothing is outstanding.
LEMMA VerifyAccepts ==
    ASSUME NEW p, NEW g, NEW r \in Row, LiveRow(p, r), VerifyError(p, g, r) = Ok
    PROVE  /\ p.live \in 0..Requests
           /\ ValidRange(p, r)
           /\ SlotsInRange(p, r)
           /\ Length(p, r) > 0 /\ p.src[r] > 0 => ~StaleRound(g, r)
  <1>1. CheckedError(p, g, r) = Ok
    BY DEF VerifyError, Ok, History
  <1>2. LaunchError(p, r) = Ok
    BY <1>1 DEF CheckedError, Ok
  <1>3. p.live \in 0..Requests /\ ValidRange(p, r) /\ SlotsInRange(p, r)
    BY <1>2 DEF LaunchError, Ok, Bounds, Slot, Conflict, Unsupported
  <1> QED
    BY <1>1, <1>3 DEF VerifyError, Ok, History

\* A committed row keeps a recorded prefix, and records it consumes are those
\* of its slot and round.
LEMMA CommitAccepts ==
    ASSUME NEW c, NEW rec, NEW g, NEW r \in Row, ~(r >= c.live),
           CommitError(c, rec, g, r) = Ok
    PROVE  /\ c.live \in 0..Requests
           /\ c.slots[r] \in 0..(Slots - 1)
           /\ c.counts[r] \in 0..Width
           /\ ~(c.counts[r] > rec.len[r])
           /\ c.counts[r] > 0 => c.slots[r] = rec.slot[r]
           /\ rec.len[r] > 0 => ~WrongRecord(c, rec, g, r)
  <1>1. PrefixError(c, rec, r) = Ok
    BY DEF CommitError, Ok
  <1>2. rec.len[r] > 0 => ~WrongRecord(c, rec, g, r)
    <2>1. g.upstream[r] = 0
      <3>1. ASSUME g.upstream[r] # 0 PROVE Dependency(g.upstream[r]) # Ok
        BY <3>1 DEF Dependency, Ok, Bounds, Unsupported
      <3> QED BY <1>1, <3>1 DEF CommitError, Ok
    <2> QED BY <1>1, <2>1 DEF CommitError, Ok, History
  <1> QED
    BY <1>1, <1>2 DEF PrefixError, Ok, Bounds, Slot, Conflict, Prefix
-----------------------------------------------------------------------------
(***************************************************************************)
(* Types.                                                                  *)
(***************************************************************************)

\* The kernels of a call see operands that were admitted.
CallAdmitted ==
    /\ call.mode = "verify" =>
          \A r \in Row : LiveRow(call, r) /\ errors[r] = Ok =>
              ValidRange(call, r) /\ SlotsInRange(call, r)
    /\ call.mode = "commit" =>
          \A r \in Row : r < call.live /\ call.errors[r] = Ok =>
              call.slots[r] \in 0..(Slots - 1) /\ call.counts[r] \in 0..Width

TypeInv == TypeOK /\ CallAdmitted


LEMMA CallTypes ==
    ASSUME call \in Call
    PROVE  /\ call.mode = "verify" =>
                 call \in [mode : {"verify"}, live : Int, starts : [0..Requests -> Int],
                           src : [Row -> Int], dst : [Row -> Int], checkpoint : {{}}]
           /\ call.mode = "commit" =>
                 call \in [mode : {"commit"}, live : Int, slots : [Row -> Int],
                           counts : [Row -> Int], errors : [Row -> Error]]
  BY DEF Call, NoCall

\* A row of packed starts names two of them.
LEMMA LengthType ==
    ASSUME NEW p, p.starts \in [0..Requests -> Int], NEW r \in Row
    PROVE  Length(p, r) \in Int
  BY DescriptorAssumption DEF Length, Row

LEMMA InitTyped == Init => TypeInv
  <1> SUFFICES ASSUME Init PROVE TypeInv
    OBVIOUS
  <1> USE DEF Init
  <1>1. recLen \in [Row -> Nat] /\ recSlot \in [Row -> Nat]
    BY CallerAssumption
  <1>2. state \in [LiveSlot -> Seq(Chunk)]
    BY DEF Chunk
  <1>3. work \in [Row -> Window]
    BY DEF Window, Chunk
  <1>4. call \in Call /\ call.mode = "none"
    BY DEF Call, NoCall
  <1>5. /\ epochs \in [Row -> Nat] /\ ready \in [Row -> Nat] /\ consumed \in [Row -> Nat]
        /\ errors \in [Row -> Error]
    BY DEF Zeros, Error, Ok, Unsupported
  <1>6. TypeOK
    BY <1>1, <1>2, <1>3, <1>4, <1>5 DEF TypeOK, Kernel
  <1> QED
    BY <1>4, <1>6 DEF TypeInv, CallAdmitted

LEMMA VerifyV2Typed ==
    ASSUME TypeInv, NEW v \in Verifications, VerifyV2(v)
    PROVE  TypeInv'
  <1> DEFINE p == Launch(v)
             g == Guard(v.upstream)
  <1>1. v \in [live : Int, starts : [0..Requests -> Int], slots : [Row -> Int],
               upstream : [Row -> Int]]
    BY CallerAssumption
  <1>2. /\ p \in [mode : {"verify"}, live : Int, starts : [0..Requests -> Int],
                  src : [Row -> Int], dst : [Row -> Int], checkpoint : {{}}]
        /\ p \in Call
    BY <1>1 DEF Launch, Call
  <1>3. errors' \in [Row -> Error]
    BY VerifyErrorType DEF VerifyV2
  <1>4. ASSUME NEW r \in Row, Records(p, g, r)
        PROVE  Length(p, r) \in Nat /\ p.src[r] \in Nat
    <2>1. ValidRange(p, r) /\ SlotsInRange(p, r)
      BY <1>4, VerifyAccepts DEF Records
    <2>2. p.starts[r] \in Int /\ p.starts[r + 1] \in Int /\ p.src[r] \in Int
      BY <1>2, DescriptorAssumption DEF Row
    <2> QED
      BY <2>1, <2>2, <1>4 DEF ValidRange, Length, Records
  <1>5. recLen' \in [Row -> Nat] /\ recSlot' \in [Row -> Nat]
    BY <1>4 DEF VerifyV2, TypeInv, TypeOK
  <1>6. CallAdmitted'
    <2>1. ASSUME NEW r \in Row, LiveRow(p, r), VerifyError(p, g, r) = Ok
          PROVE  ValidRange(p, r) /\ SlotsInRange(p, r)
      BY <2>1, VerifyAccepts
    <2>2. call' = p /\ p.mode = "verify" /\ errors' = [r \in Row |-> VerifyError(p, g, r)]
      BY <1>2 DEF VerifyV2
    <2> HIDE DEF p, g
    <2> QED
      BY <2>1, <2>2 DEF CallAdmitted
  <1>7. call' \in Call /\ call'.mode = "verify" /\ next' = "prepare"
    BY <1>2 DEF VerifyV2
  <1>8. UNCHANGED <<state, epochs, ready, consumed, work>>
    BY DEF VerifyV2
  <1> QED
    BY <1>3, <1>5, <1>6, <1>7, <1>8 DEF TypeInv, TypeOK, Kernel

LEMMA CommitV2Typed ==
    ASSUME TypeInv, NEW c \in Commits, NEW dep, CommitV2(c, dep)
    PROVE  TypeInv'
  <1> DEFINE err == [r \in Row |-> CommitError(c, Rec, Guard(dep), r)]
             k == [mode |-> "commit", live |-> c.live, slots |-> c.slots,
                   counts |-> c.counts, errors |-> err]
  <1>1. c \in [live : Int, slots : [Row -> Int], counts : [Row -> Int]]
    BY CallerAssumption
  <1>2. err \in [Row -> Error]
    BY CommitErrorType
  <1>3. call' = k /\ next' = "apply"
    BY DEF CommitV2
  <1> HIDE DEF err
  <1>4. k \in Call /\ k.mode = "commit"
    BY <1>1, <1>2 DEF Call
  <1>5. CallAdmitted'
    <2>1. ASSUME NEW r \in Row, r < c.live, err[r] = Ok
          PROVE  c.slots[r] \in 0..(Slots - 1) /\ c.counts[r] \in 0..Width
      <3>1. ~(r >= c.live)
        BY <2>1, <1>1 DEF Row
      <3> QED
        BY <2>1, <3>1, CommitAccepts DEF err
    <2> QED
      BY <2>1, <1>3 DEF CallAdmitted
  <1>6. UNCHANGED <<state, epochs, ready, consumed, recLen, recSlot, work, errors>>
    BY DEF CommitV2
  <1> QED
    BY <1>3, <1>4, <1>5, <1>6 DEF TypeInv, TypeOK, Kernel

\* The rows a verification computes read a live slot and write its length.
LEMMA ComputedRow ==
    ASSUME TypeInv, call.mode = "verify", NEW r \in Row, Computes(r)
    PROVE  Length(call, r) \in 1..Width /\ call.src[r] \in LiveSlot
  <1>1. call \in [mode : {"verify"}, live : Int, starts : [0..Requests -> Int],
                  src : [Row -> Int], dst : [Row -> Int], checkpoint : {{}}]
    BY CallTypes DEF TypeInv, TypeOK
  <1>2. /\ ValidRange(call, r) /\ SlotsInRange(call, r)
        /\ Length(call, r) > 0 /\ call.src[r] # 0
    BY DEF TypeInv, CallAdmitted, Computes
  <1>3. Length(call, r) \in Int /\ call.src[r] \in Int
    BY <1>1, LengthType
  <1>4. Capacity(call) = Width
    BY DEF Capacity
  <1> QED
    BY <1>2, <1>3, <1>4, DescriptorAssumption DEF ValidRange, SlotsInRange, LiveSlot

\* The kernels of a verification keep its operands until it returns.
LEMMA VerifyKernelsTyped ==
    ASSUME TypeInv, Prepare \/ Recurrent \/ StampReady
    PROVE  TypeInv'
  <1> USE DEF TypeInv
  <1>1. call.mode = "verify"
    BY DEF Prepare, Recurrent, StampReady, TypeOK
  <1>2. CASE Prepare
    <2>1. work' \in [Row -> Window]
      BY <1>2 DEF Prepare, TypeOK, Window
    <2>2. CallAdmitted'
      BY <1>1, <1>2 DEF Prepare, CallAdmitted
    <2> QED
      BY <2>1, <2>2, <1>1, <1>2 DEF Prepare, TypeOK, Kernel
  <1>3. CASE Recurrent
    <2>1. ASSUME NEW r \in Row, Computes(r)
          PROVE  /\ Length(call, r) \in Nat /\ call.src[r] \in Nat
                 /\ state[call.src[r]] \in Seq(Chunk)
      BY <2>1, <1>1, ComputedRow, DescriptorAssumption DEF LiveSlot, TypeOK
    <2>2. ASSUME NEW r \in Row, Computes(r)
          PROVE  [work[r] EXCEPT !.deltas = epochs[r], !.len = Length(call, r),
                          !.base = [slot |-> call.src[r], log |-> state[call.src[r]]]]
                 \in Window
      BY <2>1, <2>2 DEF TypeOK, Window
    <2>3. work' \in [Row -> Window]
      BY <2>2, <1>3 DEF Recurrent, TypeOK
    <2>4. CallAdmitted'
      BY <1>1, <1>3 DEF Recurrent, CallAdmitted
    <2> QED
      BY <2>3, <2>4, <1>1, <1>3 DEF Recurrent, TypeOK, Kernel
  <1>4. CASE StampReady
    <2>1. call' = NoCall /\ next' = "idle" /\ call' \in Call /\ call'.mode = "none"
      BY <1>4 DEF StampReady, NoCall, Call
    <2>2. CallAdmitted'
      BY <2>1 DEF CallAdmitted
    <2> QED
      BY <2>1, <2>2, <1>4 DEF StampReady, TypeOK, Kernel
  <1> QED
    BY <1>2, <1>3, <1>4

LEMMA CommitKernelsTyped ==
    ASSUME TypeInv, Apply \/ StampConsumed
    PROVE  TypeInv'
  <1> USE DEF TypeInv
  <1>1. call.mode = "commit"
    BY DEF Apply, StampConsumed, TypeOK, Call, NoCall
  <1>2. CASE Apply
    <2>1. ASSUME NEW r \in Row, Replays(r)
          PROVE  Replay(r) \in Chunk
      <3>1. call.counts[r] \in Nat
        BY <1>1, <2>1, DescriptorAssumption DEF CallAdmitted, Replays
      <3>2. work[r].deltas \in Nat
        BY DEF TypeOK, Window
      <3> QED
        BY <3>1, <3>2 DEF Replay, Chunk
    <2>2. ASSUME NEW s \in LiveSlot
          PROVE  state'[s] \in Seq(Chunk)
      <3> DEFINE replayed == {r \in Row : Replays(r) /\ call.slots[r] = s}
      <3>1. state'[s] = IF replayed = {} THEN state[s]
                        ELSE Append(state[s], Replay(CHOOSE r \in replayed : TRUE))
        BY <1>2 DEF Apply
      <3>2. ASSUME replayed # {}
            PROVE  Replay(CHOOSE r \in replayed : TRUE) \in Chunk
        <4>1. (CHOOSE r \in replayed : TRUE) \in replayed
          BY <3>2
        <4> QED
          BY <4>1, <2>1
      <3>3. state[s] \in Seq(Chunk)
        BY DEF TypeOK
      <3> HIDE DEF replayed
      <3> QED
        BY <3>1, <3>2, <3>3
    <2>3. state' \in [LiveSlot -> Seq(Chunk)]
      BY <2>2, <1>2 DEF Apply
    <2>4. CallAdmitted'
      BY <1>1, <1>2 DEF Apply, CallAdmitted
    <2> QED
      BY <2>3, <2>4, <1>1, <1>2 DEF Apply, TypeOK, Kernel
  <1>3. CASE StampConsumed
    <2>1. call' = NoCall /\ next' = "idle" /\ call' \in Call /\ call'.mode = "none"
      BY <1>3 DEF StampConsumed, NoCall, Call
    <2>2. CallAdmitted'
      BY <2>1 DEF CallAdmitted
    <2> QED
      BY <2>1, <2>2, <1>3 DEF StampConsumed, TypeOK, Kernel
  <1> QED
    BY <1>2, <1>3

LEMMA NextTyped == TypeInv /\ [Next]_vars => TypeInv'
  <1> SUFFICES ASSUME TypeInv, [Next]_vars PROVE TypeInv'
    OBVIOUS
  <1>1. CASE AdvanceEpochs
    <2>1. epochs' \in [Row -> Nat]
      BY <1>1 DEF AdvanceEpochs, TypeInv, TypeOK
    <2>2. UNCHANGED <<state, ready, consumed, recLen, recSlot, work, errors, call, next>>
      BY <1>1 DEF AdvanceEpochs
    <2>3. TypeOK'
      BY <2>1, <2>2 DEF TypeInv, TypeOK
    <2>4. CallAdmitted'
      BY <2>2 DEF TypeInv, CallAdmitted
    <2> QED
      BY <2>3, <2>4 DEF TypeInv
  <1>2. CASE \E v \in Verifications : VerifyV2(v)
    BY <1>2, VerifyV2Typed
  <1>3. CASE Prepare \/ Recurrent \/ StampReady
    BY <1>3, VerifyKernelsTyped
  <1>4. CASE \E c \in Commits, dep \in {Zeros, errors} : CommitV2(c, dep)
    BY <1>4, CommitV2Typed
  <1>5. CASE Apply \/ StampConsumed
    BY <1>5, CommitKernelsTyped
  <1>6. CASE LaunchFails
    <2>1. call' = NoCall /\ next' = "idle" /\ call' \in Call /\ call'.mode = "none"
      BY <1>6 DEF LaunchFails, NoCall, Call
    <2>2. CallAdmitted'
      BY <2>1 DEF CallAdmitted
    <2> QED
      BY <2>1, <2>2, <1>6 DEF LaunchFails, TypeInv, TypeOK, Kernel
  <1>7. CASE UNCHANGED vars
    BY <1>7 DEF vars, TypeInv, TypeOK, CallAdmitted
  <1> QED
    BY <1>1, <1>2, <1>3, <1>4, <1>5, <1>6, <1>7 DEF Next

\* Device vectors keep their types, whatever launches fail: record stamps and
\* replayed prefixes are never negative, error vectors hold enum values, and the
\* kernel a call is at matches its kind.
THEOREM TypeCorrect == Spec => []TypeOK
  <1>1. Spec => []TypeInv
    BY InitTyped, NextTyped, PTL DEF Spec
  <1>2. TypeInv => TypeOK
    BY DEF TypeInv
  <1> QED
    BY <1>1, <1>2, PTL

-----------------------------------------------------------------------------
(***************************************************************************)
(* Outstanding records.                                                    *)
(***************************************************************************)

\* Records are ready after the caller entered their round, and consumed later.
RoundOrder == \A r \in Row : consumed[r] <= ready[r] /\ ready[r] <= epochs[r]

\* Outstanding rows are on different slots.
SlotsApart ==
    \A r, o \in Row : r # o /\ Outstanding(r) /\ Outstanding(o) => recSlot[r] # recSlot[o]

\* A row that is being verified has nothing outstanding, has the stamps of the
\* call, shares its slot with no other round, and its window fills up.
VerifyInProgress ==
    call.mode = "verify" =>
        \A r \in Row : Computes(r) =>
            /\ ready[r] = consumed[r] /\ ready[r] < epochs[r]
            /\ recLen[r] = Length(call, r) /\ recSlot[r] = call.src[r]
            /\ \A o \in Row \ {r} : /\ Outstanding(o) => recSlot[o] # call.src[r]
                                    /\ Computes(o) => call.src[o] # call.src[r]
            /\ next \in {"recurrent", "stampReady"} => work[r].keys = epochs[r]
            /\ next = "stampReady" =>
                  work[r] = [keys |-> epochs[r], deltas |-> epochs[r], len |-> recLen[r],
                             base |-> [slot |-> recSlot[r], log |-> state[recSlot[r]]]]

\* A row whose records a commit consumes is outstanding in its caller's round,
\* and a row it replays is one of them.
CommitInProgress ==
    call.mode = "commit" =>
        \A r \in Row : r < call.live /\ call.errors[r] = Ok =>
            /\ recLen[r] > 0 => /\ ready[r] > consumed[r] /\ ready[r] = epochs[r]
                                /\ call.slots[r] = recSlot[r]
            /\ call.counts[r] <= recLen[r]

RoundInv ==
    /\ TypeInv
    /\ RoundOrder
    /\ SlotsApart
    /\ VerifyInProgress
    /\ CommitInProgress

\* No verification touches the stamps of an outstanding row: a row that would
\* compute is stale, and a row that would not is kept.
LEMMA OutstandingKept ==
    ASSUME TypeInv, NEW v \in Verifications, NEW r \in Row, Outstanding(r)
    PROVE  KeepRecords(Launch(v), Guard(v.upstream), r)
  <1> DEFINE p == Launch(v)
             g == Guard(v.upstream)
  <1>1. p.starts \in [0..Requests -> Int] /\ p.src \in [Row -> Int]
    BY CallerAssumption DEF Launch
  <1>2. g.ready[r] > g.consumed[r] /\ StaleRound(g, r)
    BY DEF Guard, Outstanding, StaleRound
  <1>3. Length(p, r) \in Int /\ p.src[r] \in Int
    BY <1>1, LengthType
  <1> SUFFICES KeepRecords(p, g, r)
    OBVIOUS
  <1> HIDE DEF p, g
  <1>4. CASE VerifyError(p, g, r) = Ok /\ LiveRow(p, r)
    <2>1. /\ ValidRange(p, r) /\ SlotsInRange(p, r)
          /\ ~(Length(p, r) > 0 /\ p.src[r] > 0)
      BY <1>2, <1>4, VerifyAccepts
    <2>2. Length(p, r) >= 0
      <3>1. p.starts[r] \in Int /\ p.starts[r + 1] \in Int
        BY <1>1, DescriptorAssumption DEF Row
      <3> QED
        BY <2>1, <3>1 DEF ValidRange, Length
    <2>3. p.src[r] >= 0
      BY <2>1 DEF SlotsInRange
    <2> QED
      BY <2>1, <2>2, <2>3, <1>2, <1>3 DEF KeepRecords
  <1>5. CASE ~(VerifyError(p, g, r) = Ok /\ LiveRow(p, r))
    BY <1>2, <1>5 DEF KeepRecords
  <1> QED
    BY <1>4, <1>5

LEMMA InitRecords == Init => RoundInv /\ RecordsCommittable
  <1> SUFFICES ASSUME Init PROVE RoundInv /\ RecordsCommittable
    OBVIOUS
  <1>1. \A r \in Row : consumed[r] = 0 /\ ready[r] = 0 /\ epochs[r] = 0
    BY DEF Init, Zeros
  <1>2. call.mode = "none"
    BY DEF Init, NoCall
  <1> QED
    BY <1>1, <1>2, InitTyped
    DEF RoundInv, RoundOrder, SlotsApart, VerifyInProgress, CommitInProgress,
        RecordsCommittable, Outstanding

LEMMA VerifyV2Records ==
    ASSUME RoundInv, NEW v \in Verifications, VerifyV2(v)
    PROVE  RoundInv' /\ (RecordsCommittable => RecordsCommittable')
  <1> DEFINE p == Launch(v)
             g == Guard(v.upstream)
  <1> USE DEF RoundInv
  <1>1. TypeInv'
    BY VerifyV2Typed
  <1>2. /\ UNCHANGED <<state, epochs, ready, consumed, work>>
        /\ call' = p /\ p.mode = "verify" /\ next = "idle" /\ next' = "prepare"
        /\ errors' = [r \in Row |-> VerifyError(p, g, r)]
    BY DEF VerifyV2, Launch
  <1>3. ASSUME NEW r \in Row, Outstanding(r)
        PROVE  recLen'[r] = recLen[r] /\ recSlot'[r] = recSlot[r]
    BY <1>3, OutstandingKept DEF VerifyV2
  <1>4. \A r \in Row : Outstanding(r)' <=> Outstanding(r)
    BY <1>2 DEF Outstanding
  <1>5. RoundOrder'
    BY <1>2 DEF RoundOrder
  <1>6. SlotsApart'
    BY <1>3, <1>4 DEF SlotsApart
  <1>7. ASSUME RecordsCommittable PROVE RecordsCommittable'
    BY <1>2, <1>3, <1>4, <1>7 DEF RecordsCommittable, Resolving
  <1>8. CommitInProgress'
    BY <1>2 DEF CommitInProgress
  <1>9. VerifyInProgress'
    <2> SUFFICES ASSUME NEW r \in Row, Computes(r)'
                 PROVE  /\ ready[r] = consumed[r] /\ ready[r] < epochs[r]
                        /\ recLen'[r] = Length(p, r) /\ recSlot'[r] = p.src[r]
                        /\ \A o \in Row \ {r} :
                              /\ Outstanding(o) => recSlot[o] # p.src[r]
                              /\ Computes(o)' => p.src[o] # p.src[r]
      BY <1>2, <1>3, <1>4 DEF VerifyInProgress
    <2>1. ASSUME NEW o \in Row, Computes(o)'
          PROVE  /\ LiveRow(p, o) /\ VerifyError(p, g, o) = Ok
                 /\ ValidRange(p, o) /\ SlotsInRange(p, o)
                 /\ Length(p, o) > 0 /\ p.src[o] > 0
      <3>1. /\ LiveRow(p, o) /\ VerifyError(p, g, o) = Ok
            /\ ValidRange(p, o) /\ Length(p, o) > 0 /\ p.src[o] # 0
        BY <2>1, <1>2 DEF Computes
      <3>2. SlotsInRange(p, o)
        BY <3>1, VerifyAccepts
      <3> QED
        BY <3>1, <3>2, DescriptorAssumption DEF SlotsInRange
    <2>2. ~StaleRound(g, r)
      BY <2>1, VerifyAccepts
    <2>3. ready[r] = consumed[r] /\ ready[r] < epochs[r]
      BY <2>2 DEF StaleRound, Guard, RoundOrder, TypeInv, TypeOK
    <2>4. Records(p, g, r)
      BY <2>1 DEF Records
    <2>5. ~KeepRecords(p, g, r)
      <3>1. Length(p, r) # 0 /\ p.src[r] # 0
        BY <2>1, ComputedRow, <1>1, <1>2
      <3> QED
        BY <2>1, <3>1 DEF KeepRecords
    <2>6. recLen'[r] = Length(p, r) /\ recSlot'[r] = p.src[r]
      BY <2>4, <2>5 DEF VerifyV2
    <2>7. ASSUME NEW o \in Row, Computes(o)'
          PROVE  Active(p, o)
      BY <2>1, <2>7, <1>2 DEF Active
    <2>8. SlotsOwned(p)
      BY DEF VerifyV2
    <2>9. \A o \in Row \ {r} : /\ Outstanding(o) => recSlot[o] # p.src[r]
                               /\ Computes(o)' => p.src[o] # p.src[r]
      BY <2>1, <2>7, <2>8 DEF SlotsOwned
    <2> QED
      BY <2>3, <2>6, <2>9
  <1> QED
    BY <1>1, <1>5, <1>6, <1>7, <1>8, <1>9

\* Prepare and recurrent write the windows of rows that are not outstanding.
LEMMA WindowKernelsRecords ==
    ASSUME RoundInv, Prepare \/ Recurrent
    PROVE  RoundInv' /\ (RecordsCommittable => RecordsCommittable')
  <1> USE DEF RoundInv
  <1>1. TypeInv'
    BY VerifyKernelsTyped
  <1>2. /\ UNCHANGED <<state, epochs, ready, consumed, recLen, recSlot, errors, call>>
        /\ call.mode = "verify" /\ next # "stampConsumed" /\ next' # "stampConsumed"
    BY DEF Prepare, Recurrent, TypeInv, TypeOK
  <1>3. \A r \in Row : (Outstanding(r)' <=> Outstanding(r)) /\ (Computes(r)' <=> Computes(r))
    BY <1>2 DEF Outstanding, Computes
  <1>4. ASSUME NEW r \in Row, Outstanding(r)
        PROVE  ~Computes(r)
    BY <1>2, <1>4 DEF VerifyInProgress, Outstanding, TypeInv, TypeOK
  <1>5. ASSUME NEW r \in Row, Outstanding(r)
        PROVE  work'[r] = work[r]
    BY <1>4, <1>5 DEF Prepare, Recurrent
  <1>6. RoundOrder' /\ SlotsApart' /\ CommitInProgress'
    BY <1>2, <1>3 DEF RoundOrder, SlotsApart, CommitInProgress
  <1>7. ASSUME RecordsCommittable PROVE RecordsCommittable'
    BY <1>2, <1>3, <1>5, <1>7 DEF RecordsCommittable, Resolving
  <1>8. VerifyInProgress'
    <2>1. ASSUME NEW r \in Row, Computes(r)
          PROVE  /\ next' \in {"recurrent", "stampReady"} => work'[r].keys = epochs[r]
                 /\ next' = "stampReady" =>
                       work'[r] = [keys |-> epochs[r], deltas |-> epochs[r], len |-> recLen[r],
                                   base |-> [slot |-> recSlot[r], log |-> state[recSlot[r]]]]
      <3>1. /\ recLen[r] = Length(call, r) /\ recSlot[r] = call.src[r]
            /\ next = "recurrent" => work[r].keys = epochs[r]
        BY <2>1, <1>2 DEF VerifyInProgress
      <3>2. work[r] \in Window
        BY DEF TypeInv, TypeOK
      <3>3. CASE Prepare
        <4>1. work'[r] = [work[r] EXCEPT !.keys = epochs[r]] /\ next' = "recurrent"
          BY <2>1, <3>3 DEF Prepare
        <4> QED
          BY <4>1, <3>2 DEF Window
      <3>4. CASE Recurrent
        <4>1. /\ next = "recurrent"
              /\ work'[r] = [work[r] EXCEPT !.deltas = epochs[r], !.len = Length(call, r),
                               !.base = [slot |-> call.src[r], log |-> state[call.src[r]]]]
          BY <2>1, <3>4 DEF Recurrent
        <4> QED
          BY <4>1, <3>1, <3>2 DEF Window
      <3> QED
        BY <3>3, <3>4
    <2> QED
      BY <2>1, <1>2, <1>3 DEF VerifyInProgress
  <1> QED
    BY <1>1, <1>6, <1>7, <1>8

LEMMA StampReadyRecords ==
    ASSUME RoundInv, StampReady
    PROVE  RoundInv' /\ (RecordsCommittable => RecordsCommittable')
  <1> USE DEF RoundInv
  <1>1. TypeInv'
    BY VerifyKernelsTyped
  <1>2. /\ UNCHANGED <<state, epochs, consumed, recLen, recSlot, work>>
        /\ next = "stampReady" /\ next' = "idle" /\ call.mode = "verify"
        /\ call' = NoCall /\ call'.mode = "none"
    BY DEF StampReady, NoCall, TypeInv, TypeOK
  <1>3. ASSUME NEW r \in Row, StampsReady(r)
        PROVE  Computes(r)
    <2>1. call.src \in [Row -> Int]
      BY <1>2, CallTypes DEF TypeInv, TypeOK
    <2> QED
      BY <1>2, <1>3, <2>1 DEF StampsReady, Computes, TypeInv, CallAdmitted
  <1>4. ASSUME NEW r \in Row
        PROVE  ready'[r] = IF StampsReady(r) THEN epochs[r] ELSE ready[r]
    BY DEF StampReady
  <1>5. \A r \in Row : Computes(r) =>
            /\ ready[r] = consumed[r] /\ ready[r] < epochs[r]
            /\ recSlot[r] = call.src[r]
            /\ \A o \in Row \ {r} : /\ Outstanding(o) => recSlot[o] # call.src[r]
                                    /\ Computes(o) => call.src[o] # call.src[r]
    BY <1>2 DEF VerifyInProgress
  <1>6. RoundOrder'
    <2> SUFFICES ASSUME NEW r \in Row
                 PROVE  consumed[r] <= ready'[r] /\ ready'[r] <= epochs[r]
      BY <1>2 DEF RoundOrder
    <2>1. CASE StampsReady(r)
      BY <2>1, <1>3, <1>4, <1>5 DEF TypeInv, TypeOK
    <2>2. CASE ~StampsReady(r)
      BY <2>2, <1>4 DEF RoundOrder
    <2> QED
      BY <2>1, <2>2
  <1>7. ASSUME NEW r \in Row, Outstanding(r)'
        PROVE  \/ Computes(r) /\ ready'[r] = epochs[r]
               \/ Outstanding(r) /\ ready'[r] = ready[r]
    BY <1>2, <1>3, <1>4, <1>7 DEF Outstanding
  <1>8. SlotsApart'
    <2> SUFFICES ASSUME NEW r \in Row, NEW o \in Row \ {r}, Outstanding(r)', Outstanding(o)'
                 PROVE  recSlot[r] # recSlot[o]
      BY <1>2 DEF SlotsApart
    <2>1. (Computes(r) \/ Outstanding(r)) /\ (Computes(o) \/ Outstanding(o))
      BY <1>7
    <2>2. CASE Computes(r)
      BY <2>1, <2>2, <1>5
    <2>3. CASE Computes(o)
      BY <2>1, <2>3, <1>5
    <2>4. CASE Outstanding(r) /\ Outstanding(o)
      BY <2>4 DEF SlotsApart
    <2> QED
      BY <2>1, <2>2, <2>3, <2>4
  <1>9. ASSUME RecordsCommittable PROVE RecordsCommittable'
    <2> SUFFICES ASSUME NEW r \in Row, Outstanding(r)'
                 PROVE  /\ recLen[r] \in 1..Width /\ recSlot[r] \in LiveSlot
                        /\ work[r] = [keys |-> ready'[r], deltas |-> ready'[r],
                                      len |-> recLen[r],
                                      base |-> [slot |-> recSlot[r], log |-> state[recSlot[r]]]]
      BY <1>2, <1>9 DEF RecordsCommittable
    <2>1. CASE Computes(r) /\ ready'[r] = epochs[r]
      BY <1>2, <2>1, ComputedRow DEF VerifyInProgress
    <2>2. CASE Outstanding(r) /\ ready'[r] = ready[r]
      BY <1>2, <2>2, <1>9 DEF RecordsCommittable, Resolving
    <2> QED
      BY <1>7, <2>1, <2>2
  <1>10. VerifyInProgress' /\ CommitInProgress'
    BY <1>2 DEF VerifyInProgress, CommitInProgress
  <1> QED
    BY <1>1, <1>6, <1>8, <1>9, <1>10

LEMMA CommitV2Records ==
    ASSUME RoundInv, NEW c \in Commits, NEW dep, CommitV2(c, dep)
    PROVE  RoundInv' /\ (RecordsCommittable => RecordsCommittable')
  <1> DEFINE g == Guard(dep)
  <1> USE DEF RoundInv
  <1>1. TypeInv'
    BY CommitV2Typed
  <1>2. /\ UNCHANGED <<state, epochs, ready, consumed, recLen, recSlot, work, errors>>
        /\ call'.mode = "commit" /\ call'.live = c.live /\ call'.slots = c.slots
        /\ call'.counts = c.counts
        /\ call'.errors = [r \in Row |-> CommitError(c, Rec, g, r)]
        /\ next = "idle" /\ next' = "apply"
    BY DEF CommitV2
  <1>3. RoundOrder' /\ SlotsApart' /\ VerifyInProgress'
    BY <1>2 DEF RoundOrder, SlotsApart, VerifyInProgress, Outstanding
  <1>4. ASSUME RecordsCommittable PROVE RecordsCommittable'
    BY <1>2, <1>4 DEF RecordsCommittable, Resolving, Outstanding
  <1>5. CommitInProgress'
    <2> SUFFICES ASSUME NEW r \in Row, r < c.live, CommitError(c, Rec, g, r) = Ok
                 PROVE  /\ recLen[r] > 0 => /\ ready[r] > consumed[r]
                                            /\ ready[r] = epochs[r]
                                            /\ c.slots[r] = recSlot[r]
                        /\ c.counts[r] <= recLen[r]
      BY <1>2 DEF CommitInProgress
    <2>1. c.live \in Int /\ c.counts \in [Row -> Int]
      BY CallerAssumption
    <2>2. ~(r >= c.live)
      BY <2>1 DEF Row
    <2>3. /\ ~(c.counts[r] > Rec.len[r])
          /\ Rec.len[r] > 0 => ~WrongRecord(c, Rec, g, r)
      BY <2>2, CommitAccepts
    <2>4. c.counts[r] <= recLen[r]
      BY <2>1, <2>3 DEF Rec, TypeInv, TypeOK
    <2>5. ASSUME recLen[r] > 0
          PROVE  ready[r] > consumed[r] /\ ready[r] = epochs[r] /\ c.slots[r] = recSlot[r]
      BY <2>3, <2>5 DEF Rec, WrongRecord, Guard, TypeInv, TypeOK
    <2> QED
      BY <2>4, <2>5
  <1> QED
    BY <1>1, <1>3, <1>4, <1>5

\* A commit replays outstanding rows only, and will stamp them.
LEMMA ReplayedOutstanding ==
    ASSUME RoundInv, call.mode = "commit", NEW r \in Row, Replays(r)
    PROVE  /\ Outstanding(r) /\ StampsConsumed(r)
           /\ call.slots[r] = recSlot[r] /\ call.counts[r] \in 1..recLen[r]
           /\ ready[r] = epochs[r]
  <1>1. /\ call.counts[r] \in 0..Width /\ call.counts[r] # 0
        /\ call.counts[r] <= recLen[r] /\ recLen[r] \in Nat
    BY DEF RoundInv, TypeInv, TypeOK, CallAdmitted, CommitInProgress, Replays
  <1>2. recLen[r] > 0 /\ call.counts[r] \in 1..recLen[r]
    BY <1>1, DescriptorAssumption
  <1> QED
    BY <1>2 DEF RoundInv, CommitInProgress, Replays, StampsConsumed, Outstanding

LEMMA ApplyRecords ==
    ASSUME RoundInv, Apply
    PROVE  RoundInv' /\ (RecordsCommittable => RecordsCommittable')
  <1> USE DEF RoundInv
  <1>1. TypeInv'
    BY CommitKernelsTyped
  <1>2. /\ UNCHANGED <<epochs, ready, consumed, recLen, recSlot, work, errors, call>>
        /\ next = "apply" /\ next' = "stampConsumed" /\ call.mode = "commit"
    BY DEF Apply, TypeInv, TypeOK, Call, NoCall
  <1>3. RoundOrder' /\ SlotsApart' /\ VerifyInProgress' /\ CommitInProgress'
    BY <1>2 DEF RoundOrder, SlotsApart, VerifyInProgress, CommitInProgress, Outstanding
  <1>4. ASSUME RecordsCommittable PROVE RecordsCommittable'
    <2> SUFFICES ASSUME NEW r \in Row, Outstanding(r), ~StampsConsumed(r)
                 PROVE  /\ recLen[r] \in 1..Width /\ recSlot[r] \in LiveSlot
                        /\ work[r] = [keys |-> ready[r], deltas |-> ready[r],
                                      len |-> recLen[r],
                                      base |-> [slot |-> recSlot[r], log |-> state'[recSlot[r]]]]
      BY <1>2, <1>4 DEF RecordsCommittable, Resolving, Outstanding, StampsConsumed
    <2>1. /\ recLen[r] \in 1..Width /\ recSlot[r] \in LiveSlot
          /\ work[r] = [keys |-> ready[r], deltas |-> ready[r], len |-> recLen[r],
                        base |-> [slot |-> recSlot[r], log |-> state[recSlot[r]]]]
      BY <1>2, <1>4 DEF RecordsCommittable, Resolving
    <2>2. ASSUME NEW o \in Row, Replays(o)
          PROVE  call.slots[o] # recSlot[r]
      BY <1>2, <2>2, ReplayedOutstanding DEF SlotsApart
    <2>3. {o \in Row : Replays(o) /\ call.slots[o] = recSlot[r]} = {}
      BY <2>2
    <2>4. state'[recSlot[r]] = state[recSlot[r]]
      BY <2>1, <2>3 DEF Apply
    <2> QED
      BY <2>1, <2>4
  <1> QED
    BY <1>1, <1>3, <1>4

LEMMA StampConsumedRecords ==
    ASSUME RoundInv, StampConsumed
    PROVE  RoundInv' /\ (RecordsCommittable => RecordsCommittable')
  <1> USE DEF RoundInv
  <1>1. TypeInv'
    BY CommitKernelsTyped
  <1>2. /\ UNCHANGED <<state, epochs, ready, recLen, recSlot, work>>
        /\ next = "stampConsumed" /\ next' = "idle" /\ call.mode = "commit"
        /\ call' = NoCall /\ call'.mode = "none"
    BY DEF StampConsumed, TypeInv, TypeOK, Call, NoCall
  <1>3. ASSUME NEW r \in Row
        PROVE  /\ consumed'[r] = IF StampsConsumed(r) THEN epochs[r] ELSE consumed[r]
               /\ StampsConsumed(r) => ready[r] = epochs[r]
    BY <1>2 DEF StampConsumed, StampsConsumed, CommitInProgress
  <1>4. RoundOrder'
    BY <1>2, <1>3 DEF RoundOrder, TypeInv, TypeOK
  <1>5. ASSUME NEW r \in Row, Outstanding(r)'
        PROVE  Outstanding(r) /\ ~StampsConsumed(r)
    BY <1>2, <1>3, <1>5 DEF Outstanding, TypeInv, TypeOK
  <1>6. SlotsApart'
    BY <1>2, <1>5 DEF SlotsApart
  <1>7. ASSUME RecordsCommittable PROVE RecordsCommittable'
    BY <1>2, <1>5, <1>7 DEF RecordsCommittable, Resolving
  <1>8. VerifyInProgress' /\ CommitInProgress'
    BY <1>2 DEF VerifyInProgress, CommitInProgress
  <1> QED
    BY <1>1, <1>4, <1>6, <1>7, <1>8

LEMMA AdvanceEpochsRecords ==
    ASSUME RoundInv, AdvanceEpochs
    PROVE  RoundInv' /\ (RecordsCommittable => RecordsCommittable')
  <1> USE DEF RoundInv
  <1>1. TypeInv'
    BY NextTyped DEF Next
  <1>2. /\ UNCHANGED <<state, ready, consumed, recLen, recSlot, work, errors, call, next>>
        /\ next = "idle" /\ call.mode = "none"
    BY DEF AdvanceEpochs, TypeInv, TypeOK
  <1>3. \A r \in Row : epochs[r] <= epochs'[r]
    BY DEF AdvanceEpochs, TypeInv, TypeOK
  <1>4. RoundOrder'
    BY <1>1, <1>2, <1>3 DEF RoundOrder, TypeInv, TypeOK
  <1>5. SlotsApart' /\ VerifyInProgress' /\ CommitInProgress'
    BY <1>2 DEF SlotsApart, VerifyInProgress, CommitInProgress, Outstanding
  <1>6. RecordsCommittable => RecordsCommittable'
    BY <1>2 DEF RecordsCommittable, Resolving, Outstanding
  <1> QED
    BY <1>1, <1>4, <1>5, <1>6

\* A call that is cut short leaves the records as its kernels left them, unless
\* it has replayed them and not stamped them.
LEMMA LaunchFailsRecords ==
    ASSUME RoundInv, LaunchFails
    PROVE  RoundInv' /\ (next # "stampConsumed" /\ RecordsCommittable => RecordsCommittable')
  <1> USE DEF RoundInv
  <1>1. TypeInv'
    BY NextTyped DEF Next
  <1>2. /\ UNCHANGED <<state, epochs, ready, consumed, recLen, recSlot, work, errors>>
        /\ call'.mode = "none"
    BY DEF LaunchFails, NoCall
  <1>3. RoundOrder' /\ SlotsApart' /\ VerifyInProgress' /\ CommitInProgress'
    BY <1>2 DEF RoundOrder, SlotsApart, VerifyInProgress, CommitInProgress, Outstanding
  <1>4. next # "stampConsumed" /\ RecordsCommittable => RecordsCommittable'
    BY <1>2 DEF RecordsCommittable, Resolving, Outstanding
  <1> QED
    BY <1>1, <1>3, <1>4

LEMMA NextRecords ==
    ASSUME RoundInv, [Next]_vars
    PROVE  /\ RoundInv'
           /\ ~(LaunchFails /\ next = "stampConsumed") =>
                 (RecordsCommittable => RecordsCommittable')
  <1>1. CASE UNCHANGED vars
    <2>1. TypeInv'
      BY <1>1, NextTyped DEF RoundInv
    <2>2. RoundOrder' /\ SlotsApart' /\ CommitInProgress'
      BY <1>1 DEF vars, RoundInv, RoundOrder, SlotsApart, CommitInProgress, Outstanding
    <2>3. VerifyInProgress'
      BY <1>1 DEF vars, RoundInv, VerifyInProgress, Outstanding, Computes
    <2>4. RecordsCommittable => RecordsCommittable'
      BY <1>1 DEF vars, RecordsCommittable, Resolving, StampsConsumed, Outstanding
    <2> QED
      BY <2>1, <2>2, <2>3, <2>4 DEF RoundInv
  <1>2. CASE Next
    BY <1>2, AdvanceEpochsRecords, VerifyV2Records, WindowKernelsRecords, StampReadyRecords,
       CommitV2Records, ApplyRecords, StampConsumedRecords, LaunchFailsRecords DEF Next
  <1> QED
    BY <1>1, <1>2

\* In every state rounds are ordered (consumed, ready, epoch), outstanding rows
\* hold different slots, a verification in progress computes only rows without
\* outstanding records, and a commit in progress accepts only rows that are
\* outstanding in their caller's round, whatever launches fail.
THEOREM RoundsOrdered == Spec => []RoundInv
  <1>1. RoundInv /\ [Next]_vars => RoundInv'
    BY NextRecords
  <1>2. Init => RoundInv
    BY InitRecords
  <1> QED
    BY <1>1, <1>2, PTL DEF Spec

\* Outstanding records can always be committed: whatever operands verifications
\* and commits are called with, and whatever launches fail before the replay,
\* their stamps, windows and base state stay those of the round that made them.
\* (gdn.cu:79.)  The launch of the consumed stamp is assumed not to fail.
THEOREM RecordsStayCommittable ==
    ASSUME "stampConsumed" \notin FailingLaunches
    PROVE  Spec => []RecordsCommittable
  <1>1. RoundInv /\ RecordsCommittable /\ [Next]_vars => RecordsCommittable'
    BY NextRecords DEF LaunchFails
  <1>2. Init => RecordsCommittable
    BY InitRecords
  <1> QED
    BY <1>1, <1>2, RoundsOrdered, PTL DEF Spec

-----------------------------------------------------------------------------
(***************************************************************************)
(* Steps.                                                                  *)
(***************************************************************************)

\* No step overwrites records that stay outstanding, whatever launches fail.
\* (FLARE_FLASHNEXT_AUX.md:97.)
THEOREM RecordsRetained == Spec => OutstandingRetained
  <1> DEFINE Kept(r) == UNCHANGED <<ready[r], consumed[r], recLen[r], recSlot[r], work[r]>>
  <1>1. ASSUME RoundInv, [Next]_vars, NEW r \in Row, Outstanding(r), Outstanding(r)'
        PROVE  Kept(r)
    <2>1. CASE AdvanceEpochs \/ Apply \/ LaunchFails \/ UNCHANGED vars
      BY <2>1 DEF AdvanceEpochs, Apply, LaunchFails, vars
    <2>2. CASE \E c \in Commits, dep \in {Zeros, errors} : CommitV2(c, dep)
      BY <2>2 DEF CommitV2
    <2>3. CASE \E v \in Verifications : VerifyV2(v)
      <3> PICK v \in Verifications : VerifyV2(v)
        BY <2>3
      <3>1. recLen'[r] = recLen[r] /\ recSlot'[r] = recSlot[r]
        BY <1>1, OutstandingKept DEF VerifyV2, RoundInv
      <3> QED
        BY <3>1 DEF VerifyV2
    <2>4. ASSUME call.mode = "verify"
          PROVE  ~Computes(r)
      BY <1>1, <2>4 DEF RoundInv, VerifyInProgress, Outstanding, TypeInv, TypeOK
    <2>5. CASE Prepare \/ Recurrent
      <3>1. ~Computes(r)
        BY <1>1, <2>4, <2>5 DEF Prepare, Recurrent, RoundInv, TypeInv, TypeOK
      <3>2. work'[r] = work[r]
        BY <2>5, <3>1 DEF Prepare, Recurrent
      <3> QED
        BY <2>5, <3>2 DEF Prepare, Recurrent
    <2>6. CASE StampReady
      <3>1. call.mode = "verify"
        BY <1>1, <2>6 DEF StampReady, RoundInv, TypeInv, TypeOK
      <3>2. call.src \in [Row -> Int]
        BY <1>1, <3>1, CallTypes DEF RoundInv, TypeInv, TypeOK
      <3>3. ~StampsReady(r)
        BY <1>1, <2>4, <3>1, <3>2 DEF StampsReady, Computes, RoundInv, TypeInv, CallAdmitted
      <3> QED
        BY <2>6, <3>3 DEF StampReady
    <2>7. CASE StampConsumed
      <3>1. call.mode = "commit"
        BY <1>1, <2>7 DEF StampConsumed, RoundInv, TypeInv, TypeOK, Call, NoCall
      <3>2. StampsConsumed(r) => ready[r] = epochs[r]
        BY <1>1, <3>1 DEF RoundInv, CommitInProgress, StampsConsumed
      <3>3. ~StampsConsumed(r)
        BY <1>1, <2>7, <3>2 DEF StampConsumed, Outstanding, RoundInv, TypeInv, TypeOK
      <3> QED
        BY <2>7, <3>3 DEF StampConsumed
    <2> QED
      BY <1>1, <2>1, <2>2, <2>3, <2>5, <2>6, <2>7 DEF Next
  <1>2. RoundInv /\ [Next]_vars =>
            [\A r \in Row : Outstanding(r) /\ Outstanding(r)' => Kept(r)]_vars
    BY <1>1
  <1> QED
    BY <1>2, RoundsOrdered, PTL DEF Spec, OutstandingRetained

\* A row that is stranded by its caller (its epoch is past its outstanding records)
\* keeps its records: no commit consumes or replays them, and no verification
\* replaces them.  (gdn.cu:74-77 and 238; FLARE_FLASHNEXT_AUX.md:97.)
THEOREM StrandedRowsStay == Spec => StrandedForGood
  <1> DEFINE Kept(r) == UNCHANGED <<ready[r], consumed[r]>>
             Spared(r) == \A s \in LiveSlot :
                              state'[s] # state[s] => state'[s][Len(state'[s])].row # r
  <1>1. ASSUME RoundInv, [Next]_vars, NEW r \in Row, Outstanding(r), epochs[r] > ready[r]
        PROVE  Kept(r) /\ Spared(r)
    <2> USE <1>1
    <2>1. CASE AdvanceEpochs \/ LaunchFails \/ Prepare \/ Recurrent \/ UNCHANGED vars
      BY <2>1 DEF AdvanceEpochs, LaunchFails, Prepare, Recurrent, vars
    <2>2. CASE \E c \in Commits, dep \in {Zeros, errors} : CommitV2(c, dep)
      BY <2>2 DEF CommitV2
    <2>3. CASE \E v \in Verifications : VerifyV2(v)
      BY <2>3 DEF VerifyV2
    <2>4. CASE StampReady
      <3>1. call.mode = "verify"
        BY <2>4 DEF StampReady, RoundInv, TypeInv, TypeOK
      <3>2. call.src \in [Row -> Int]
        BY <3>1, CallTypes DEF RoundInv, TypeInv, TypeOK
      <3>3. ~Computes(r)
        BY <3>1 DEF RoundInv, VerifyInProgress, Outstanding, TypeInv, TypeOK
      <3>4. ~StampsReady(r)
        BY <3>1, <3>2, <3>3 DEF StampsReady, Computes, RoundInv, TypeInv, CallAdmitted
      <3> QED
        BY <2>4, <3>4 DEF StampReady
    <2>5. CASE StampConsumed
      <3>1. call.mode = "commit"
        BY <2>5 DEF StampConsumed, RoundInv, TypeInv, TypeOK, Call, NoCall
      <3>2. ~StampsConsumed(r)
        BY <3>1 DEF RoundInv, CommitInProgress, StampsConsumed, TypeInv, TypeOK
      <3> QED
        BY <2>5, <3>2 DEF StampConsumed
    <2>6. CASE Apply
      <3>1. call.mode = "commit"
        BY <2>6 DEF Apply, RoundInv, TypeInv, TypeOK, Call, NoCall
      <3>2. ASSUME NEW s \in LiveSlot, state'[s] # state[s]
            PROVE  state'[s][Len(state'[s])].row # r
        <4> DEFINE replayed == {o \in Row : Replays(o) /\ call.slots[o] = s}
                   o == CHOOSE q \in replayed : TRUE
                   chunk == Replay(o)
        <4>1. replayed # {} /\ state'[s] = Append(state[s], chunk)
          BY <2>6, <3>2 DEF Apply
        <4>2. o \in replayed
          BY <4>1
        <4> HIDE DEF o
        <4>3. ready[o] = epochs[o]
          BY <3>1, <4>2, ReplayedOutstanding
        <4>4. o # r
          BY <4>2, <4>3 DEF RoundInv, TypeInv, TypeOK
        <4>5. chunk.row = o
          BY DEF Replay
        <4> HIDE DEF chunk
        <4>6. state[s] \in Seq(Chunk)
          BY DEF RoundInv, TypeInv, TypeOK
        <4>7. Len(state'[s]) = Len(state[s]) + 1 /\ state'[s][Len(state[s]) + 1] = chunk
          BY <4>1, <4>6
        <4> QED
          BY <4>4, <4>5, <4>7
      <3> QED
        BY <2>6, <3>2 DEF Apply
    <2> QED
      BY <1>1, <2>1, <2>2, <2>3, <2>4, <2>5, <2>6 DEF Next
  <1>2. RoundInv /\ [Next]_vars =>
            [\A r \in Row :
                Outstanding(r) /\ epochs[r] > ready[r] =>
                    /\ UNCHANGED <<ready[r], consumed[r]>>
                    /\ \A s \in LiveSlot :
                           state'[s] # state[s] => state'[s][Len(state'[s])].row # r]_vars
    BY <1>1
  <1> QED
    BY <1>2, RoundsOrdered, PTL DEF Spec, StrandedForGood

-----------------------------------------------------------------------------
(***************************************************************************)
(* Rounds can be resolved.                                                 *)
(***************************************************************************)

\* The stamps of outstanding records name a prefix of a window and a live slot.
StampsHeld == \A r \in Row : Outstanding(r) => recLen[r] \in 1..Width /\ recSlot[r] \in LiveSlot

LEMMA NextStamps ==
    ASSUME RoundInv, StampsHeld, [Next]_vars
    PROVE  StampsHeld'
  <1> USE DEF RoundInv
  <1>1. CASE AdvanceEpochs \/ Prepare \/ Recurrent \/ Apply \/ LaunchFails \/ UNCHANGED vars
    BY <1>1 DEF AdvanceEpochs, Prepare, Recurrent, Apply, LaunchFails, vars, StampsHeld,
                Outstanding
  <1>2. CASE \E c \in Commits, dep \in {Zeros, errors} : CommitV2(c, dep)
    BY <1>2 DEF CommitV2, StampsHeld, Outstanding
  <1>3. CASE \E v \in Verifications : VerifyV2(v)
    <2> PICK v \in Verifications : VerifyV2(v)
      BY <1>3
    <2> SUFFICES ASSUME NEW r \in Row, Outstanding(r)
                 PROVE  recLen'[r] \in 1..Width /\ recSlot'[r] \in LiveSlot
      BY DEF VerifyV2, StampsHeld, Outstanding
    <2>1. recLen'[r] = recLen[r] /\ recSlot'[r] = recSlot[r]
      BY OutstandingKept DEF VerifyV2
    <2> QED
      BY <2>1 DEF StampsHeld
  <1>4. CASE StampReady
    <2>1. call.mode = "verify" /\ UNCHANGED <<consumed, recLen, recSlot>>
      BY <1>4 DEF StampReady, TypeInv, TypeOK
    <2>2. call.src \in [Row -> Int]
      BY <2>1, CallTypes DEF TypeInv, TypeOK
    <2> SUFFICES ASSUME NEW r \in Row, Outstanding(r)'
                 PROVE  recLen[r] \in 1..Width /\ recSlot[r] \in LiveSlot
      BY <2>1 DEF StampsHeld
    <2>3. CASE StampsReady(r)
      <3>1. Computes(r)
        BY <2>1, <2>2, <2>3 DEF StampsReady, Computes, TypeInv, CallAdmitted
      <3>2. recLen[r] = Length(call, r) /\ recSlot[r] = call.src[r]
        BY <2>1, <3>1 DEF VerifyInProgress
      <3> QED
        BY <2>1, <3>1, <3>2, ComputedRow
    <2>4. CASE ~StampsReady(r)
      BY <1>4, <2>1, <2>4 DEF StampReady, StampsHeld, Outstanding
    <2> QED
      BY <2>3, <2>4
  <1>5. CASE StampConsumed
    <2>1. call.mode = "commit" /\ UNCHANGED <<ready, recLen, recSlot>>
      BY <1>5 DEF StampConsumed, TypeInv, TypeOK, Call, NoCall
    <2> SUFFICES ASSUME NEW r \in Row, Outstanding(r)'
                 PROVE  Outstanding(r)
      BY <2>1 DEF StampsHeld
    <2>2. StampsConsumed(r) => ready[r] > consumed[r]
      BY <2>1 DEF StampsConsumed, CommitInProgress
    <2>3. ~StampsConsumed(r) => consumed'[r] = consumed[r]
      BY <1>5 DEF StampConsumed
    <2> QED
      BY <2>1, <2>2, <2>3 DEF Outstanding
  <1> QED
    BY <1>1, <1>2, <1>3, <1>4, <1>5 DEF Next

\* With stamps held and slots apart, no test of validate_commit stops a commit of
\* what is outstanding.
LEMMA StampsResolve == RoundInv /\ StampsHeld => RoundsResolvable
  <1> SUFFICES ASSUME RoundInv, StampsHeld, NEW counts \in [Row -> 0..Width], NEW r \in Row,
                      Outstanding(r), epochs[r] = ready[r], counts[r] <= recLen[r]
               PROVE  /\ recLen[r] > 0
                      /\ CommitError(CommitOutstanding(counts), Rec, Guard(Zeros), r) = Ok
    BY DEF RoundsResolvable
  <1> DEFINE c == CommitOutstanding(counts)
             g == Guard(Zeros)
  <1>1. recLen[r] \in 1..Width /\ recSlot[r] \in LiveSlot
    BY DEF StampsHeld
  <1>2. ready[r] \in Nat /\ consumed[r] \in Nat /\ epochs[r] > 0 /\ epochs[r] > consumed[r]
    BY DEF RoundInv, TypeInv, TypeOK, Outstanding
  <1>3. c.live = Requests /\ c.counts = counts /\ c.slots[r] = recSlot[r] /\ ~(r >= Requests)
    BY DescriptorAssumption DEF CommitOutstanding, Row
  <1>4. ASSUME NEW o \in Row \ {r}
        PROVE  c.slots[o] # c.slots[r]
    <2>1. CASE Outstanding(o)
      BY <1>3, <2>1 DEF CommitOutstanding, RoundInv, SlotsApart
    <2>2. CASE ~Outstanding(o)
      <3>1. c.slots[o] = 0
        BY <2>2 DEF CommitOutstanding
      <3> QED
        BY <1>1, <1>3, <3>1 DEF LiveSlot
    <2> QED
      BY <2>1, <2>2
  <1> HIDE DEF c
  <1>5. ~SharedCommitSlot(c, r)
    BY <1>4 DEF SharedCommitSlot
  <1>6. PrefixError(c, Rec, r) = Ok
    <2>1. c.live \in 0..Requests /\ ~(r >= c.live)
      BY <1>3, DescriptorAssumption
    <2>2. c.slots[r] \in 0..(Slots - 1) /\ c.slots[r] = Rec.slot[r]
      BY <1>1, <1>3, DescriptorAssumption DEF Rec, LiveSlot
    <2>3. c.counts[r] \in 0..Width /\ ~(c.counts[r] > Rec.len[r])
      BY <1>1, <1>3 DEF Rec
    <2> QED
      BY <1>5, <2>1, <2>2, <2>3 DEF PrefixError
  <1>7. g.upstream[r] = 0 /\ g.epochs[r] = epochs[r] /\ g.ready[r] = ready[r]
        /\ g.consumed[r] = consumed[r]
    BY DEF Guard, Zeros
  <1>8. ~WrongRecord(c, Rec, g, r)
    <2>1. c.slots[r] = Rec.slot[r]
      BY <1>3 DEF Rec
    <2> QED
      BY <1>2, <1>7, <2>1 DEF WrongRecord
  <1>9. CommitError(c, Rec, g, r) = Ok
    BY <1>3, <1>6, <1>7, <1>8 DEF CommitError
  <1> QED
    BY <1>1, <1>9 DEF c

\* Outstanding records are never beyond reach: in every state, whatever calls were
\* made, rejected or cut short by a failing launch (that of the consumed stamp
\* included), one commit in the round of the records is accepted for each row and
\* each prefix.  (gdn.cu:205-244; FLARE_FLASHNEXT_AUX.md:98-99.)
THEOREM RoundsStayResolvable == Spec => []RoundsResolvable
  <1>1. Init => StampsHeld
    BY DEF Init, Zeros, StampsHeld, Outstanding
  <1>2. RoundInv /\ StampsHeld /\ [Next]_vars => StampsHeld'
    BY NextStamps
  <1> QED
    BY <1>1, <1>2, StampsResolve, RoundsOrdered, PTL DEF Spec

-----------------------------------------------------------------------------
(***************************************************************************)
(* Rounds are consumed once.                                               *)
(***************************************************************************)

\* What a slot absorbed belongs to consumed rounds, or to the one that is being
\* stamped.
RoundsSpent ==
    \A s \in LiveSlot : \A i \in DOMAIN state[s] :
        \/ state[s][i].round <= consumed[state[s][i].row]
        \/ Resolving(state[s][i].row) /\ state[s][i].round <= epochs[state[s][i].row]

SpentInv == RoundInv /\ RecordsCommittable /\ RoundsSpent /\ ConsumedOnce

LEMMA AbsorbedTypes ==
    ASSUME TypeInv, NEW s \in LiveSlot, NEW i \in DOMAIN state[s]
    PROVE  /\ state[s] \in Seq(Chunk) /\ state[s][i] \in Chunk
           /\ state[s][i].row \in Row /\ state[s][i].round \in Nat
           /\ i \in 1..Len(state[s])
  <1>1. state[s] \in Seq(Chunk)
    BY DEF TypeInv, TypeOK
  <1>2. i \in 1..Len(state[s]) /\ state[s][i] \in Chunk
    BY <1>1
  <1> QED
    BY <1>1, <1>2 DEF Chunk

\* The log of a slot after a replay: what it was, and the prefix of one row.
LEMMA ReplayedLog ==
    ASSUME RoundInv, RecordsCommittable, Apply,
           NEW s \in LiveSlot, NEW i \in DOMAIN state'[s]
    PROVE  \/ i \in DOMAIN state[s] /\ state'[s][i] = state[s][i]
           \/ \E r \in Row :
                 /\ Replays(r) /\ call.slots[r] = s
                 /\ i = Len(state[s]) + 1
                 /\ state'[s][i].row = r /\ state'[s][i].round = ready[r]
                 /\ ready[r] > consumed[r] /\ ready[r] = epochs[r] /\ StampsConsumed(r)
  <1> DEFINE replayed == {r \in Row : Replays(r) /\ call.slots[r] = s}
             r == CHOOSE o \in replayed : TRUE
  <1>1. call.mode = "commit" /\ next = "apply"
    BY DEF Apply, RoundInv, TypeInv, TypeOK, Call, NoCall
  <1>2. state[s] \in Seq(Chunk)
    BY DEF RoundInv, TypeInv, TypeOK
  <1>3. state'[s] = IF replayed = {} THEN state[s] ELSE Append(state[s], Replay(r))
    BY DEF Apply
  <1>4. CASE replayed = {}
    BY <1>3, <1>4
  <1>5. CASE replayed # {}
    <2>1. r \in Row /\ Replays(r) /\ call.slots[r] = s
      <3>1. r \in replayed
        BY <1>5
      <3> QED
        BY <3>1
    <2> HIDE DEF r
    <2>2. /\ ready[r] > consumed[r] /\ ready[r] = epochs[r] /\ StampsConsumed(r)
          /\ Outstanding(r)
      BY <1>1, <2>1, ReplayedOutstanding DEF Outstanding
    <2>3. work[r].deltas = ready[r]
      <3>1. ~Resolving(r)
        BY <1>1 DEF Resolving
      <3>2. work[r] = [keys |-> ready[r], deltas |-> ready[r], len |-> recLen[r],
                       base |-> [slot |-> recSlot[r], log |-> state[recSlot[r]]]]
        BY <2>1, <2>2, <3>1 DEF RecordsCommittable
      <3> QED
        BY <3>2
    <2>4. Replay(r).row = r /\ Replay(r).round = ready[r]
      BY <2>3 DEF Replay
    <2>5. \/ i \in DOMAIN state[s] /\ state'[s][i] = state[s][i]
          \/ i = Len(state[s]) + 1 /\ state'[s][i] = Replay(r)
      <3> DEFINE chunk == Replay(r)
      <3>1. state'[s] = Append(state[s], chunk)
        BY <1>3, <1>5
      <3> HIDE DEF chunk
      <3>2. i \in 1..(Len(state[s]) + 1)
        BY <1>2, <3>1
      <3>3. \/ i \in DOMAIN state[s] /\ state'[s][i] = state[s][i]
            \/ i = Len(state[s]) + 1 /\ state'[s][i] = chunk
        BY <1>2, <3>1, <3>2
      <3> QED
        BY <3>3 DEF chunk
    <2> QED
      BY <2>1, <2>2, <2>4, <2>5
  <1> QED
    BY <1>4, <1>5

LEMMA ApplySpent ==
    ASSUME SpentInv, Apply
    PROVE  RoundsSpent' /\ ConsumedOnce'
  <1> USE DEF SpentInv
  <1>1. next = "apply" /\ next' = "stampConsumed" /\ UNCHANGED <<consumed, epochs, recLen, call>>
    BY DEF Apply
  <1>2. ASSUME NEW s \in LiveSlot, NEW i \in DOMAIN state[s]
        PROVE  state[s][i].round <= consumed[state[s][i].row]
    BY <1>1 DEF RoundsSpent, Resolving
  <1>3. RoundsSpent'
    <2> SUFFICES ASSUME NEW s \in LiveSlot, NEW i \in DOMAIN state'[s]
                 PROVE  \/ state'[s][i].round <= consumed[state'[s][i].row]
                        \/ /\ StampsConsumed(state'[s][i].row)
                           /\ state'[s][i].round <= epochs[state'[s][i].row]
      BY <1>1 DEF RoundsSpent, Resolving, StampsConsumed
    <2>1. CASE i \in DOMAIN state[s] /\ state'[s][i] = state[s][i]
      BY <2>1, <1>2
    <2>2. CASE ~(i \in DOMAIN state[s] /\ state'[s][i] = state[s][i])
      <3> PICK r \in Row : /\ state'[s][i].row = r /\ state'[s][i].round = ready[r]
                           /\ ready[r] = epochs[r] /\ StampsConsumed(r)
        BY <2>2, ReplayedLog
      <3> QED
        BY DEF RoundInv, TypeInv, TypeOK
    <2> QED
      BY <2>1, <2>2
  <1>4. ConsumedOnce'
    <2> SUFFICES ASSUME NEW s \in LiveSlot, NEW t \in LiveSlot,
                        NEW i \in DOMAIN state'[s], NEW j \in DOMAIN state'[t],
                        state'[s][i].row = state'[t][j].row,
                        state'[s][i].round = state'[t][j].round
                 PROVE  s = t /\ i = j
      BY DEF ConsumedOnce
    <2> DEFINE old(u, k) == k \in DOMAIN state[u] /\ state'[u][k] = state[u][k]
    <2>1. CASE old(s, i) /\ old(t, j)
      BY <2>1 DEF ConsumedOnce
    <2>2. ASSUME NEW u \in LiveSlot, NEW k \in DOMAIN state'[u], ~old(u, k)
          PROVE  \E r \in Row : /\ call.slots[r] = u /\ k = Len(state[u]) + 1
                                /\ state'[u][k].row = r /\ state'[u][k].round = ready[r]
                                /\ ready[r] > consumed[r]
      BY <2>2, ReplayedLog
    <2>3. ASSUME NEW u \in LiveSlot, NEW k \in DOMAIN state'[u], old(u, k)
          PROVE  /\ state'[u][k].row \in Row
                 /\ ~(state'[u][k].round > consumed[state'[u][k].row])
      BY <2>3, <1>2, AbsorbedTypes DEF RoundInv, TypeInv, TypeOK
    <2> HIDE DEF old
    <2>4. CASE ~old(s, i) /\ ~old(t, j)
      BY <2>2, <2>4
    <2>5. CASE old(s, i) /\ ~old(t, j)
      BY <2>2, <2>3, <2>5
    <2>6. CASE ~old(s, i) /\ old(t, j)
      BY <2>2, <2>3, <2>6
    <2> QED
      BY <2>1, <2>4, <2>5, <2>6
  <1> QED
    BY <1>3, <1>4

LEMMA StampConsumedSpent ==
    ASSUME SpentInv, StampConsumed
    PROVE  RoundsSpent' /\ ConsumedOnce'
  <1> USE DEF SpentInv
  <1>1. state' = state /\ epochs' = epochs /\ next = "stampConsumed"
    BY DEF StampConsumed
  <1>2. ConsumedOnce'
    BY <1>1 DEF ConsumedOnce
  <1>3. RoundsSpent'
    <2> SUFFICES ASSUME NEW s \in LiveSlot, NEW i \in DOMAIN state[s]
                 PROVE  state[s][i].round <= consumed'[state[s][i].row]
      BY <1>1 DEF RoundsSpent
    <2> DEFINE r == state[s][i].row
    <2>1. /\ r \in Row /\ state[s][i].round \in Nat
          /\ \/ state[s][i].round <= consumed[r]
             \/ StampsConsumed(r) /\ state[s][i].round <= epochs[r]
      BY AbsorbedTypes DEF RoundsSpent, Resolving, RoundInv
    <2> HIDE DEF r
    <2>2. /\ consumed'[r] = IF StampsConsumed(r) THEN epochs[r] ELSE consumed[r]
          /\ consumed[r] <= epochs[r]
          /\ consumed[r] \in Nat /\ epochs[r] \in Nat
      BY <2>1 DEF StampConsumed, RoundInv, RoundOrder, TypeInv, TypeOK
    <2>3. state[s][i].round <= consumed'[r]
      BY <2>1, <2>2
    <2> QED
      BY <2>3 DEF r
  <1> QED
    BY <1>2, <1>3

LEMMA NextSpent ==
    ASSUME SpentInv, [Next]_vars, "stampConsumed" \notin FailingLaunches
    PROVE  SpentInv'
  <1>1. RoundInv' /\ RecordsCommittable'
    BY NextRecords DEF SpentInv, LaunchFails
  <1>2. CASE Apply
    BY <1>1, <1>2, ApplySpent DEF SpentInv
  <1>3. CASE StampConsumed
    BY <1>1, <1>3, StampConsumedSpent DEF SpentInv
  <1>4. CASE UNCHANGED vars
    <2>1. RoundsSpent' /\ ConsumedOnce'
      BY <1>4 DEF SpentInv, RoundsSpent, ConsumedOnce, Resolving, StampsConsumed, vars
    <2> QED
      BY <1>1, <2>1 DEF SpentInv
  <1>5. ASSUME Next, ~Apply, ~StampConsumed
        PROVE  SpentInv'
    <2>1. state' = state /\ consumed' = consumed /\ next # "stampConsumed"
      <3>1. CASE AdvanceEpochs \/ Prepare \/ Recurrent \/ StampReady \/ LaunchFails
        BY <3>1 DEF AdvanceEpochs, Prepare, Recurrent, StampReady, LaunchFails
      <3>2. CASE \E v \in Verifications : VerifyV2(v)
        BY <3>2 DEF VerifyV2
      <3>3. CASE \E c \in Commits, dep \in {Zeros, errors} : CommitV2(c, dep)
        BY <3>3 DEF CommitV2
      <3> QED
        BY <1>5, <3>1, <3>2, <3>3 DEF Next
    <2>2. RoundsSpent' /\ ConsumedOnce'
      BY <2>1 DEF SpentInv, RoundsSpent, ConsumedOnce, Resolving
    <2> QED
      BY <1>1, <2>2 DEF SpentInv
  <1> QED
    BY <1>2, <1>3, <1>4, <1>5

LEMMA InitSpent == Init => SpentInv
  <1> SUFFICES ASSUME Init PROVE SpentInv
    OBVIOUS
  <1>1. \A s \in LiveSlot : DOMAIN state[s] = {}
    BY DEF Init
  <1>2. RoundsSpent /\ ConsumedOnce
    BY <1>1 DEF RoundsSpent, ConsumedOnce
  <1> QED
    BY <1>2, InitRecords DEF SpentInv

\* The records of a round change the state at most once, on one slot, whatever
\* is retried, rejected or cut short before the replay.  (gdn_transaction.py:109.)
\* The launch of the consumed stamp is assumed not to fail.
THEOREM RoundsConsumedOnce ==
    ASSUME "stampConsumed" \notin FailingLaunches
    PROVE  Spec => []ConsumedOnce
  <1>1. SpentInv /\ [Next]_vars => SpentInv'
    BY NextSpent
  <1>2. SpentInv => ConsumedOnce
    BY DEF SpentInv
  <1> QED
    BY <1>1, <1>2, InitSpent, PTL DEF Spec

(***************************************************************************)
(* GdnTransaction implements VerificationRounds, for every number of rows, *)
(* slots, tokens and epochs and every set of operands.                     *)
(*                                                                         *)
(* StampReady opens the rounds it stamps, Apply resolves the rounds of the *)
(* rows whose consumed stamp follows, and every other step is a stutter.   *)
(* The proof needs what GdnTransactionProofs establishes between kernels   *)
(* (RoundInv), and that a resolved window is of its round and was computed *)
(* from the state it is replayed on (RecordsCommittable).                  *)
(***************************************************************************)

RefineInv == RoundInv /\ RecordsCommittable

\* A row has a round open exactly while its records are outstanding and no
\* replay of them is under way.
LEMMA OpenRound ==
    ASSUME NEW r \in Row, Outstanding(r), ~Resolving(r)
    PROVE  /\ Pending[r] = [round |-> ready[r], slot |-> recSlot[r]]
           /\ Pending[r].round = ready[r] /\ Pending[r].slot = recSlot[r]
  <1>1. Pending[r] = [round |-> ready[r], slot |-> recSlot[r]]
    BY DEF Pending
  <1> DEFINE open == [round |-> ready[r], slot |-> recSlot[r]]
  <1>2. open.round = ready[r] /\ open.slot = recSlot[r]
    OBVIOUS
  <1> QED
    BY <1>1, <1>2

LEMMA NoOpenRound ==
    ASSUME NEW r \in Row, ~Outstanding(r) \/ Resolving(r)
    PROVE  /\ Pending[r] = Rounds!NoRound
           /\ Pending[r].round = 0 /\ Pending[r].slot = 0
  <1>1. Pending[r] = Rounds!NoRound
    BY DEF Pending, Rounds!NoRound
  <1>2. Rounds!NoRound.round = 0 /\ Rounds!NoRound.slot = 0
    BY DEF Rounds!NoRound
  <1> QED
    BY <1>1, <1>2

\* A step that leaves the records, the state and the consumed rounds alone, and
\* neither begins nor ends a replay, is a stutter of the abstract transaction.
LEMMA QuietStep ==
    ASSUME UNCHANGED <<state, ready, consumed>>,
           next # "stampConsumed", next' # "stampConsumed",
           \A r \in Row : Outstanding(r) => recSlot'[r] = recSlot[r]
    PROVE  UNCHANGED Rounds!vars
  <1>1. \A r \in Row : ~Resolving(r) /\ ~Resolving(r)'
    BY DEF Resolving
  <1>2. \A r \in Row : Outstanding(r)' <=> Outstanding(r)
    BY DEF Outstanding
  <1>3. Pending' = Pending
    BY <1>1, <1>2 DEF Pending
  <1>4. Resolved' = Resolved
    BY <1>1 DEF Resolved
  <1> QED
    BY <1>3, <1>4 DEF Rounds!vars

\* The initial states are those of the abstract transaction.
LEMMA InitRefines == Init => Rounds!Init
  <1> SUFFICES ASSUME Init PROVE Rounds!Init
    OBVIOUS
  <1>1. \A r \in Row : ~Outstanding(r) /\ ~Resolving(r) /\ consumed[r] = 0
    BY DEF Init, Zeros, Outstanding, Resolving
  <1>2. Pending = [r \in Row |-> [round |-> 0, slot |-> 0]]
    BY <1>1 DEF Pending
  <1>3. Resolved = [r \in Row |-> 0]
    BY <1>1 DEF Resolved
  <1>4. state = [s \in LiveSlot |-> <<>>]
    BY DEF Init
  <1> QED
    BY <1>2, <1>3, <1>4 DEF Rounds!Init, Rounds!NoRound

\* The ready stamp opens rounds that are new, on slots nobody else has open.
LEMMA StampReadyOpens ==
    ASSUME RefineInv, StampReady
    PROVE  Rounds!Open
  <1> USE DEF RefineInv
  <1>1. /\ UNCHANGED <<state, epochs, consumed, recLen, recSlot, work>>
        /\ next = "stampReady" /\ next' = "idle" /\ call.mode = "verify"
    BY DEF StampReady, RoundInv, TypeInv, TypeOK
  <1>2. \A r \in Row : ~Resolving(r) /\ ~Resolving(r)'
    BY <1>1 DEF Resolving
  <1>3. /\ Resolved' = Resolved
        /\ \A r \in Row : Resolved[r] = consumed[r]
    BY <1>1, <1>2 DEF Resolved
  <1>4. ASSUME NEW r \in Row
        PROVE  /\ Outstanding(r)' => /\ Pending'[r] = [round |-> ready'[r], slot |-> recSlot[r]]
                                     /\ Pending'[r].slot = recSlot[r]
                                     /\ Pending'[r].round = ready'[r]
               /\ ~Outstanding(r)' => /\ Pending'[r] = [round |-> 0, slot |-> 0]
                                      /\ Pending'[r].slot = 0
    <2> DEFINE open == [round |-> ready'[r], slot |-> recSlot[r]]
               none == [round |-> 0, slot |-> 0]
    <2>1. Pending'[r] = IF Outstanding(r)' THEN open ELSE none
      BY <1>1, <1>2 DEF Pending
    <2>2. open.slot = recSlot[r] /\ open.round = ready'[r] /\ none.slot = 0
      OBVIOUS
    <2> QED
      BY <2>1, <2>2
  <1>5. /\ SlotsApart' /\ RecordsCommittable'
        /\ \A r \in Row : /\ consumed[r] \in Nat /\ ready[r] \in Nat /\ epochs[r] \in Nat
    BY StampReadyRecords DEF RoundInv, TypeInv, TypeOK
  <1>6. ASSUME NEW r \in Row, StampsReady(r)
        PROVE  ~Outstanding(r) /\ Outstanding(r)' /\ ready'[r] > consumed[r]
    <2>1. Computes(r)
      <3>1. call.src \in [Row -> Int]
        BY <1>1, CallTypes DEF RoundInv, TypeInv, TypeOK
      <3> QED
        BY <1>1, <1>6, <3>1 DEF StampsReady, Computes, RoundInv, TypeInv, CallAdmitted
    <2>2. ready[r] = consumed[r] /\ ready[r] < epochs[r]
      BY <1>1, <2>1 DEF RoundInv, VerifyInProgress
    <2> QED
      BY <1>1, <1>5, <1>6, <2>2 DEF StampReady, Outstanding
  <1>7. ASSUME NEW r \in Row
        PROVE  \/ Pending'[r] = Pending[r]
               \/ /\ Pending[r] = Rounds!NoRound
                  /\ Pending'[r].round > Resolved[r]
                  /\ Pending'[r].slot \in LiveSlot
                  /\ \A o \in Row \ {r} : Pending'[o].slot # Pending'[r].slot
    <2>1. CASE ~StampsReady(r)
      <3>1. ready'[r] = ready[r]
        BY <2>1 DEF StampReady
      <3>2. Outstanding(r)' <=> Outstanding(r)
        BY <1>1, <3>1 DEF Outstanding
      <3> QED
        BY <1>1, <1>2, <3>1, <3>2 DEF Pending
    <2>2. CASE StampsReady(r)
      <3>1. Pending[r] = Rounds!NoRound
        BY <1>6, <2>2, NoOpenRound
      <3>2. Pending'[r].round = ready'[r] /\ Pending'[r].slot = recSlot[r]
        BY <1>4, <1>6, <2>2
      <3>3. recSlot[r] \in LiveSlot
        BY <1>1, <1>2, <1>5, <1>6, <2>2 DEF RecordsCommittable
      <3>4. ASSUME NEW o \in Row \ {r}
            PROVE  Pending'[o].slot # recSlot[r]
        <4>1. CASE Outstanding(o)'
          <5>1. recSlot'[o] # recSlot'[r]
            BY <1>5, <1>6, <2>2, <4>1 DEF SlotsApart
          <5> QED
            BY <1>1, <1>4, <4>1, <5>1
        <4>2. CASE ~Outstanding(o)'
          <5>1. Pending'[o].slot = 0
            BY <1>4, <4>2
          <5> QED
            BY <3>3, <5>1 DEF LiveSlot
        <4> QED
          BY <4>1, <4>2
      <3> QED
        BY <1>3, <1>6, <2>2, <3>1, <3>2, <3>3, <3>4
    <2> QED
      BY <2>1, <2>2
  <1> QED
    BY <1>1, <1>3, <1>7 DEF Rounds!Open

\* The replay resolves the rounds of all rows the commit will stamp, and appends
\* the prefixes they keep to the slots their rounds were opened on.
LEMMA ApplyResolves ==
    ASSUME RefineInv, Apply
    PROVE  \E R \in SUBSET Row, n \in [Row -> 0..Width] : Rounds!Resolve(R, n)
  <1> DEFINE R == {r \in Row : StampsConsumed(r)}
             n == [r \in Row |-> IF r \in R THEN call.counts[r] ELSE 0]
  <1> USE DEF RefineInv
  <1>1. /\ UNCHANGED <<epochs, ready, consumed, recLen, recSlot, work, errors, call>>
        /\ next = "apply" /\ next' = "stampConsumed" /\ call.mode = "commit"
    BY DEF Apply, RoundInv, TypeInv, TypeOK, Call, NoCall
  <1>2. \A r \in Row : ~Resolving(r) /\ (Resolving(r)' <=> r \in R)
    BY <1>1 DEF Resolving, StampsConsumed
  <1>3. ASSUME NEW r \in R
        PROVE  /\ Outstanding(r) /\ ready[r] = epochs[r]
               /\ call.slots[r] = recSlot[r] /\ recSlot[r] \in LiveSlot
               /\ call.counts[r] \in 0..Width
               /\ ready[r] > 0
    <2>1. r \in Row /\ r < call.live /\ call.errors[r] = Ok /\ recLen[r] > 0
      BY DEF StampsConsumed
    <2>2. /\ Outstanding(r) /\ ready[r] = epochs[r] /\ call.slots[r] = recSlot[r]
      BY <1>1, <2>1 DEF RoundInv, CommitInProgress, Outstanding
    <2>3. recSlot[r] \in LiveSlot
      BY <1>2, <2>1, <2>2 DEF RecordsCommittable
    <2>4. call.counts[r] \in 0..Width
      BY <1>1, <2>1 DEF RoundInv, TypeInv, CallAdmitted
    <2> QED
      BY <2>1, <2>2, <2>3, <2>4 DEF Outstanding, RoundInv, TypeInv, TypeOK
  <1>4. n \in [Row -> 0..Width]
    BY <1>3, DescriptorAssumption
  <1>5. ASSUME NEW r \in R
        PROVE  Pending[r].round = ready[r] /\ Pending[r].slot = recSlot[r]
    BY <1>2, <1>3, OpenRound
  <1>6. \A r \in R : Pending[r] # Rounds!NoRound
    <2>1. Rounds!NoRound.round = 0
      BY DEF Rounds!NoRound
    <2> QED
      BY <1>3, <1>5, <2>1
  <1>7. Pending' = [r \in Row |-> IF r \in R THEN Rounds!NoRound ELSE Pending[r]]
    <2>1. \A r \in Row : Outstanding(r)' <=> Outstanding(r)
      BY <1>1 DEF Outstanding
    <2> HIDE DEF R
    <2> QED
      BY <1>1, <1>2, <2>1 DEF Pending, Rounds!NoRound
  <1>8. Resolved' = [r \in Row |-> IF r \in R THEN Pending[r].round ELSE Resolved[r]]
    <2>1. \A r \in R : Pending[r].round = epochs[r]
      BY <1>3, <1>5
    <2> HIDE DEF R
    <2> QED
      BY <1>1, <1>2, <2>1 DEF Resolved
  <1>9. ASSUME NEW r \in Row
        PROVE  Replays(r) <=> r \in R /\ n[r] > 0
    <2>1. ASSUME Replays(r) PROVE r \in R /\ n[r] > 0
      BY <1>1, <2>1, ReplayedOutstanding
    <2>2. ASSUME r \in R, n[r] > 0 PROVE Replays(r)
      <3>1. call.slots[r] # 0 /\ call.counts[r] # 0
        BY <1>3, <2>2 DEF LiveSlot
      <3> QED
        BY <2>2, <3>1 DEF Replays, StampsConsumed
    <2> QED
      BY <2>1, <2>2
  <1>10. ASSUME NEW s \in LiveSlot
         PROVE  {r \in R : Pending[r].slot = s /\ n[r] > 0}
                    = {r \in Row : Replays(r) /\ call.slots[r] = s}
    <2>1. ASSUME NEW r \in R
          PROVE  Pending[r].slot = call.slots[r]
      BY <1>3, <1>5
    <2>2. R \subseteq Row
      OBVIOUS
    <2> HIDE DEF R, n
    <2> QED
      BY <1>9, <2>1, <2>2
  <1>11. ASSUME NEW r \in Row, Replays(r)
         PROVE  Replay(r) = Rounds!Prefix(r, n[r])
    <2>1. r \in R
      BY <1>9, <1>11
    <2>2. work[r] = [keys |-> ready[r], deltas |-> ready[r], len |-> recLen[r],
                     base |-> [slot |-> recSlot[r], log |-> state[recSlot[r]]]]
      BY <1>2, <1>3, <2>1 DEF RecordsCommittable
    <2>3. n[r] = call.counts[r] /\ Pending[r].round = ready[r]
      BY <1>5, <2>1
    <2>4. call.slots[r] = recSlot[r] /\ call.counts[r] <= recLen[r]
      BY <1>1, <1>11, ReplayedOutstanding
    <2>5. /\ work[r].keys = work[r].deltas /\ call.counts[r] <= work[r].len
          /\ work[r].base = [slot |-> call.slots[r], log |-> state[call.slots[r]]]
          /\ work[r].deltas = ready[r]
      BY <2>2, <2>4
    <2> QED
      BY <2>3, <2>5 DEF Replay, Rounds!Prefix
  <1>12. state' = [s \in LiveSlot |->
                     LET kept == {r \in R : Pending[r].slot = s /\ n[r] > 0}
                     IN IF kept = {} THEN state[s]
                        ELSE Append(state[s], LET r == CHOOSE r \in kept : TRUE
                                              IN Rounds!Prefix(r, n[r]))]
    <2> DEFINE rows(s) == {r \in Row : Replays(r) /\ call.slots[r] = s}
               kept(s) == {r \in R : Pending[r].slot = s /\ n[r] > 0}
               first(s) == CHOOSE r \in rows(s) : TRUE
    <2>1. state' = [s \in LiveSlot |-> IF rows(s) = {} THEN state[s]
                                       ELSE Append(state[s], Replay(first(s)))]
      BY DEF Apply
    <2>2. \A s \in LiveSlot : kept(s) = rows(s)
      BY <1>10
    <2>3. \A s \in LiveSlot : rows(s) # {} => first(s) \in rows(s)
      OBVIOUS
    <2>4. \A s \in LiveSlot : rows(s) # {} =>
             Replay(first(s)) = Rounds!Prefix(first(s), n[first(s)])
      BY <2>3, <1>11
    <2>5. \A s \in LiveSlot : first(s) = CHOOSE r \in kept(s) : TRUE
      BY <2>2
    <2> HIDE DEF rows, kept, first, n, R
    <2>6. state' = [s \in LiveSlot |->
                      IF kept(s) = {} THEN state[s]
                      ELSE Append(state[s], Rounds!Prefix(CHOOSE r \in kept(s) : TRUE,
                                                          n[CHOOSE r \in kept(s) : TRUE]))]
      BY <2>1, <2>2, <2>4, <2>5
    <2> QED
      BY <2>6 DEF kept
  <1>13. Rounds!Resolve(R, n)
    <2> HIDE DEF R, n
    <2> QED
      BY <1>6, <1>7, <1>8, <1>12 DEF Rounds!Resolve
  <1>14. R \in SUBSET Row
    OBVIOUS
  <1> HIDE DEF R, n
  <1> QED
    BY <1>4, <1>13, <1>14

\* Writing the consumed stamps of a replay changes nothing: their rounds are
\* resolved already.
LEMMA StampConsumedStutters ==
    ASSUME RefineInv, StampConsumed
    PROVE  UNCHANGED Rounds!vars
  <1> USE DEF RefineInv
  <1>1. /\ UNCHANGED <<state, epochs, ready, recLen, recSlot, work>>
        /\ next = "stampConsumed" /\ next' = "idle" /\ call.mode = "commit"
    BY DEF StampConsumed, RoundInv, TypeInv, TypeOK, Call, NoCall
  <1>2. \A r \in Row : (Resolving(r) <=> StampsConsumed(r)) /\ ~Resolving(r)'
    BY <1>1 DEF Resolving
  <1>3. \A r \in Row : consumed'[r] = IF StampsConsumed(r) THEN epochs[r] ELSE consumed[r]
    BY DEF StampConsumed
  <1>4. \A r \in Row : Outstanding(r)' <=> Outstanding(r) /\ ~Resolving(r)
    BY <1>1, <1>2, <1>3 DEF Outstanding, StampsConsumed, RoundInv, CommitInProgress,
       TypeInv, TypeOK
  <1>5. Pending' = Pending
    BY <1>1, <1>2, <1>4 DEF Pending
  <1>6. Resolved' = Resolved
    BY <1>1, <1>2, <1>3 DEF Resolved
  <1> QED
    BY <1>1, <1>5, <1>6 DEF Rounds!vars

LEMMA NextRefines ==
    ASSUME RefineInv, [Next]_vars, "stampConsumed" \notin FailingLaunches
    PROVE  [Rounds!Next]_Rounds!vars
  <1>1. CASE UNCHANGED vars
    BY <1>1 DEF vars, Rounds!vars, Pending, Resolved, Outstanding, Resolving, StampsConsumed
  <1>2. CASE AdvanceEpochs \/ Prepare \/ Recurrent
    <2>1. /\ UNCHANGED <<state, ready, consumed, recSlot>>
          /\ next # "stampConsumed" /\ next' # "stampConsumed"
      BY <1>2 DEF AdvanceEpochs, Prepare, Recurrent
    <2> QED
      BY <2>1, QuietStep
  <1>3. CASE \E v \in Verifications : VerifyV2(v)
    <2> PICK v \in Verifications : VerifyV2(v)
      BY <1>3
    <2>1. /\ UNCHANGED <<state, ready, consumed>>
          /\ next # "stampConsumed" /\ next' # "stampConsumed"
      BY DEF VerifyV2
    <2>2. \A r \in Row : Outstanding(r) => recSlot'[r] = recSlot[r]
      BY OutstandingKept DEF VerifyV2, RefineInv, RoundInv
    <2> QED
      BY <2>1, <2>2, QuietStep
  <1>4. CASE \E c \in Commits, dep \in {Zeros, errors} : CommitV2(c, dep)
    <2>1. /\ UNCHANGED <<state, ready, consumed, recSlot>>
          /\ next # "stampConsumed" /\ next' # "stampConsumed"
      BY <1>4 DEF CommitV2
    <2> QED
      BY <2>1, QuietStep
  <1>5. CASE LaunchFails
    <2>1. /\ UNCHANGED <<state, ready, consumed, recSlot>>
          /\ next # "stampConsumed" /\ next' # "stampConsumed"
      BY <1>5 DEF LaunchFails
    <2> QED
      BY <2>1, QuietStep
  <1>6. CASE StampReady
    BY <1>6, StampReadyOpens DEF Rounds!Next
  <1>7. CASE Apply
    BY <1>7, ApplyResolves DEF Rounds!Next
  <1>8. CASE StampConsumed
    BY <1>8, StampConsumedStutters
  <1> QED
    BY <1>1, <1>2, <1>3, <1>4, <1>5, <1>6, <1>7, <1>8 DEF Next

\* The kernels implement the abstract transaction: every accepted prefix is
\* consumed once, in order, on the state it was computed from, and rejected,
\* duplicate, wrong-round and wrong-slot commits do nothing, whatever launches
\* fail before the replay.  The launch of the consumed stamp is assumed not to
\* fail.
THEOREM KernelsImplementRounds ==
    ASSUME "stampConsumed" \notin FailingLaunches
    PROVE  Spec => ImplementsRounds
  <1>1. RefineInv /\ [Next]_vars => RefineInv'
    BY NextRecords DEF RefineInv, LaunchFails
  <1>2. Init => RefineInv
    BY InitRecords DEF RefineInv
  <1>3. Init => Rounds!Init
    BY InitRefines
  <1>4. RefineInv /\ [Next]_vars => [Rounds!Next]_Rounds!vars
    BY NextRefines
  <1> QED
    BY <1>1, <1>2, <1>3, <1>4, PTL DEF Spec, ImplementsRounds, Rounds!Spec

=============================================================================
