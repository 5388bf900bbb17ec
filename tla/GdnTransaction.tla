--------------------------- MODULE GdnTransaction ---------------------------
(***************************************************************************)
(* The V2 verify/commit transaction of csrc/serving/gdn.cu.                *)
(*                                                                         *)
(* A verification computes compact records (keys, decays, deltas) for a    *)
(* row's drafted inputs and leaves the recurrent state alone; a later      *)
(* commit replays an accepted prefix of the records onto the state.  Three *)
(* epochs per row say which round the caller is in, which round the        *)
(* records belong to and which round was consumed.                         *)
(*                                                                         *)
(* A call is a sequence of kernels on one stream.  The validation kernel   *)
(* is one step together with the call itself; each later kernel is a step, *)
(* and its launch may fail, which returns to the caller with the earlier   *)
(* kernels enqueued.  The recurrent state of a slot is the sequence of     *)
(* record prefixes replayed on it.                                         *)
(***************************************************************************)
EXTENDS GdnGuards, Sequences

CONSTANTS MaxEpoch,          \* bound on epochs
          Verifications,     \* operands of verifications: live, starts, slots, upstream
          Commits,           \* operands of commits: live, slots, counts
          Leftovers,         \* record stamps an unused workspace may hold
          EarlyRounds,       \* may a round advance before its records are consumed
          FailingLaunches    \* kernels whose launch may fail

Kernel == {"prepare", "recurrent", "stampReady", "apply", "stampConsumed"}

ASSUME CallerAssumption ==
    /\ MaxEpoch \in Nat
    /\ Verifications \subseteq [live : Int, starts : [0..Requests -> Int],
                               slots : [Row -> Int], upstream : [Row -> Int]]
    /\ Commits \subseteq [live : Int, slots : [Row -> Int], counts : [Row -> Int]]
    /\ Leftovers \subseteq Nat
    /\ EarlyRounds \in BOOLEAN
    /\ FailingLaunches \subseteq Kernel

VARIABLES
    state,      \* state[s]: the recurrent state of slot s
    epochs,     \* caller-owned round of each row
    ready,      \* ready_epochs
    consumed,   \* consumed_epochs
    recLen,     \* recorded_lengths
    recSlot,    \* recorded_slots
    work,       \* the record window of each row: keys/decays and delta
    errors,     \* the verification's error vector
    call,       \* operands of the call in progress
    next        \* the next kernel of the call, or "idle"

vars == <<state, epochs, ready, consumed, recLen, recSlot, work, errors, call, next>>

NoCall == [mode |-> "none"]
Zeros == [r \in Row |-> 0]

Rec == [len |-> recLen, slot |-> recSlot]
Guard(dep) == [upstream |-> dep, epochs |-> epochs, ready |-> ready, consumed |-> consumed]

\* The records of row r are computed and not consumed.
Outstanding(r) == ready[r] > consumed[r]

Init ==
    /\ state = [s \in LiveSlot |-> <<>>]
    /\ epochs = Zeros /\ ready = Zeros /\ consumed = Zeros
    /\ recLen \in [Row -> Leftovers] /\ recSlot \in [Row -> Leftovers]
    /\ work = [r \in Row |-> [keys |-> 0, deltas |-> 0, len |-> 0,
                              base |-> [slot |-> 0, log |-> <<>>]]]
    /\ errors = Zeros
    /\ call = NoCall
    /\ next = "idle"

(***************************************************************************)
(* The caller.                                                             *)
(***************************************************************************)

\* Rounds only grow.
AdvanceEpochs ==
    /\ next = "idle"
    /\ \E R \in SUBSET Row \ {{}} :
          /\ \A r \in R : epochs[r] < MaxEpoch /\ (EarlyRounds \/ ~Outstanding(r))
          /\ epochs' = [r \in Row |-> IF r \in R THEN epochs[r] + 1 ELSE epochs[r]]
    /\ UNCHANGED <<state, ready, consumed, recLen, recSlot, work, errors, call, next>>

\* A slot is given to one row at a time, and not to another row before the
\* records outstanding on it are resolved.
SlotsOwned(p) ==
    \A r, o \in Row :
        r # o /\ LiveRow(p, r) /\ Active(p, r) =>
            /\ LiveRow(p, o) /\ Active(p, o) => p.src[o] # p.src[r]
            /\ Outstanding(o) => recSlot[o] # p.src[r]

(***************************************************************************)
(* ala_gdn_verify_v2.                                                      *)
(***************************************************************************)

Launch(v) ==
    [mode |-> "verify", live |-> v.live, starts |-> v.starts, src |-> v.slots,
     dst |-> v.slots, checkpoint |-> {}]

\* The row gets fresh record stamps, which are zero for an inactive row.
Records(p, g, r) == VerifyError(p, g, r) = Ok /\ LiveRow(p, r) /\ p.src[r] > 0

\* The call and validate_gdn.
VerifyV2(v) ==
    LET p == Launch(v)
        g == Guard(v.upstream) IN
    /\ next = "idle"
    /\ SlotsOwned(p)
    /\ errors' = [r \in Row |-> VerifyError(p, g, r)]
    /\ recLen' = [r \in Row |-> IF KeepRecords(p, g, r) THEN recLen[r]
                                ELSE IF Records(p, g, r) THEN Length(p, r) ELSE 0]
    /\ recSlot' = [r \in Row |-> IF KeepRecords(p, g, r) THEN recSlot[r]
                                 ELSE IF Records(p, g, r) THEN p.src[r] ELSE 0]
    /\ call' = p
    /\ next' = "prepare"
    /\ UNCHANGED <<state, epochs, ready, consumed, work>>

\* Rows prepare_gdn and recurrent_gdn write records for.
Computes(r) ==
    /\ LiveRow(call, r) /\ errors[r] = Ok /\ ValidRange(call, r)
    /\ call.src[r] # 0 /\ Length(call, r) > 0

\* prepare_gdn: normalized keys and decays of the round.
Prepare ==
    /\ next = "prepare"
    /\ work' = [r \in Row |-> IF Computes(r) THEN [work[r] EXCEPT !.keys = epochs[r]]
                              ELSE work[r]]
    /\ next' = "recurrent"
    /\ UNCHANGED <<state, epochs, ready, consumed, recLen, recSlot, errors, call>>

\* recurrent_gdn: deltas of the round, against the state it reads.
Recurrent ==
    /\ next = "recurrent"
    /\ work' = [r \in Row |->
                  IF Computes(r)
                  THEN [work[r] EXCEPT !.deltas = epochs[r], !.len = Length(call, r),
                          !.base = [slot |-> call.src[r], log |-> state[call.src[r]]]]
                  ELSE work[r]]
    /\ next' = "stampReady"
    /\ UNCHANGED <<state, epochs, ready, consumed, recLen, recSlot, errors, call>>

\* Mutant: the error vector is not looked at.
MutantStampsReady(r) ==
    LiveRow(call, r) /\ recLen[r] > 0 /\ Length(call, r) > 0 /\ call.src[r] > 0

\* stamp_epoch with starts and slots; its length test comes first.
StampsReady(r) ==
    /\ LiveRow(call, r) /\ errors[r] = Ok /\ recLen[r] > 0
    /\ Length(call, r) > 0 /\ call.src[r] > 0

StampReady ==
    /\ next = "stampReady"
    /\ ready' = [r \in Row |-> IF StampsReady(r) THEN epochs[r] ELSE ready[r]]
    /\ call' = NoCall
    /\ next' = "idle"
    /\ UNCHANGED <<state, epochs, consumed, recLen, recSlot, work, errors>>

(***************************************************************************)
(* ala_gdn_commit_v2.                                                      *)
(***************************************************************************)

\* The call and validate_commit.
CommitV2(c, dep) ==
    /\ next = "idle"
    /\ call' = [mode |-> "commit", live |-> c.live, slots |-> c.slots, counts |-> c.counts,
                errors |-> [r \in Row |-> CommitError(c, Rec, Guard(dep), r)]]
    /\ next' = "apply"
    /\ UNCHANGED <<state, epochs, ready, consumed, recLen, recSlot, work, errors>>

Replays(r) ==
    /\ r < call.live /\ call.errors[r] = Ok
    /\ call.slots[r] # 0 /\ call.counts[r] # 0

\* What replaying the first records of row r adds to its slot.  It is intact
\* when keys and deltas are of one round, cover the prefix, and were computed
\* from the state they are replayed on.
Replay(r) ==
    [row |-> r, round |-> work[r].deltas, count |-> call.counts[r],
     intact |-> /\ work[r].keys = work[r].deltas
                /\ call.counts[r] <= work[r].len
                /\ work[r].base = [slot |-> call.slots[r], log |-> state[call.slots[r]]]]

\* commit_gdn.  No two rows replay on one slot: SharedCommitSlot rejects both.
Apply ==
    /\ next = "apply"
    /\ state' = [s \in LiveSlot |->
                   LET rows == {r \in Row : Replays(r) /\ call.slots[r] = s}
                   IN IF rows = {} THEN state[s]
                      ELSE Append(state[s], Replay(CHOOSE r \in rows : TRUE))]
    /\ next' = "stampConsumed"
    /\ UNCHANGED <<epochs, ready, consumed, recLen, recSlot, work, errors, call>>

\* Mutant: records that nothing was kept of stay ready.
MutantStampsConsumed(r) == Replays(r) /\ recLen[r] > 0

\* stamp_epoch without starts: a count of zero consumes the records too.
StampsConsumed(r) == r < call.live /\ call.errors[r] = Ok /\ recLen[r] > 0

StampConsumed ==
    /\ next = "stampConsumed"
    /\ consumed' = [r \in Row |-> IF StampsConsumed(r) THEN epochs[r] ELSE consumed[r]]
    /\ call' = NoCall
    /\ next' = "idle"
    /\ UNCHANGED <<state, epochs, ready, recLen, recSlot, work, errors>>

\* A kernel launch returns an error: the rest of the call is not launched.
LaunchFails ==
    /\ next \in FailingLaunches
    /\ call' = NoCall
    /\ next' = "idle"
    /\ UNCHANGED <<state, epochs, ready, consumed, recLen, recSlot, work, errors>>

\* A commit reads the verification's errors, or no upstream vector at all.
Next ==
    \/ AdvanceEpochs
    \/ \E v \in Verifications : VerifyV2(v)
    \/ Prepare \/ Recurrent \/ StampReady
    \/ \E c \in Commits, dep \in {Zeros, errors} : CommitV2(c, dep)
    \/ Apply \/ StampConsumed
    \/ LaunchFails

Spec == Init /\ [][Next]_vars

\* The caller commits the outstanding records with operands that are in order.
ResolvingCommit ==
    /\ \E r \in Row : Outstanding(r)
    /\ \E c \in Commits, dep \in {Zeros, errors} :
          /\ CommitV2(c, dep)
          /\ \A r \in Row : Outstanding(r) => r < c.live /\ call'.errors[r] = Ok

ResolvingApply == Apply /\ \E r \in Row : Outstanding(r) /\ StampsConsumed(r)

\* The stream runs the kernels it was given; the caller does not abandon
\* outstanding records; and the launch of their replay does not fail forever.
Fairness ==
    /\ WF_vars(Prepare) /\ WF_vars(Recurrent) /\ WF_vars(StampReady)
    /\ WF_vars(Apply) /\ WF_vars(StampConsumed)
    /\ SF_vars(ResolvingCommit) /\ SF_vars(ResolvingApply)

FairSpec == Spec /\ Fairness
-----------------------------------------------------------------------------
(***************************************************************************)
(* Correctness.                                                            *)
(***************************************************************************)

Chunk == [row : Row, round : Nat, count : Nat, intact : BOOLEAN]

Window == [keys : Nat, deltas : Nat, len : Nat, base : [slot : Nat, log : Seq(Chunk)]]

Call ==
    {NoCall}
    \cup [mode : {"verify"}, live : Int, starts : [0..Requests -> Int],
          src : [Row -> Int], dst : [Row -> Int], checkpoint : {{}}]
    \cup [mode : {"commit"}, live : Int, slots : [Row -> Int], counts : [Row -> Int],
          errors : [Row -> Error]]

\* Values of the device vectors, and the kernel a call is at matches its kind.
TypeOK ==
    /\ state \in [LiveSlot -> Seq(Chunk)]
    /\ epochs \in [Row -> Nat] /\ ready \in [Row -> Nat] /\ consumed \in [Row -> Nat]
    /\ recLen \in [Row -> Nat] /\ recSlot \in [Row -> Nat]
    /\ work \in [Row -> Window]
    /\ errors \in [Row -> Error]
    /\ call \in Call
    /\ next \in Kernel \cup {"idle"}
    /\ next = "idle" <=> call.mode = "none"
    /\ next \in {"prepare", "recurrent", "stampReady"} <=> call.mode = "verify"

\* The commit in progress has replayed row r and will stamp it consumed.
Resolving(r) == next = "stampConsumed" /\ StampsConsumed(r)

\* Records that are outstanding stay committable: their stamps name a live slot
\* and a length, keys and deltas are those of the ready round, and they were
\* computed from the state their slot still has.  (gdn.cu:79, "Clearing its
\* lengths while leaving ready_epoch pending would make later commit
\* impossible".)
RecordsCommittable ==
    \A r \in Row :
        Outstanding(r) /\ ~Resolving(r) =>
            /\ recLen[r] \in 1..Width
            /\ recSlot[r] \in LiveSlot
            /\ work[r] = [keys |-> ready[r], deltas |-> ready[r], len |-> recLen[r],
                          base |-> [slot |-> recSlot[r], log |-> state[recSlot[r]]]]

\* A commit of what is outstanding: the recorded slots, and none for other rows.
CommitOutstanding(counts) ==
    [live |-> Requests, counts |-> counts,
     slots |-> [r \in Row |-> IF Outstanding(r) THEN recSlot[r] ELSE 0]]

\* Rounds can be resolved: whatever was called before, failed or was cut short, one
\* commit with the epoch of the verification passes every test of validate_commit
\* for each outstanding row and each prefix of its records, whatever the other
\* rows ask for.  (gdn.cu:205-244; FLARE_FLASHNEXT_AUX.md:98-99, "the normal
\* zero-prefix commit".)
RoundsResolvable ==
    \A counts \in [Row -> 0..Width] : \A r \in Row :
        Outstanding(r) /\ epochs[r] = ready[r] /\ counts[r] <= recLen[r] =>
            /\ recLen[r] > 0
            /\ CommitError(CommitOutstanding(counts), Rec, Guard(Zeros), r) = Ok

\* A row whose epoch the caller advanced over outstanding records stays as it is: no
\* commit consumes them under another round, no verification replaces them.
\* (gdn.cu:74-77 and 238; FLARE_FLASHNEXT_AUX.md:97, "use the same epoch at commit".)
StrandedForGood ==
    [][\A r \in Row :
          Outstanding(r) /\ epochs[r] > ready[r] =>
              /\ UNCHANGED <<ready[r], consumed[r]>>
              /\ \A s \in LiveSlot :
                     state'[s] # state[s] => state'[s][Len(state'[s])].row # r]_vars

\* Outstanding records are never overwritten: not by another verification, by a
\* row that is inactive for a while, or by a call that fails halfway.
\* (FLARE_FLASHNEXT_AUX.md:97.)
OutstandingRetained ==
    [][\A r \in Row :
          Outstanding(r) /\ Outstanding(r)' =>
              UNCHANGED <<ready[r], consumed[r], recLen[r], recSlot[r], work[r]>>]_vars

\* Records do not stay outstanding: whatever was rejected, skipped or cut short
\* since the verification, a commit in order consumes them.
RoundsResolved == \A r \in Row : Outstanding(r) ~> ~Outstanding(r)

\* The records of one round change the state at most once, whatever is retried.
\* (gdn_transaction.py:109, "Reject wrong-round and twice-consumed records
\* without touching state".)
ConsumedOnce ==
    \A s, t \in LiveSlot :
        \A i \in DOMAIN state[s], j \in DOMAIN state[t] :
            /\ state[s][i].row = state[t][j].row
            /\ state[s][i].round = state[t][j].round
            => s = t /\ i = j

\* The kernels implement the abstract transaction: a round opens when its ready
\* stamp is written, and is resolved when commit_gdn runs for a row whose
\* consumed stamp follows.
Pending ==
    [r \in Row |-> IF Outstanding(r) /\ ~Resolving(r)
                   THEN [round |-> ready[r], slot |-> recSlot[r]]
                   ELSE [round |-> 0, slot |-> 0]]
Resolved == [r \in Row |-> IF Resolving(r) THEN epochs[r] ELSE consumed[r]]

Rounds ==
    INSTANCE VerificationRounds WITH log <- state, pending <- Pending, resolved <- Resolved

\* Every accepted prefix is consumed once, in order, on the state it was computed
\* from; rejected, duplicate, wrong-round and wrong-slot commits do nothing.
ImplementsRounds == Rounds!Spec
=============================================================================
