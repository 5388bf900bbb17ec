------------------------------ MODULE GdnLaunch ------------------------------
(***************************************************************************)
(* The kernels of one GDN call, row by row: ala_gdn_run,                   *)
(* ala_gdn_checked_v2, ala_gdn_commit (csrc/serving/gdn.cu) and            *)
(* ala_prefill_run, ala_prefill_checked_v2 (csrc/serving/prefill.cu).      *)
(*                                                                         *)
(* The blocks of a kernel run in any order and at any speed, so the rows   *)
(* that pass the admission checks read and write the state pool as they    *)
(* please.  One (head, value) block of each row stands for all of them: a  *)
(* block touches its own part of a state slot only.  The value of a slot   *)
(* is the sequence of inputs absorbed into it, after the slot's name.      *)
(***************************************************************************)
EXTENDS GdnGuards, Sequences

CONSTANTS Launches,   \* operands of runs: mode, live, starts, src, dst, checkpoint
          Upstream,   \* upstream error vectors of a guarded run
          Commits     \* operands of commits: live, slots, counts

ASSUME LaunchAssumption ==
    /\ Launches \subseteq [mode : {"decode", "verify", "prefill"}, live : Int,
                           starts : [0..Requests -> Int], src : [Row -> Int],
                           dst : [Row -> Int], checkpoint : SUBSET Row]
    /\ Upstream \subseteq [Row -> Int]
    /\ Commits \subseteq [live : Int, slots : [Row -> Int], counts : [Row -> Int]]

VARIABLES
    state,      \* the state pool
    output,     \* the packed output tokens
    delta,      \* the records of each row: the inputs and the state they correct
    recLen,     \* recorded_lengths
    recSlot,    \* recorded_slots
    errors,     \* error vector of the call
    call,       \* operands of the call
    kernel,     \* the kernel running, or "idle"
    pc,         \* pc[r]: what row r's block does next
    regs,       \* regs[r]: the state in row r's registers, or its prefill scratch
    before      \* the state pool as the call found it

vars == <<state, output, delta, recLen, recSlot, errors, call, kernel, pc, regs, before>>

Token == 0..(Tokens - 1)
Zero == <<>>
Unwritten == <<[slot |-> 0]>>
NoCall == [mode |-> "none"]

Init ==
    /\ state = [s \in LiveSlot |-> <<[slot |-> s]>>]
    /\ output = [t \in Token |-> Unwritten]
    /\ delta = [r \in Row |-> [base |-> Zero, inputs |-> <<>>]]
    /\ recLen = [r \in Row |-> 0] /\ recSlot = [r \in Row |-> 0]
    /\ errors = [r \in Row |-> Ok]
    /\ call = NoCall
    /\ kernel = "idle"
    /\ pc = [r \in Row |-> "done"]
    /\ regs = [r \in Row |-> Zero]
    /\ before = state

\* The inputs of row r up to its n-th, as an absorbed sequence: an input is
\* named by its packed position.
Inputs(p, r, n) == [i \in 1..n |-> [token |-> p.starts[r] + i - 1]]

Loaded(s) == IF s = 0 THEN Zero ELSE state[s]

\* Rows a kernel skips without reading or writing anything.
Skipped(p, err, r) == ~LiveRow(p, r) \/ err[r] # Ok \/ ~ValidRange(p, r)

\* Rows that only zero their output.
Null(p, r) == IF p.mode = "prefill" THEN p.dst[r] = 0 ELSE p.src[r] = 0

Begin(live) == [r \in Row |-> IF live[r] THEN "load" ELSE "done"]

(***************************************************************************)
(* validate_gdn, on the stream before the kernels below.  V1 has no guard. *)
(* A native prefill gathers, runs the chunk kernel and scatters instead of *)
(* the fused recurrence.                                                   *)
(***************************************************************************)
Launch(p, err, guarded, native) ==
    /\ kernel = "idle"
    /\ call = NoCall
    /\ errors' = err
    /\ IF p.mode = "verify"
       THEN LET records(r) == err[r] = Ok /\ LiveRow(p, r) /\ p.src[r] > 0 IN
            /\ recLen' = [r \in Row |-> IF records(r) THEN Length(p, r) ELSE 0]
            /\ recSlot' = [r \in Row |-> IF records(r) THEN p.src[r] ELSE 0]
       ELSE UNCHANGED <<recLen, recSlot>>
    /\ call' = [mode |-> p.mode, live |-> p.live, starts |-> p.starts, src |-> p.src,
                dst |-> p.dst, guarded |-> guarded]
    /\ kernel' = IF native THEN "gather" ELSE "recurrent"
    /\ pc' = Begin([r \in Row |-> ~Skipped(p, err, r)])
    /\ before' = state
    /\ UNCHANGED <<state, output, delta, regs>>

RunV1 ==
    \E p \in Launches, native \in BOOLEAN :
        /\ native => p.mode = "prefill"
        /\ Launch(p, [r \in Row |-> LaunchError(p, r)], FALSE, native)

CheckedV2 ==
    \E p \in Launches, dep \in Upstream, native \in BOOLEAN :
        /\ p.mode # "verify"
        /\ native => p.mode = "prefill"
        /\ Launch(p, [r \in Row |-> CheckedError(p, [upstream |-> dep], r)], TRUE, native)

(***************************************************************************)
(* recurrent_gdn: a block reads the state, runs the recurrence in          *)
(* registers and writes outputs, records and the final state.              *)
(***************************************************************************)
LoadState(r) ==
    /\ kernel = "recurrent" /\ pc[r] = "load"
    /\ regs' = [regs EXCEPT ![r] = IF Null(call, r) THEN Zero ELSE Loaded(call.src[r])]
    /\ pc' = [pc EXCEPT ![r] = "store"]
    /\ UNCHANGED <<state, output, delta, recLen, recSlot, errors, call, kernel, before>>

\* The outputs of row r, when its interval starts from the state `from`.
Outputs(r, from) ==
    [t \in Token |->
        IF t \in call.starts[r]..(call.starts[r + 1] - 1)
        THEN IF Null(call, r) THEN Zero
             ELSE from \o Inputs(call, r, t - call.starts[r] + 1)
        ELSE output[t]]

\* The state pool with row r's final state.
Final(r, from) ==
    IF call.mode # "verify" /\ ~Null(call, r) /\ call.dst[r] > 0 /\ Length(call, r) > 0
    THEN [state EXCEPT ![call.dst[r]] = from \o Inputs(call, r, Length(call, r))]
    ELSE state

StoreState(r) ==
    /\ kernel = "recurrent" /\ pc[r] = "store"
    /\ output' = Outputs(r, regs[r])
    /\ state' = Final(r, regs[r])
    /\ delta' = IF call.mode = "verify" /\ ~Null(call, r)
                THEN [delta EXCEPT ![r] = [base |-> regs[r],
                                           inputs |-> Inputs(call, r, Length(call, r))]]
                ELSE delta
    /\ pc' = [pc EXCEPT ![r] = "done"]
    /\ UNCHANGED <<recLen, recSlot, errors, call, kernel, regs, before>>

(***************************************************************************)
(* Native prefill: gather_state, the chunk kernel on dense scratch, then   *)
(* scatter_prefill.                                                        *)
(***************************************************************************)
GatherState(r) ==
    /\ kernel = "gather" /\ pc[r] = "load"
    /\ regs' = [regs EXCEPT ![r] = Loaded(call.src[r])]
    /\ pc' = [pc EXCEPT ![r] = "done"]
    /\ UNCHANGED <<state, output, delta, recLen, recSlot, errors, call, kernel, before>>

ScatterPrefill(r) ==
    /\ kernel = "scatter" /\ pc[r] = "load"
    /\ output' = Outputs(r, regs[r])
    /\ state' = Final(r, regs[r])
    /\ pc' = [pc EXCEPT ![r] = "done"]
    /\ UNCHANGED <<delta, recLen, recSlot, errors, call, kernel, regs, before>>

Finished == \A r \in Row : pc[r] = "done"

\* The stream starts a kernel when every block of the one before has ended.
\* pack_prefill and the chunk kernel touch dense scratch only.
ForwardPrefill ==
    /\ kernel = "gather" /\ Finished
    /\ kernel' = "scatter"
    /\ pc' = Begin([r \in Row |-> r < call.live /\ errors[r] = Ok])
    /\ UNCHANGED <<state, output, delta, recLen, recSlot, errors, call, regs, before>>

(***************************************************************************)
(* ala_gdn_commit: validate_commit, then commit_gdn reads, replays and     *)
(* writes.                                                                 *)
(***************************************************************************)
CommitV1 ==
    \E c \in Commits :
        LET err == [r \in Row |-> PrefixError(c, [len |-> recLen, slot |-> recSlot], r)] IN
        /\ kernel = "idle"
        /\ call.mode = "verify"
        /\ errors' = err
        /\ call' = [mode |-> "commit", live |-> c.live, slots |-> c.slots,
                    counts |-> c.counts]
        /\ kernel' = "commit"
        /\ pc' = Begin([r \in Row |-> /\ r < c.live /\ err[r] = Ok
                                      /\ c.slots[r] # 0 /\ c.counts[r] # 0])
        /\ before' = state
        /\ UNCHANGED <<state, output, delta, recLen, recSlot, regs>>

LoadCommit(r) ==
    /\ kernel = "commit" /\ pc[r] = "load"
    /\ regs' = [regs EXCEPT ![r] = state[call.slots[r]]]
    /\ pc' = [pc EXCEPT ![r] = "store"]
    /\ UNCHANGED <<state, output, delta, recLen, recSlot, errors, call, kernel, before>>

Replayed(r, from) == from \o SubSeq(delta[r].inputs, 1, call.counts[r])

StoreCommit(r) ==
    /\ kernel = "commit" /\ pc[r] = "store"
    /\ state' = [state EXCEPT ![call.slots[r]] = Replayed(r, regs[r])]
    /\ pc' = [pc EXCEPT ![r] = "done"]
    /\ UNCHANGED <<output, delta, recLen, recSlot, errors, call, kernel, regs, before>>

Return ==
    /\ kernel \in {"recurrent", "scatter", "commit"} /\ Finished
    /\ kernel' = "idle"
    /\ UNCHANGED <<state, output, delta, recLen, recSlot, errors, call, pc, regs, before>>

Next ==
    \/ RunV1 \/ CheckedV2 \/ CommitV1
    \/ \E r \in Row : LoadState(r) \/ StoreState(r)
    \/ \E r \in Row : GatherState(r) \/ ScatterPrefill(r)
    \/ \E r \in Row : LoadCommit(r) \/ StoreCommit(r)
    \/ ForwardPrefill \/ Return

Spec == Init /\ [][Next]_vars
-----------------------------------------------------------------------------
(***************************************************************************)
(* Correctness, of a call that has returned.                               *)
(***************************************************************************)

\* Slots hold the sequence absorbed into them, of known inputs and origins.
Value == Seq([slot : 0..(Slots - 1)] \cup [token : Token])

TypeOK ==
    /\ state \in [LiveSlot -> Value] /\ before \in [LiveSlot -> Value]
    /\ output \in [Token -> Value]
    /\ regs \in [Row -> Value]
    /\ delta \in [Row -> [base : Value, inputs : Value]]
    /\ recLen \in [Row -> 0..Width] /\ recSlot \in [Row -> 0..(Slots - 1)]
    /\ errors \in [Row -> Error]
    /\ kernel \in {"idle", "recurrent", "gather", "scatter", "commit"}
    /\ pc \in [Row -> {"load", "store", "done"}]

Returned == kernel = "idle" /\ call # NoCall

Found(s) == IF s = 0 THEN Zero ELSE before[s]

\* What row r computes from the pool as the call found it, up to n inputs.
Computed(r, n) == IF Null(call, r) THEN Zero ELSE Found(call.src[r]) \o Inputs(call, r, n)

Ran(r) == ~Skipped(call, errors, r)

\* However the blocks interleave, a run leaves every slot as if its one accepted
\* writer had run alone on the pool the call found; a rejected row, a null row
\* and a verification change no slot.  (FLARE_SERVING.md:76-82.)
StateScheduleFree ==
    Returned /\ call.mode \in {"decode", "verify", "prefill"} =>
        \A s \in LiveSlot :
            LET writers == {r \in Row : /\ Ran(r) /\ call.mode # "verify" /\ ~Null(call, r)
                                        /\ call.dst[r] = s /\ Length(call, r) > 0}
            IN \/ writers = {} /\ state[s] = before[s]
               \/ \E r \in writers : /\ writers = {r}
                                      /\ state[s] = Computed(r, Length(call, r))

\* A guarded run gives each row the outputs it computed: no other row wrote over
\* its packed interval.  (V1 does not look at overlapping intervals.)
OutputsOwned ==
    Returned /\ call.mode \in {"decode", "prefill"} /\ call.guarded =>
        \A r \in Row : Ran(r) =>
            \A i \in 1..Length(call, r) :
                output[call.starts[r] + i - 1] = Computed(r, i)

\* A commit adds to each slot the accepted prefix of one row at most, and each
\* accepted row's prefix is on the state it was verified against.
CommitScheduleFree ==
    Returned /\ call.mode = "commit" =>
        \A s \in LiveSlot :
            LET rows == {r \in Row : /\ r < call.live /\ errors[r] = Ok
                                     /\ call.slots[r] = s /\ call.counts[r] > 0}
            IN \/ rows = {} /\ state[s] = before[s]
               \/ \E r \in rows : /\ rows = {r}
                                   /\ delta[r].base = before[s]
                                   /\ Len(delta[r].inputs) >= call.counts[r]
                                   /\ state[s] = Replayed(r, before[s])
=============================================================================
