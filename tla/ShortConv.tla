------------------------------ MODULE ShortConv ------------------------------
(***************************************************************************)
(* The short convolution's history and its speculative rollback:           *)
(* csrc/serving/aux_shortconv.cu (convolution, snapshot and restore) and   *)
(* the slot-0-null transport of csrc/serving/conv_history.cu.              *)
(*                                                                         *)
(* A slot keeps a window of H + Drafts past inputs.  A verification stores *)
(* the history after its first input followed by its later inputs; the     *)
(* next one reads its history previous_accepted - 1 entries further, so an *)
(* accepted prefix needs no copy.  A round that accepts nothing is undone  *)
(* by restoring a snapshot taken before the convolution.                   *)
(*                                                                         *)
(* A round is capture, verification, acceptance, restore.  The serving     *)
(* loop is outside the code: it owns slots, acceptance and the counters    *)
(* previous_accepted and fresh.  An input is a number, never reused; 0 is  *)
(* the zero a window starts with.                                          *)
(***************************************************************************)
EXTENDS Integers, Sequences

CONSTANTS Requests,     \* packed rows
          Slots,        \* rows of the convolution state
          H,            \* history length, 3 * dilation
          Drafts,       \* speculative entries behind the history
          Tokens,       \* packed tokens of a call
          MaxInputs,    \* bound on the inputs ever issued
          MaxPrefill,   \* longest prefill interval
          Rows,         \* operands of a round: live, starts, slots, upstream
          FirstSlot,    \* the request in row r owns slot FirstSlot + r
          Legacy,       \* snapshots by conv_history.cu instead of ConvHistoryV1
          AnyPrefill    \* may a prefill follow any verification

ASSUME WindowAssumption ==
    /\ Requests \in Nat \ {0} /\ Slots \in Nat \ {0}
    /\ H \in {3, 9} /\ Drafts \in 0..7
    /\ Tokens \in Nat \ {0} /\ MaxInputs \in Nat /\ MaxPrefill \in Nat
    /\ FirstSlot \in {0, 1} /\ FirstSlot + Requests <= Slots
    /\ Legacy \in BOOLEAN /\ AnyPrefill \in BOOLEAN
    /\ Legacy => FirstSlot = 1
    /\ Rows \subseteq [live : Int, starts : [0..Requests -> Int],
                       slots : [0..(Requests - 1) -> Int],
                       upstream : [0..(Requests - 1) -> Int]]

Row == 0..(Requests - 1)
Slot == 0..(Slots - 1)
Own(r) == FirstSlot + r

\* enum Error of abi.h.
Ok == 0
Bounds == 1
BadSlot == 2
Conflict == 3
Prefix == 4
Unsupported == 7

VARIABLES
    window,     \* window[s]: the state row of slot s
    snapshot,   \* snapshot[r]
    stamps,     \* stamps[r]: the slot a snapshot was taken of
    errors,     \* error vector of the last kernel pair
    rows,       \* operands of the round
    phase,      \* where the serving loop is
    todo,       \* rows whose block of the running kernel has not run
    prev,       \* previous_accepted
    fresh,      \* fresh
    count,      \* consumed_prefix of the round
    issued,     \* inputs issued so far
    stream,     \* stream[r]: the inputs the request in row r has consumed
    found       \* history variable: the window as the round found it

vars == <<window, snapshot, stamps, errors, rows, phase, todo, prev, fresh, count,
          issued, stream, found>>

Zeros(n) == [i \in 1..n |-> 0]

\* The first n entries of q, with zeros behind.
Padded(q, n) == [i \in 1..n |-> IF i <= Len(q) THEN q[i] ELSE 0]

\* The last H inputs of q, with zeros in front.
Recent(q) == SubSeq(Zeros(H) \o q, Len(q) + 1, Len(q) + H)

NotFound == [s \in Slot |-> Zeros(H + Drafts)]

NoRows == [live |-> 0, starts |-> [i \in 0..Requests |-> 0],
           slots |-> [r \in Row |-> -1], upstream |-> [r \in Row |-> 0]]

Init ==
    /\ window = [s \in Slot |-> Zeros(H + Drafts)]
    /\ snapshot = [r \in Row |-> Zeros(H + Drafts)]
    /\ stamps = [r \in Row |-> -1]
    /\ errors = [r \in Row |-> Ok]
    /\ rows = NoRows
    /\ phase = "idle"
    /\ todo = {}
    /\ prev = [r \in Row |-> 1]
    /\ fresh = [r \in Row |-> TRUE]
    /\ count = [r \in Row |-> 0]
    /\ issued = 0
    /\ stream = [r \in Row |-> <<>>]
    /\ found = NotFound

(***************************************************************************)
(* conv_error: admission of row r to a kernel of the given kind.           *)
(***************************************************************************)
First(p, r) == p.starts[r]
End(p, r) == p.starts[r + 1]
LengthOf(p, r) == End(p, r) - First(p, r)

\* Another live row, not empty, inside the packed tokens.
Present(p, o) == o < p.live /\ First(p, o) >= 0 /\ End(p, o) > First(p, o) /\ End(p, o) <= Tokens

Overlaps(p, r) ==
    \E o \in Row \ {r} : Present(p, o) /\ First(p, r) < End(p, o) /\ First(p, o) < End(p, r)

SharesSlot(p, r) == \E o \in Row \ {r} : Present(p, o) /\ p.slots[o] = p.slots[r]

Dependency(dep) == IF dep \in 0..Unsupported THEN dep ELSE Bounds

\* Mutant: a round that accepted nothing is no valid prefix.
MutantKindError(kind, p, r) ==
    CASE kind = "verify" ->
            IF LengthOf(p, r) > Drafts + 1 THEN Bounds
            ELSE IF ~fresh[r] /\ prev[r] \notin 1..(Drafts + 1) THEN Prefix
            ELSE Ok
      [] kind = "restore" ->
            IF count[r] \notin 1..LengthOf(p, r) \/ p.slots[r] # stamps[r] THEN Prefix
            ELSE Ok
      [] kind \in {"prefill", "snapshot"} -> Ok

KindError(kind, p, r) ==
    CASE kind = "verify" ->
            IF LengthOf(p, r) > Drafts + 1 THEN Bounds
            ELSE IF ~fresh[r] /\ prev[r] \notin 1..(Drafts + 1) THEN Prefix
            ELSE Ok
      [] kind = "restore" ->
            IF count[r] \notin 0..LengthOf(p, r) \/ p.slots[r] # stamps[r] THEN Prefix
            ELSE Ok
      [] kind \in {"prefill", "snapshot"} -> Ok

ConvError(kind, p, r) ==
    IF p.live < 0 \/ p.live > Requests THEN Bounds
    ELSE IF r >= p.live THEN Ok
    ELSE IF First(p, r) < 0 \/ LengthOf(p, r) < 0 \/ End(p, r) > Tokens THEN Bounds
    ELSE IF LengthOf(p, r) = 0 THEN Ok
    ELSE IF Overlaps(p, r) THEN Conflict
    ELSE IF p.upstream[r] # 0 THEN Dependency(p.upstream[r])
    ELSE IF p.slots[r] = -1 THEN Ok
    ELSE IF p.slots[r] \notin Slot THEN BadSlot
    ELSE IF kind # "snapshot" /\ SharesSlot(p, r) THEN Conflict
    ELSE KindError(kind, p, r)

\* Mutant: a round that accepted nothing is no valid prefix.
MutantLegacyError(kind, p, r) ==
    IF p.live < 0 \/ p.live > Requests THEN Bounds
    ELSE IF r >= p.live THEN Ok
    ELSE IF kind = "restore" /\ p.slots[r] > 0
            /\ \E o \in Row \ {r} : o < p.live /\ p.slots[o] = p.slots[r] THEN Conflict
    ELSE IF kind = "restore" /\ p.slots[r] > 0
            /\ (count[r] \notin 1..(H + Drafts - 2) \/ p.slots[r] # stamps[r]) THEN Prefix
    ELSE IF p.slots[r] >= Slots THEN BadSlot
    ELSE Ok

\* The admission of conv_history.cu, which looks at no intervals.
LegacyError(kind, p, r) ==
    IF p.live < 0 \/ p.live > Requests THEN Bounds
    ELSE IF r >= p.live THEN Ok
    ELSE IF kind = "restore" /\ p.slots[r] > 0
            /\ \E o \in Row \ {r} : o < p.live /\ p.slots[o] = p.slots[r] THEN Conflict
    ELSE IF kind = "restore" /\ p.slots[r] > 0
            /\ (count[r] \notin 0..(H + Drafts - 2) \/ p.slots[r] # stamps[r]) THEN Prefix
    ELSE IF p.slots[r] >= Slots THEN BadSlot
    ELSE Ok

TransportError(kind, p, r) ==
    IF Legacy THEN LegacyError(kind, p, r) ELSE ConvError(kind, p, r)

\* Rows whose block does anything.
Admitted(p, err) ==
    {r \in Row : r < p.live /\ err[r] = Ok /\ LengthOf(p, r) > 0 /\ p.slots[r] >= 0}

Transported(p, err) ==
    IF Legacy THEN {r \in Row : r < p.live /\ err[r] = Ok /\ p.slots[r] > 0}
    ELSE Admitted(p, err)

(***************************************************************************)
(* The serving loop.                                                       *)
(***************************************************************************)

\* A row is on its own slot, on none, or on the slot of another row that is in
\* the same call.
SlotsOwned(p) ==
    \A r \in Row :
        \/ p.slots[r] = Own(r) \/ p.slots[r] \notin Slot
        \/ \E o \in Row \ {r} : Own(o) = p.slots[r] /\ p.slots[o] = Own(o)
                                /\ Present(p, o) /\ Present(p, r)

\* A request ends and another one takes over its row and slot.
Admit(r) ==
    /\ phase = "idle" /\ ~fresh[r]
    /\ fresh' = [fresh EXCEPT ![r] = TRUE]
    /\ prev' = [prev EXCEPT ![r] = 1]
    /\ stream' = [stream EXCEPT ![r] = <<>>]
    /\ UNCHANGED <<window, snapshot, stamps, errors, rows, phase, todo, count, issued, found>>

\* A snapshot stamps each row it copies; legacy stamps a valid slot at once.
Capture(p) ==
    /\ phase = "idle"
    /\ SlotsOwned(p) /\ issued + Tokens <= MaxInputs
    /\ rows' = p
    /\ found' = window
    /\ errors' = [r \in Row |-> TransportError("snapshot", p, r)]
    /\ stamps' = [r \in Row |-> IF ~Legacy THEN -1
                                ELSE IF r \in Transported(p, errors') THEN p.slots[r] ELSE 0]
    /\ todo' = Transported(p, errors')
    /\ phase' = "capture"
    /\ UNCHANGED <<window, snapshot, prev, fresh, count, issued, stream>>

CaptureRow(r) ==
    /\ phase = "capture" /\ r \in todo
    /\ snapshot' = [snapshot EXCEPT ![r] = window[rows.slots[r]]]
    /\ stamps' = [stamps EXCEPT ![r] = rows.slots[r]]
    /\ todo' = todo \ {r}
    /\ UNCHANGED <<window, errors, rows, phase, prev, fresh, count, issued, stream, found>>

(***************************************************************************)
(* The convolution of a round, and a prefill on its own.                   *)
(***************************************************************************)
Verify ==
    /\ phase = "capture" /\ todo = {}
    /\ errors' = [r \in Row |-> ConvError("verify", rows, r)]
    /\ todo' = Admitted(rows, errors')
    /\ phase' = "verify"
    /\ UNCHANGED <<window, snapshot, stamps, rows, prev, fresh, count, issued, stream, found>>

Prefill(p) ==
    /\ phase = "idle"
    /\ SlotsOwned(p) /\ issued + Tokens <= MaxInputs
    /\ \A r \in Row : Present(p, r) => /\ LengthOf(p, r) <= MaxPrefill
                                       /\ AnyPrefill \/ fresh[r] \/ prev[r] = 1
    /\ rows' = p
    /\ errors' = [r \in Row |-> ConvError("prefill", p, r)]
    /\ todo' = Admitted(p, errors')
    /\ phase' = "prefill"
    /\ UNCHANGED <<window, snapshot, stamps, prev, fresh, count, issued, stream, found>>

\* The inputs x of row r: the packed tokens of its interval.
Inputs(r) == [i \in 1..LengthOf(rows, r) |-> issued + First(rows, r) + i]

\* Mutant: the accepted prefix of the last round is not skipped.
MutantHistory(r) == IF fresh[r] THEN Zeros(H) ELSE SubSeq(window[rows.slots[r]], 1, H)

\* The history a block loads before it runs.
History(r) ==
    LET shift == IF phase = "verify" THEN prev[r] - 1 ELSE 0
    IN IF fresh[r] THEN Zeros(H) ELSE SubSeq(window[rows.slots[r]], shift + 1, shift + H)

\* Mutant: the speculative entries are not cleared behind a short interval.
MutantEncoded(history, x) ==
    LET committed == IF phase = "prefill" THEN Len(x) ELSE 1
    IN SubSeq(history \o x, committed + 1, committed + H)
       \o (IF phase = "verify" THEN Tail(x) ELSE Zeros(Drafts))

\* The window a block leaves: the history after the committed inputs, then the
\* speculative inputs of a verification.
Encoded(history, x) ==
    LET committed == IF phase = "prefill" THEN Len(x) ELSE 1
    IN SubSeq(history \o x, committed + 1, committed + H)
       \o Padded(IF phase = "verify" THEN Tail(x) ELSE <<>>, Drafts)

Convolve(r) ==
    /\ phase \in {"verify", "prefill"} /\ r \in todo
    /\ window' = [window EXCEPT ![rows.slots[r]] = Encoded(History(r), Inputs(r))]
    /\ todo' = todo \ {r}
    /\ UNCHANGED <<snapshot, stamps, errors, rows, phase, prev, fresh, count, issued, stream, found>>

\* The loop takes over the counters of a finished prefill.
PrefillDone ==
    /\ phase = "prefill" /\ todo = {}
    /\ LET took(r) == r \in Admitted(rows, errors) IN
       /\ stream' = [r \in Row |-> IF took(r) THEN stream[r] \o Inputs(r) ELSE stream[r]]
       /\ prev' = [r \in Row |-> IF took(r) THEN 1 ELSE prev[r]]
       /\ fresh' = [r \in Row |-> fresh[r] /\ ~took(r)]
    /\ issued' = issued + Tokens
    /\ rows' = NoRows
    /\ phase' = "idle"
    /\ UNCHANGED <<window, snapshot, stamps, errors, todo, count, found>>

(***************************************************************************)
(* Acceptance and rollback.                                                *)
(***************************************************************************)

\* The loop accepts a prefix of each row that was convolved, nothing of others,
\* and restores.
Restore ==
    /\ phase = "verify" /\ todo = {}
    /\ \E n \in [Row -> 0..(Drafts + 1)] :
          /\ \A r \in Row : n[r] <= IF r \in Admitted(rows, errors)
                                    THEN LengthOf(rows, r) ELSE 0
          /\ count' = n
    /\ stream' = [r \in Row |-> stream[r] \o SubSeq(Inputs(r), 1, count'[r])]
    /\ phase' = "accepted"
    /\ UNCHANGED <<window, snapshot, stamps, errors, rows, todo, prev, fresh, issued, found>>

\* Mutant: every row is restored.
MutantRestoreZero ==
    /\ phase = "accepted"
    /\ errors' = [r \in Row |-> TransportError("restore", rows, r)]
    /\ todo' = Transported(rows, errors')
    /\ phase' = "restore"
    /\ UNCHANGED <<window, snapshot, stamps, rows, prev, fresh, count, issued, stream, found>>

RestoreZero ==
    /\ phase = "accepted"
    /\ errors' = [r \in Row |-> TransportError("restore", rows, r)]
    /\ todo' = {r \in Transported(rows, errors') : count[r] = 0}
    /\ phase' = "restore"
    /\ UNCHANGED <<window, snapshot, stamps, rows, prev, fresh, count, issued, stream, found>>

RestoreRow(r) ==
    /\ phase = "restore" /\ r \in todo
    /\ window' = [window EXCEPT ![rows.slots[r]] = snapshot[r]]
    /\ todo' = todo \ {r}
    /\ UNCHANGED <<snapshot, stamps, errors, rows, phase, prev, fresh, count, issued, stream, found>>

\* A zero prefix keeps the previous count.
RoundDone ==
    /\ phase = "restore" /\ todo = {}
    /\ prev' = [r \in Row |-> IF count[r] > 0 THEN count[r] ELSE prev[r]]
    /\ fresh' = [r \in Row |-> fresh[r] /\ count[r] = 0]
    /\ count' = [r \in Row |-> 0]
    /\ issued' = issued + Tokens
    /\ rows' = NoRows /\ found' = NotFound
    /\ phase' = "idle"
    /\ UNCHANGED <<window, snapshot, stamps, errors, todo, stream>>

\* The launch of a kernel fails.  A round that has not accepted anything is
\* dropped; a restore is called again.
LaunchFails ==
    \/ /\ phase \in {"capture", "verify", "prefill"}
       /\ todo = IF phase = "capture" THEN Transported(rows, errors) ELSE Admitted(rows, errors)
       /\ todo # {}
       /\ rows' = NoRows /\ found' = NotFound /\ phase' = "idle" /\ todo' = {}
       /\ UNCHANGED <<window, snapshot, stamps, errors, prev, fresh, count, issued, stream>>
    \/ /\ phase = "restore"
       /\ todo = {r \in Transported(rows, errors) : count[r] = 0} /\ todo # {}
       /\ phase' = "accepted" /\ todo' = {}
       /\ UNCHANGED <<window, snapshot, stamps, errors, rows, prev, fresh, count, issued, stream, found>>

Next ==
    \/ \E r \in Row : Admit(r)
    \/ \E p \in Rows : Capture(p) \/ Prefill(p)
    \/ \E r \in Row : CaptureRow(r) \/ Convolve(r) \/ RestoreRow(r)
    \/ Verify \/ PrefillDone \/ Restore \/ RestoreZero \/ RoundDone
    \/ LaunchFails

Spec == Init /\ [][Next]_vars
-----------------------------------------------------------------------------
(***************************************************************************)
(* Correctness.                                                            *)
(***************************************************************************)

TypeOK ==
    /\ window \in [Slot -> [1..(H + Drafts) -> 0..MaxInputs]]
    /\ snapshot \in [Row -> [1..(H + Drafts) -> 0..MaxInputs]]
    /\ stamps \in [Row -> Slot \cup {-1}]
    /\ errors \in [Row -> Ok..Unsupported]
    /\ phase \in {"idle", "capture", "verify", "accepted", "restore", "prefill"}
    /\ todo \subseteq Row
    /\ prev \in [Row -> 1..(Drafts + 1)]
    /\ fresh \in [Row -> BOOLEAN]
    /\ count \in [Row -> 0..(Drafts + 1)]
    /\ issued \in 0..MaxInputs
    /\ stream \in [Row -> Seq(1..MaxInputs)]
    /\ found \in [Slot -> [1..(H + Drafts) -> 0..MaxInputs]]

\* Every convolution starts from the last H inputs its request consumed, through
\* accepted prefixes, rounds that accepted nothing, failed rows, rounds a row sat
\* out, and requests that took over a slot.  (FLARE_FLASHNEXT_AUX.md:61.)
HistoryExact ==
    phase \in {"verify", "prefill"} => \A r \in todo : History(r) = Recent(stream[r])

\* A request that accepted nothing of a round finds its window bit for bit as the
\* round found it, whether its row was undone, rejected, on a shared slot or
\* absent, and whatever the rows next to it accepted.
\* (tests/aux_device.py, "raw_bitdiff=0".)
ZeroRoundUndone ==
    phase = "restore" /\ todo = {} =>
        \A r \in Row : count[r] = 0 => window[Own(r)] = found[Own(r)]
=============================================================================
