--------------------------- MODULE ServingOperands ---------------------------
(***************************************************************************)
(* The operands of the prepared serving operators                          *)
(* (actlize_la/serving/{gdn,gdn_transaction,gdn_core,conv_history,         *)
(* auxiliary,qsa,flare}.py): which named tensors an operator checks, the   *)
(* order in which it hands them to the graph as read-only inputs and as    *)
(* mutable buffers, how a launch finds its native arguments again in those *)
(* two lists, and what the kernels do with each argument.                  *)
(*                                                                         *)
(* An operator is [kind, mode, target, opts]: opts names the optional      *)
(* operands it was given.  A tensor's shape and data type are one fact:    *)
(* whether they are those the operator expects.                            *)
(***************************************************************************)
EXTENDS Integers, FiniteSets, SequencesExt

GdnKinds == {"gdn", "checked", "verify2"}
Commits == {"commit", "commit2"}
AuxKinds == {"pointwise", "shortconv", "snapshot", "restore", "hash"}
Targets == {"ppu10", "ppu15", "cuda_sm120"}

\* The names that are in S, in their order: the k-th stands at the k-th such place.
Chosen(names, S) ==
    LET at == {i \in DOMAIN names : names[i] \in S}
    IN  [k \in 1..Cardinality(at) |->
            names[CHOOSE i \in at : Cardinality({j \in at : j <= i}) = k]]

Given(op, names) == op.opts \cap names
Optional(op, names) == Chosen(names, op.opts)

\* A structure with the attributes of f, and those of g that f does not have.
Also(f, g) ==
    [n \in DOMAIN f \union DOMAIN g |-> IF n \in DOMAIN f THEN f[n] ELSE g[n]]

\* The pointers a native structure has room for.
Passed(named, room) == Restrict(named, DOMAIN named \cap room)

\* dict(zip(names, values)): the shorter list decides.
Named(names, values) ==
    LET common == 1..(IF Len(names) < Len(values) THEN Len(names) ELSE Len(values))
    IN  [n \in {names[i] : i \in common} |->
            values[CHOOSE i \in common : names[i] = n]]

-----------------------------------------------------------------------------
(* Native structures: the pointers each has room for.  ctypes accepts any   *)
(* attribute name, and passes only these.                                   *)

GdnStruct ==
    {"mixed", "a", "b", "a_log", "dt_bias", "state", "starts", "live", "initial_slots",
     "final_slots", "output", "queries", "keys", "decays", "betas", "delta",
     "recorded_lengths", "recorded_slots", "errors", "checkpoint_slots",
     "checkpoint_offsets"}
CommitStruct ==
    {"state", "delta", "keys", "decays", "slots", "recorded_slots", "counts", "live",
     "recorded_lengths", "errors"}
PrefillStruct ==
    {"q", "k", "v", "beta", "packed_output", "log_g", "initial_kv", "final_kv",
     "inverse", "snapshots", "vnew", "gates"}
ConvStruct ==
    {"state", "snapshot", "slots", "recorded_slots", "live", "counts", "errors"}
TransactionStruct == {"epochs", "ready_epochs", "consumed_epochs", "upstream_errors"}
RowsStruct ==
    {"rows_starts", "rows_slots", "rows_num_seqs", "rows_num_tokens",
     "rows_upstream_errors"}
PointwiseStruct ==
    {"x", "weight", "gate", "value", "output", "combined", "trace", "errors"}
ShortConvStruct ==
    {"x", "weight", "state", "fresh", "previous_accepted", "output", "snapshot",
     "stamps", "consumed_prefix", "errors"}
HashStruct ==
    {"tokens", "history", "multipliers", "primes", "offsets", "hashes", "request_ids",
     "errors"}

-----------------------------------------------------------------------------
(* GDN.                                                                     *)

GdnNative(op) == op.mode = "prefill" /\ op.target \in {"ppu10", "ppu15"}

\* gdn_workspace_specs: names in dictionary order.
GdnWorkspace(op) ==
    <<"queries", "keys", "decays", "betas", "errors">> \o
    (IF op.mode = "verify" THEN <<"delta", "recorded_lengths", "recorded_slots">>
     ELSE <<>>) \o
    (IF GdnNative(op)
     THEN <<"q", "k", "v", "beta", "log_g", "packed_output", "initial_kv", "final_kv",
            "inverse", "snapshots", "vnew", "gates">>
     ELSE <<>>)

\* Mutant: any power of two is a verification width.
MutantGdnCapacity(op, g) ==
    /\ g.requests > 0 /\ g.width > 0 /\ g.hk > 0 /\ g.hv > 0
    /\ g.hv % g.hk = 0
    /\ op.mode = "decode" => g.width = 1
    /\ op.mode = "verify" => g.width \in {1, 2, 4, 8, 16}

GdnCapacity(op, g) ==
    /\ g.requests > 0 /\ g.width > 0 /\ g.hk > 0 /\ g.hv > 0
    /\ g.hv % g.hk = 0
    /\ op.mode = "decode" => g.width = 1
    /\ op.mode = "verify" => g.width \in {1, 2, 4, 8}

GdnInputNames(op) ==
    <<"mixed", "a", "b", "a_log", "dt_bias", "starts", "live", "initial_slots",
      "final_slots">> \o Optional(op, <<"checkpoint_slots", "checkpoint_offsets">>)

\* PreparedGDN: a verification only reads the state.
GdnInputs(op) == GdnInputNames(op) \o (IF op.mode = "verify" THEN <<"state">> ELSE <<>>)
GdnBuffers(op) ==
    <<"output">> \o GdnWorkspace(op) \o (IF op.mode = "verify" THEN <<>> ELSE <<"state">>)

GdnChecked(op) ==
    {"mixed", "a", "b", "a_log", "dt_bias", "starts", "live", "initial_slots",
     "final_slots", "output", "state"}
    \union Given(op, {"checkpoint_slots", "checkpoint_offsets"})
    \union Range(GdnWorkspace(op))

\* Operands allowed to be views of a pool; the others must be contiguous.
GdnViews == {"mixed", "a", "b", "initial_slots", "final_slots", "state"}

\* PreparedGDN.arguments.
GdnArguments(op, ins, bufs) ==
    LET names == GdnWorkspace(op)
        work == Named(names, SubSeq(bufs, 2, Len(names) + 1))
        state == IF op.mode = "verify" THEN Last(ins) ELSE Last(bufs)
        room == GdnStruct \union (IF op.mode = "prefill" THEN PrefillStruct ELSE {})
    IN  Passed(Also([state |-> state, output |-> bufs[1]],
                    Also(work, Named(GdnInputNames(op), ins))), room)

CommitInputs ==
    <<"delta", "keys", "decays", "slots", "recorded_slots", "counts", "live",
      "recorded_lengths">>
CommitBuffers == <<"state", "errors">>
CommitChecked ==
    {"slots", "counts", "live", "errors", "delta", "keys", "decays", "recorded_lengths",
     "recorded_slots", "state"}
CommitCapacity(g) == g.hk > 0 /\ g.hv % g.hk = 0 /\ g.width \in {1, 2, 4, 8}

\* PreparedGDNCommit.arguments.
CommitArguments(ins, bufs) ==
    Passed(Also([state |-> bufs[1], errors |-> bufs[2]], Named(CommitInputs, ins)),
           CommitStruct)

-----------------------------------------------------------------------------
(* Transactions: a second binding around GDN's own.                         *)

BaseInputs(op) == IF op.kind = "commit2" THEN CommitInputs ELSE GdnInputs(op)
BaseBuffers(op) == IF op.kind = "commit2" THEN CommitBuffers ELSE GdnBuffers(op)

\* _bind_transaction: a verification owns ready_epochs, a commit consumed_epochs.
TransactionInputs(op) ==
    BaseInputs(op)
    \o <<"epochs", IF op.kind = "verify2" THEN "consumed_epochs" ELSE "ready_epochs">>
    \o Optional(op, <<"upstream_errors">>)
TransactionBuffers(op) ==
    BaseBuffers(op)
    \o <<IF op.kind = "verify2" THEN "ready_epochs" ELSE "consumed_epochs">>
TransactionChecked(op) ==
    {"epochs", "ready_epochs", "consumed_epochs"} \union Given(op, {"upstream_errors"})

\* Mutant: the base arguments are looked for in the whole lists.
MutantTransactionArguments(op, ins, bufs) ==
    LET i == Len(BaseInputs(op))
        extra == SubSeq(ins, i + 1, Len(ins))
        base == IF op.kind = "commit2" THEN CommitArguments(ins, bufs)
                ELSE GdnArguments(op, ins, bufs)
        verify == op.kind = "verify2"
        epochs == [epochs |-> extra[1],
                   ready_epochs |-> IF verify THEN Last(bufs) ELSE extra[2],
                   consumed_epochs |-> IF verify THEN extra[2] ELSE Last(bufs)]
        upstream == IF "upstream_errors" \in op.opts
                    THEN [upstream_errors |-> extra[3]] ELSE <<>>
    IN  Also(base, Passed(Also(epochs, upstream), TransactionStruct))

\* _Transaction.launch: the base operands are the first ones of both lists.
TransactionArguments(op, ins, bufs) ==
    LET i == Len(BaseInputs(op))
        b == Len(BaseBuffers(op))
        extra == SubSeq(ins, i + 1, Len(ins))
        base == IF op.kind = "commit2"
                THEN CommitArguments(SubSeq(ins, 1, i), SubSeq(bufs, 1, b))
                ELSE GdnArguments(op, SubSeq(ins, 1, i), SubSeq(bufs, 1, b))
        verify == op.kind = "verify2"
        epochs == [epochs |-> extra[1],
                   ready_epochs |-> IF verify THEN Last(bufs) ELSE extra[2],
                   consumed_epochs |-> IF verify THEN extra[2] ELSE Last(bufs)]
        upstream == IF "upstream_errors" \in op.opts
                    THEN [upstream_errors |-> extra[3]] ELSE <<>>
    IN  Also(base, Passed(Also(epochs, upstream), TransactionStruct))

\* PreparedGDNCheckedV2: one more input behind the base ones.
CheckedInputs(op) == GdnInputs(op) \o <<"upstream_errors">>
CheckedArguments(op, ins, bufs) ==
    Also(GdnArguments(op, Front(ins), bufs), [upstream_errors |-> Last(ins)])

-----------------------------------------------------------------------------
(* The retained chunk core, and the legacy history transport.               *)

CoreWorkspace == <<"inverse", "snapshots", "vnew", "gates">>
CoreInputs(op) == <<"q", "k", "v", "g", "beta">> \o Optional(op, <<"initial">>)
CoreBuffers(op) == <<"output">> \o Optional(op, <<"final">>) \o CoreWorkspace
CoreCapacity(g) == g.requests > 0 /\ g.width > 0 /\ g.hk > 0 /\ g.hv > 0 /\ g.hv % g.hk = 0
CoreChecked(op) ==
    {"q", "k", "v", "beta", "g", "output"} \union Given(op, {"initial", "final"})
    \union Range(CoreWorkspace)

\* PreparedGDNCore.launch.
CoreArguments(op, ins, bufs) ==
    LET has == IF "final" \in op.opts THEN 1 ELSE 0
        initial == IF "initial" \in op.opts THEN [initial |-> ins[6]] ELSE <<>>
        final == IF has = 1 THEN [final |-> bufs[2]] ELSE <<>>
        scratch == Named(CoreWorkspace, SubSeq(bufs, 2 + has, Len(bufs)))
    IN  Also(Named(<<"q", "k", "v", "g", "beta">>, ins),
             Also(initial, Also([output |-> bufs[1]], Also(final, scratch))))

ConvReads(op) ==
    IF op.kind = "rollback"
    THEN <<"snapshot", "slots", "recorded_slots", "live", "counts">>
    ELSE <<"state", "slots", "live", "counts">>
ConvWrites(op) ==
    IF op.kind = "rollback" THEN <<"state", "errors">>
    ELSE <<"snapshot", "recorded_slots", "errors">>
ConvChecked == ConvStruct

\* PreparedConvHistory.launch.
ConvArguments(op, ins, bufs) ==
    Passed(Named(ConvReads(op) \o ConvWrites(op), ins \o bufs), ConvStruct)

-----------------------------------------------------------------------------
(* Auxiliaries: values in keyword order, split by the set of written names. *)

RowNames(op) ==
    Optional(op, <<"rows_starts", "rows_slots", "rows_num_seqs", "rows_num_tokens",
                   "rows_upstream_errors">>)

PointwiseValues(op) ==
    Optional(op, <<"x", "weight", "gate", "value", "output", "combined", "trace", "errors">>)
PointwiseWrites == {"output", "combined", "trace", "errors"}
ShortConvValues ==
    <<"x", "weight", "state", "output", "fresh", "previous_accepted", "errors">>
\* Mutant: the state is listed with the values a convolution reads.
MutantShortConvWrites == {"output", "errors"}
ShortConvWrites == {"state", "output", "errors"}
HistoryValues == <<"state", "snapshot", "stamps", "consumed_prefix", "errors">>
HistoryWrites(op) ==
    IF op.kind = "restore" THEN {"state", "errors"} ELSE {"snapshot", "stamps", "errors"}
HashValues ==
    <<"tokens", "history", "multipliers", "primes", "offsets", "hashes", "request_ids",
      "errors">>
HashWrites == {"hashes", "request_ids", "errors"}

AuxValues(op) ==
    CASE op.kind = "pointwise" -> PointwiseValues(op)
      [] op.kind = "shortconv" -> ShortConvValues
      [] op.kind \in {"snapshot", "restore"} -> HistoryValues
      [] op.kind = "hash" -> HashValues
AuxWrites(op) ==
    CASE op.kind = "pointwise" -> PointwiseWrites
      [] op.kind = "shortconv" -> ShortConvWrites
      [] op.kind \in {"snapshot", "restore"} -> HistoryWrites(op)
      [] op.kind = "hash" -> HashWrites

AuxStruct(op) ==
    CASE op.kind = "pointwise" -> PointwiseStruct
      [] op.kind \in {"shortconv", "snapshot", "restore"} -> ShortConvStruct
      [] op.kind = "hash" -> HashStruct

\* PreparedAuxiliary._bind.
AuxNames(op) == RowNames(op) \o AuxValues(op)
AuxInputs(op) == Chosen(AuxNames(op), Range(AuxNames(op)) \ AuxWrites(op))
AuxBuffers(op) == Chosen(AuxNames(op), AuxWrites(op))

\* _bind has the native validation judge the descriptor of every operand.
AuxChecked(op) == Range(AuxInputs(op)) \union Range(AuxBuffers(op))

\* PreparedAuxiliary._args.
AuxArguments(op, ins, bufs) ==
    Passed(Named(AuxInputs(op) \o AuxBuffers(op), ins \o bufs),
             AuxStruct(op) \union RowsStruct)

-----------------------------------------------------------------------------
(* Paged QSA: the two lists are the structure.                              *)

QsaRead ==
    <<"query", "new_key", "new_value", "index_query", "raw_key", "query_weight",
      "key_weight", "cosine", "sine", "request_ids", "positions", "rope_positions",
      "raw_slots", "slot_mapping", "starts", "live", "lengths", "accepted_previous",
      "prefilling", "main_table", "compressed_table">>
QsaCaches ==
    <<"key_cache", "value_cache", "compressed_cache", "raw_ring", "raw_tags", "raw_rope",
      "anchors">>
QsaWorkspace ==
    <<"encoded_query", "selected", "selected_count", "selected_groups",
      "selected_scores", "output", "errors">>
QsaWrite == QsaCaches \o QsaWorkspace
QsaViews ==
    {"query", "new_key", "new_value", "index_query", "raw_key", "raw_slots", "raw_ring",
     "raw_tags", "raw_rope", "anchors"}
QsaStruct == Range(QsaRead) \union Range(QsaWrite)
QsaChecked == QsaStruct
QsaCapacity(g) == g.requests > 0 /\ g.hk > 0 /\ g.hv > 0 /\ g.hv % g.hk = 0

\* PreparedQSA.launch.
QsaArguments(ins, bufs) ==
    Passed(Named(QsaRead \o QsaWrite, ins \o bufs), QsaStruct)

-----------------------------------------------------------------------------
(* One interface for all kinds.                                             *)

Inputs(op) ==
    CASE op.kind = "gdn" -> GdnInputs(op)
      [] op.kind = "checked" -> CheckedInputs(op)
      [] op.kind = "commit" -> CommitInputs
      [] op.kind \in {"verify2", "commit2"} -> TransactionInputs(op)
      [] op.kind = "core" -> CoreInputs(op)
      [] op.kind \in {"capture", "rollback"} -> ConvReads(op)
      [] op.kind = "qsa" -> QsaRead
      [] op.kind \in AuxKinds -> AuxInputs(op)

Buffers(op) ==
    CASE op.kind \in {"gdn", "checked"} -> GdnBuffers(op)
      [] op.kind = "commit" -> CommitBuffers
      [] op.kind \in {"verify2", "commit2"} -> TransactionBuffers(op)
      [] op.kind = "core" -> CoreBuffers(op)
      [] op.kind \in {"capture", "rollback"} -> ConvWrites(op)
      [] op.kind = "qsa" -> QsaWrite
      [] op.kind \in AuxKinds -> AuxBuffers(op)

Arguments(op, ins, bufs) ==
    CASE op.kind = "gdn" -> GdnArguments(op, ins, bufs)
      [] op.kind = "checked" -> CheckedArguments(op, ins, bufs)
      [] op.kind = "commit" -> CommitArguments(ins, bufs)
      [] op.kind \in {"verify2", "commit2"} -> TransactionArguments(op, ins, bufs)
      [] op.kind = "core" -> CoreArguments(op, ins, bufs)
      [] op.kind \in {"capture", "rollback"} -> ConvArguments(op, ins, bufs)
      [] op.kind = "qsa" -> QsaArguments(ins, bufs)
      [] op.kind \in AuxKinds -> AuxArguments(op, ins, bufs)

Fields(op) == Range(Inputs(op)) \union Range(Buffers(op))

\* Operands whose shape and type the constructor (for an auxiliary, the native
\* validation it calls) compares with the expected ones.
Checked(op) ==
    CASE op.kind = "gdn" -> GdnChecked(op)
      [] op.kind = "checked" -> GdnChecked(op) \union {"upstream_errors"}
      [] op.kind = "commit" -> CommitChecked
      [] op.kind = "verify2" -> GdnChecked(op) \union TransactionChecked(op)
      [] op.kind = "commit2" -> CommitChecked \union TransactionChecked(op)
      [] op.kind = "core" -> CoreChecked(op)
      [] op.kind \in {"capture", "rollback"} -> ConvChecked
      [] op.kind = "qsa" -> QsaChecked
      [] op.kind \in AuxKinds -> AuxChecked(op)

\* Operands that may be strided views when the operator is prepared.
Views(op) ==
    CASE op.kind \in GdnKinds -> GdnViews
      [] op.kind \in Commits -> {"slots", "state"}
      [] op.kind = "core" -> {}
      [] op.kind \in {"capture", "rollback"} -> {"slots", "state"}
      [] op.kind = "qsa" -> QsaViews
      [] op.kind \in AuxKinds -> Fields(op)

Capacity(op, g) ==
    CASE op.kind \in GdnKinds -> GdnCapacity(op, g)
      [] op.kind \in Commits -> CommitCapacity(g)
      [] op.kind = "core" -> CoreCapacity(g)
      [] op.kind = "qsa" -> QsaCapacity(g)
      [] OTHER -> TRUE

-----------------------------------------------------------------------------
(* What the kernels do (csrc/serving).                                      *)

GdnWritten(op) ==
    {"errors", "queries", "keys", "decays", "betas", "output"}
    \union (IF op.mode = "verify" THEN {"delta", "recorded_lengths", "recorded_slots"}
            ELSE {"state"})
    \union (IF GdnNative(op) THEN PrefillStruct ELSE {})

KernelWrites(op) ==
    CASE op.kind \in {"gdn", "checked"} -> GdnWritten(op)
      [] op.kind = "verify2" -> GdnWritten(op) \union {"ready_epochs"}
      [] op.kind = "commit" -> {"state", "errors"}
      [] op.kind = "commit2" -> {"state", "errors", "consumed_epochs"}
      [] op.kind = "core" ->
           {"output", "inverse", "snapshots", "vnew", "gates"} \union Given(op, {"final"})
      [] op.kind = "capture" -> {"snapshot", "recorded_slots", "errors"}
      [] op.kind = "rollback" -> {"state", "errors"}
      [] op.kind = "qsa" -> Range(QsaWrite)
      [] op.kind = "pointwise" -> {"output", "errors"} \union Given(op, {"combined", "trace"})
      [] op.kind = "shortconv" -> {"state", "output", "errors"}
      [] op.kind = "snapshot" -> {"snapshot", "stamps", "errors"}
      [] op.kind = "restore" -> {"state", "errors"}
      [] op.kind = "hash" -> {"hashes", "request_ids", "errors"}

GdnRead(op) ==
    {"mixed", "a", "b", "a_log", "dt_bias", "starts", "live", "initial_slots",
     "final_slots", "state"}
    \union Given(op, {"checkpoint_slots", "checkpoint_offsets"})

CommitRead ==
    {"delta", "keys", "decays", "slots", "recorded_slots", "counts", "live",
     "recorded_lengths", "state"}

\* Values that a call takes from before it; its own scratch is not among them.
KernelReads(op) ==
    CASE op.kind = "gdn" -> GdnRead(op)
      [] op.kind = "checked" -> GdnRead(op) \union {"upstream_errors"}
      [] op.kind = "verify2" ->
           GdnRead(op) \union {"epochs", "ready_epochs", "consumed_epochs",
                               "recorded_lengths", "recorded_slots"}
           \union Given(op, {"upstream_errors"})
      [] op.kind = "commit" -> CommitRead
      [] op.kind = "commit2" ->
           CommitRead \union {"epochs", "ready_epochs", "consumed_epochs"}
           \union Given(op, {"upstream_errors"})
      [] op.kind = "core" -> {"q", "k", "v", "g", "beta"} \union Given(op, {"initial"})
      [] op.kind = "capture" -> {"state", "slots", "live", "counts"}
      [] op.kind = "rollback" ->
           {"snapshot", "slots", "recorded_slots", "live", "counts", "state"}
      [] op.kind = "qsa" -> Range(QsaRead) \union Range(QsaCaches)
      [] op.kind = "pointwise" ->
           Given(op, RowsStruct \union {"x", "weight", "gate", "value"})
      [] op.kind = "shortconv" ->
           Given(op, RowsStruct)
           \union {"x", "weight", "state", "fresh", "previous_accepted"}
      [] op.kind = "snapshot" -> Given(op, RowsStruct) \union {"state", "consumed_prefix"}
      [] op.kind = "restore" ->
           Given(op, RowsStruct)
           \union {"state", "snapshot", "stamps", "consumed_prefix"}
      [] op.kind = "hash" ->
           Given(op, RowsStruct)
           \union {"tokens", "history", "multipliers", "primes", "offsets"}
=============================================================================
