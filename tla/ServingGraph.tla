---------------------------- MODULE ServingGraph ----------------------------
(***************************************************************************)
(* A graph of prepared serving operators (actlize_la/serving/flare.py and  *)
(* _native.py).                                                            *)
(*                                                                         *)
(* The caller prepares its operators one after the other, captures a graph *)
(* whose nodes hold only an integer handle and the two operand lists, and  *)
(* replays it.  The graph knows of an operator what the custom op          *)
(* declares: its inputs are read, its buffers may be mutated.  It may run  *)
(* nodes in any order that keeps declared conflicts in program order.      *)
(* Owners are referenced weakly and can be collected at any time.          *)
(***************************************************************************)
EXTENDS ServingOperands, PreparedPlan

CONSTANTS Programs,     \* sequences of nodes, with what may vary in them
          GridLimit,    \* largest grid dimension of the device, 65535
          MaxHandles    \* bound: preparations of one behaviour

ASSUME GraphAssumption == GridLimit \in Nat /\ MaxHandles \in Nat

\* What a caller can write: a binding of flare.py, or an operator of its own.  Only
\* some bindings have a parameter for upstream errors, and a norm always has an output.
Upstreams == {"bind_gdn", "bind_gdn_commit"} \union AuxKinds
Calls == Upstreams \union {"core", "capture", "rollback", "qsa"}
Callable(n) ==
    /\ n.call \in Calls /\ (n.upstream = "none" \/ n.call \in Upstreams)
    /\ n.call = "bind_gdn" => n.mode \in {"decode", "verify", "prefill"}
    /\ n.call = "pointwise" => {"output", "errors"} \subseteq n.opts
ASSUME ProgramAssumption ==
    \A p \in Programs :
        /\ {p.geometry.requests, p.geometry.width, p.geometry.hk, p.geometry.hv} \subseteq Nat
        /\ p.nodes \in Seq(Range(p.nodes))
        /\ \A n \in Range(p.nodes) : n.call = "caller" \/ Callable(n)

VARIABLES
    program,    \* the program of this behaviour
    phase,      \* "prepare", "run" or "stopped"
    plans,      \* registered owners: handle -> [node, views]
    next,       \* the next handle
    captured,   \* captured[i]: the plan whose handle the graph's node i holds
    configured, \* the library's per-device configuration was done
    writer,     \* tensor -> the node that wrote it last, 0 for none
    seen,       \* seen[i]: the writers of what node i read, for the nodes that ran
    last        \* the latest launch

vars == <<program, phase, plans, next, captured, configured, writer, seen, last>>

Node(i) == program.nodes[i]
Nodes == DOMAIN program.nodes

-----------------------------------------------------------------------------
(* flare.py: which class, and which of the caller's tensors for an operand. *)

\* Mutant: an unchecked class serves every call without a transaction.
MutantGdnKind(n) ==
    CASE n.transaction /\ n.mode # "verify" -> "refused"
      [] n.transaction /\ n.mode = "verify" -> "verify2"
      [] n.upstream # "none" /\ n.mode # "verify" -> "checked"
      [] OTHER -> "gdn"

GdnKind(n) ==
    CASE n.transaction /\ n.mode # "verify" -> "refused"
      [] n.upstream # "none" /\ n.mode = "verify" /\ ~n.transaction -> "refused"
      [] n.transaction /\ n.mode = "verify" -> "verify2"
      [] n.upstream # "none" /\ n.mode # "verify" -> "checked"
      [] OTHER -> "gdn"
CommitKind(n) ==
    IF n.transaction THEN "commit2" ELSE IF n.upstream # "none" THEN "refused" ELSE "commit"

Kind(n) ==
    CASE n.call = "bind_gdn" -> GdnKind(n)
      [] n.call = "bind_gdn_commit" -> CommitKind(n)
      [] OTHER -> n.call

UpstreamName(n) ==
    IF n.call \in AuxKinds THEN "rows_upstream_errors" ELSE "upstream_errors"
Op(n) ==
    [kind |-> Kind(n), mode |-> n.mode, target |-> n.target,
     opts |-> n.opts \union (IF n.upstream = "none" THEN {} ELSE {UpstreamName(n)})]

GdnMetadata(n) ==
    [starts |-> "query_start_loc", live |-> "num_seqs",
     checkpoint_slots |-> "checkpoint_state_indices",
     checkpoint_offsets |-> "checkpoint_offsets",
     initial_slots |-> IF n.mode = "prefill" THEN "initial_state_indices"
                       ELSE "state_indices",
     final_slots |-> IF n.mode = "prefill" THEN "final_state_indices"
                     ELSE "state_indices"]
CommitMetadata ==
    [slots |-> "state_indices", counts |-> "consumed_prefix", live |-> "num_seqs"]
\* Convolution slots, never the recurrence's: their null slots differ.
AuxiliaryRows ==
    [rows_num_tokens |-> "num_tokens", rows_starts |-> "query_start_loc",
     rows_slots |-> "convolution_slots", rows_num_seqs |-> "num_seqs"]
ShortConvMetadata ==
    AuxiliaryRows @@ [fresh |-> "fresh", previous_accepted |-> "accepted_tokens"]
HistoryMetadata == AuxiliaryRows
GatedNormMetadata == AuxiliaryRows
HashMetadata == AuxiliaryRows @@ [tokens |-> "token_ids", history |-> "committed_history"]
QsaMetadata ==
    [cosine |-> "cos", sine |-> "sin", positions |-> "query_positions",
     raw_slots |-> "raw_state_slot_ids", starts |-> "query_start_loc",
     live |-> "live_rows", lengths |-> "sequence_lengths",
     accepted_previous |-> "num_accepted_tokens", prefilling |-> "is_prefilling",
     main_table |-> "main_block_table", compressed_table |-> "compressed_block_table",
     key_cache |-> "main_k_cache", value_cache |-> "main_v_cache",
     compressed_cache |-> "compressed_k_cache", raw_ring |-> "raw_k_ring",
     raw_tags |-> "raw_logical_positions", raw_rope |-> "raw_rope_positions",
     anchors |-> "raw_interval_start_positions"]

Metadata(n) ==
    CASE n.call = "bind_gdn" -> GdnMetadata(n)
      [] n.call = "bind_gdn_commit" -> CommitMetadata
      [] n.call = "shortconv" -> ShortConvMetadata
      [] n.call \in {"snapshot", "restore"} -> HistoryMetadata
      [] n.call = "pointwise" -> GatedNormMetadata
      [] n.call = "hash" -> HashMetadata
      [] n.call = "qsa" -> QsaMetadata
      [] OTHER -> [live |-> "num_seqs"]

\* n.own names the layer's tensors; an operand neither names is the node's own.
Tensor(n, f) ==
    IF f = UpstreamName(n) THEN n.upstream
    ELSE IF f \in DOMAIN n.own THEN n.own[f]
    ELSE IF f \in DOMAIN Metadata(n) THEN Metadata(n)[f]
    ELSE f

TensorsOf(n, names) == [k \in DOMAIN names |-> Tensor(n, names[k])]

-----------------------------------------------------------------------------
(* Views of the operands.  By default every operand is two adjacent rows of *)
(* two cells in a region of its own.                                        *)

RegionCells == 6
Position(op, f) ==
    LET all == Inputs(op) \o Buffers(op)
    IN  CHOOSE k \in DOMAIN all : all[k] = f
Default(op, f) == [base |-> RegionCells * Position(op, f), pitch |-> 2, rows |-> 2, inner |-> 2]
Defaults(op) == [f \in Fields(op) |-> Default(op, f)]
Alternatives(op, f) ==
    LET d == Default(op, f)
    IN  {[d EXCEPT !.pitch = p] : p \in {1, 3, RegionCells}}
        \union {[d EXCEPT !.base = @ + b, !.pitch = p] : b \in {2, RegionCells}, p \in {2, 3}}
        \union {[d EXCEPT !.rows = 3]}

ViewSeq(names, views) == [k \in DOMAIN names |-> views[names[k]]]

\* The constructors: capacities, then every listed operand.
Admits(op, g, views) ==
    /\ Capacity(op, g)
    /\ \A f \in Checked(op) :
           /\ views[f].rows = 2 /\ views[f].inner = 2
           /\ f \notin Views(op) => Contiguous(views[f])
    /\ op.kind \notin AuxKinds =>
           \A f \in Views(op) : views[f].pitch >= views[f].inner
    /\ ~RejectsAliases(ViewSeq(Inputs(op), views), ViewSeq(Buffers(op), views))

-----------------------------------------------------------------------------
Refuse ==
    /\ phase' = "stopped"
    /\ UNCHANGED <<program, plans, next, captured, configured, writer, seen, last>>

Nobody == [node |-> 0, views |-> <<>>]

\* A transaction and a checked run bind twice: the base's handle stays registered.
Bindings(op) == IF op.kind \in {"verify2", "commit2", "checked"} THEN 2 ELSE 1

\* The core's one-time configuration fails while a stream is being captured.
Configurable(op) ==
    op.kind = "core" => op.target = "ppu10" /\ (configured \/ ~program.capturing)

\* Mutant: the number of live plans is the next handle.
MutantRegister(i, views) ==
    LET first == Cardinality(DOMAIN plans) + 1
        behind == first + Bindings(Op(Node(i)))
    IN  /\ next <= MaxHandles
        /\ plans' = [h \in first..behind - 1 |-> [node |-> i, views |-> views]] @@ plans
        /\ next' = behind
        /\ configured' = (configured \/ Op(Node(i)).kind = "core")

Register(i, views) ==
    /\ next + Bindings(Op(Node(i))) <= MaxHandles + 1
    /\ next' = next + Bindings(Op(Node(i)))
    /\ plans' = [h \in DOMAIN plans \union next..next' - 1 |->
                    IF h >= next THEN [node |-> i, views |-> views] ELSE plans[h]]
    /\ configured' = (configured \/ Op(Node(i)).kind = "core")

Prepared == {plans[h].node : h \in DOMAIN plans}
Operators == {i \in Nodes : Node(i).call # "caller"}
Unprepared == {i \in Operators : captured[i] = 0}

\* What the caller may pass instead of the default view of one operand.
Offered(op, probe) ==
    {<<>>} \union
    CASE probe = "view" ->
           UNION {{[n \in {f} |-> v] : v \in Alternatives(op, f)} : f \in Fields(op) \cap program.varied}
      [] probe = "shape" -> {[n \in {f} |-> [Default(op, f) EXCEPT !.rows = 3]] : f \in Fields(op)}
      [] OTHER -> {}

Prepare(i, views) ==
    LET op == Op(Node(i))
    IN  IF Configurable(op) /\ Admits(op, program.geometry, views)
        THEN /\ Register(i, views)
             /\ captured' = [captured EXCEPT ![i] = next' - 1]
             /\ UNCHANGED <<program, phase, writer, seen, last>>
        ELSE Refuse

\* Operators are prepared in program order.
PrepareNext ==
    /\ phase = "prepare"
    /\ \E i \in Unprepared :
           /\ \A j \in Unprepared : i <= j
           /\ LET op == Op(Node(i))
              IN  IF op.kind = "refused" THEN Refuse
                  ELSE \E v \in Offered(op, program.probe) : Prepare(i, Also(v, Defaults(op)))

\* Tracing calls the fake kernel, which checks the metadata of an owner that is
\* still there.  The operands are those of preparation, so it changes nothing.
Capture ==
    /\ phase = "prepare" /\ Unprepared = {}
    /\ phase' = "run"
    /\ UNCHANGED <<program, plans, next, captured, configured, writer, seen, last>>

\* The caller drops the owner of a node: all its handles disappear.
Collect(i) ==
    /\ program.probe = "lifetime" /\ i \in Prepared /\ phase # "stopped"
    /\ plans' = [h \in {k \in DOMAIN plans : plans[k].node # i} |-> plans[h]]
    /\ UNCHANGED <<program, phase, next, captured, configured, writer, seen, last>>

\* ... and prepares another one, after the graph was captured.
PrepareAgain(i) ==
    /\ program.probe = "lifetime" /\ phase = "run" /\ i \in Operators \ Prepared
    /\ Register(i, Defaults(Op(Node(i))))
    /\ UNCHANGED <<program, phase, captured, writer, seen, last>>

-----------------------------------------------------------------------------
(* The graph.                                                               *)

Declared(n) ==
    IF n.call = "caller" THEN n.reads \union n.writes
    ELSE {Tensor(n, f) : f \in Fields(Op(n))}
Mutates(n) ==
    IF n.call = "caller" THEN n.writes ELSE {Tensor(n, f) : f \in Range(Buffers(Op(n)))}
Conflict(m, n) == Mutates(m) \cap Declared(n) # {} \/ Declared(m) \cap Mutates(n) # {}

HasRun == DOMAIN seen
Ready(i) == i \notin HasRun /\ \A j \in 1..i - 1 : Conflict(Node(j), Node(i)) => j \in HasRun

\* Fields of the native structure, as the launch fills it in.
Native(n) == Arguments(Op(n), TensorsOf(n, Inputs(Op(n))), TensorsOf(n, Buffers(Op(n))))
KernelFields(op) == KernelReads(op) \union KernelWrites(op)
ReadBy(n) ==
    IF n.call = "caller" THEN n.reads
    ELSE {Native(n)[f] : f \in KernelReads(Op(n)) \cap DOMAIN Native(n)}
WrittenBy(n) ==
    IF n.call = "caller" THEN n.writes
    ELSE {Native(n)[f] : f \in KernelWrites(Op(n)) \cap DOMAIN Native(n)}

\* Native admission of a GDN, commit, history and QSA launch.
StridesChecked(op) ==
    CASE op.kind \in GdnKinds -> GdnViews
      [] op.kind \in Commits \union {"capture", "rollback"} -> {"slots", "state"}
      [] OTHER -> {}
WithinGrid(op, g) ==
    CASE op.kind \in GdnKinds -> 2 * g.hk + g.hv <= GridLimit
      [] op.kind \in Commits \union {"qsa"} -> g.hv <= GridLimit
      [] OTHER -> TRUE
NativeShape(op, g) ==
    CASE op.kind \in GdnKinds ->
           /\ g.requests > 0 /\ g.width > 0 /\ g.hk > 0 /\ g.hv > 0 /\ g.hv % g.hk = 0
           /\ op.mode = "decode" => g.width = 1
           /\ op.mode = "verify" => g.width <= 8
      [] op.kind \in Commits ->
           g.requests > 0 /\ g.hk > 0 /\ g.hv > 0 /\ g.hv % g.hk = 0 /\ g.width \in 1..8
      [] op.kind = "qsa" -> g.requests > 0 /\ g.hk > 0 /\ g.hv > 0 /\ g.hv % g.hk = 0
      [] OTHER -> TRUE
NativeAdmits(op, g, views) ==
    /\ NativeShape(op, g) /\ WithinGrid(op, g)
    /\ \A f \in StridesChecked(op) : views[f].pitch >= views[f].inner

\* actlize_la::serving_out on node i, with the given views of its operands: the
\* owner behind the handle checks them, and the native entry once more.
Outcome(i, views) ==
    IF captured[i] \notin DOMAIN plans THEN "expired"
    ELSE LET op == Op(Node(i))
             ins == ViewSeq(Inputs(op), views)
             bufs == ViewSeq(Buffers(op), views)
             owner == Op(Node(plans[captured[i]].node))
             was == plans[captured[i]].views
             plan == Plan(ViewSeq(Inputs(owner), was), ViewSeq(Buffers(owner), was))
             auxiliary == owner.kind \in AuxKinds
         IN  CASE auxiliary /\ ~CheckAuxiliary(plan, ins, bufs) -> "changed"
               [] ~auxiliary /\ ~CheckOperands(plan, ins, bufs) -> "changed"
               [] auxiliary /\ ~AdmitsAuxiliary(ins, bufs) -> "status"
               [] ~auxiliary /\ ~NativeAdmits(op, program.geometry, views) -> "status"
               [] OTHER -> "ran"

Ran(i) ==
    /\ seen' = [j \in HasRun \union {i} |->
                   IF j = i THEN [t \in ReadBy(Node(i)) |-> writer[t]] ELSE seen[j]]
    /\ writer' = [t \in DOMAIN writer |-> IF t \in WrittenBy(Node(i)) THEN i ELSE writer[t]]

Launch(i, views) ==
    LET outcome == Outcome(i, views)
    IN  /\ last' = [node |-> i, outcome |-> outcome, views |-> views,
                    owner |-> IF captured[i] \in DOMAIN plans THEN plans[captured[i]] ELSE Nobody]
        /\ IF outcome = "ran" THEN Ran(i) /\ UNCHANGED phase
           ELSE phase' = "stopped" /\ UNCHANGED <<seen, writer>>
        /\ UNCHANGED <<program, plans, next, captured, configured>>

\* A node is launched on the operands of the capture, or on others.
LaunchNext ==
    \E i \in Operators :
        /\ phase = "run" /\ Ready(i)
        /\ LET op == Op(Node(i))
               old == IF captured[i] \in DOMAIN plans /\ plans[captured[i]].node = i
                      THEN plans[captured[i]].views ELSE Defaults(op)
           IN  \E v \in Offered(op, program.probe) : Launch(i, Also(v, old))

\* The caller's own nodes: acceptance, and the epochs of the next round.
CallerNext ==
    \E i \in Nodes \ Operators :
        /\ phase = "run" /\ Ready(i)
        /\ Ran(i)
        /\ UNCHANGED <<program, phase, plans, next, captured, configured, last>>

Done ==
    /\ phase = "stopped" \/ (phase = "run" /\ HasRun = Nodes)
    /\ UNCHANGED vars

TensorNames ==
    UNION {Declared(Node(i)) : i \in {j \in Nodes : Kind(Node(j)) # "refused"}}

Init ==
    /\ program \in Programs
    /\ phase = "prepare" /\ plans = <<>> /\ next = 1 /\ configured = FALSE
    /\ captured = [i \in Nodes |-> 0]
    /\ writer = [t \in TensorNames |-> 0]
    /\ seen = <<>>
    /\ last = [node |-> 0, outcome |-> "none", views |-> <<>>, owner |-> Nobody]

Next ==
    \/ PrepareNext \/ Capture \/ LaunchNext \/ CallerNext \/ Done
    \/ \E i \in Operators : Collect(i) \/ PrepareAgain(i)

Spec == Init /\ [][Next]_vars

-----------------------------------------------------------------------------
(* Properties.                                                              *)

\* Whatever order the graph picks from the declared reads and mutations
\* (mutates_args=("buffers",), _native.py:18), each node reads every value as the
\* program's order would have left it: no kernel touches an undeclared operand.
DataFlowPreserved ==
    \A i \in HasRun : \A t \in DOMAIN seen[i] :
        seen[i][t] = Max({0} \union {j \in 1..i - 1 : t \in WrittenBy(Node(j))})

\* Every pointer a kernel dereferences is filled in, with the operand that was
\* prepared under that name, and with a shape and type somebody compared: the
\* positional unmarshalling survives double binding and optional operands.
OperandsArrive ==
    \A i \in HasRun \cap Operators :
        LET n == Node(i)
        IN  \A f \in KernelFields(Op(n)) :
                /\ f \in DOMAIN Native(n) /\ Native(n)[f] = Tensor(n, f)
                /\ last.node = i => last.views[f].rows = 2 /\ last.views[f].inner = 2

\* An error vector handed to a binding is read by the kernel it was bound to: no
\* combination of mode and transaction drops it silently (flare.py:60-69, 110-117).
UpstreamHonoured ==
    \A i \in HasRun \cap Operators :
        Node(i).upstream # "none" => Node(i).upstream \in ReadBy(Node(i))

Aliased(op, views) ==
    \E f \in Range(Buffers(op)) :
        \/ Cardinality(Cells(views[f])) < views[f].rows * views[f].inner
        \/ \E g \in Fields(op) \ {f} : Cells(views[f]) \cap Cells(views[g]) # {}

\* A kernel runs over a written operand that overlaps another one only in one way:
\* a plan of this bridge (no auxiliary), launched at the very addresses it was
\* prepared with, on a view that was strided and now has another outer pitch.
OverlapOnlyByRestride ==
    last.outcome = "ran" /\ Aliased(Op(Node(last.node)), last.views) =>
        LET op == Op(Node(last.node))
            was == last.owner.views
        IN  /\ op.kind \notin AuxKinds
            /\ \A f \in Fields(op) : last.views[f].base = was[f].base
            /\ \E f \in Fields(op) :
                   last.views[f].pitch # was[f].pitch /\ ~Contiguous(was[f])

\* What preparation accepted the native entry accepts, but for what only the entry
\* bounds, a grid dimension and a commit of no requests or no heads (gdn.py:358-361),
\* and for views changed since.
PreparedIsAdmitted ==
    last.outcome = "status" =>
        \/ ~WithinGrid(Op(Node(last.node)), program.geometry)
        \/ /\ Op(Node(last.node)).kind \in Commits
           /\ program.geometry.requests = 0 \/ program.geometry.hv = 0
        \/ last.views # last.owner.views

\* A handle that expired never names a plan again: a graph that outlives an owner
\* fails, it never launches what was prepared later (_native.py:22-27).
ExpiredForGood ==
    [][\A i \in Operators :
          captured[i] # 0 /\ captured[i] \notin DOMAIN plans
          => captured'[i] \notin DOMAIN plans']_vars
=============================================================================
