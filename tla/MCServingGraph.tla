--------------------------- MODULE MCServingGraph ---------------------------
(***************************************************************************)
(* Graphs of Flare's serving families, and single operators whose operands *)
(* are varied one at a time.                                               *)
(***************************************************************************)
EXTENDS ServingGraph

N(call, mode, target, opts, transaction, upstream, own) ==
    [call |-> call, mode |-> mode, target |-> target, opts |-> opts,
     transaction |-> transaction, upstream |-> upstream, own |-> own]
Caller(reads, writes) == [call |-> "caller", reads |-> reads, writes |-> writes]

Layer == [state |-> "gdn_state", mixed |-> "conv_output", output |-> "gdn_output",
          errors |-> "gdn_errors"]
Other == [state |-> "gdn_state", mixed |-> "conv_output",
          queries |-> "queries2", keys |-> "keys2", decays |-> "decays2",
          betas |-> "betas2", errors |-> "errors2", delta |-> "delta2",
          recorded_lengths |-> "lengths2", recorded_slots |-> "slots2",
          output |-> "output2"]
Conv == [state |-> "conv_state", output |-> "conv_output", errors |-> "conv_errors",
         x |-> "projected"]
AllRows == {"rows_starts", "rows_slots", "rows_num_seqs", "rows_num_tokens"}
Norm(upstream) ==
    N("pointwise", "", "ppu15", AllRows \union {"x", "weight", "gate", "output", "errors"},
      FALSE, upstream,
      [x |-> "gdn_output", output |-> "normed", errors |-> "norm_errors", weight |-> "norm_weight"])

Verify(target, own) ==
    N("bind_gdn", "verify", target, {}, FALSE, "none", own)
Verify2(opts) == N("bind_gdn", "verify", "ppu15", opts, TRUE, "conv_errors", Layer)
Commit2 == N("bind_gdn_commit", "", "ppu15", {}, TRUE, "conv_errors",
             [state |-> "gdn_state", errors |-> "commit_errors"])
Commit1 == N("bind_gdn_commit", "", "ppu15", {}, FALSE, "none",
             [state |-> "gdn_state", errors |-> "commit_errors"])
History(call) ==
    N(call, "", "ppu15", AllRows, FALSE, "none",
      [state |-> "conv_state", errors |-> "history_errors"])
Legacy(call) ==
    N(call, "", "ppu15", {}, FALSE, "none",
      [state |-> "conv_state", errors |-> "legacy_errors",
       recorded_slots |-> "conv_slots_record", counts |-> "consumed_prefix",
       slots |-> "state_indices"])
Shortconv(upstream) == N("shortconv", "verify", "ppu15", AllRows, FALSE, upstream, Conv)
Prefill(target, opts, upstream) ==
    N("bind_gdn", "prefill", target, opts, FALSE, upstream, Layer)
Decode(opts, upstream) == N("bind_gdn", "decode", "ppu15", opts, FALSE, upstream, Layer)
Hash == N("hash", "", "ppu15", AllRows, FALSE, "shared_errors", [errors |-> "hash_errors"])
Qsa == N("qsa", "", "ppu15", {}, FALSE, "none",
         [output |-> "qsa_output", errors |-> "qsa_errors"])
Core(opts) == N("core", "", "ppu10", opts, FALSE, "none", [output |-> "core_output"])

Accept == Caller({"normed"}, {"consumed_prefix"})
Advance == Caller({"consumed_prefix", "epochs"}, {"epochs", "accepted_tokens"})
Checkpoints == {"checkpoint_slots", "checkpoint_offsets"}

Orders ==
    {<<History("snapshot"), Shortconv("none"), Verify2({}), Norm("conv_errors"), Accept,
       Commit2, History("restore"), Advance, Shortconv("none")>>,
     <<Legacy("capture"), Shortconv("none"), Verify("ppu15", Layer), Norm("none"), Accept,
       Commit1, Legacy("rollback"), Verify("ppu15", Other)>>,
     <<Shortconv("none"), Prefill("ppu10", Checkpoints, "conv_errors"), Norm("gdn_errors"),
       Decode({}, "gdn_errors")>>,
     <<Hash, Qsa, Decode(Checkpoints, "none"), Qsa, Prefill("cuda_sm120", {}, "none")>>,
     <<Core({"initial", "final"}), Caller({"final"}, {"initial"}), Core({"initial"})>>}

Singles ==
    {Verify2(Checkpoints), Commit2, Commit1, Verify("ppu10", Layer), Decode(Checkpoints, "e"),
     Decode({}, "none"), Prefill("ppu10", {}, "none"), Prefill("ppu15", Checkpoints, "e"),
     Prefill("cuda_sm120", {}, "e"), History("snapshot"), History("restore"),
     Legacy("capture"), Legacy("rollback"), Shortconv("e"), Norm("none"), Hash, Qsa,
     N("pointwise", "", "ppu15", {"x", "weight", "gate", "value", "output", "combined",
                                  "errors"}, FALSE, "none", Conv),
     Core({}), Core({"initial"}), Core({"final"}),
     N("bind_gdn", "decode", "ppu15", {}, TRUE, "none", Layer),
     N("bind_gdn", "verify", "ppu15", {}, FALSE, "e", Layer),
     N("bind_gdn_commit", "", "ppu15", {}, FALSE, "e", Layer)}

P(nodes, probe, varied, g, capturing) ==
    [nodes |-> nodes, probe |-> probe, varied |-> varied, geometry |-> g,
     capturing |-> capturing]
G(requests, width, hk, hv) == [requests |-> requests, width |-> width, hk |-> hk, hv |-> hv]
Usual == G(2, 1, 1, 2)

MCPrograms ==
    {P(nodes, "order", {}, Usual, FALSE) : nodes \in Orders}
    \union {P(<<n>>, "shape", {}, Usual, c) : n \in Singles, c \in BOOLEAN}
    \union {P(<<n>>, "view", v, Usual, FALSE) :
               n \in {Decode({}, "none"), Commit2, Legacy("rollback"), History("restore")},
               v \in {{"state", "output"}, {"slots", "errors", "initial_slots"}}}
    \union {P(<<n>>, "order", {}, G(r, w, hk, hv), FALSE) :
               n \in {Decode({}, "none"), Verify("ppu15", Layer), Commit1,
                      Prefill("ppu15", {}, "none"), Qsa},
               r \in {0, 2}, w \in {1, 3, 8, 16}, hk \in 1..2, hv \in {0, 1, 2, 4, 6}}
    \union {P(<<Shortconv("none"), Decode({}, "conv_errors"), Commit1>>, "lifetime", {},
              Usual, FALSE)}
=============================================================================
