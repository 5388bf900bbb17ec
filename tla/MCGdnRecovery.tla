---------------------------- MODULE MCGdnRecovery ----------------------------
(***************************************************************************)
(* One row of GdnTransaction whose calls are cut short by failing          *)
(* launches, with every combination of the operands below.                 *)
(***************************************************************************)
EXTENDS GdnTransaction

Only(n) == [r \in Row |-> n]

MCVerifications ==
    [live : {0, 1}, starts : [0..1 -> {0, 2}], slots : {Only(n) : n \in 0..2},
     upstream : {Only(Ok), Only(Slot)}]

MCCommits ==
    [live : {0, 1}, slots : {Only(n) : n \in 0..2}, counts : {Only(n) : n \in {0, 1, 3}}]
=============================================================================
