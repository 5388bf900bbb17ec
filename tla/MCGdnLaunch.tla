----------------------------- MODULE MCGdnLaunch -----------------------------
(***************************************************************************)
(* Every call of three rows over two live slots, from the operands below.  *)
(* The model stops when a run, or a verification and its commit, returned. *)
(***************************************************************************)
EXTENDS GdnLaunch

Vector(t) == [r \in Row |-> t[r + 1]]

\* Source and destination of the rows: own slots, a shared destination or
\* source, a chain, null rows, slots out of range.
SlotPairs ==
    {[src |-> Vector(s), dst |-> Vector(d)] :
        s \in {<<1, 2, 0>>, <<1, 1, 2>>, <<2, 1, 1>>, <<0, 0, 2>>, <<-1, 1, 2>>},
        d \in {<<1, 2, 0>>, <<1, 1, 2>>, <<2, 1, 1>>, <<0, 1, 2>>, <<1, 3, 2>>}}

\* One input each; the first and the last row overlap behind a backwards row;
\* an empty row; an interval past the packed tokens.
StartVectors ==
    {[i \in 0..Requests |-> t[i + 1]] :
        t \in {<<0, 1, 2, 3>>, <<0, 2, 1, 3>>, <<0, 0, 2, 3>>, <<0, 1, 2, 4>>}}

MCLaunches ==
    {[mode |-> m, live |-> n, starts |-> t, src |-> p.src, dst |-> p.dst, checkpoint |-> k] :
        m \in {"decode", "verify", "prefill"}, n \in {2, 3, 4}, t \in StartVectors,
        p \in SlotPairs, k \in {{}, {1}}}

MCUpstream == {Vector(<<0, 0, 0>>), Vector(<<0, 5, -1>>)}

MCCommits ==
    {[live |-> n, slots |-> Vector(s), counts |-> Vector(c)] :
        n \in {2, 3},
        s \in {<<1, 2, 0>>, <<1, 1, 2>>, <<2, 1, 1>>},
        c \in {<<1, 1, 1>>, <<2, 0, 1>>, <<0, 1, 2>>}}
=============================================================================
