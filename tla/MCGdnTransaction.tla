-------------------------- MODULE MCGdnTransaction --------------------------
(***************************************************************************)
(* Instances of GdnTransaction for TLC: two rows, two live slots, records  *)
(* of one or two inputs.  A call has at most one irregular operand.        *)
(***************************************************************************)
EXTENDS GdnTransaction, FiniteSets

\* A device vector given as a tuple.
Vector(t) == [r \in Row |-> t[r + 1]]
Starts(t) == [i \in 0..Requests |-> t[i + 1]]

\* The number of operands of a call that differ from the regular ones.
Irregular(x, regular) == Cardinality({f \in DOMAIN regular : x[f] \notin regular[f]})

\* Two inputs and one input, on a slot each.
RegularVerification ==
    [live |-> {2}, starts |-> {Starts(<<0, 2, 3>>)}, slots |-> {Vector(<<1, 2>>)},
     upstream |-> {Zeros}]

\* Irregular: one live row or a counter out of bounds; an empty first row, or a
\* second row that runs backwards; the first row on the second row's slot while
\* that row is null, or a slot out of range; a failed convolution or a value
\* that is no error code.
MCVerifications ==
    {v \in [live : {1, 2, 3},
            starts : {Starts(t) : t \in {<<0, 2, 3>>, <<0, 0, 2>>, <<0, 2, 1>>}},
            slots : {Vector(t) : t \in {<<1, 2>>, <<2, 0>>, <<1, 3>>}},
            upstream : {Vector(t) : t \in {<<0, 0>>, <<2, 0>>, <<0, 9>>}}] :
        Irregular(v, RegularVerification) <= 1}

RegularCommit ==
    [live |-> {2}, slots |-> {Vector(<<1, 2>>)},
     counts |-> {Vector(<<0, 1>>), Vector(<<2, 0>>)}]

\* Irregular: fewer rows; the first row on the other slot; a prefix longer than
\* the records, a negative one.
MCCommits ==
    {c \in [live : {1, 2},
            slots : {Vector(<<1, 2>>), Vector(<<2, 0>>)},
            counts : {Vector(t) : t \in {<<0, 1>>, <<2, 0>>, <<1, 2>>, <<-1, 1>>}}] :
        Irregular(c, RegularCommit) <= 1}

MCLeftovers == {0, 5}
=============================================================================
