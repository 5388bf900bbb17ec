----------------------------- MODULE MCShortConv -----------------------------
(***************************************************************************)
(* Two requests, windows of three plus two entries.                        *)
(***************************************************************************)
EXTENDS ShortConv

Vector(t) == [r \in Row |-> t[r + 1]]

\* Three inputs and one; an empty first row; a second row that runs backwards.
StartVectors == {[i \in 0..Requests |-> t[i + 1]] : t \in {<<0, 3, 4>>, <<0, 0, 2>>, <<0, 2, 1>>}}

\* Own slots; the first row sits out; both rows on one slot; a slot out of range.
SlotVectors ==
    {[r \in Row |-> Own(r)], [r \in Row |-> IF r = 0 THEN -1 ELSE Own(r)],
     [r \in Row |-> Own(0)], [r \in Row |-> IF r = 0 THEN Own(0) ELSE Slots]}

MCRows ==
    {[live |-> n, starts |-> t, slots |-> s, upstream |-> e] :
        n \in {1, 2, 3}, t \in StartVectors, s \in SlotVectors,
        e \in {Vector(<<0, 0>>), Vector(<<2, 0>>)}}
=============================================================================
