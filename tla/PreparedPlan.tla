---------------------------- MODULE PreparedPlan ----------------------------
(***************************************************************************)
(* The bridge between a graph and a prepared operator                      *)
(* (actlize_la/serving/_native.py and PreparedAuxiliary in auxiliary.py):  *)
(* what is recorded about the operands when an operator is prepared, and   *)
(* what is compared with that record when a graph node launches it, maybe  *)
(* with other tensors of the same geometry.                                *)
(*                                                                         *)
(* A tensor is a view [base, pitch, rows, inner] of one arena of cells:    *)
(* rows of `inner` adjacent cells, `pitch` cells apart.                    *)
(***************************************************************************)
EXTENDS Integers, Sequences, FiniteSets

Contiguous(v) == v.rows <= 1 \/ v.pitch = v.inner

Cells(v) == {v.base + i * v.pitch + j : i \in 0..v.rows - 1, j \in 0..v.inner - 1}

\* spans(): byte intervals of a view, in the order of its rows.
Overlapping(v) == ~Contiguous(v) /\ v.pitch < v.inner
Spans(v) ==
    IF Contiguous(v) THEN <<[lo |-> v.base, hi |-> v.base + v.rows * v.inner]>>
    ELSE [i \in 1..v.rows |-> [lo |-> v.base + (i - 1) * v.pitch,
                               hi |-> v.base + (i - 1) * v.pitch + v.inner]]

\* overlap(): one merge of two lists of intervals, the one that ends first is passed.
Meets(a, b, i, j) == a[i].lo < b[j].hi /\ b[j].lo < a[i].hi
Pass(a, b, p) ==
    IF p[1] > Len(a) \/ p[2] > Len(b) \/ Meets(a, b, p[1], p[2]) THEN p
    ELSE IF a[p[1]].hi <= b[p[2]].lo THEN <<p[1] + 1, p[2]>> ELSE <<p[1], p[2] + 1>>
Overlap(a, b) ==
    LET from[n \in 0..Len(a) + Len(b)] ==      \* n intervals are behind us
            IF n = 0 THEN <<1, 1>> ELSE Pass(a, b, from[n - 1])
        end == from[Len(a) + Len(b)]
    IN  end[1] <= Len(a) /\ end[2] <= Len(b)

\* Mutant: buffers are compared with the inputs only.
MutantRejectsAliases(ins, bufs) ==
    \/ \E v \in {ins[i] : i \in DOMAIN ins} \union {bufs[i] : i \in DOMAIN bufs} :
           Overlapping(v)
    \/ \E k \in DOMAIN bufs, i \in DOMAIN ins : Overlap(Spans(bufs[k]), Spans(ins[i]))

\* reject_aliases(inputs, buffers): every buffer against the inputs and the
\* buffers before it.
RejectsAliases(ins, bufs) ==
    \/ \E v \in {ins[i] : i \in DOMAIN ins} \union {bufs[i] : i \in DOMAIN bufs} :
           Overlapping(v)
    \/ \E k \in DOMAIN bufs :
           \/ \E i \in DOMAIN ins : Overlap(Spans(bufs[k]), Spans(ins[i]))
           \/ \E i \in 1..k - 1 : Overlap(Spans(bufs[k]), Spans(bufs[i]))

\* PreparedNative.bind: the outer pitch is not part of the signature.
Signature(v) == [rows |-> v.rows, inner |-> v.inner, contiguous |-> Contiguous(v)]

\* PreparedNative.check_metadata, of one operand.
SameLayout(v, s) ==
    /\ v.rows = s.rows /\ v.inner = s.inner
    /\ s.contiguous => Contiguous(v)

Plan(ins, bufs) ==
    [signatures |-> [i \in 1..Len(ins) + Len(bufs) |-> Signature((ins \o bufs)[i])],
     pointers |-> [i \in 1..Len(ins) + Len(bufs) |-> (ins \o bufs)[i].base],
     inputs |-> Len(ins)]

CheckMetadata(plan, ins, bufs) ==
    /\ Len(ins) = plan.inputs
    /\ Len(ins) + Len(bufs) = Len(plan.signatures)
    /\ \A i \in 1..Len(ins) + Len(bufs) : SameLayout((ins \o bufs)[i], plan.signatures[i])

\* PreparedNative.check_operands: aliasing again, if an address changed.
CheckOperands(plan, ins, bufs) ==
    /\ CheckMetadata(plan, ins, bufs)
    /\ (\E i \in 1..Len(ins) + Len(bufs) : (ins \o bufs)[i].base # plan.pointers[i])
       => ~RejectsAliases(ins, bufs)

\* PreparedAuxiliary.check_operands, then the validation every native launch of
\* an auxiliary starts with, on the strides and addresses it is given.
CheckAuxiliary(plan, ins, bufs) ==
    /\ Len(ins) = plan.inputs
    /\ Len(ins) + Len(bufs) = Len(plan.signatures)
    /\ \A i \in 1..Len(ins) + Len(bufs) :
           LET v == (ins \o bufs)[i]
           IN  v.rows = plan.signatures[i].rows /\ v.inner = plan.signatures[i].inner
AdmitsAuxiliary(ins, bufs) == ~RejectsAliases(ins, bufs)
=============================================================================
