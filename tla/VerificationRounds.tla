------------------------- MODULE VerificationRounds -------------------------
(***************************************************************************)
(* What the V2 verify/commit transaction promises to a serving loop, with  *)
(* no epochs, no record windows and no kernels: a request row may open a   *)
(* round on a state slot nobody else has open, and resolving the round     *)
(* appends its accepted prefix to that slot, once, on the state the round  *)
(* was computed from.  Rounds of a row only grow.                          *)
(***************************************************************************)
EXTENDS Naturals, Sequences

CONSTANTS Row, LiveSlot, Width

VARIABLES log,       \* log[s]: the prefixes consumed by slot s, in order
          pending,   \* pending[r]: the open round of row r, or NoRound
          resolved   \* resolved[r]: the last resolved round of row r

vars == <<log, pending, resolved>>

NoRound == [round |-> 0, slot |-> 0]

Prefix(r, n) == [row |-> r, round |-> pending[r].round, count |-> n, intact |-> TRUE]

Init ==
    /\ log = [s \in LiveSlot |-> <<>>]
    /\ pending = [r \in Row |-> NoRound]
    /\ resolved = [r \in Row |-> 0]

\* Rows open rounds; an open round is never replaced.
Open ==
    /\ \A r \in Row :
          \/ pending'[r] = pending[r]
          \/ /\ pending[r] = NoRound
             /\ pending'[r].round > resolved[r]
             /\ pending'[r].slot \in LiveSlot
             /\ \A o \in Row \ {r} : pending'[o].slot # pending'[r].slot
    /\ UNCHANGED <<log, resolved>>

\* The rows of R resolve their rounds and keep n[r] verified inputs each.
Resolve(R, n) ==
    /\ \A r \in R : pending[r] # NoRound
    /\ log' = [s \in LiveSlot |->
                 LET kept == {r \in R : pending[r].slot = s /\ n[r] > 0}
                 IN IF kept = {} THEN log[s]
                    ELSE Append(log[s], LET r == CHOOSE r \in kept : TRUE
                                        IN Prefix(r, n[r]))]
    /\ pending' = [r \in Row |-> IF r \in R THEN NoRound ELSE pending[r]]
    /\ resolved' = [r \in Row |-> IF r \in R THEN pending[r].round ELSE resolved[r]]

Next ==
    \/ Open
    \/ \E R \in SUBSET Row, n \in [Row -> 0..Width] : Resolve(R, n)

Spec == Init /\ [][Next]_vars
=============================================================================
