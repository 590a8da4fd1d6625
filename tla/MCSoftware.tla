----------------------------- MODULE MCSoftware -----------------------------
(* Two calls of one creator, who can pay for both, and one of another.     *)
EXTENDS Software, TLC

CONSTANTS c1, c2, c3, alice, bob

MCCreator == [c \in Calls |-> IF c = c3 THEN bob ELSE alice]
MCFunds == [u \in Users |-> 2]

CallSymmetry == Permutations({c1, c2})
=============================================================================
