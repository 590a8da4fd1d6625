----------------------------- MODULE MCAccounts -----------------------------
(* alice sorts before bob.  A deposit of 100 pays for purchases of 60 and  *)
(* 40 but not for 60 twice; a withdrawal of 40 costs 9 more and is charged *)
(* a service fee of 1.                                                     *)
EXTENDS Accounts, TLC

CONSTANTS alice, bob, addr, e1, e2

OneUser  == <<alice>>
TwoUsers == <<alice, bob>>

OneIndex == {1}
ThreeIndices == 1..3

Task(kind, amt, fee) ==
  [kind |-> kind, user |-> alice, amt |-> amt, fee |-> fee, addr |-> addr]

Purchases == {Task("spend", 60, 0), Task("spend", 40, 0)}
Money == Purchases \cup {Task("credit", 40, 9)}
Attach == {Task("attach", 0, 0)}

MCDeposits == {100}

EditorSymmetry == Permutations(Editors)
=============================================================================
