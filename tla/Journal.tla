------------------------------ MODULE Journal ------------------------------
(***************************************************************************)
(* What logging_service promises: the lines that were accepted reach the   *)
(* file one by one in the order in which they were accepted, and only a    *)
(* restart loses any, namely all that have not reached the file.           *)
(***************************************************************************)
EXTENDS Sequences

CONSTANT Lines

VARIABLES
  pending,          \* accepted, not yet in the file
  file              \* ./coinstribute.log, opened for appending

Init == pending = <<>> /\ file = <<>>

Accept(l) == pending' = Append(pending, l) /\ UNCHANGED file

Write ==
  /\ pending # <<>>
  /\ file' = Append(file, Head(pending))
  /\ pending' = Tail(pending)

Restart == pending' = <<>> /\ UNCHANGED file

Next == (\E l \in Lines : Accept(l)) \/ Write \/ Restart

Spec == Init /\ [][Next]_<<pending, file>>

=============================================================================
