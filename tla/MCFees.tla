------------------------------- MODULE MCFees -------------------------------
(* Two calls of deposit_req and two estimates of the daemon.               *)
EXTENDS Fees

MCPerByte == {20, 4157}
=============================================================================
