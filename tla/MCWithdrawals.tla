--------------------------- MODULE MCWithdrawals ---------------------------
(* Three withdrawals of one user, whose record is rich or broke.  No       *)
(* symmetry between the calls: the runs check a liveness property.         *)
EXTENDS Withdrawals

CONSTANTS c1, c2, c3, alice, addr

MCIndices == {1}

Rich  == [NewFinancialInfo(1, 1) EXCEPT !.xmr_addr = addr, !.balance = 1000]
Broke == [Rich EXCEPT !.balance = 100]

MCRecords == {Rich, Broke}
MCForms == {[username |-> alice, amt |-> 500]}
MCNetFees == {10}
MCTransferFees == {3}
=============================================================================
