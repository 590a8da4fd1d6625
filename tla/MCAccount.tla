----------------------------- MODULE MCAccount -----------------------------
(* Amounts around the boundaries of the two divisions, by 100 and by 49.   *)
EXTENDS Account

CONSTANT addr

MCIndices == {1}
MCDeposits == {149, 300}
MCPrices == {100}
MCAmounts == 5..200
MCNetFees == {1, 7}
=============================================================================
