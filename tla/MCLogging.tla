----------------------------- MODULE MCLogging -----------------------------
(* A handler and the task that refreshes the balances, two lines each, one *)
(* place in the channel for both, and a String that one or two lines make  *)
(* long.                                                                   *)
EXTENDS Logging

CONSTANTS handler, updater
=============================================================================
