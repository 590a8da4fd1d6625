----------------------------- MODULE MCDownload -----------------------------
(* Alice downloads both items or one of them again, Bob one of them.       *)
EXTENDS Download, TLC

CONSTANTS d1, d2, d3, alice, bob

Ask(user, item) == [user |-> user, item |-> item]

MCRequests == {Ask(alice, 1), Ask(alice, 2), Ask(bob, 1)}

DownloadSymmetry == Permutations(Downloads)

=============================================================================
