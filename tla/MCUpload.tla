------------------------------ MODULE MCUpload ------------------------------
(* An item of two files and one of one of them, an item that is larger     *)
(* than announced and one whose file is not compressed.                    *)
EXTENDS Upload, TLC

CONSTANTS s1, s2, game1, game2, large, plain, a, b, p, art

MCFilesOf ==
  [i \in Items |-> CASE i = game1 -> {a, b} [] i = game2 -> {a}
                     [] i = large -> {b}    [] i = plain -> {p}]
MCImageOf == [i \in Items |-> art]
MCChunks == [f \in Files |-> IF f = a THEN 2 ELSE 1]
MCCompressedSize ==
  [i \in Items |-> CASE i = game1 -> 3 [] i = game2 -> 2
                     [] i = large -> 0 [] i = plain -> 1]

SessionSymmetry == Permutations(Sessions)
=============================================================================
