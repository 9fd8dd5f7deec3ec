----------------------------- MODULE MCImageCatalog -----------------------------
(***************************************************************************)
(* TLC instance of ImageCatalog: requests, names and addresses can be      *)
(* exchanged for each other.                                               *)
(***************************************************************************)
EXTENDS ImageCatalog, TLC

Symmetry == Permutations(Requests) \cup Permutations(Names) \cup Permutations(Urls)
===============================================================================
