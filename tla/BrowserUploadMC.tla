-------------------------- MODULE BrowserUploadMC --------------------------
(* BrowserUpload for TLC: flows and task objects are interchangeable.       *)
EXTENDS BrowserUpload, TLC

Symmetry == Permutations(Flows) \union Permutations(Copies)
=============================================================================
