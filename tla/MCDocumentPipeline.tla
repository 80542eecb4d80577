------------------------- MODULE MCDocumentPipeline -------------------------
(***************************************************************************)
(* Small instances of DocumentPipeline for TLC.                            *)
(***************************************************************************)
EXTENDS DocumentPipeline, TLC

Symmetry == Permutations(Tasks) \cup Permutations(Requests) \cup Permutations(Docs \ Processed)
============================================================================
