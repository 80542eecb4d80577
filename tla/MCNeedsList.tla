---------------------------- MODULE MCNeedsList ----------------------------
(***************************************************************************)
(* Small instances of NeedsList for TLC.                                   *)
(***************************************************************************)
EXTENDS NeedsList, TLC

(* A document answers the needs of its own type.                           *)
OwnType == [type \in Types \cup {None} |-> IF type = None THEN {} ELSE {type}]

(* The floor asks for every type, of nobody in particular.                 *)
FloorOfFile == Types \X {None}

Symmetry == Permutations(Passes) \cup Permutations(Requests)
============================================================================
