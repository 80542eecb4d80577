--------------------------- MODULE ExtractionLog ---------------------------
(***************************************************************************)
(* What services/extractions.py promises of a document's extractions: they *)
(* form a log that only grows, one version at a time, and once there is a  *)
(* version exactly one, the newest, is current.                            *)
(***************************************************************************)
EXTENDS Naturals

CONSTANT Docs

VARIABLES latest, current

Init ==
  /\ latest \in [Docs -> Nat]
  /\ current = [d \in Docs |-> IF latest[d] = 0 THEN {} ELSE {latest[d]}]

Publish(d) ==
  /\ latest' = [latest EXCEPT ![d] = @ + 1]
  /\ current' = [current EXCEPT ![d] = {latest[d] + 1}]

Next == \E d \in Docs : Publish(d)

Spec == Init /\ [][Next]_<<latest, current>>
============================================================================
