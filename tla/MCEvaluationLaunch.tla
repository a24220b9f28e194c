------------------------- MODULE MCEvaluationLaunch -------------------------
(* Two families, one of which may come without effective settings; a       *)
(* protocol that may lack fields; evidence about one benchmark or another. *)
(* Four commands are the three documents and one of them made again.       *)
EXTENDS EvaluationLaunch

CONSTANTS fa, fb, old, new, cell, config, other

Row == [tag |-> TRUE, digest |-> TRUE, settings |-> "given", public |-> TRUE]

MCCatalogue ==
  {[f \in {fa, fb} |-> Row],
   [f \in {fa, fb} |-> IF f = fb THEN [Row EXCEPT !.settings = "empty"] ELSE Row]}

MCPlanning == {[missing |-> FALSE, replicates |-> 1],
               [missing |-> TRUE, replicates |-> 1]}

Whole == [shown |-> EvidenceGate, corpus |-> TRUE, matrix |-> "owner_accepted",
          replays |-> TRUE, benchmark |-> new]

MCEvidence == {Whole, [Whole EXCEPT !.benchmark = old]}

MCToolchain ==
  {[pinned |-> TRUE, locked |-> TRUE, packages |-> TRUE, sealed |-> TRUE]}
============================================================================
