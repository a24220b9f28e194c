------------------------ MODULE MCAdjudicationLedger ------------------------
(* Two findings and three people who rate or adjudicate.  Two verdicts     *)
(* differ only in the failure; the third needs an uncertainty reason.      *)
EXTENDS AdjudicationLedger, TLC

CONSTANTS f1, f2, ann, bob, eve

MCVerdict ==
  {[status |-> "rejected", failure |-> "replay_failure"],
   [status |-> "rejected", failure |-> "vacuity"],
   [status |-> "unresolved", failure |-> "timeout_or_unsupported"]}

Symmetry == Permutations(Person) \cup Permutations(Finding)
============================================================================
