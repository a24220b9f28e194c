---------------------------- MODULE MCEventStore ----------------------------
(* Two attempts, one interruption the policy resumes and one it blocks;    *)
(* callers that pass resume nothing or the blocked kind, and callers that  *)
(* pass either kind.                                                       *)
EXTENDS EventStore, TLC

CONSTANTS a1, a2, restart, drift

MCCallers == {{None, drift}, {None, restart, drift}}

\* The attempts are alike, in the properties too.
MCSymmetry == Permutations(Attempt)
============================================================================
