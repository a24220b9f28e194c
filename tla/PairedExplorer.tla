--------------------------- MODULE PairedExplorer ---------------------------
(***************************************************************************)
(* What both explorers of the fixture take: the candidate messages, and    *)
(* what the concrete one tries from a state (_successors in                *)
(* src/crossllm/backends/paired_explorer.py), which is what the symbolic   *)
(* one has to encode.                                                      *)
(***************************************************************************)
EXTENDS PairedState, FiniteSets

CONSTANT Candidate  \* the candidate messages, with different identities

ASSUME CandidatesDiffer ==
  /\ Candidate \subseteq Message /\ IsFiniteSet(Candidate)
  /\ \A l, m \in Candidate : Identity(l) = Identity(m) => l = m

EnqueueSuccessors(p, s) ==
  {Enqueued(s, m) : m \in {c \in Candidate : CanEnqueue(p, s, c)}}

DeliverSuccessors(p, s) ==
  {Delivered(s, i) : i \in {k \in DOMAIN s.pending : CanDeliver(p, s, k)}}

\* Of the messages the source has committed only the latest is rolled back.
ReorgSuccessors(p, s) ==
  {Reorged(s, i) : i \in {k \in {Len(s.committed)} : CanReorg(p, s, k)}}

Successors(p, s) ==
  EnqueueSuccessors(p, s) \cup DeliverSuccessors(p, s) \cup ReorgSuccessors(p, s)
=============================================================================
