--------------------------- MODULE MCPairedSearch ---------------------------
(* Two candidates, four transactions, in-order and reordering channels     *)
(* with and without rollback and duplicates, and predicates that are true  *)
(* nowhere, after an overtaking delivery, after one particular history,    *)
(* after the delivery of a later copy, in the last state that is looked    *)
(* at, or at once, or that raise once a message was delivered.             *)
EXTENDS PairedSearch

m1 == [nonce |-> 1, payload |-> "p", attestor |-> "x"]
m2 == [nonce |-> 2, payload |-> "p", attestor |-> "x"]

MCMessage == {m1, m2}

MCProfiles ==
  {[reorder |-> FALSE, duplicates |-> FALSE, reorg |-> FALSE, depth |-> 0],
   [reorder |-> TRUE, duplicates |-> FALSE, reorg |-> TRUE, depth |-> 1],
   [reorder |-> FALSE, duplicates |-> TRUE, reorg |-> FALSE, depth |-> 0],
   [reorder |-> TRUE, duplicates |-> TRUE, reorg |-> FALSE, depth |-> 0]}

MCPredicate ==
  {"never", "overtaken", "rolled back", "later copy", "last", "initially", "raises"}

MCViolates(q, s) ==
  CASE q = "overtaken" -> s.delivered # << >> /\ s.delivered[1] # s.committed[1]
    [] q = "rolled back" -> Len(s.log) = 2 /\ s.log[2] = Entry("reorg", m2, 1)
    [] q = "later copy" -> s.committed = <<m2, m1, m2>> /\ s.pending = <<m2, m1>>
    [] q = "last" -> /\ s.committed = <<m2, m2>> /\ s.delivered = <<m2, m2>>
                     /\ s.log[2].action = "deliver"
    [] q = "initially" -> Len(s.log) <= 1
    [] OTHER -> FALSE

MCRaises(q, s) == q = "raises" /\ s.delivered # << >>
============================================================================
