--------------------------- MODULE MCWorkerRunner ---------------------------
(* Two batches of campaigns over one log, by a caller that marks in-flight *)
(* attempts first or one that does not.  The worker has two cores and runs *)
(* two campaigns at a time under a core-second quota of 6; a finished      *)
(* campaign reports 3 core-seconds, so that the quota can run out before a *)
(* queued campaign is admitted.  big takes both cores, so the others queue *)
(* behind it; huge asks for more cores than the worker has.                *)
EXTENDS WorkerRunner

CONSTANTS one, two, big, huge, restart, drift

MCPlan == <<huge, big, one, two>>

MCQuota == [k \in Dim |-> IF k = "core" THEN 6 ELSE None]

MCCpu ==
  [c \in Campaign |-> CASE c = huge -> 3 [] c = big -> 2 [] OTHER -> 1]

MCMem == [c \in Campaign |-> 1]

MCSolver == [c \in Campaign |-> None]

MCEstimate ==
  [c \in Campaign |->
     [k \in Dim |-> IF k = "core" THEN (IF c = big THEN 4 ELSE 2) ELSE None]]

MCUsage == {[k \in Dim |-> IF k = "core" THEN 3 ELSE 0]}
============================================================================
