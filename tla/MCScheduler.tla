---------------------------- MODULE MCScheduler ----------------------------
(* A small worker: 3 cores, 4 memory units, 2 concurrent campaigns, a      *)
(* core-second quota of 6 and an input-token quota of 3.  wide and slim    *)
(* use the same solver profile, wide needs most of the cores, plain        *)
(* declares no token estimate, huge asks for more than the worker has.     *)
(* A finished campaign reports no use, or more core-seconds than any       *)
(* estimate.                                                               *)
EXTENDS Scheduler

CONSTANTS wide, slim, plain, huge, z3

MCQuota == [k \in Dim |-> CASE k = "core" -> 6
                            [] k = "input" -> 3
                            [] k = "generated" -> None]

MCCpu == [c \in Campaign |-> CASE c = wide -> 2 [] c = huge -> 4 [] OTHER -> 1]

MCMem == [c \in Campaign |-> IF c = plain THEN 3 ELSE 1]

MCSolver == [c \in Campaign |-> IF c \in {wide, slim} THEN z3 ELSE None]

MCEstimate ==
  [c \in Campaign |->
     [k \in Dim |->
        CASE k = "core" -> (IF c = wide THEN 3 ELSE 1)
          [] k = "input" -> (IF c = plain THEN None ELSE 1)
          [] k = "generated" -> (IF c = slim THEN 2 ELSE None)]]

MCUsage ==
  {[k \in Dim |-> 0], [k \in Dim |-> IF k = "core" THEN 4 ELSE 1]}
============================================================================
