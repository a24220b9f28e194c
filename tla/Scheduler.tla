----------------------------- MODULE Scheduler -----------------------------
(***************************************************************************)
(* WorkerResourceScheduler (src/crossllm/runtime/resources.py): admission  *)
(* of campaigns to one bounded worker.  Every public method runs under one *)
(* re-entrant lock, so each is one atomic action.                          *)
(*                                                                         *)
(* A campaign always asks for the same resources (the runner passes        *)
(* task.request), so the request is a constant of the campaign, and the    *)
(* lease table and the queue hold campaigns.  Core-seconds, input tokens   *)
(* and generated tokens are treated alike by the code and are the three    *)
(* members of Dim.  Memory is counted in abstract units.  The throttle     *)
(* counter is only reported and is left out.                               *)
(***************************************************************************)
EXTENDS Integers, Sequences, FiniteSets

CONSTANTS
  Campaign,       \* campaign identifiers
  None,           \* an absent value: no quota, no estimate, no solver profile
  CpuCores,       \* ResourceEnvelope.cpu_cores
  MemoryUnits,    \* ResourceEnvelope.memory_bytes
  MaxConcurrent,  \* ResourceEnvelope.max_concurrent_campaigns
  Quota,          \* Quota: dimension -> cumulative limit or None
  Cpu,            \* campaign -> requested cores
  Mem,            \* campaign -> requested memory
  Solver,         \* campaign -> solver profile or None
  Estimate,       \* campaign -> dimension -> estimated use or None
  Usage,          \* the usage vectors a finished campaign may report
  MaxSubmissions  \* bound on what the environment submits

Dim == {"core", "input", "generated"}

ASSUME NoneIsNotANumber == None \notin Int

ASSUME EnvelopePositive ==
  /\ CpuCores \in Nat \ {0}
  /\ MemoryUnits \in Nat \ {0}
  /\ MaxConcurrent \in Nat \ {0}

ASSUME QuotaType == Quota \in [Dim -> Nat \cup {None}]

ASSUME RequestType ==
  /\ Cpu \in [Campaign -> Nat \ {0}]
  /\ Mem \in [Campaign -> Nat \ {0}]
  /\ Estimate \in [Campaign -> [Dim -> Nat \cup {None}]]
  /\ \A c \in Campaign : Estimate[c]["core"] # None

ASSUME UsageType == Usage \subseteq [Dim -> Nat]

ASSUME BoundType == MaxSubmissions \in Nat

VARIABLES
  active,     \* _active: lease number -> campaign
  queue,      \* _queue
  used,       \* _used_*: dimension -> measured use of released leases
  reserved,   \* _reserved_*: dimension -> estimates of the active leases
  nextLease   \* _next_lease

schedVars == <<active, queue, used, reserved, nextLease>>

----------------------------------------------------------------------------

\* `estimate or 0`
Amount(x) == IF x = None THEN 0 ELSE x

Expected(d) == [c \in Campaign |-> Amount(Estimate[c][d])]

(* The sum of a request field over a lease table, as the number of units   *)
(* the leases hold: unit <<l, i>> is the i-th unit of lease l.             *)
Units(load, leases) ==
  UNION {{l} \X (1 .. load[leases[l]]) : l \in DOMAIN leases}

InUse(load, leases) == Cardinality(Units(load, leases))

(* Mutant: the concurrency bound is off by one.                            *)
CanAdmitOneMore(c, leases, spent, held) ==
  /\ Cardinality(DOMAIN leases) <= MaxConcurrent
  /\ InUse(Cpu, leases) + Cpu[c] <= CpuCores
  /\ InUse(Mem, leases) + Mem[c] <= MemoryUnits

(* Mutant: the solver profiles in use are not looked at.                   *)
CanAdmitSharedSolver(c, leases, spent, held) ==
  /\ Cardinality(DOMAIN leases) < MaxConcurrent
  /\ InUse(Cpu, leases) + Cpu[c] <= CpuCores
  /\ InUse(Mem, leases) + Mem[c] <= MemoryUnits

(* Mutant: the quota is compared with measured use only.                   *)
CanAdmitUnreserved(c, leases, spent, held) ==
  /\ CanAdmitSharedSolver(c, leases, spent, held)
  /\ \A d \in Dim :
       (Quota[d] # None /\ Estimate[c][d] # None)
         => spent[d] + Estimate[c][d] <= Quota[d]

CanAdmit(c, leases, spent, held) ==
  /\ Cardinality(DOMAIN leases) < MaxConcurrent
  /\ InUse(Cpu, leases) + Cpu[c] <= CpuCores
  /\ InUse(Mem, leases) + Mem[c] <= MemoryUnits
  /\ Solver[c] # None => \A l \in DOMAIN leases : Solver[leases[l]] # Solver[c]
  /\ \A d \in Dim :
       (Quota[d] # None /\ Estimate[c][d] # None)
         => spent[d] + held[d] + Estimate[c][d] <= Quota[d]

PermanentlyRejected(c) ==
  \/ Cpu[c] > CpuCores
  \/ Mem[c] > MemoryUnits
  \/ \E d \in Dim :
       Quota[d] # None /\ Estimate[c][d] # None /\ Estimate[c][d] > Quota[d]

\* The campaign submit would admit now.
Admissible(c) == CanAdmit(c, active, used, reserved)

----------------------------------------------------------------------------

SchedInit ==
  /\ active = << >>
  /\ queue = << >>
  /\ used = [d \in Dim |-> 0]
  /\ reserved = [d \in Dim |-> 0]
  /\ nextLease = 1

SubmitRejected(c) ==
  /\ PermanentlyRejected(c)
  /\ UNCHANGED schedVars

(* A request that fits is admitted at once, whatever is already queued.    *)
SubmitAdmitted(c) ==
  /\ ~PermanentlyRejected(c)
  /\ Admissible(c)
  /\ active' = [l \in DOMAIN active \cup {nextLease} |->
                  IF l = nextLease THEN c ELSE active[l]]
  /\ reserved' = [d \in Dim |-> reserved[d] + Expected(d)[c]]
  /\ nextLease' = nextLease + 1
  /\ UNCHANGED <<queue, used>>

SubmitQueued(c) ==
  /\ ~PermanentlyRejected(c)
  /\ ~Admissible(c)
  /\ queue' = Append(queue, c)
  /\ UNCHANGED <<active, used, reserved, nextLease>>

(* The lease table once lease l is gone and the first k queued campaigns   *)
(* have been admitted, under consecutive lease numbers; and the            *)
(* reservation counters at that point.                                     *)
LeasesAfter(l, k) ==
  [m \in (DOMAIN active \ {l}) \cup (nextLease .. nextLease + k - 1) |->
     IF m < nextLease THEN active[m] ELSE queue[m - nextLease + 1]]

NewLeases(k) ==
  [m \in nextLease .. nextLease + k - 1 |-> queue[m - nextLease + 1]]

(* Mutant: the reservation of the released lease stays.                    *)
ReservedKept(l, k) ==
  [d \in Dim |-> reserved[d] + InUse(Expected(d), NewLeases(k))]

ReservedAfter(l, k) ==
  [d \in Dim |-> reserved[d] - Expected(d)[active[l]]
                   + InUse(Expected(d), NewLeases(k))]

(* Mutant: the queue is drained before the reservation is given back.      *)
ReleaseDrainsFirst(l, u, n) ==
  LET spent   == [d \in Dim |-> used[d] + u[d]]
      Fits(k) == CanAdmit(queue[k], LeasesAfter(l, k - 1), spent,
                          ReservedKept(l, k - 1))
  IN /\ l \in DOMAIN active
     /\ n \in 0 .. Len(queue)
     /\ \A k \in 1 .. n : Fits(k)
     /\ n < Len(queue) => ~Fits(n + 1)
     /\ active' = LeasesAfter(l, n)
     /\ reserved' = ReservedAfter(l, n)
     /\ used' = spent
     /\ queue' = SubSeq(queue, n + 1, Len(queue))
     /\ nextLease' = nextLease + n

(* release: give the lease back, account the measured usage u, then admit  *)
(* from the head of the queue until the head does not fit; n campaigns     *)
(* are admitted.  The loop's branch for a queued request that is           *)
(* permanently rejected is dead (QueueServable).                           *)
Release(l, u, n) ==
  LET spent   == [d \in Dim |-> used[d] + u[d]]
      Fits(k) == CanAdmit(queue[k], LeasesAfter(l, k - 1), spent,
                          ReservedAfter(l, k - 1))
  IN /\ l \in DOMAIN active
     /\ n \in 0 .. Len(queue)
     /\ \A k \in 1 .. n : Fits(k)
     /\ n < Len(queue) => ~Fits(n + 1)
     /\ active' = LeasesAfter(l, n)
     /\ reserved' = ReservedAfter(l, n)
     /\ used' = spent
     /\ queue' = SubSeq(queue, n + 1, Len(queue))
     /\ nextLease' = nextLease + n

(* cancel_queued: drop the first queue entry of the campaign.  Nothing is  *)
(* drained, even when the new head fits.                                   *)
CancelQueued(c) ==
  \E i \in 1 .. Len(queue) :
    /\ queue[i] = c
    /\ \A j \in 1 .. i - 1 : queue[j] # c
    /\ queue' = SubSeq(queue, 1, i - 1) \o SubSeq(queue, i + 1, Len(queue))
    /\ UNCHANGED <<active, used, reserved, nextLease>>

----------------------------------------------------------------------------

(* Any caller: submissions are bounded by MaxSubmissions, leases come back *)
(* in any order with any usage.                                            *)
Submit(c) == SubmitRejected(c) \/ SubmitAdmitted(c) \/ SubmitQueued(c)

SchedNext ==
  \/ \E c \in Campaign :
       nextLease + Len(queue) <= MaxSubmissions /\ Submit(c)
  \/ \E l \in DOMAIN active, u \in Usage, n \in 0 .. Len(queue) :
       Release(l, u, n)
  \/ \E c \in Campaign : CancelQueued(c)

SchedSpec == SchedInit /\ [][SchedNext]_schedVars

----------------------------------------------------------------------------

\* The shape of the scheduler's tables (resources.py:186-198).
TypeOK ==
  /\ nextLease \in Nat \ {0}
  /\ DOMAIN active \subseteq 1 .. nextLease - 1
  /\ active \in [DOMAIN active -> Campaign]
  /\ queue \in Seq(Campaign)
  /\ used \in [Dim -> Nat]
  /\ reserved \in [Dim -> Int]

(* The declared allocations of the running campaigns never exceed the      *)
(* worker's envelope: not when a submission races ahead of the queue, and  *)
(* not when one release admits several queued campaigns in a row.          *)
EnvelopeRespected ==
  /\ Cardinality(DOMAIN active) <= MaxConcurrent
  /\ InUse(Cpu, active) <= CpuCores
  /\ InUse(Mem, active) <= MemoryUnits

(* Two running campaigns never share a solver profile, also when both are  *)
(* admitted by the same release.                                           *)
SolverExclusive ==
  \A l, m \in DOMAIN active :
    (l # m /\ Solver[active[l]] # None) => Solver[active[l]] # Solver[active[m]]

(* The running campaigns fit together on the worker: in its envelope, and  *)
(* with one solver process per profile, whatever order of submissions,     *)
(* releases and cancellations granted them (resources.py:205, 226-238,     *)
(* 292-304).                                                               *)
LeasesFit == EnvelopeRespected /\ SolverExclusive

(* The incrementally maintained reservation counters equal the estimates   *)
(* of exactly the campaigns that hold a lease, so they never drift and     *)
(* never go negative over any sequence of calls.                           *)
ReservedExact == \A d \in Dim : reserved[d] = InUse(Expected(d), active)

(* Nothing that can never run waits in the queue, so the branch of release *)
(* that rejects a queued request (resources.py:226-230) is dead code.      *)
QueueServable == \A i \in DOMAIN queue : ~PermanentlyRejected(queue[i])

Granted == DOMAIN active' \ DOMAIN active

(* Every step that grants a lease with a declared estimate leaves measured *)
(* use plus outstanding reservations within the quota, also when usage     *)
(* reported above its estimate has already eaten into it.                  *)
AdmissionWithinQuota ==
  [][\A d \in Dim :
       (/\ Quota[d] # None
        /\ \E l \in Granted : Estimate[active'[l]][d] # None)
         => used'[d] + reserved'[d] <= Quota[d]]_schedVars

(* A lease number is never granted twice: a late release of an old lease   *)
(* can never give back the resources of another campaign.                  *)
LeasesAreFresh == [][\A l \in Granted : l >= nextLease]_schedVars
============================================================================
