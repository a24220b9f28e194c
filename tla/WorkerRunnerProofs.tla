------------------------- MODULE WorkerRunnerProofs -------------------------
(***************************************************************************)
(* Theorems about Scheduler, and about WorkerRunner that uses it, for      *)
(* every worker envelope, quota, plan, usage and resume policy, and any    *)
(* number of batches, crashes and failed appends.                          *)
(*                                                                         *)
(* The scheduler.  The arithmetic rests on one fact about lease tables:    *)
(* the resources two disjoint tables hold add up (InUseUnion).  Everything *)
(* else is the invariance of SchedInv, whose conjuncts need each other.    *)
(* The quota needs the last of several admissions (Greatest).              *)
(*                                                                         *)
(* The runner.  A campaign of a batch is in one place at a time: in a call *)
(* that run() has still to make, in the queue, or in a future.  The        *)
(* invariants say what is known of it in each place; a step takes one      *)
(* campaign from one place to another, and nothing known of the others     *)
(* changes.                                                                *)
(***************************************************************************)
EXTENDS WorkerRunner, FiniteSetTheorems, WellFoundedInduction, TLAPS

----------------------------------------------------------------------------
(* The scheduler                                                           *)

\* A finite lease table over the campaigns.
IsTable(leases) ==
  /\ IsFiniteSet(DOMAIN leases)
  /\ leases \in [DOMAIN leases -> Campaign]

\* A request field: what each campaign asks for.
IsLoad(load) == load \in [Campaign -> Nat]

\* A non-empty set of positions has a greatest member: the one nearest to the
\* end, by the well-foundedness of < on the distances.
LEMMA Greatest ==
  ASSUME NEW n \in Nat, NEW S, S \subseteq 1 .. n, S # {}
  PROVE  \E x \in S : \A y \in S : y <= x
<1> DEFINE R == {p \in Nat \X Nat : p[1] < p[2]}
           T == {n - y : y \in S}
<1>1. IsWellFoundedOn(R, Nat)
  BY NatLessThanWellFounded DEF OpToRel
<1>2. T \subseteq Nat /\ T # {}
  <2>1. \A y \in S : y \in Int /\ n - y \in Nat
    OBVIOUS
  <2>2. QED
    BY <2>1
<1>3. PICK t \in T : \A u \in T : ~(<<u, t>> \in R)
  <2> HIDE DEF R, T
  <2>1. QED
    BY <1>1, <1>2, WFMin
<1>4. PICK x \in S : t = n - x
  OBVIOUS
<1>5. \A y \in S : n - y \in T
  OBVIOUS
<1>6. \A y \in S : ~(n - y < n - x)
  <2> HIDE DEF T
  <2>1. QED
    BY <1>2, <1>3, <1>4, <1>5
<1>7. QED
  BY <1>6

----------------------------------------------------------------------------
(* Lease tables                                                            *)

\* The units of one lease are as many as its campaign asks for.
LEMMA LeaseUnits ==
  ASSUME NEW l, NEW n \in Nat
  PROVE  /\ IsFiniteSet({l} \X (1 .. n))
         /\ Cardinality({l} \X (1 .. n)) = n
<1>1. IsFiniteSet({l}) /\ Cardinality({l}) = 1
  BY FS_Singleton
<1>2. IsFiniteSet(1 .. n) /\ Cardinality(1 .. n) = n
  BY FS_Interval
<1>3. /\ IsFiniteSet({l} \X (1 .. n))
      /\ Cardinality({l} \X (1 .. n)) = Cardinality({l}) * Cardinality(1 .. n)
  BY <1>1, <1>2, FS_Product, Zenon
<1>4. Cardinality({l} \X (1 .. n)) = 1 * n
  BY <1>1, <1>2, <1>3, Zenon
<1>5. 1 * n = n
  OBVIOUS
<1>6. QED
  BY <1>3, <1>4, <1>5, Zenon

\* A finite table holds finitely many units.
LEMMA UnitsFinite ==
  ASSUME NEW load, IsLoad(load), NEW leases, IsTable(leases)
  PROVE  /\ IsFiniteSet(Units(load, leases))
         /\ InUse(load, leases) \in Nat
<1> DEFINE f == [l \in DOMAIN leases |-> {l} \X (1 .. load[leases[l]])]
           T == {{l} \X (1 .. load[leases[l]]) : l \in DOMAIN leases}
<1>1. f \in Surjection(DOMAIN leases, T)
  BY DEF Surjection
<1>2. IsFiniteSet(T)
  BY <1>1, FS_Surjection DEF IsTable
<1>3. \A S \in T : IsFiniteSet(S)
  <2> TAKE S \in T
  <2>1. PICK l \in DOMAIN leases : S = {l} \X (1 .. load[leases[l]])
    OBVIOUS
  <2>2. load[leases[l]] \in Nat
    BY DEF IsTable, IsLoad
  <2>3. QED
    BY <2>1, <2>2, LeaseUnits
<1>4. IsFiniteSet(Units(load, leases))
  BY <1>2, <1>3, FS_UNION DEF Units
<1>5. QED
  BY <1>4, FS_CardinalityType DEF InUse

\* Two tables with no lease in common hold what each of them holds.
LEMMA InUseUnion ==
  ASSUME NEW load, IsLoad(load),
         NEW A, IsTable(A), NEW B, IsTable(B), NEW C, IsTable(C),
         DOMAIN A \cap DOMAIN B = {},
         DOMAIN C = DOMAIN A \cup DOMAIN B,
         \A l \in DOMAIN A : C[l] = A[l],
         \A l \in DOMAIN B : C[l] = B[l]
  PROVE  InUse(load, C) = InUse(load, A) + InUse(load, B)
<1>1. Units(load, C) = Units(load, A) \cup Units(load, B)
  BY DEF Units
<1>2. Units(load, A) \cap Units(load, B) = {}
  BY DEF Units
<1>3. IsFiniteSet(Units(load, A)) /\ IsFiniteSet(Units(load, B))
  BY UnitsFinite
<1>4. Cardinality(Units(load, A) \cap Units(load, B)) = 0
  BY <1>2, FS_EmptySet
<1>5. /\ Cardinality(Units(load, A)) \in Nat
      /\ Cardinality(Units(load, B)) \in Nat
  BY <1>3, FS_CardinalityType
<1>6. Cardinality(Units(load, A) \cup Units(load, B))
        = Cardinality(Units(load, A)) + Cardinality(Units(load, B))
            - Cardinality(Units(load, A) \cap Units(load, B))
  BY <1>3, FS_Union, Zenon
<1>7. QED
  BY <1>1, <1>4, <1>5, <1>6 DEF InUse

\* Granting one more lease adds what its campaign asks for.
LEMMA InUseAdd ==
  ASSUME NEW load, IsLoad(load), NEW A, IsTable(A), NEW C, IsTable(C),
         NEW l, l \notin DOMAIN A, DOMAIN C = DOMAIN A \cup {l},
         \A m \in DOMAIN A : C[m] = A[m]
  PROVE  InUse(load, C) = InUse(load, A) + load[C[l]]
<1> DEFINE B == [m \in {l} |-> C[l]]
<1>1. IsTable(B)
  BY FS_Singleton DEF IsTable
<1>2. Units(load, B) = {l} \X (1 .. load[C[l]])
  BY DEF Units
<1>3. load[C[l]] \in Nat
  BY DEF IsTable, IsLoad
<1>4. Cardinality({l} \X (1 .. load[C[l]])) = load[C[l]]
  BY <1>3, LeaseUnits, Zenon
<1>5. InUse(load, B) = load[C[l]]
  BY <1>2, <1>4, Zenon DEF InUse
<1>6. InUse(load, C) = InUse(load, A) + InUse(load, B)
  BY <1>1, InUseUnion
<1>7. QED
  BY <1>5, <1>6

\* Taking leases away never increases what is held.
LEMMA InUseMonotone ==
  ASSUME NEW load, IsLoad(load), NEW A, IsTable(A), NEW C, IsTable(C),
         DOMAIN A \subseteq DOMAIN C,
         \A m \in DOMAIN A : C[m] = A[m]
  PROVE  InUse(load, A) <= InUse(load, C)
<1>1. Units(load, A) \subseteq Units(load, C)
  BY DEF Units
<1>2. IsFiniteSet(Units(load, C))
  BY UnitsFinite
<1>3. QED
  BY <1>1, <1>2, FS_Subset, Zenon DEF InUse

\* An empty table holds nothing.
LEMMA InUseEmpty ==
  ASSUME NEW load, NEW A, DOMAIN A = {}
  PROVE  InUse(load, A) = 0
<1>1. Units(load, A) = {}
  BY DEF Units
<1>2. QED
  BY <1>1, FS_EmptySet DEF InUse

----------------------------------------------------------------------------
(* The invariant                                                           *)

SchedInv ==
  /\ TypeOK
  /\ EnvelopeRespected
  /\ SolverExclusive
  /\ ReservedExact
  /\ QueueServable

\* The three kinds of load are loads.
LEMMA Loads ==
  /\ IsLoad(Cpu)
  /\ IsLoad(Mem)
  /\ \A d \in Dim : IsLoad(Expected(d))
BY RequestType DEF IsLoad, Expected, Amount

\* The lease table of a well-typed state is a table.
LEMMA ActiveIsTable ==
  ASSUME TypeOK PROVE IsTable(active)
<1>0. 1 \in Int /\ nextLease - 1 \in Int
  BY DEF TypeOK
<1>1. IsFiniteSet(1 .. nextLease - 1)
  BY <1>0, FS_Interval, Zenon
<1>2. IsFiniteSet(DOMAIN active)
  BY <1>1, FS_Subset, Zenon DEF TypeOK
<1>3. QED
  BY <1>2 DEF IsTable, TypeOK

\* The empty worker satisfies the invariant.
LEMMA InitSchedInv == SchedInit => SchedInv
<1> SUFFICES ASSUME SchedInit PROVE SchedInv
  OBVIOUS
<1> USE DEF SchedInit
<1>1. DOMAIN active = {}
  OBVIOUS
<1>2. TypeOK
  BY DEF TypeOK
<1>3. EnvelopeRespected
  BY <1>1, InUseEmpty, FS_EmptySet, EnvelopePositive DEF EnvelopeRespected
<1>4. SolverExclusive
  BY <1>1 DEF SolverExclusive
<1>5. ReservedExact
  <2>1. \A d \in Dim : reserved[d] = 0
    OBVIOUS
  <2>2. QED
    BY <1>1, <2>1, InUseEmpty DEF ReservedExact
<1>6. QueueServable
  BY DEF QueueServable
<1>7. QED
  BY <1>2, <1>3, <1>4, <1>5, <1>6 DEF SchedInv
----------------------------------------------------------------------------
(* Granting one lease                                                      *)

\* A campaign that CanAdmit accepts may be granted a lease: the grown table
\* still fits the envelope and still keeps solver profiles apart.
LEMMA GrantKeepsEnvelope ==
  ASSUME NEW A, IsTable(A), NEW C, IsTable(C), NEW c \in Campaign,
         NEW l, l \notin DOMAIN A, DOMAIN C = DOMAIN A \cup {l}, C[l] = c,
         \A m \in DOMAIN A : C[m] = A[m],
         NEW spent, NEW held, CanAdmit(c, A, spent, held)
  PROVE  /\ Cardinality(DOMAIN C) <= MaxConcurrent
         /\ InUse(Cpu, C) <= CpuCores
         /\ InUse(Mem, C) <= MemoryUnits
<1>1. /\ Cardinality(DOMAIN C) = Cardinality(DOMAIN A) + 1
      /\ Cardinality(DOMAIN A) \in Nat
  BY FS_AddElement, FS_CardinalityType, Zenon DEF IsTable
<1>2. InUse(Cpu, C) = InUse(Cpu, A) + Cpu[C[l]]
  BY InUseAdd, Loads
<1>3. InUse(Mem, C) = InUse(Mem, A) + Mem[C[l]]
  BY InUseAdd, Loads
<1>4. QED
  BY <1>1, <1>2, <1>3, EnvelopePositive DEF CanAdmit

\* The table of a release after k admissions is a table, it grows by one
\* lease with each admission, and it starts from the table without l.
LEMMA TableAfter ==
  ASSUME TypeOK, NEW l \in DOMAIN active, NEW k \in 0 .. Len(queue)
  PROVE  /\ IsTable(LeasesAfter(l, k))
         /\ IsTable(NewLeases(k))
         /\ DOMAIN LeasesAfter(l, k) \subseteq 1 .. nextLease + k - 1
<1> USE DEF TypeOK
<1>1. /\ nextLease - 1 \in Int /\ nextLease \in Int
      /\ nextLease + k - 1 \in Int
  OBVIOUS
<1>2. IsFiniteSet(nextLease .. nextLease + k - 1)
  BY <1>1, FS_Interval, Zenon
<1>3. IsFiniteSet((DOMAIN active \ {l}) \cup (nextLease .. nextLease + k - 1))
  <2>1. IsFiniteSet(DOMAIN active \ {l})
    BY ActiveIsTable, FS_Difference, Zenon DEF IsTable
  <2>2. QED
    BY <1>2, <2>1, FS_Union, Zenon
<1>4. \A m \in nextLease .. nextLease + k - 1 :
        /\ m \notin DOMAIN active
        /\ ~(m < nextLease)
        /\ queue[m - nextLease + 1] \in Campaign
  OBVIOUS
<1>5. \A m \in DOMAIN active : m < nextLease /\ active[m] \in Campaign
  OBVIOUS
<1>6. IsTable(LeasesAfter(l, k))
  BY <1>3, <1>4, <1>5 DEF IsTable, LeasesAfter
<1>7. IsTable(NewLeases(k))
  BY <1>2, <1>4 DEF IsTable, NewLeases
<1>8. QED
  BY <1>6, <1>7 DEF LeasesAfter

\* The k-th admission of a release adds the k-th queued campaign.
LEMMA TableGrows ==
  ASSUME TypeOK, NEW l \in DOMAIN active, NEW k \in 1 .. Len(queue)
  PROVE  \E new :
         /\ new \notin DOMAIN LeasesAfter(l, k - 1)
         /\ DOMAIN LeasesAfter(l, k) = DOMAIN LeasesAfter(l, k - 1) \cup {new}
         /\ LeasesAfter(l, k)[new] = queue[k]
         /\ \A m \in DOMAIN LeasesAfter(l, k - 1) :
              LeasesAfter(l, k)[m] = LeasesAfter(l, k - 1)[m]
<1> USE DEF TypeOK
<1>0. PICK new : new = nextLease + k - 1
  OBVIOUS
<1> USE <1>0
<1> DEFINE D(j) == (DOMAIN active \ {l}) \cup (nextLease .. nextLease + j - 1)
<1>1. /\ new \notin D(k - 1)
      /\ D(k) = D(k - 1) \cup {new}
  <2>1. k \in Nat \ {0} /\ nextLease \in Nat \ {0}
    OBVIOUS
  <2>2. nextLease .. nextLease + k - 1
          = (nextLease .. nextLease + (k - 1) - 1) \cup {new}
    BY <2>1, SMTT(30)
  <2>3. new \notin DOMAIN active
    BY <2>1
  <2>4. new \notin nextLease .. nextLease + (k - 1) - 1
    BY <2>1
  <2>5. QED
    BY <2>2, <2>3, <2>4, Zenon
<1>2. /\ DOMAIN LeasesAfter(l, k) = D(k)
      /\ DOMAIN LeasesAfter(l, k - 1) = D(k - 1)
  BY DEF LeasesAfter
<1>3. LeasesAfter(l, k)[new] = queue[k]
  <2>1. new \in D(k) /\ ~(new < nextLease) /\ new - nextLease + 1 = k
    OBVIOUS
  <2>2. QED
    BY <2>1, Zenon DEF LeasesAfter
<1>4. \A m \in D(k - 1) : LeasesAfter(l, k)[m] = LeasesAfter(l, k - 1)[m]
  <2>1. D(k - 1) \subseteq D(k)
    BY <1>1
  <2>2. QED
    BY <2>1 DEF LeasesAfter
<1>5. QED
  BY <1>1, <1>2, <1>3, <1>4

\* What is left of the active table when l is released.
LEMMA TableShrinks ==
  ASSUME TypeOK, NEW l \in DOMAIN active
  PROVE  /\ DOMAIN LeasesAfter(l, 0) = DOMAIN active \ {l}
         /\ \A m \in DOMAIN active \ {l} : LeasesAfter(l, 0)[m] = active[m]
BY DEF TypeOK, LeasesAfter
----------------------------------------------------------------------------
(* One step per method of the scheduler                                    *)

\* A submission keeps the invariant, also when it overtakes the queue.
LEMMA SubmitInv ==
  ASSUME SchedInv, NEW c \in Campaign, Submit(c)
  PROVE  SchedInv'
<1> USE DEF SchedInv
<1>1. CASE SubmitRejected(c)
  BY <1>1 DEF SubmitRejected, schedVars, TypeOK, EnvelopeRespected,
              SolverExclusive, ReservedExact, QueueServable
<1>2. CASE SubmitQueued(c)
  <2> USE <1>2 DEF SubmitQueued
  <2>1. TypeOK'
    BY DEF TypeOK
  <2>2. EnvelopeRespected' /\ SolverExclusive' /\ ReservedExact'
    BY DEF EnvelopeRespected, SolverExclusive, ReservedExact
  <2>3. QueueServable'
    <3>1. \A i \in DOMAIN queue' : queue'[i] = c \/ (i \in DOMAIN queue /\ queue'[i] = queue[i])
      BY DEF TypeOK
    <3>2. QED
      BY <3>1 DEF QueueServable
  <2>4. QED
    BY <2>1, <2>2, <2>3
<1>3. CASE SubmitAdmitted(c)
  <2> USE <1>3 DEF SubmitAdmitted
  <2>1. /\ nextLease \notin DOMAIN active
        /\ DOMAIN active' = DOMAIN active \cup {nextLease}
        /\ active'[nextLease] = c
        /\ \A m \in DOMAIN active : active'[m] = active[m]
    BY DEF TypeOK
  <2>2. IsTable(active)
    BY ActiveIsTable
  <2>3. TypeOK'
    <3>1. active' \in [DOMAIN active' -> Campaign]
      BY <2>1 DEF TypeOK
    <3>2. DOMAIN active' \subseteq 1 .. nextLease' - 1
      BY <2>1 DEF TypeOK
    <3>3. reserved' \in [Dim -> Int]
      BY Loads DEF TypeOK, IsLoad
    <3>4. QED
      BY <3>1, <3>2, <3>3 DEF TypeOK
  <2>4. IsTable(active')
    <3>1. IsFiniteSet(DOMAIN active')
      BY <2>1, <2>2, FS_AddElement, Zenon DEF IsTable
    <3>2. QED
      BY <2>3, <3>1 DEF IsTable, TypeOK
  <2>5. CanAdmit(c, active, used, reserved)
    BY DEF Admissible
  <2>6. EnvelopeRespected'
    BY <2>1, <2>2, <2>4, <2>5, GrantKeepsEnvelope DEF EnvelopeRespected
  <2>7. SolverExclusive'
    BY <2>1, <2>5 DEF SolverExclusive, CanAdmit
  <2>8. ReservedExact'
    <3>1. ASSUME NEW d \in Dim
          PROVE  InUse(Expected(d), active') = InUse(Expected(d), active) + Expected(d)[c]
      BY <2>1, <2>2, <2>4, Loads, InUseAdd
    <3>2. QED
      BY <3>1 DEF ReservedExact
  <2>9. QueueServable'
    BY DEF QueueServable
  <2>10. QED
    BY <2>3, <2>6, <2>7, <2>8, <2>9
<1>4. QED
  BY <1>1, <1>2, <1>3 DEF Submit

\* A release keeps the invariant, however many queued campaigns it admits.
LEMMA ReleaseInv ==
  ASSUME SchedInv, NEW l \in DOMAIN active, NEW u \in [Dim -> Nat],
         NEW n \in 0 .. Len(queue), Release(l, u, n)
  PROVE  SchedInv'
<1> USE DEF SchedInv
<1> DEFINE spent == [d \in Dim |-> used[d] + u[d]]
<1>1. /\ active' = LeasesAfter(l, n)
      /\ reserved' = ReservedAfter(l, n)
      /\ used' = spent
      /\ queue' = SubSeq(queue, n + 1, Len(queue))
      /\ nextLease' = nextLease + n
  BY DEF Release
<1>2. \A k \in 1 .. n : CanAdmit(queue[k], LeasesAfter(l, k - 1), spent,
                                 ReservedAfter(l, k - 1))
  BY DEF Release
<1>3. \A k \in 0 .. n : IsTable(LeasesAfter(l, k))
  BY TableAfter DEF TypeOK
<1>4. IsTable(active) /\ IsTable(NewLeases(n))
  BY ActiveIsTable, TableAfter
<1>5. /\ DOMAIN LeasesAfter(l, 0) = DOMAIN active \ {l}
      /\ \A m \in DOMAIN active \ {l} : LeasesAfter(l, 0)[m] = active[m]
  BY TableShrinks
<1>6. TypeOK'
  <2>1. DOMAIN active' \subseteq 1 .. nextLease' - 1
    <3>1. DOMAIN LeasesAfter(l, n) \subseteq 1 .. nextLease + n - 1
      BY TableAfter
    <3>2. DOMAIN active' = DOMAIN LeasesAfter(l, n)
      BY <1>1
    <3>3. nextLease' - 1 = nextLease + n - 1
      BY <1>1 DEF TypeOK
    <3>4. QED
      BY <3>1, <3>2, <3>3, Zenon
  <2>2. active' \in [DOMAIN active' -> Campaign]
    BY <1>1, <1>3 DEF IsTable
  <2>3. reserved' \in [Dim -> Int]
    <3>1. \A d \in Dim : /\ InUse(Expected(d), NewLeases(n)) \in Nat
                         /\ Expected(d)[active[l]] \in Nat
      BY <1>4, Loads, UnitsFinite DEF IsLoad, TypeOK
    <3>2. QED
      BY <1>1, <3>1, SMTT(30) DEF ReservedAfter, TypeOK
  <2>4. used' \in [Dim -> Nat]
    BY <1>1 DEF TypeOK
  <2>5. queue' \in Seq(Campaign)
    BY <1>1 DEF TypeOK
  <2>6. nextLease' \in Nat \ {0}
    BY <1>1 DEF TypeOK
  <2>7. QED
    BY <2>1, <2>2, <2>3, <2>4, <2>5, <2>6 DEF TypeOK
<1>7. EnvelopeRespected'
  <2>1. CASE n = 0
    <3>1. /\ DOMAIN LeasesAfter(l, 0) \subseteq DOMAIN active
          /\ \A m \in DOMAIN LeasesAfter(l, 0) : LeasesAfter(l, 0)[m] = active[m]
      BY <1>5
    <3>2. /\ IsTable(LeasesAfter(l, 0))
          /\ Cardinality(DOMAIN LeasesAfter(l, 0)) \in Nat
      BY <1>3, FS_CardinalityType DEF IsTable
    <3>3. Cardinality(DOMAIN LeasesAfter(l, 0)) <= Cardinality(DOMAIN active)
      BY <1>4, <3>1, FS_Subset, Zenon DEF IsTable
    <3>4. /\ InUse(Cpu, LeasesAfter(l, 0)) <= InUse(Cpu, active)
          /\ InUse(Mem, LeasesAfter(l, 0)) <= InUse(Mem, active)
      BY <1>4, <3>1, <3>2, Loads, InUseMonotone
    <3>5. /\ InUse(Cpu, LeasesAfter(l, 0)) \in Nat /\ InUse(Cpu, active) \in Nat
          /\ InUse(Mem, LeasesAfter(l, 0)) \in Nat /\ InUse(Mem, active) \in Nat
      BY <1>4, <3>2, Loads, UnitsFinite
    <3>6. Cardinality(DOMAIN active) \in Nat
      BY <1>4, FS_CardinalityType DEF IsTable
    <3>7. QED
      BY <1>1, <2>1, <3>2, <3>3, <3>4, <3>5, <3>6, EnvelopePositive DEF EnvelopeRespected
  <2>2. CASE n # 0
    <3>1. /\ n \in 1 .. Len(queue) /\ n \in 1 .. n /\ n \in 0 .. n /\ n - 1 \in 0 .. n
          /\ queue[n] \in Campaign
      BY <2>2 DEF TypeOK
    <3>2. CanAdmit(queue[n], LeasesAfter(l, n - 1), spent, ReservedAfter(l, n - 1))
      BY <1>2, <3>1
    <3>3. IsTable(LeasesAfter(l, n)) /\ IsTable(LeasesAfter(l, n - 1))
      BY <1>3, <3>1
    <3> HIDE DEF spent
    <3>4. TypeOK
      OBVIOUS
    <3>5. PICK new :
            /\ new \notin DOMAIN LeasesAfter(l, n - 1)
            /\ DOMAIN LeasesAfter(l, n) = DOMAIN LeasesAfter(l, n - 1) \cup {new}
            /\ LeasesAfter(l, n)[new] = queue[n]
            /\ \A m \in DOMAIN LeasesAfter(l, n - 1) :
                 LeasesAfter(l, n)[m] = LeasesAfter(l, n - 1)[m]
      BY <3>1, <3>4, TableGrows, ZenonT(30)
    <3>6. /\ Cardinality(DOMAIN LeasesAfter(l, n)) <= MaxConcurrent
          /\ InUse(Cpu, LeasesAfter(l, n)) <= CpuCores
          /\ InUse(Mem, LeasesAfter(l, n)) <= MemoryUnits
      BY <3>1, <3>2, <3>3, <3>5, GrantKeepsEnvelope, Zenon
    <3>7. QED
      BY <1>1, <3>6 DEF EnvelopeRespected
  <2>3. QED
    BY <2>1, <2>2
<1>8. SolverExclusive'
  <2>1. ASSUME NEW i \in DOMAIN active', NEW j \in DOMAIN active', i < j,
               Solver[active'[j]] # None
        PROVE  Solver[active'[i]] # Solver[active'[j]]
    <3>1. CASE j < nextLease
      BY <1>1, <2>1, <3>1 DEF LeasesAfter, SolverExclusive, TypeOK
    <3>2. CASE ~(j < nextLease)
      <4> DEFINE k == j - nextLease + 1
      <4>1. k \in 1 .. n /\ active'[j] = queue[k]
        BY <1>1, <2>1, <3>2 DEF LeasesAfter, TypeOK
      <4>2. i \in DOMAIN LeasesAfter(l, k - 1) /\ LeasesAfter(l, k - 1)[i] = active'[i]
        <5>1. i \in (DOMAIN active \ {l}) \cup (nextLease .. nextLease + n - 1)
          BY <1>1 DEF LeasesAfter
        <5>2. i \in Int /\ j \in Int /\ nextLease \in Int
          BY <1>1, <5>1 DEF LeasesAfter, TypeOK
        <5>3. i \in (DOMAIN active \ {l}) \cup (nextLease .. nextLease + (k - 1) - 1)
          BY <2>1, <5>1, <5>2
        <5>4. QED
          BY <1>1, <5>1, <5>3, Zenon DEF LeasesAfter
      <4>3. CanAdmit(queue[k], LeasesAfter(l, k - 1), spent, ReservedAfter(l, k - 1))
        BY <1>2, <4>1
      <4>4. QED
        BY <2>1, <4>1, <4>2, <4>3 DEF CanAdmit
    <3>3. QED
      BY <3>1, <3>2
  <2>2. \A i \in DOMAIN active' : i \in Int
    BY <1>6 DEF TypeOK
  <2>3. QED
    BY <2>1, <2>2 DEF SolverExclusive
<1>9. ReservedExact'
  <2>1. ASSUME NEW d \in Dim
        PROVE  reserved'[d] = InUse(Expected(d), active')
    <3>1. IsLoad(Expected(d))
      BY Loads
    <3>2. IsTable(LeasesAfter(l, 0)) /\ IsTable(LeasesAfter(l, n))
      BY <1>3
    <3>3. InUse(Expected(d), active)
            = InUse(Expected(d), LeasesAfter(l, 0)) + Expected(d)[active[l]]
      BY <1>4, <1>5, <3>1, <3>2, InUseAdd
    <3>4. /\ DOMAIN LeasesAfter(l, 0) \cap DOMAIN NewLeases(n) = {}
          /\ DOMAIN LeasesAfter(l, n) = DOMAIN LeasesAfter(l, 0) \cup DOMAIN NewLeases(n)
          /\ \A m \in DOMAIN LeasesAfter(l, 0) :
               LeasesAfter(l, n)[m] = LeasesAfter(l, 0)[m]
          /\ \A m \in DOMAIN NewLeases(n) : LeasesAfter(l, n)[m] = NewLeases(n)[m]
      BY <1>5, SMTT(30) DEF LeasesAfter, NewLeases, TypeOK
    <3>5. InUse(Expected(d), LeasesAfter(l, n))
            = InUse(Expected(d), LeasesAfter(l, 0)) + InUse(Expected(d), NewLeases(n))
      BY <1>4, <3>1, <3>2, <3>4, InUseUnion, ZenonT(60)
    <3>6. /\ InUse(Expected(d), LeasesAfter(l, 0)) \in Nat
          /\ InUse(Expected(d), NewLeases(n)) \in Nat
          /\ Expected(d)[active[l]] \in Nat
      BY <1>4, <3>1, <3>2, UnitsFinite DEF IsLoad, TypeOK
    <3>7. reserved[d] = InUse(Expected(d), active)
      BY DEF ReservedExact
    <3>8. reserved'[d] = reserved[d] - Expected(d)[active[l]]
                           + InUse(Expected(d), NewLeases(n))
      BY <1>1 DEF ReservedAfter
    <3>9. QED
      BY <1>1, <3>3, <3>5, <3>6, <3>7, <3>8
  <2>2. QED
    BY <2>1 DEF ReservedExact
<1>10. QueueServable'
  BY <1>1 DEF QueueServable, TypeOK
<1>11. QED
  BY <1>6, <1>7, <1>8, <1>9, <1>10

\* Cancelling keeps the invariant.
LEMMA CancelInv ==
  ASSUME SchedInv, NEW c \in Campaign, CancelQueued(c)
  PROVE  SchedInv'
<1> USE DEF SchedInv
<1>1. PICK i \in 1 .. Len(queue) :
        queue' = SubSeq(queue, 1, i - 1) \o SubSeq(queue, i + 1, Len(queue))
  BY DEF CancelQueued
<1>2. UNCHANGED <<active, used, reserved, nextLease>>
  BY DEF CancelQueued
<1>3. /\ SubSeq(queue, 1, i - 1) \in Seq(Campaign)
      /\ SubSeq(queue, i + 1, Len(queue)) \in Seq(Campaign)
  BY DEF TypeOK
<1>4. TypeOK'
  BY <1>1, <1>2, <1>3 DEF TypeOK
<1>5. EnvelopeRespected' /\ SolverExclusive' /\ ReservedExact'
  BY <1>2 DEF EnvelopeRespected, SolverExclusive, ReservedExact
<1>6. QueueServable'
  <2> DEFINE head == SubSeq(queue, 1, i - 1)
             tail == SubSeq(queue, i + 1, Len(queue))
  <2>1. \A k \in DOMAIN queue' : \E m \in DOMAIN queue : queue'[k] = queue[m]
    <3>1. \A k \in DOMAIN head : \E m \in DOMAIN queue : head[k] = queue[m]
      BY DEF TypeOK
    <3>2. \A k \in DOMAIN tail : \E m \in DOMAIN queue : tail[k] = queue[m]
      BY DEF TypeOK
    <3>3. queue' = head \o tail
      BY <1>1
    <3> HIDE DEF head, tail
    <3>4. head \in Seq(Campaign) /\ tail \in Seq(Campaign)
      BY <1>3 DEF head, tail
    <3>5. \A k \in DOMAIN (head \o tail) :
            \/ k \in DOMAIN head /\ (head \o tail)[k] = head[k]
            \/ k - Len(head) \in DOMAIN tail /\ (head \o tail)[k] = tail[k - Len(head)]
      BY <3>4
    <3>6. QED
      BY <3>1, <3>2, <3>3, <3>5
  <2>2. QED
    BY <2>1 DEF QueueServable
<1>7. QED
  BY <1>4, <1>5, <1>6

----------------------------------------------------------------------------
(* The theorems                                                            *)

\* Every step of the scheduler keeps the invariant.
LEMMA SchedStep == SchedInv /\ [SchedNext]_schedVars => SchedInv'
<1> SUFFICES ASSUME SchedInv, [SchedNext]_schedVars PROVE SchedInv'
  OBVIOUS
<1>1. CASE UNCHANGED schedVars
  BY <1>1 DEF schedVars, SchedInv, TypeOK, EnvelopeRespected, SolverExclusive,
              ReservedExact, QueueServable
<1>2. CASE \E c \in Campaign : Submit(c)
  BY <1>2, SubmitInv
<1>3. CASE \E l \in DOMAIN active, u \in Usage, n \in 0 .. Len(queue) : Release(l, u, n)
  BY <1>3, ReleaseInv, UsageType
<1>4. CASE \E c \in Campaign : CancelQueued(c)
  BY <1>4, CancelInv
<1>5. QED
  BY <1>1, <1>2, <1>3, <1>4 DEF SchedNext

\* The invariant holds throughout every behaviour of the scheduler.
THEOREM SchedInvariant == SchedSpec => []SchedInv
<1>1. SchedInit => SchedInv
  BY InitSchedInv
<1>2. SchedInv /\ [SchedNext]_schedVars => SchedInv'
  BY SchedStep
<1>3. QED
  BY <1>1, <1>2, PTL DEF SchedSpec

\* The scheduler's tables keep their shape (resources.py:186-198).
THEOREM SchedTypeCorrect == SchedSpec => []TypeOK
<1>1. SchedInv => TypeOK
  BY DEF SchedInv
<1>2. QED
  BY <1>1, SchedInvariant, PTL

\* The running campaigns never declare more than the worker has
\* (the checks of _can_admit, resources.py:295-303).
THEOREM EnvelopeSafety == SchedSpec => []EnvelopeRespected
<1>1. SchedInv => EnvelopeRespected
  BY DEF SchedInv
<1>2. QED
  BY <1>1, SchedInvariant, PTL

\* One solver process per profile (resources.py:303-304).
THEOREM SolverSafety == SchedSpec => []SolverExclusive
<1>1. SchedInv => SolverExclusive
  BY DEF SchedInv
<1>2. QED
  BY <1>1, SchedInvariant, PTL

\* Together: the running campaigns fit on the worker (resources.py:292-304).
THEOREM LeaseSafety == SchedSpec => []LeasesFit
<1>1. EnvelopeRespected /\ SolverExclusive => LeasesFit
  BY DEF LeasesFit
<1>2. QED
  BY <1>1, EnvelopeSafety, SolverSafety, PTL

\* The reservation counters never drift (resources.py:348-356).
THEOREM ReservationExactness == SchedSpec => []ReservedExact
<1>1. SchedInv => ReservedExact
  BY DEF SchedInv
<1>2. QED
  BY <1>1, SchedInvariant, PTL

\* The rejection branch inside release is dead (resources.py:226-230).
THEOREM QueueNeverRejects == SchedSpec => []QueueServable
<1>1. SchedInv => QueueServable
  BY DEF SchedInv
<1>2. QED
  BY <1>1, SchedInvariant, PTL

\* A lease number is never granted twice (_admit, resources.py:288-293).
THEOREM LeaseNumbersAreFresh == SchedSpec => LeasesAreFresh
<1> DEFINE Numbered == \A l \in Granted : l >= nextLease
<1>1. SchedInv /\ [SchedNext]_schedVars => [Numbered]_schedVars
  <2> SUFFICES ASSUME SchedInv, SchedNext PROVE Numbered
    OBVIOUS
  <2>1. CASE \E c \in Campaign : Submit(c) \/ CancelQueued(c)
    BY <2>1 DEF Submit, SubmitRejected, SubmitAdmitted, SubmitQueued,
                CancelQueued, schedVars, Granted, SchedInv, TypeOK
  <2>2. CASE \E l \in DOMAIN active, u \in Usage, n \in 0 .. Len(queue) : Release(l, u, n)
    BY <2>2 DEF Release, LeasesAfter, Granted, SchedInv, TypeOK
  <2>3. QED
    BY <2>1, <2>2 DEF SchedNext
<1>2. QED
  BY <1>1, SchedInvariant, PTL DEF SchedSpec, LeasesAreFresh

\* The k-th new lease of a release adds what the k-th queued campaign asks for.
LEMMA NewLeasesGrow ==
  ASSUME TypeOK, NEW load, IsLoad(load), NEW k \in 1 .. Len(queue),
         IsTable(NewLeases(k - 1)), IsTable(NewLeases(k))
  PROVE  InUse(load, NewLeases(k)) = InUse(load, NewLeases(k - 1)) + load[queue[k]]
<1>1. PICK new : new = nextLease + k - 1
  OBVIOUS
<1>2. /\ DOMAIN NewLeases(k) = nextLease .. nextLease + k - 1
      /\ DOMAIN NewLeases(k - 1) = nextLease .. nextLease + (k - 1) - 1
  BY DEF NewLeases
<1>3. /\ new \notin nextLease .. nextLease + (k - 1) - 1
      /\ nextLease .. nextLease + k - 1
           = (nextLease .. nextLease + (k - 1) - 1) \cup {new}
      /\ new \in nextLease .. nextLease + k - 1
      /\ new - nextLease + 1 = k
  BY <1>1 DEF TypeOK
<1>4. \A m \in DOMAIN NewLeases(k - 1) : NewLeases(k)[m] = NewLeases(k - 1)[m]
  BY <1>3, Zenon DEF NewLeases
<1>5. NewLeases(k)[new] = queue[k]
  BY <1>3, Zenon DEF NewLeases
<1>6. /\ new \notin DOMAIN NewLeases(k - 1)
      /\ DOMAIN NewLeases(k) = DOMAIN NewLeases(k - 1) \cup {new}
  BY <1>2, <1>3, Zenon
<1>7. InUse(load, NewLeases(k))
        = InUse(load, NewLeases(k - 1)) + load[NewLeases(k)[new]]
  <2> DEFINE A == NewLeases(k - 1)
             C == NewLeases(k)
  <2>1. \A m \in DOMAIN A : C[m] = A[m]
    BY <1>4
  <2>2. new \notin DOMAIN A /\ DOMAIN C = DOMAIN A \cup {new}
    BY <1>6
  <2>3. IsTable(A) /\ IsTable(C)
    OBVIOUS
  <2> HIDE DEF A, C
  <2>4. InUse(load, C) = InUse(load, A) + load[C[new]]
    BY <2>1, <2>2, <2>3, InUseAdd
  <2>5. QED
    BY <2>4 DEF A, C
<1>8. QED
  BY <1>5, <1>7

\* The reservations of the first n admitted campaigns, when from the k-th on
\* only the k-th has an estimate.
LEMMA ReservedUpTo ==
  ASSUME TypeOK, NEW l \in DOMAIN active, NEW d \in Dim,
         NEW n \in 0 .. Len(queue), NEW k \in 1 .. n,
         \A j \in k + 1 .. n : Expected(d)[queue[j]] = 0
  PROVE  ReservedAfter(l, n)[d]
           = ReservedAfter(l, k - 1)[d] + Expected(d)[queue[k]]
<1> USE DEF TypeOK
<1> DEFINE asked == Expected(d)
<1>1. IsLoad(asked)
  BY Loads
<1>2. k \in 1 .. Len(queue) /\ k \in 0 .. Len(queue) /\ k - 1 \in 0 .. Len(queue)
  OBVIOUS
<1>3. /\ IsTable(NewLeases(k - 1))
      /\ IsTable(NewLeases(k))
  BY <1>2, TableAfter
<1>4. InUse(asked, NewLeases(k)) = InUse(asked, NewLeases(k - 1)) + asked[queue[k]]
  <2> HIDE DEF asked
  <2> QED
    BY <1>1, <1>2, <1>3, NewLeasesGrow
<1>5. Units(asked, NewLeases(n)) = Units(asked, NewLeases(k))
  <2>1. /\ DOMAIN NewLeases(k) \subseteq DOMAIN NewLeases(n)
        /\ \A m \in DOMAIN NewLeases(k) : NewLeases(n)[m] = NewLeases(k)[m]
    BY SMTT(30) DEF NewLeases
  <2>2. \A m \in DOMAIN NewLeases(n) \ DOMAIN NewLeases(k) :
          asked[NewLeases(n)[m]] = 0
    <3>1. \A m \in DOMAIN NewLeases(n) \ DOMAIN NewLeases(k) :
            m - nextLease + 1 \in k + 1 .. n /\ NewLeases(n)[m] = queue[m - nextLease + 1]
      BY DEF NewLeases
    <3> HIDE DEF asked
    <3>2. \A j \in k + 1 .. n : asked[queue[j]] = 0
      BY DEF asked
    <3>3. QED
      BY <3>1, <3>2
  <2>3. \A i : i \notin 1 .. 0
    OBVIOUS
  <2> HIDE DEF asked
  <2>4. QED
    BY <2>1, <2>2, <2>3 DEF Units
<1>6. InUse(asked, NewLeases(n)) = InUse(asked, NewLeases(k))
  BY <1>5, Zenon DEF InUse
<1>7. /\ InUse(asked, NewLeases(k - 1)) \in Nat
      /\ asked[queue[k]] \in Nat /\ asked[active[l]] \in Nat
  <2>1. queue[k] \in Campaign /\ active[l] \in Campaign
    BY <1>2
  <2> HIDE DEF asked
  <2>2. QED
    BY <1>1, <1>3, <2>1, UnitsFinite DEF IsLoad
<1>8. /\ ReservedAfter(l, n)[d] = reserved[d] - asked[active[l]] + InUse(asked, NewLeases(n))
      /\ ReservedAfter(l, k - 1)[d]
           = reserved[d] - asked[active[l]] + InUse(asked, NewLeases(k - 1))
  BY DEF ReservedAfter
<1>9. reserved[d] \in Int
  OBVIOUS
<1> HIDE DEF asked
<1>10. ReservedAfter(l, n)[d] = ReservedAfter(l, k - 1)[d] + asked[queue[k]]
  BY <1>4, <1>6, <1>7, <1>8, <1>9, SMTT(30)
<1>11. QED
  BY <1>10 DEF asked

\* A granted lease with an estimate leaves the quota respected, also after
\* the other admissions of the same release (resources.py:295-346).
THEOREM GrantsKeepQuota == SchedSpec => AdmissionWithinQuota
<1> DEFINE Within ==
      \A d \in Dim :
        (/\ Quota[d] # None
         /\ \E l \in Granted : Estimate[active'[l]][d] # None)
          => used'[d] + reserved'[d] <= Quota[d]
<1>1. SchedInv /\ [SchedNext]_schedVars => [Within]_schedVars
  <2> SUFFICES ASSUME SchedInv, SchedNext, NEW d \in Dim, Quota[d] # None,
                      NEW g \in Granted, Estimate[active'[g]][d] # None
               PROVE  used'[d] + reserved'[d] <= Quota[d]
    OBVIOUS
  <2> USE DEF SchedInv
  <2>1. CASE \E c \in Campaign : Submit(c) \/ CancelQueued(c)
    <3>1. PICK c \in Campaign : SubmitAdmitted(c)
      BY <2>1 DEF Submit, SubmitRejected, SubmitQueued, CancelQueued, schedVars, Granted
    <3>2. active'[g] = c
      BY <3>1 DEF SubmitAdmitted, Granted, TypeOK
    <3>3. used[d] + reserved[d] + Estimate[c][d] <= Quota[d]
      BY <3>1, <3>2 DEF SubmitAdmitted, Admissible, CanAdmit
    <3>4. used'[d] = used[d] /\ reserved'[d] = reserved[d] + Estimate[c][d]
      BY <3>1, <3>2 DEF SubmitAdmitted, Expected, Amount
    <3>5. used[d] \in Nat /\ reserved[d] \in Int /\ Estimate[c][d] \in Nat
      BY <3>2, RequestType DEF TypeOK
    <3>6. Quota[d] \in Nat
      BY QuotaType
    <3>7. QED
      BY <3>3, <3>4, <3>5, <3>6
  <2>2. CASE \E l \in DOMAIN active, u \in Usage, n \in 0 .. Len(queue) : Release(l, u, n)
    <3>1. PICK l \in DOMAIN active, u \in Usage, n \in 0 .. Len(queue) : Release(l, u, n)
      BY <2>2
    <3> DEFINE spent == [e \in Dim |-> used[e] + u[e]]
               K == {k \in 1 .. n : Estimate[queue[k]][d] # None}
    <3>2. g - nextLease + 1 \in K
      <4>1. active' = LeasesAfter(l, n)
        BY <3>1 DEF Release
      <4>2. g \in nextLease .. nextLease + n - 1
        BY <4>1 DEF LeasesAfter, Granted
      <4>3. active'[g] = queue[g - nextLease + 1]
        BY <4>1, <4>2 DEF LeasesAfter, TypeOK
      <4>4. g - nextLease + 1 \in 1 .. n
        BY <4>2 DEF TypeOK
      <4>5. QED
        BY <4>3, <4>4
    <3>3. PICK k \in K : \A j \in K : j <= k
      <4>1. K \subseteq 1 .. n /\ K # {} /\ n \in Nat
        BY <3>2
      <4> HIDE DEF K
      <4>2. QED
        BY <4>1, Greatest
    <3>4. \A j \in 1 .. n : queue[j] \in Campaign
      BY DEF TypeOK
    <3>5. \A j \in k + 1 .. n : Expected(d)[queue[j]] = 0
      BY <3>3, <3>4 DEF Expected, Amount
    <3>6. CanAdmit(queue[k], LeasesAfter(l, k - 1), spent, ReservedAfter(l, k - 1))
      BY <3>1 DEF Release
    <3>7. spent[d] + ReservedAfter(l, k - 1)[d] + Estimate[queue[k]][d] <= Quota[d]
      <4> HIDE DEF spent
      <4> QED
        BY <3>6 DEF CanAdmit
    <3>8. ReservedAfter(l, n)[d]
            = ReservedAfter(l, k - 1)[d] + Expected(d)[queue[k]]
      BY <3>5, ReservedUpTo
    <3>9. Expected(d)[queue[k]] = Estimate[queue[k]][d]
      BY <3>4 DEF Expected, Amount
    <3>10. used'[d] = spent[d] /\ reserved'[d] = ReservedAfter(l, n)[d]
      BY <3>1 DEF Release
    <3>11. ReservedAfter(l, k - 1)[d] \in Int
      <4>1. IsTable(NewLeases(k - 1))
        BY TableAfter DEF TypeOK
      <4>2. /\ InUse(Expected(d), NewLeases(k - 1)) \in Nat
            /\ Expected(d)[active[l]] \in Nat
        BY <4>1, Loads, UnitsFinite DEF IsLoad, TypeOK
      <4>3. QED
        BY <4>2 DEF ReservedAfter, TypeOK
    <3>12. spent[d] \in Nat /\ Estimate[queue[k]][d] \in Nat /\ Quota[d] \in Nat
      <4>1. used[d] \in Nat /\ u[d] \in Nat
        BY UsageType DEF TypeOK
      <4>2. queue[k] \in Campaign /\ Estimate[queue[k]][d] # None
        BY <3>4
      <4>3. Estimate[queue[k]][d] \in Nat /\ Quota[d] \in Nat
        BY <4>2, RequestType, QuotaType
      <4>4. QED
        BY <4>1, <4>3
    <3> HIDE DEF spent, K
    <3>13. QED
      BY <3>7, <3>8, <3>9, <3>10, <3>11, <3>12
  <2>3. QED
    BY <2>1, <2>2 DEF SchedNext
<1>2. QED
  BY <1>1, SchedInvariant, PTL DEF SchedSpec, AdmissionWithinQuota

----------------------------------------------------------------------------
(* The runner                                                              *)

Step == [op : {"offer", "launch", "reject", "finish", "again"},
         task : Campaign, lease : Nat]

\* The calls on the stack, and the campaigns in the queue.
Calls == {todo[i] : i \in DOMAIN todo}

Waiting == {queue[i] : i \in DOMAIN queue}

OneCall == \A i, j \in DOMAIN todo : i # j => todo[i].task # todo[j].task

OneWait == \A i, j \in DOMAIN queue : i # j => queue[i] # queue[j]

----------------------------------------------------------------------------
(* The stack and the queue                                                 *)

\* A call has been made.
LEMMA HeadDone ==
  ASSUME todo \in Seq(Step), todo # << >>, OneCall, todo' = Tail(todo)
  PROVE  /\ todo' \in Seq(Step)
         /\ OneCall'
         /\ Head(todo) \in Calls
         /\ Calls' = Calls \ {Head(todo)}
         /\ \A x \in Calls : x # Head(todo) => x.task # Head(todo).task
<1>1. /\ todo' \in Seq(Step) /\ Len(todo') = Len(todo) - 1
      /\ \A i \in DOMAIN todo' : i + 1 \in DOMAIN todo /\ todo'[i] = todo[i + 1]
      /\ \A i \in DOMAIN todo : i # 1 => i - 1 \in DOMAIN todo' /\ todo'[i - 1] = todo[i]
      /\ 1 \in DOMAIN todo /\ Head(todo) = todo[1]
      /\ \A i \in DOMAIN todo : i \in Nat
  OBVIOUS
<1>2. OneCall'
  <2> SUFFICES ASSUME NEW i \in DOMAIN todo', NEW j \in DOMAIN todo', i # j
               PROVE  todo'[i].task # todo'[j].task
    BY DEF OneCall
  <2>1. i + 1 \in DOMAIN todo /\ j + 1 \in DOMAIN todo /\ i + 1 # j + 1
    BY <1>1
  <2>2. QED
    BY <1>1, <2>1 DEF OneCall
<1>3. \A x \in Calls : x # Head(todo) => x.task # Head(todo).task
  BY <1>1 DEF OneCall, Calls
<1>4. Calls' \subseteq Calls \ {Head(todo)}
  <2> SUFFICES ASSUME NEW i \in DOMAIN todo'
               PROVE  todo'[i] \in Calls /\ todo'[i] # Head(todo)
    BY DEF Calls
  <2>1. i + 1 \in DOMAIN todo /\ todo'[i] = todo[i + 1] /\ i + 1 # 1
    BY <1>1
  <2>2. todo[i + 1].task # todo[1].task
    BY <1>1, <2>1 DEF OneCall
  <2>3. QED
    BY <1>1, <2>1, <2>2 DEF Calls
<1>5. Calls \ {Head(todo)} \subseteq Calls'
  BY <1>1 DEF Calls
<1>6. QED
  BY <1>1, <1>2, <1>3, <1>4, <1>5 DEF Calls

\* A call was replaced by another one about the same campaign.
LEMMA HeadReplaced ==
  ASSUME todo \in Seq(Step), todo # << >>, OneCall,
         NEW y \in Step, y.task = Head(todo).task,
         todo' = <<y>> \o Tail(todo)
  PROVE  /\ todo' \in Seq(Step)
         /\ OneCall'
         /\ Head(todo) \in Calls
         /\ Calls' = (Calls \ {Head(todo)}) \cup {y}
         /\ \A x \in Calls : x # Head(todo) => x.task # Head(todo).task
<1>1. /\ todo' \in Seq(Step) /\ Len(todo') = Len(todo) /\ DOMAIN todo' = DOMAIN todo
      /\ todo'[1] = y
      /\ \A i \in DOMAIN todo : i # 1 => todo'[i] = todo[i]
      /\ 1 \in DOMAIN todo /\ Head(todo) = todo[1]
  OBVIOUS
<1>2. OneCall'
  BY <1>1 DEF OneCall
<1>3. \A x \in Calls : x # Head(todo) => x.task # Head(todo).task
  BY <1>1 DEF OneCall, Calls
<1>4. \A i \in DOMAIN todo : i # 1 => todo[i] # todo[1]
  BY <1>1 DEF OneCall
<1>5. Calls' = (Calls \ {Head(todo)}) \cup {y}
  <2>1. ASSUME NEW i \in DOMAIN todo'
        PROVE  todo'[i] \in (Calls \ {Head(todo)}) \cup {y}
    BY <1>1, <1>4 DEF Calls
  <2>2. ASSUME NEW i \in DOMAIN todo, todo[i] # Head(todo)
        PROVE  todo[i] \in Calls'
    <3>1. todo'[i] = todo[i] /\ i \in DOMAIN todo'
      BY <1>1, <2>2
    <3>2. QED
      BY <3>1 DEF Calls
  <2>3. y \in Calls'
    BY <1>1 DEF Calls
  <2>4. QED
    BY <2>1, <2>2, <2>3 DEF Calls
<1>6. QED
  BY <1>1, <1>2, <1>3, <1>5 DEF Calls

\* A campaign has joined the queue.
LEMMA Joined ==
  ASSUME queue \in Seq(Campaign), OneWait, NEW c \in Campaign, c \notin Waiting,
         queue' = Append(queue, c)
  PROVE  OneWait' /\ Waiting' = Waiting \cup {c}
<1>1. /\ Len(queue') = Len(queue) + 1 /\ queue'[Len(queue) + 1] = c
      /\ \A i \in DOMAIN queue : queue'[i] = queue[i]
      /\ DOMAIN queue' = DOMAIN queue \cup {Len(queue) + 1}
      /\ Len(queue) + 1 \notin DOMAIN queue
  OBVIOUS
<1>2. OneWait'
  BY <1>1 DEF OneWait, Waiting
<1>3. QED
  BY <1>1, <1>2 DEF Waiting

\* The first n campaigns have left the queue.
LEMMA Drained ==
  ASSUME queue \in Seq(Campaign), OneWait, NEW n \in 0 .. Len(queue),
         queue' = SubSeq(queue, n + 1, Len(queue))
  PROVE  /\ OneWait'
         /\ Waiting' = Waiting \ {queue[i] : i \in 1 .. n}
<1>1. /\ Len(queue') = Len(queue) - n
      /\ \A i \in DOMAIN queue' : i + n \in DOMAIN queue /\ queue'[i] = queue[i + n] /\ i \in Nat /\ i # 0
      /\ \A i \in DOMAIN queue : i > n => i - n \in DOMAIN queue' /\ queue'[i - n] = queue[i]
      /\ 1 .. n \subseteq DOMAIN queue
  OBVIOUS
<1>2. OneWait'
  <2> SUFFICES ASSUME NEW i \in DOMAIN queue', NEW j \in DOMAIN queue', i # j
               PROVE  queue'[i] # queue'[j]
    BY DEF OneWait
  <2>1. i + n # j + n
    BY <1>1
  <2>2. QED
    BY <1>1, <2>1 DEF OneWait
<1>3. Waiting' \subseteq Waiting \ {queue[i] : i \in 1 .. n}
  <2> SUFFICES ASSUME NEW i \in DOMAIN queue'
               PROVE  queue'[i] \in Waiting /\ \A j \in 1 .. n : queue'[i] # queue[j]
    BY DEF Waiting
  <2>1. \A j \in 1 .. n : i + n # j
    BY <1>1
  <2>2. QED
    BY <1>1, <2>1 DEF OneWait, Waiting
<1>4. Waiting \ {queue[i] : i \in 1 .. n} \subseteq Waiting'
  <2> SUFFICES ASSUME NEW i \in DOMAIN queue, i \notin 1 .. n
               PROVE  queue[i] \in Waiting'
    BY DEF Waiting
  <2>1. i > n
    OBVIOUS
  <2>2. QED
    BY <1>1, <2>1 DEF Waiting
<1>5. QED
  BY <1>2, <1>3, <1>4

\* The calls for the campaigns a release has admitted.
Launched(n) == {Call("launch", queue[i], nextLease + i - 1) : i \in 1 .. n}

LEMMA LaunchesType ==
  ASSUME queue \in Seq(Campaign), nextLease \in Nat \ {0}, NEW n \in 0 .. Len(queue)
  PROVE  /\ Launches(n) \in Seq(Step) /\ Len(Launches(n)) = n
         /\ \A i \in 1 .. n : Launches(n)[i] = Call("launch", queue[i], nextLease + i - 1)
<1>1. \A i \in 1 .. n : Call("launch", queue[i], nextLease + i - 1) \in Step
  BY DEF Call, Step
<1>2. QED
  BY <1>1 DEF Launches

LEMMA LaunchesCalled ==
  ASSUME queue \in Seq(Campaign), nextLease \in Nat \ {0}, OneWait,
         NEW n \in 0 .. Len(queue), todo' = Launches(n)
  PROVE  todo' \in Seq(Step) /\ OneCall' /\ Calls' = Launched(n)
<1>1. /\ todo' \in Seq(Step) /\ DOMAIN todo' = 1 .. n
      /\ \A i \in 1 .. n : todo'[i] = Call("launch", queue[i], nextLease + i - 1)
      /\ 1 .. n \subseteq DOMAIN queue
  BY LaunchesType
<1>2. \A i \in 1 .. n : todo'[i].task = queue[i]
  BY <1>1 DEF Call
<1>3. OneCall'
  BY <1>1, <1>2 DEF OneCall, OneWait
<1>4. QED
  BY <1>1, <1>3 DEF Calls, Launched

LEMMA LaunchesAndAgain ==
  ASSUME queue \in Seq(Campaign), nextLease \in Nat \ {0}, OneWait,
         NEW n \in 0 .. Len(queue), NEW y \in Step, y.task \notin Waiting,
         todo' = Launches(n) \o <<y>>
  PROVE  todo' \in Seq(Step) /\ OneCall' /\ Calls' = Launched(n) \cup {y}
<1>1. /\ Launches(n) \in Seq(Step) /\ Len(Launches(n)) = n
      /\ \A i \in 1 .. n : Launches(n)[i] = Call("launch", queue[i], nextLease + i - 1)
      /\ 1 .. n \subseteq DOMAIN queue
  BY LaunchesType
<1>2. /\ todo' \in Seq(Step) /\ DOMAIN todo' = 1 .. n + 1
      /\ \A i \in 1 .. n : todo'[i] = Launches(n)[i]
      /\ todo'[n + 1] = y
      /\ 1 .. n + 1 = (1 .. n) \cup {n + 1} /\ n + 1 \notin 1 .. n
  BY <1>1
<1>3. \A i \in 1 .. n : todo'[i].task = queue[i] /\ queue[i] \in Waiting
  BY <1>1, <1>2 DEF Call, Waiting
<1>4. OneCall'
  <2> SUFFICES ASSUME NEW i \in DOMAIN todo', NEW j \in DOMAIN todo', i # j
               PROVE  todo'[i].task # todo'[j].task
    BY DEF OneCall
  <2>1. CASE i \in 1 .. n /\ j \in 1 .. n
    BY <1>1, <1>3, <2>1 DEF OneWait
  <2>2. CASE i = n + 1 /\ j \in 1 .. n
    BY <1>2, <1>3, <2>2
  <2>3. CASE i \in 1 .. n /\ j = n + 1
    BY <1>2, <1>3, <2>3
  <2>4. QED
    BY <1>2, <2>1, <2>2, <2>3
<1>5. Calls' = Launched(n) \cup {y}
  <2>1. \A i \in 1 .. n : todo'[i] = Call("launch", queue[i], nextLease + i - 1)
    BY <1>1, <1>2
  <2>2. Calls' = {todo'[i] : i \in 1 .. n} \cup {todo'[n + 1]}
    BY <1>2 DEF Calls
  <2>3. Launched(n) = {todo'[i] : i \in 1 .. n}
    BY <2>1 DEF Launched
  <2>4. QED
    BY <1>2, <2>2, <2>3
<1>6. QED
  BY <1>2, <1>4, <1>5, <1>1

----------------------------------------------------------------------------
(* The log                                                                 *)

LogType == log \in [Attempt -> Seq(Entry)]

StateAfter(e) == IF e.type = "started" THEN "running" ELSE e.type

\* What the last event says.
LEMMA StateTells ==
  ASSUME LogType, NEW a \in Attempt
  PROVE  /\ StateIn(a) \in {"planned", "running", "uncertain", "terminal"}
         /\ StateIn(a) = "planned" <=> log[a] = << >>
         /\ log[a] # << >> =>
              /\ Len(log[a]) \in DOMAIN log[a]
              /\ log[a][Len(log[a])] \in Entry
              /\ StateIn(a) = StateAfter(log[a][Len(log[a])])
<1>1. log[a] \in Seq(Entry)
  BY DEF LogType
<1>2. log[a] # << >> => Len(log[a]) \in DOMAIN log[a] /\ log[a][Len(log[a])] \in Entry
  BY <1>1
<1>3. \A e \in Entry : e.type \in {"started", "uncertain", "terminal"}
  BY DEF Entry
<1>4. QED
  BY <1>2, <1>3 DEF StateIn, StateAfter

\* The positions of the interruptions of an attempt.
Marks(h) == {i \in DOMAIN h : h[i].type = "uncertain"}

LatestMark(h) == CHOOSE i \in Marks(h) : \A j \in Marks(h) : j <= i

LEMMA LatestMarkIs ==
  ASSUME NEW h \in Seq(Entry), NEW m \in Marks(h), \A j \in Marks(h) : j <= m
  PROVE  LatestMark(h) = m
<1>1. \A i \in Marks(h) : i \in Int
  BY DEF Marks
<1>2. \A i \in Marks(h) : (\A j \in Marks(h) : j <= i) => i = m
  BY <1>1
<1>3. QED
  BY <1>2 DEF LatestMark

LEMMA LatestMarkExists ==
  ASSUME NEW h \in Seq(Entry), Marks(h) # {}
  PROVE  LatestMark(h) \in Marks(h) /\ \A j \in Marks(h) : j <= LatestMark(h)
<1>1. Marks(h) \subseteq 1 .. Len(h) /\ Len(h) \in Nat
  BY DEF Marks
<1>2. PICK m \in Marks(h) : \A j \in Marks(h) : j <= m
  BY <1>1, Greatest
<1>3. QED
  BY <1>2, LatestMarkIs

LEMMA CauseTells ==
  ASSUME LogType, NEW a \in Attempt
  PROVE  /\ CauseIn(a) = IF Marks(log[a]) = {} THEN None
                         ELSE log[a][LatestMark(log[a])].cause
         /\ CauseIn(a) \in Interruption \cup {None}
         /\ StateIn(a) = "uncertain" => CauseIn(a) = log[a][Len(log[a])].cause
<1> DEFINE h == log[a]
<1>1. h \in Seq(Entry)
  BY DEF LogType
<1>2. CauseIn(a) = IF Marks(h) = {} THEN None ELSE h[LatestMark(h)].cause
  BY DEF CauseIn, Marks, LatestMark
<1>3. \A i \in Marks(h) : h[i] \in Entry /\ h[i].type = "uncertain"
  BY <1>1 DEF Marks
<1>4. \A i \in Marks(h) : h[i].cause \in Interruption
  BY <1>3 DEF Entry
<1>5. CauseIn(a) \in Interruption \cup {None}
  BY <1>1, <1>2, <1>4, LatestMarkExists
<1>6. ASSUME StateIn(a) = "uncertain"
      PROVE  CauseIn(a) = h[Len(h)].cause
  <2>1. h # << >> /\ h[Len(h)].type = "uncertain" /\ Len(h) \in DOMAIN h
    BY <1>6, StateTells DEF StateAfter
  <2>2. Len(h) \in Marks(h) /\ \A j \in Marks(h) : j <= Len(h)
    BY <1>1, <2>1 DEF Marks
  <2>3. QED
    BY <1>1, <1>2, <2>2, LatestMarkIs
<1>7. QED
  BY <1>2, <1>5, <1>6

\* One more event.
LEMMA Appended ==
  ASSUME LogType, NEW a \in Attempt, NEW e \in Entry,
         log' = [log EXCEPT ![a] = Append(@, e)]
  PROVE  /\ LogType'
         /\ StateIn(a)' = StateAfter(e)
         /\ CauseIn(a)' = IF e.cause = None THEN CauseIn(a) ELSE e.cause
         /\ \A b \in Attempt : b # a => /\ log'[b] = log[b]
                                        /\ StateIn(b)' = StateIn(b)
                                        /\ CauseIn(b)' = CauseIn(b)
<1> DEFINE h == log[a]
           g == Append(h, e)
<1>1. /\ h \in Seq(Entry) /\ g \in Seq(Entry)
      /\ g # << >> /\ Len(g) = Len(h) + 1 /\ g[Len(g)] = e
      /\ DOMAIN g = DOMAIN h \cup {Len(g)} /\ Len(g) \notin DOMAIN h
      /\ \A i \in DOMAIN h : g[i] = h[i] /\ i <= Len(g) /\ i \in Nat
  BY DEF LogType
<1>2. LogType' /\ log'[a] = g /\ \A b \in Attempt : b # a => log'[b] = log[b]
  BY <1>1 DEF LogType
<1> HIDE DEF h, g
<1>3. StateIn(a)' = StateAfter(e)
  <2>1. e.type \in {"started", "uncertain", "terminal"}
    BY DEF Entry
  <2>2. QED
    BY <1>1, <1>2, <2>1 DEF StateIn, StateAfter
<1>4. \A b \in Attempt : b # a => StateIn(b)' = StateIn(b) /\ CauseIn(b)' = CauseIn(b)
  BY <1>2 DEF StateIn, CauseIn
<1>5. CauseIn(a)' = IF Marks(g) = {} THEN None ELSE g[LatestMark(g)].cause
  <2>1. CauseIn(a)' = IF Marks(log'[a]) = {} THEN None
                      ELSE log'[a][LatestMark(log'[a])].cause
    BY DEF CauseIn, Marks, LatestMark
  <2>2. QED
    BY <1>2, <2>1
<1>6. CauseIn(a) = IF Marks(h) = {} THEN None ELSE h[LatestMark(h)].cause
  BY CauseTells DEF h
<1>7. CASE e.type = "uncertain"
  <2>1. e.cause # None
    BY <1>7, RunnerPolicy DEF Entry
  <2>2. Len(g) \in Marks(g) /\ \A j \in Marks(g) : j <= Len(g)
    BY <1>1, <1>7 DEF Marks
  <2>3. LatestMark(g) = Len(g)
    BY <1>1, <2>2, LatestMarkIs
  <2>4. QED
    BY <1>1, <1>2, <1>3, <1>4, <1>5, <2>1, <2>2, <2>3
<1>8. CASE e.type # "uncertain"
  <2>1. e.cause = None
    BY <1>8 DEF Entry
  <2>2. Marks(g) = Marks(h)
    BY <1>1, <1>8 DEF Marks
  <2>3. Marks(h) # {} => LatestMark(g) = LatestMark(h) /\ LatestMark(h) \in DOMAIN h
    BY <1>1, <2>2, LatestMarkExists DEF LatestMark, Marks
  <2>4. CauseIn(a)' = CauseIn(a)
    BY <1>1, <1>5, <1>6, <2>2, <2>3
  <2>5. QED
    BY <1>2, <1>3, <1>4, <2>1, <2>4
<1>9. QED
  BY <1>7, <1>8

----------------------------------------------------------------------------
(* What is known of a campaign in each place                               *)

Observed(c) == \E t \in Tries : StateIn(<<c, t>>) = "terminal"

\* run() has its machine, and it may still be executed.
Ready(c) == machine[c] # None /\ ~Observed(c)

\* A resume asks the policy about the interruption that happened.
Remembers(c) == cause[c] # None => cause[c] = machine[c].cause

CallKnown(x) ==
  /\ future[x.task] = None
  /\ x.task \notin Waiting
  /\ x.op = "offer" => cause[x.task] = None
  /\ x.op # "offer" => Ready(x.task)
  /\ x.op = "launch" => Remembers(x.task)
  /\ x.op = "again" => resumes[x.task] < MaxResumes
  /\ x.op = "finish" => machine[x.task].state \in {"running", "uncertain"}

WaitKnown(c) == future[c] = None /\ Ready(c) /\ Remembers(c)

FlightKnown(c) == Ready(c) /\ machine[c].state = "running"

Matches(c) ==
  machine[c] # None => /\ machine[c].state = StateIn(TaskOf(c))
                       /\ machine[c].cause = CauseIn(TaskOf(c))

Places ==
  /\ OneCall /\ OneWait
  /\ \A x \in Calls : CallKnown(x)
  /\ \A c \in Waiting : WaitKnown(c)
  /\ \A c \in Futures : FlightKnown(c)
  /\ \A c \in Campaign : Matches(c)

Inv == RunnerTypeOK /\ SchedInv /\ (InBatch => Places)

LEMMA StepIsCall ==
  Seq(Step) = Seq([op : {"offer", "launch", "reject", "finish", "again"},
                   task : Campaign, lease : Nat])
  BY DEF Step

(* The call that is made next, and what is known of its campaign.          *)
LEMMA NextKnown ==
  ASSUME Inv, NEW op, NextCall(op)
  PROVE  /\ todo \in Seq(Step) /\ todo # << >> /\ InBatch /\ Places
         /\ Head(todo) \in Calls /\ Head(todo) \in Step /\ Head(todo).op = op
         /\ Head(todo).task \in Campaign /\ CallKnown(Head(todo))
         /\ TaskOf(Head(todo).task) \in Attempt
<1>1. todo \in Seq(Step) /\ todo # << >> /\ InBatch /\ Places /\ Head(todo).op = op
  BY StepIsCall DEF Inv, NextCall, RunnerTypeOK
<1>2. Head(todo) \in Step /\ Head(todo) \in Calls
  BY <1>1 DEF Calls
<1>3. Head(todo).task \in Campaign
  BY <1>2 DEF Step
<1>4. TaskOf(Head(todo).task) \in Attempt
  BY <1>3 DEF TaskOf, Attempt, Inv, RunnerTypeOK
<1>5. QED
  BY <1>1, <1>2, <1>3, <1>4 DEF Places

(* A machine's append, whatever the step around it.                        *)
LEMMA WriteTypes ==
  ASSUME Inv, NEW c \in Campaign, machine[c] # None, NEW e \in Entry,
         NEW st \in {"planned", "running", "uncertain", "terminal"}, Write(c, e, st)
  PROVE  /\ log' \in [Attempt -> Seq(Entry)]
         /\ machine' \in [Campaign -> {None} \cup MachineState]
<1>1. TaskOf(c) \in Attempt
  BY DEF TaskOf, Attempt, Inv, RunnerTypeOK
<1>2. log' \in [Attempt -> Seq(Entry)]
  BY <1>1, Appended DEF Write, LogType, Inv, RunnerTypeOK
<1>3. machine[c] \in MachineState
  BY DEF Inv, RunnerTypeOK
<1>4. machine[c].cause \in Interruption \cup {None}
  BY <1>3 DEF MachineState
<1>5. e.cause \in Interruption \cup {None}
  BY DEF Entry
<1>6. [state |-> st, cause |-> IF e.cause = None THEN machine[c].cause ELSE e.cause]
        \in MachineState
  BY <1>4, <1>5 DEF MachineState
<1>7. machine' \in [Campaign -> {None} \cup MachineState]
  BY <1>6 DEF Write, Inv, RunnerTypeOK
<1>8. QED
  BY <1>2, <1>7

LEMMA EntryTypes ==
  /\ Started \in Entry /\ Terminal \in Entry
  /\ \A k \in Interruption : Uncertain(k) \in Entry
  BY DEF Started, Terminal, Uncertain, Entry

----------------------------------------------------------------------------
(* The scheduler keeps its invariant under the calls of the runner.        *)

LEMMA SchedFresh ==
  ASSUME active' = << >>, queue' = << >>, nextLease' = 1,
         used' = ZeroUsage, reserved' = ZeroUsage
  PROVE  SchedInv'
<1>1. (SchedInit => SchedInv)'
  BY InitSchedInv, PTL
<1>2. SchedInit'
  BY DEF SchedInit, ZeroUsage
<1>3. QED
  BY <1>1, <1>2

LEMMA SchedStays ==
  ASSUME SchedInv, UNCHANGED schedVars
  PROVE  SchedInv'
  BY DEF schedVars, SchedInv, TypeOK, EnvelopeRespected, SolverExclusive,
         ReservedExact, QueueServable

LEMMA OfferSubmits ==
  ASSUME SchedInv, NEW c \in Campaign, NEW rest, Offer(c, rest)
  PROVE  SchedInv'
<1>1. Submit(c)
  BY DEF Offer, Submit
<1>2. QED
  BY <1>1, SubmitInv

LEMMA ZeroUsageType == ZeroUsage \in [Dim -> Nat]
  BY DEF ZeroUsage

LEMMA SchedKept == Inv /\ [Next]_vars => SchedInv'
<1> SUFFICES ASSUME Inv, [Next]_vars PROVE SchedInv'
  OBVIOUS
<1>0. SchedInv
  BY DEF Inv
<1>1. CASE OfferTask
  BY <1>0, <1>1, NextKnown, OfferSubmits DEF OfferTask
<1>2. CASE OfferAgain
  BY <1>0, <1>2, NextKnown, OfferSubmits DEF OfferAgain
<1>3. CASE LaunchRaises
  <2>1. PICK n \in 0 .. Len(queue) : Release(Head(todo).lease, ZeroUsage, n)
    BY <1>3 DEF LaunchRaises
  <2>2. Head(todo).lease \in DOMAIN active
    BY <2>1 DEF Release
  <2>3. QED
    BY <1>0, <2>1, <2>2, ReleaseInv, ZeroUsageType
<1>4. ASSUME NEW c \in Campaign, NEW u \in Usage, NEW n \in 0 .. Len(queue),
             CollectTerminal(c, u, n) \/ CollectUncertain(c, u, n)
      PROVE  SchedInv'
  <2>1. Release(future[c].lease, u, n)
    BY <1>4 DEF CollectTerminal, CollectUncertain
  <2>2. future[c].lease \in DOMAIN active
    BY <2>1 DEF Release
  <2>3. QED
    BY <1>0, <2>1, <2>2, ReleaseInv, UsageType
<1>5. CASE Sweep
  <2>1. queue \in Seq(Campaign) /\ queue # << >> /\ CancelQueued(Head(queue))
    BY <1>0, <1>5 DEF Sweep, SchedInv, TypeOK
  <2>2. Head(queue) \in Campaign
    BY <2>1
  <2>3. QED
    BY <1>0, <2>1, <2>2, CancelInv
<1>6. CASE BeginBatch
  BY <1>6, SchedFresh DEF BeginBatch
<1>7. CASE SkipTask \/ RefuseTask \/ Launch \/ Reject \/ FinishRejected \/ Return
           \/ Exit \/ AppendRaises \/ Crash
           \/ (\E a \in Attempt : Recover(a)) \/ (\E c \in Campaign : Callback(c))
  BY <1>0, <1>7, SchedStays DEF SkipTask, RefuseTask, Launch, Reject, FinishRejected,
       Return, Exit, AppendRaises, Crash, Recover, Callback, CallbackEnds
<1>8. CASE UNCHANGED vars
  BY <1>0, <1>8, SchedStays DEF vars
<1>9. QED
  BY <1>1, <1>2, <1>3, <1>4, <1>5, <1>6, <1>7, <1>8 DEF Next, Main, Driver

----------------------------------------------------------------------------
(* Types                                                                   *)

LEMMA CallType ==
  ASSUME NEW op \in {"offer", "launch", "reject", "finish", "again"},
         NEW c \in Campaign, NEW l \in Nat
  PROVE  Call(op, c, l) \in Step /\ Call(op, c, l).task = c
         /\ Call(op, c, l).op = op /\ Call(op, c, l).lease = l
  BY DEF Call, Step

(* The stack after an offer.                                               *)
LEMMA OfferCalls ==
  ASSUME Inv, NEW c \in Campaign, Offer(c, Tail(todo)), todo \in Seq(Step), todo # << >>
  PROVE  todo' \in Seq(Step)
<1>1. nextLease \in Nat
  BY DEF Inv, RunnerTypeOK, TypeOK
<1>2. Call("launch", c, nextLease) \in Step /\ Call("reject", c, 0) \in Step
  BY <1>1, CallType
<1>3. Tail(todo) \in Seq(Step)
  OBVIOUS
<1>4. QED
  BY <1>2, <1>3 DEF Offer

LEMMA BeginTypes == Inv /\ BeginBatch => RunnerTypeOK'
<1> SUFFICES ASSUME Inv, BeginBatch PROVE RunnerTypeOK'
  OBVIOUS
<1>1. TypeOK'
  BY SchedKept DEF SchedInv, Next, Driver
<1>2. \A i \in DOMAIN Plan : Plan[i] \in Campaign
  BY PlanType
<1>3. \A i \in DOMAIN Plan : Call("offer", Plan[i], 0) \in Step
  BY <1>2, CallType
<1>4. [i \in DOMAIN Plan |-> Call("offer", Plan[i], 0)] \in Seq(Step)
  <2>1. Plan \in Seq(Campaign)
    BY PlanType
  <2>2. DOMAIN Plan = 1 .. Len(Plan) /\ Len(Plan) \in Nat
    BY <2>1
  <2>3. QED
    BY <1>3, <2>2
<1>5. todo' \in Seq([op : {"offer", "launch", "reject", "finish", "again"},
                     task : Campaign, lease : Nat])
  BY <1>4, StepIsCall DEF BeginBatch
<1>6. pending' \subseteq Campaign
  BY <1>2 DEF BeginBatch
<1>7. /\ machine' \in [Campaign -> {None} \cup MachineState]
      /\ future' \in [Campaign -> {None} \cup Flight]
      /\ resumes' \in [Campaign -> 0 .. MaxResumes]
      /\ cause' \in [Campaign -> Interruption \cup {None}]
      /\ outcome' \in [Campaign -> {None, "existing", "terminal", "uncertain", "unsupported"}]
  BY RunnerPolicy DEF BeginBatch, Fresh
<1>8. batches' \in 0 .. MaxBatches
  BY RunnerPolicy DEF BeginBatch, Inv, RunnerTypeOK
<1>9. QED
  BY <1>1, <1>5, <1>6, <1>7, <1>8 DEF RunnerTypeOK, BeginBatch, Inv

LEMMA OfferTypes == Inv /\ (OfferTask \/ SkipTask \/ OfferAgain) => RunnerTypeOK'
<1> SUFFICES ASSUME Inv, OfferTask \/ SkipTask \/ OfferAgain PROVE RunnerTypeOK'
  OBVIOUS
<1> DEFINE c == Head(todo).task
<1>1. TypeOK'
  BY SchedKept DEF SchedInv, Next, Main
<1>2. /\ c \in Campaign /\ todo \in Seq(Step) /\ todo # << >> /\ TaskOf(c) \in Attempt
      /\ OfferAgain => Head(todo).op = "again" /\ CallKnown(Head(todo))
  BY NextKnown DEF OfferTask, SkipTask, OfferAgain
<1>3. Machine(c) \in MachineState
  BY <1>2, StateTells, CauseTells DEF Machine, MachineState, Inv, RunnerTypeOK, LogType
<1>4. machine' \in [Campaign -> {None} \cup MachineState]
  BY <1>2, <1>3 DEF OfferTask, SkipTask, OfferAgain, Inv, RunnerTypeOK
<1>5. todo' \in Seq(Step)
  BY <1>2, OfferCalls DEF OfferTask, SkipTask, OfferAgain
<1>6. pending' \subseteq Campaign
  BY <1>2 DEF OfferTask, SkipTask, OfferAgain, Inv, RunnerTypeOK
<1>7. OfferAgain => resumes[c] + 1 \in 0 .. MaxResumes
                    /\ machine[c].cause \in Interruption \cup {None}
  BY <1>2, RunnerPolicy DEF CallKnown, Ready, Inv, RunnerTypeOK, MachineState
<1>8. /\ resumes' \in [Campaign -> 0 .. MaxResumes]
      /\ cause' \in [Campaign -> Interruption \cup {None}]
  BY <1>2, <1>7 DEF OfferTask, SkipTask, OfferAgain, Inv, RunnerTypeOK
<1>9. outcome' \in [Campaign -> {None, "existing", "terminal", "uncertain", "unsupported"}]
  BY <1>2 DEF OfferTask, SkipTask, OfferAgain, Inv, RunnerTypeOK
<1>10. UNCHANGED <<phase, log, try, future, recovers, batches, mishaps>>
  BY DEF OfferTask, SkipTask, OfferAgain
<1> HIDE DEF c
<1>11. QED
  BY <1>1, <1>4, <1>5, <1>6, <1>8, <1>9, <1>10, StepIsCall DEF RunnerTypeOK, Inv

LEMMA LaunchTypes == Inv /\ (Launch \/ Reject \/ FinishRejected) => RunnerTypeOK'
<1> SUFFICES ASSUME Inv, Launch \/ Reject \/ FinishRejected PROVE RunnerTypeOK'
  OBVIOUS
<1> DEFINE c == Head(todo).task
<1>1. TypeOK'
  BY SchedKept DEF SchedInv, Next, Main
<1>2. /\ c \in Campaign /\ todo \in Seq(Step) /\ todo # << >> /\ Head(todo).lease \in Nat
      /\ machine[c] # None
  <2>1. ASSUME NEW op \in {"launch", "reject", "finish"}, NextCall(op)
        PROVE  /\ c \in Campaign /\ todo \in Seq(Step) /\ todo # << >>
               /\ Head(todo).lease \in Nat /\ machine[c] # None
    BY <2>1, NextKnown DEF CallKnown, Ready, Step
  <2>2. NextCall("launch") \/ NextCall("reject") \/ NextCall("finish")
    BY DEF Launch, Reject, FinishRejected
  <2>3. QED
    BY <2>1, <2>2
<1>3. log' \in [Attempt -> Seq(Entry)] /\ machine' \in [Campaign -> {None} \cup MachineState]
  <2>1. CASE Launch
    BY <1>2, <2>1, WriteTypes, EntryTypes DEF Launch
  <2>2. CASE FinishRejected
    BY <1>2, <2>2, WriteTypes, EntryTypes DEF FinishRejected
  <2>3. CASE Reject /\ machine[c].state = "planned"
    BY <1>2, <2>3, WriteTypes, EntryTypes DEF Reject
  <2>4. CASE Reject /\ machine[c].state = "running"
    BY <1>2, <2>4, WriteTypes, EntryTypes, RunnerPolicy DEF Reject
  <2>5. CASE Reject /\ machine[c].state = "uncertain"
    BY <2>5 DEF Reject, Inv, RunnerTypeOK
  <2>6. QED
    BY <2>1, <2>2, <2>3, <2>4, <2>5 DEF Reject
<1>4. todo' \in Seq(Step)
  <2>1. Tail(todo) \in Seq(Step) /\ Call("finish", c, 0) \in Step
    BY <1>2, CallType
  <2>2. <<Call("finish", c, 0)>> \o Tail(todo) \in Seq(Step)
    BY <2>1
  <2>3. todo' \in {Tail(todo), <<Call("finish", c, 0)>> \o Tail(todo)}
    BY DEF Launch, Reject, FinishRejected
  <2>4. QED
    BY <2>1, <2>2, <2>3
<1>5. pending' \subseteq Campaign
  BY DEF Launch, Reject, FinishRejected, Inv, RunnerTypeOK
<1>6. future' \in [Campaign -> {None} \cup Flight]
  <2>1. [lease |-> Head(todo).lease, done |-> FALSE, result |-> None] \in Flight
    BY <1>2 DEF Flight
  <2>2. QED
    BY <1>2, <2>1 DEF Launch, Reject, FinishRejected, Inv, RunnerTypeOK
<1>7. outcome' \in [Campaign -> {None, "existing", "terminal", "uncertain", "unsupported"}]
  BY <1>2 DEF Launch, Reject, FinishRejected, Inv, RunnerTypeOK
<1>8. UNCHANGED <<phase, try, resumes, cause, recovers, batches, mishaps>>
  BY DEF Launch, Reject, FinishRejected
<1> HIDE DEF c
<1>9. QED
  BY <1>1, <1>3, <1>4, <1>5, <1>6, <1>7, <1>8, StepIsCall DEF RunnerTypeOK, Inv

LEMMA CollectTypes ==
  ASSUME Inv, NEW c \in Campaign, NEW u \in Usage, NEW n \in 0 .. Len(queue),
         CollectTerminal(c, u, n) \/ CollectUncertain(c, u, n)
  PROVE  RunnerTypeOK'
<1>1. TypeOK'
  BY SchedKept DEF SchedInv, Next, Main
<1>2. /\ InBatch /\ Places /\ c \in Futures /\ future[c] # None
      /\ machine[c] # None
  BY DEF CollectTerminal, CollectUncertain, Collectable, Inv, Futures, Places,
         FlightKnown, Ready
<1>3. future[c] \in Flight
  BY <1>2 DEF Inv, RunnerTypeOK
<1>4. log' \in [Attempt -> Seq(Entry)] /\ machine' \in [Campaign -> {None} \cup MachineState]
  <2>1. CASE CollectTerminal(c, u, n)
    BY <1>2, <2>1, WriteTypes, EntryTypes DEF CollectTerminal
  <2>2. CASE CollectUncertain(c, u, n)
    <3>1. future[c].result \in Interruption
      BY <1>3, <2>2 DEF CollectUncertain, Flight
    <3>2. QED
      BY <1>2, <2>2, <3>1, WriteTypes, EntryTypes DEF CollectUncertain
  <2>3. QED
    BY <2>1, <2>2
<1>5. todo' \in Seq(Step)
  <2>1. queue \in Seq(Campaign) /\ nextLease \in Nat \ {0}
    BY DEF Inv, RunnerTypeOK, TypeOK
  <2>2. Launches(n) \in Seq(Step)
    BY <2>1, LaunchesType
  <2>3. Call("again", c, 0) \in Step
    BY CallType
  <2>4. Launches(n) \o <<Call("again", c, 0)>> \in Seq(Step)
    BY <2>2, <2>3
  <2>5. QED
    BY <2>2, <2>4 DEF CollectTerminal, CollectUncertain
<1>6. future' \in [Campaign -> {None} \cup Flight]
  BY DEF CollectTerminal, CollectUncertain, Inv, RunnerTypeOK
<1>7. outcome' \in [Campaign -> {None, "existing", "terminal", "uncertain", "unsupported"}]
  BY DEF CollectTerminal, CollectUncertain, Inv, RunnerTypeOK
<1>8. UNCHANGED <<phase, try, pending, resumes, cause, recovers, batches, mishaps>>
  BY DEF CollectTerminal, CollectUncertain
<1>9. QED
  BY <1>1, <1>4, <1>5, <1>6, <1>7, <1>8, StepIsCall DEF RunnerTypeOK, Inv

LEMMA TypesKept == Inv /\ [Next]_vars => RunnerTypeOK'
<1> SUFFICES ASSUME Inv, [Next]_vars PROVE RunnerTypeOK'
  OBVIOUS
<1>0. TypeOK' /\ RunnerTypeOK
  BY SchedKept DEF SchedInv, Inv
<1>1. CASE RefuseTask \/ Crash \/ AppendRaises
  <2>1. /\ todo' = << >> /\ phase' \in {"aborted", "down"}
        /\ UNCHANGED <<schedVars, log, try, pending, machine, future, resumes, cause,
                       outcome, recovers, batches>>
    BY <1>1 DEF RefuseTask, Crash, AppendRaises, Abort
  <2>2. mishaps' \in 0 .. MaxMishaps
    BY <1>0, <1>1, RunnerPolicy DEF RefuseTask, Crash, AppendRaises, RunnerTypeOK
  <2>3. QED
    BY <1>0, <2>1, <2>2 DEF RunnerTypeOK
<1>2. CASE LaunchRaises
  BY <1>0, <1>2, RunnerPolicy DEF LaunchRaises, Abort, RunnerTypeOK
<1>3. CASE Sweep
  <2>1. Head(queue) \in Campaign
    BY <1>0, <1>3 DEF Sweep, RunnerTypeOK, TypeOK
  <2>2. todo' \in Seq(Step)
    BY <1>3, <2>1, CallType DEF Sweep
  <2>3. QED
    BY <1>0, <1>3, <2>2, StepIsCall DEF Sweep, RunnerTypeOK
<1>4. CASE Return \/ Exit
  BY <1>0, <1>4 DEF Return, Exit, RunnerTypeOK
<1>5. ASSUME NEW a \in Attempt, Recover(a) PROVE RunnerTypeOK'
  <2>1. log' \in [Attempt -> Seq(Entry)]
    BY <1>0, <1>5, EntryTypes, RunnerPolicy, Appended DEF Recover, RunnerTypeOK, LogType
  <2>2. QED
    BY <1>0, <1>5, <2>1 DEF Recover, RunnerTypeOK, runVars
<1>6. ASSUME NEW c \in Campaign, NEW k \in Interruption \cup {None}, CallbackEnds(c, k)
      PROVE  RunnerTypeOK'
  <2>1. future[c] \in Flight
    BY <1>0, <1>6 DEF CallbackEnds, Running, RunnerTypeOK
  <2>2. future' \in [Campaign -> {None} \cup Flight]
    BY <1>0, <1>6, <2>1 DEF CallbackEnds, RunnerTypeOK, Flight
  <2>3. QED
    BY <1>0, <1>6, <2>2 DEF CallbackEnds, RunnerTypeOK
<1>7. CASE UNCHANGED vars
  BY <1>0, <1>7 DEF vars, runVars, RunnerTypeOK
<1>8. QED
  BY <1>1, <1>2, <1>3, <1>4, <1>5, <1>6, <1>7, BeginTypes, OfferTypes, LaunchTypes,
     CollectTypes DEF Next, Main, Driver, Callback

----------------------------------------------------------------------------
(* Places                                                                  *)

\* The step is about campaign c: no other campaign is touched.
About(c) ==
  /\ try' = try
  /\ \A b \in Campaign : b # c =>
       /\ machine'[b] = machine[b] /\ future'[b] = future[b]
       /\ cause'[b] = cause[b] /\ resumes'[b] = resumes[b]
       /\ \A t \in Tries : log'[<<b, t>>] = log[<<b, t>>]

LEMMA AboutOthers ==
  ASSUME Inv, NEW c \in Campaign, About(c), NEW b \in Campaign, b # c
  PROVE  /\ Observed(b)' <=> Observed(b)
         /\ Ready(b)' <=> Ready(b)
         /\ Remembers(b)' <=> Remembers(b)
         /\ Matches(b)' <=> Matches(b)
         /\ StateIn(TaskOf(b))' = StateIn(TaskOf(b))
<1>1. ASSUME NEW t \in Tries
      PROVE  /\ StateIn(<<b, t>>)' = StateIn(<<b, t>>)
             /\ CauseIn(<<b, t>>)' = CauseIn(<<b, t>>)
  <2>1. log'[<<b, t>>] = log[<<b, t>>]
    BY DEF About
  <2>2. StateIn(<<b, t>>)' = StateIn(<<b, t>>)
    BY <2>1 DEF StateIn
  <2>3. CauseIn(<<b, t>>)' = CauseIn(<<b, t>>)
    BY <2>1 DEF CauseIn
  <2>4. QED
    BY <2>2, <2>3
<1>2. Observed(b)' <=> Observed(b)
  BY <1>1 DEF Observed
<1>3. try[b] \in Tries /\ try' = try
  BY DEF About, Inv, RunnerTypeOK
<1>4. machine'[b] = machine[b] /\ cause'[b] = cause[b]
  BY DEF About
<1>5. StateIn(TaskOf(b))' = StateIn(TaskOf(b)) /\ CauseIn(TaskOf(b))' = CauseIn(TaskOf(b))
  <2>1. /\ StateIn(TaskOf(b))' = StateIn(<<b, try[b]>>)'
        /\ CauseIn(TaskOf(b))' = CauseIn(<<b, try[b]>>)'
    BY <1>3 DEF TaskOf, StateIn, CauseIn
  <2>2. QED
    BY <1>1, <1>3, <2>1 DEF TaskOf
<1>6. QED
  BY <1>2, <1>4, <1>5 DEF Ready, Remembers, Matches

(* A step about one campaign keeps the others where they are, and what is  *)
(* known of them.                                                          *)
LEMMA PlacesStep ==
  ASSUME Inv, Places, NEW c \in Campaign, About(c), OneCall', OneWait',
         \A x \in Calls' : x.task # c => x \in Calls,
         Waiting' \subseteq Waiting \cup {c},
         Calls \subseteq Step, Waiting \subseteq Campaign,
         \A x \in Calls' : x.task = c => CallKnown(x)',
         c \in Waiting' => WaitKnown(c)',
         future'[c] # None => FlightKnown(c)',
         Matches(c)'
  PROVE  Places'
<1>1. \A x \in Calls' : CallKnown(x)'
  <2> SUFFICES ASSUME NEW x \in Calls', x.task # c PROVE CallKnown(x)'
    OBVIOUS
  <2>1. x \in Calls /\ x.task \in Campaign /\ CallKnown(x)
    BY DEF Places, Step
  <2>2. /\ Ready(x.task)' <=> Ready(x.task)
        /\ Remembers(x.task)' <=> Remembers(x.task)
    BY <2>1, AboutOthers
  <2>3. /\ future'[x.task] = future[x.task] /\ cause'[x.task] = cause[x.task]
        /\ resumes'[x.task] = resumes[x.task] /\ machine'[x.task] = machine[x.task]
    BY <2>1 DEF About
  <2>4. x.task \notin Waiting'
    BY <2>1 DEF CallKnown
  <2>5. QED
    BY <2>1, <2>2, <2>3, <2>4 DEF CallKnown
<1>2. \A b \in Waiting' : WaitKnown(b)'
  <2> SUFFICES ASSUME NEW b \in Waiting', b # c PROVE WaitKnown(b)'
    OBVIOUS
  <2>1. b \in Waiting /\ b \in Campaign /\ WaitKnown(b)
    BY DEF Places
  <2>2. QED
    BY <2>1, AboutOthers DEF WaitKnown, About
<1>3. \A b \in Futures' : FlightKnown(b)'
  <2> SUFFICES ASSUME NEW b \in Campaign, future'[b] # None, b # c PROVE FlightKnown(b)'
    BY DEF Futures
  <2>1. b \in Futures /\ FlightKnown(b)
    BY DEF Futures, About, Places
  <2>2. QED
    BY <2>1, AboutOthers DEF FlightKnown, About
<1>4. \A b \in Campaign : Matches(b)'
  BY AboutOthers DEF Places
<1>5. QED
  BY <1>1, <1>2, <1>3, <1>4 DEF Places

LEMMA PlaceTypes ==
  ASSUME Inv
  PROVE  /\ Calls \subseteq Step /\ Waiting \subseteq Campaign
         /\ todo \in Seq(Step) /\ queue \in Seq(Campaign)
         /\ nextLease \in Nat \ {0}
<1>1. todo \in Seq(Step) /\ queue \in Seq(Campaign) /\ nextLease \in Nat \ {0}
  BY StepIsCall DEF Inv, RunnerTypeOK, TypeOK
<1>2. QED
  BY <1>1 DEF Calls, Waiting

(* An offer puts the campaign into a call or into the queue.               *)
LEMMA OfferPlaces ==
  ASSUME Inv, Places, todo # << >>, NEW c \in Campaign, c = Head(todo).task,
         CallKnown(Head(todo)), Offer(c, Tail(todo)), About(c),
         future'[c] = None, Ready(c)', Remembers(c)', Matches(c)'
  PROVE  Places'
<1>1. /\ todo \in Seq(Step) /\ OneCall /\ OneWait /\ c \notin Waiting
      /\ queue \in Seq(Campaign) /\ nextLease \in Nat
      /\ Calls \subseteq Step /\ Waiting \subseteq Campaign
  BY PlaceTypes DEF Places, CallKnown
<1>2. ASSUME NEW y \in Step, y.task = c, y.op \in {"launch", "reject"},
             todo' = <<y>> \o Tail(todo), queue' = queue
      PROVE  Places'
  <2>1. /\ OneCall' /\ Calls' = (Calls \ {Head(todo)}) \cup {y}
        /\ \A x \in Calls : x # Head(todo) => x.task # c
    BY <1>1, <1>2, HeadReplaced
  <2>2. Waiting' = Waiting /\ OneWait'
    BY <1>1, <1>2 DEF Waiting, OneWait
  <2>3. CallKnown(y)'
    BY <1>1, <1>2, <2>2 DEF CallKnown
  <2>4. QED
    BY <1>1, <1>2, <2>1, <2>2, <2>3, PlacesStep
<1>3. CASE SubmitAdmitted(c) /\ todo' = <<Call("launch", c, nextLease)>> \o Tail(todo)
  BY <1>1, <1>2, <1>3, CallType DEF SubmitAdmitted
<1>4. CASE SubmitRejected(c) /\ todo' = <<Call("reject", c, 0)>> \o Tail(todo)
  BY <1>1, <1>2, <1>4, CallType DEF SubmitRejected, schedVars
<1>5. CASE SubmitQueued(c) /\ todo' = Tail(todo)
  <2>1. /\ OneCall' /\ Calls' = Calls \ {Head(todo)}
        /\ \A x \in Calls : x # Head(todo) => x.task # c
    BY <1>1, <1>5, HeadDone
  <2>2. OneWait' /\ Waiting' = Waiting \cup {c}
    BY <1>1, <1>5, Joined DEF SubmitQueued
  <2>3. WaitKnown(c)'
    BY DEF WaitKnown
  <2>4. QED
    BY <1>1, <2>1, <2>2, <2>3, PlacesStep
<1>6. QED
  BY <1>3, <1>4, <1>5 DEF Offer

LEMMA MachineIs ==
  ASSUME Inv, NEW c \in Campaign, Matches(c)
  PROVE  /\ Machine(c) \in MachineState /\ Machine(c) # None
         /\ Machine(c).state = StateIn(TaskOf(c))
         /\ Machine(c).cause = CauseIn(TaskOf(c))
<1>1. TaskOf(c) \in Attempt
  BY DEF TaskOf, Attempt, Inv, RunnerTypeOK
<1>2. Machine(c) \in MachineState
  BY <1>1, StateTells, CauseTells DEF Machine, MachineState, Inv, RunnerTypeOK, LogType
<1>3. QED
  BY <1>2, RunnerNone DEF Machine, Matches

LEMMA SameLog ==
  ASSUME UNCHANGED <<log, try>>, NEW c
  PROVE  /\ StateIn(TaskOf(c))' = StateIn(TaskOf(c))
         /\ CauseIn(TaskOf(c))' = CauseIn(TaskOf(c))
         /\ Observed(c)' <=> Observed(c)
<1>1. TaskOf(c)' = TaskOf(c)
  BY DEF TaskOf
<1>2. StateIn(TaskOf(c))' = StateIn(TaskOf(c))
  BY <1>1 DEF StateIn
<1>3. CauseIn(TaskOf(c))' = CauseIn(TaskOf(c))
  BY <1>1 DEF CauseIn
<1>4. Observed(c)' <=> Observed(c)
  BY DEF Observed, StateIn
<1>5. QED
  BY <1>2, <1>3, <1>4

LEMMA OfferTaskPlaces == Inv /\ OfferTask => Places' /\ About(Head(todo).task)
<1> SUFFICES ASSUME Inv, OfferTask PROVE Places' /\ About(Head(todo).task)
  OBVIOUS
<1>0. PICK c \in Campaign : c = Head(todo).task
  BY NextKnown DEF OfferTask, OfferAgain
<1>1. /\ Places /\ todo # << >> /\ c \in Campaign /\ CallKnown(Head(todo))
      /\ Head(todo).op = "offer"
  BY <1>0, NextKnown DEF OfferTask
<1>2. Matches(c)
  BY <1>1 DEF Places
<1>3. machine' = [machine EXCEPT ![c] = Machine(c)] /\ Offer(c, Tail(todo))
  BY <1>0 DEF OfferTask
<1>4. machine'[c] = Machine(c)
  BY <1>1, <1>3 DEF Inv, RunnerTypeOK
<1>5. UNCHANGED <<log, try, future, resumes, cause>>
  BY DEF OfferTask
<1>6. About(c)
  BY <1>1, <1>3, <1>5 DEF About, Inv, RunnerTypeOK
<1>7. ~Observed(c)
  BY <1>0 DEF OfferTask, Refused, Observed
<1>8. ~Observed(c)'
  BY <1>5, <1>7 DEF Observed, StateIn
<1>9. Ready(c)'
  BY <1>1, <1>2, <1>4, <1>8, MachineIs DEF Ready
<1>10. cause'[c] = None /\ future'[c] = None
  BY <1>0, <1>1, <1>5 DEF CallKnown
<1>11. Matches(c)'
  <2>1. StateIn(TaskOf(c))' = StateIn(TaskOf(c)) /\ CauseIn(TaskOf(c))' = CauseIn(TaskOf(c))
    BY <1>5, SameLog
  <2>2. QED
    BY <1>1, <1>2, <1>4, <2>1, MachineIs DEF Matches
<1>12. Remembers(c)'
  BY <1>10 DEF Remembers
<1>13. Places'
  BY <1>1, <1>3, <1>6, <1>9, <1>10, <1>11, <1>12, OfferPlaces, <1>0
<1>14. QED
  BY <1>0, <1>6, <1>13

LEMMA OfferAgainPlaces == Inv /\ OfferAgain => Places' /\ About(Head(todo).task)
<1> SUFFICES ASSUME Inv, OfferAgain PROVE Places' /\ About(Head(todo).task)
  OBVIOUS
<1>0. PICK c \in Campaign : c = Head(todo).task
  BY NextKnown DEF OfferTask, OfferAgain
<1>1. /\ Places /\ todo # << >> /\ c \in Campaign /\ CallKnown(Head(todo))
      /\ Head(todo).op = "again"
  BY <1>0, NextKnown DEF OfferAgain
<1>2. /\ Matches(c) /\ Ready(c) /\ future[c] = None
  BY <1>0, <1>1 DEF Places, CallKnown
<1>3. UNCHANGED <<log, try, machine, future>> /\ Offer(c, Tail(todo))
  BY <1>0 DEF OfferAgain
<1>4. /\ cause'[c] = machine[c].cause
      /\ \A b \in Campaign : b # c => cause'[b] = cause[b] /\ resumes'[b] = resumes[b]
  BY <1>0, <1>1 DEF OfferAgain, Inv, RunnerTypeOK
<1>5. About(c)
  BY <1>3, <1>4 DEF About
<1>6. Ready(c)' /\ Matches(c)'
  BY <1>2, <1>3 DEF Ready, Observed, Matches, StateIn, CauseIn, TaskOf
<1>7. Remembers(c)' /\ future'[c] = None
  BY <1>2, <1>3, <1>4 DEF Remembers
<1>8. Places'
  BY <1>1, <1>3, <1>5, <1>6, <1>7, OfferPlaces, <1>0
<1>9. QED
  BY <1>0, <1>5, <1>8

(* A campaign whose call is done leaves the stack.                         *)
LEMMA LeavesStack ==
  ASSUME Inv, Places, todo # << >>, NEW c \in Campaign, c = Head(todo).task,
         c \notin Waiting, todo' = Tail(todo), queue' = queue, About(c),
         future'[c] # None => FlightKnown(c)', Matches(c)'
  PROVE  Places'
<1>1. /\ todo \in Seq(Step) /\ OneCall /\ OneWait
      /\ Calls \subseteq Step /\ Waiting \subseteq Campaign
  BY PlaceTypes DEF Places
<1>2. /\ OneCall' /\ Calls' = Calls \ {Head(todo)}
      /\ \A x \in Calls : x # Head(todo) => x.task # c
  BY <1>1, HeadDone
<1>3. Waiting' = Waiting /\ OneWait'
  BY <1>1 DEF Waiting, OneWait
<1>4. QED
  BY <1>1, <1>2, <1>3, PlacesStep

LEMMA SkipTaskPlaces == Inv /\ SkipTask => Places' /\ About(Head(todo).task)
<1> SUFFICES ASSUME Inv, SkipTask PROVE Places' /\ About(Head(todo).task)
  OBVIOUS
<1>0. PICK c \in Campaign : c = Head(todo).task
  BY NextKnown DEF SkipTask
<1>1. /\ Places /\ todo # << >> /\ CallKnown(Head(todo))
  BY NextKnown DEF SkipTask
<1>2. Matches(c)
  BY <1>1 DEF Places
<1>3. /\ machine' = [machine EXCEPT ![c] = Machine(c)] /\ todo' = Tail(todo)
      /\ UNCHANGED <<log, try, future, resumes, cause, queue>>
  BY <1>0 DEF SkipTask, schedVars
<1>4. machine'[c] = Machine(c)
  BY <1>3 DEF Inv, RunnerTypeOK
<1>5. About(c)
  BY <1>3 DEF About, Inv, RunnerTypeOK
<1>6. Matches(c)'
  <2>1. StateIn(TaskOf(c))' = StateIn(TaskOf(c)) /\ CauseIn(TaskOf(c))' = CauseIn(TaskOf(c))
    BY <1>3, SameLog
  <2>2. QED
    BY <1>2, <1>4, <2>1, MachineIs DEF Matches
<1>7. c \notin Waiting /\ future'[c] = None
  BY <1>0, <1>1, <1>3 DEF CallKnown
<1>8. Places'
  BY <1>0, <1>1, <1>3, <1>5, <1>6, <1>7, LeavesStack
<1>9. QED
  BY <1>0, <1>5, <1>8

(* A machine's append about campaign c.                                    *)
LEMMA WriteAbout ==
  ASSUME Inv, NEW c \in Campaign, machine[c] # None, Matches(c), NEW e \in Entry,
         Write(c, e, StateAfter(e)), try' = try
  PROVE  /\ machine'[c] # None /\ machine'[c].state = StateAfter(e)
         /\ machine'[c].cause = IF e.cause = None THEN machine[c].cause ELSE e.cause
         /\ Matches(c)'
         /\ e.type # "terminal" => (Observed(c)' => Observed(c))
         /\ \A b \in Campaign : b # c =>
              /\ machine'[b] = machine[b]
              /\ \A t \in Tries : log'[<<b, t>>] = log[<<b, t>>]
<1>1. TaskOf(c) \in Attempt /\ LogType /\ TaskOf(c)' = TaskOf(c)
  BY DEF TaskOf, Attempt, Inv, RunnerTypeOK, LogType
<1>2. log' = [log EXCEPT ![TaskOf(c)] = Append(@, e)]
  BY DEF Write
<1>3. /\ StateIn(TaskOf(c))' = StateAfter(e)
      /\ CauseIn(TaskOf(c))' = IF e.cause = None THEN CauseIn(TaskOf(c)) ELSE e.cause
  <2> DEFINE a == TaskOf(c)
  <2>1. PICK d \in Attempt : d = TaskOf(c)
    BY <1>1
  <2>2. /\ StateIn(d)' = StateAfter(e)
        /\ CauseIn(d)' = IF e.cause = None THEN CauseIn(d) ELSE e.cause
    BY <1>1, <1>2, <2>1, Appended
  <2>3. StateIn(TaskOf(c))' = StateIn(d)' /\ CauseIn(TaskOf(c))' = CauseIn(d)'
    BY <1>1, <2>1 DEF StateIn, CauseIn
  <2>4. QED
    BY <2>1, <2>2, <2>3
<1>4. StateAfter(e) \in {"planned", "running", "uncertain", "terminal"}
  BY DEF Entry, StateAfter
<1>5. machine'[c] = [state |-> StateAfter(e),
                     cause |-> IF e.cause = None THEN machine[c].cause ELSE e.cause]
  BY DEF Write, Inv, RunnerTypeOK
<1>6. machine'[c] # None
  <2>1. machine' \in [Campaign -> {None} \cup MachineState]
    BY <1>4, WriteTypes
  <2>2. machine[c] \in MachineState
    BY DEF Inv, RunnerTypeOK
  <2>3. machine[c].cause \in Interruption \cup {None} /\ e.cause \in Interruption \cup {None}
    BY <2>2 DEF MachineState, Entry
  <2>4. machine'[c] \in MachineState
    BY <1>4, <1>5, <2>3 DEF MachineState
  <2>5. QED
    BY <2>4, RunnerNone
<1>7. Matches(c)'
  BY <1>3, <1>5 DEF Matches
<1>8. \A b \in Attempt : b # TaskOf(c) => log'[b] = log[b] /\ StateIn(b)' = StateIn(b)
  BY <1>1, <1>2, Appended
<1>9. ASSUME e.type # "terminal", NEW t \in Tries, StateIn(<<c, t>>)' = "terminal"
      PROVE  StateIn(<<c, t>>) = "terminal"
  <2>1. <<c, t>> # TaskOf(c)
    <3>1. StateAfter(e) # "terminal"
      BY <1>9 DEF StateAfter, Entry
    <3>2. CASE <<c, t>> = TaskOf(c)
      <4>1. StateIn(<<c, t>>)' = StateIn(TaskOf(c))'
        BY <1>1, <3>2 DEF StateIn
      <4>2. QED
        BY <1>3, <1>9, <3>1, <4>1
    <3>3. QED
      BY <3>2
  <2>2. <<c, t>> \in Attempt
    BY DEF Attempt
  <2>3. QED
    BY <1>8, <1>9, <2>1, <2>2
<1>10. e.type # "terminal" => (Observed(c)' => Observed(c))
  BY <1>9 DEF Observed
<1>11. ASSUME NEW b \in Campaign, b # c
       PROVE  /\ machine'[b] = machine[b]
              /\ \A t \in Tries : log'[<<b, t>>] = log[<<b, t>>]
  <2>1. \A t \in Tries : <<b, t>> \in Attempt /\ <<b, t>> # TaskOf(c)
    BY <1>11 DEF Attempt, TaskOf
  <2>2. machine'[b] = machine[b]
    BY <1>11 DEF Write, Inv, RunnerTypeOK
  <2>3. QED
    BY <1>8, <2>1, <2>2
<1>12. QED
  BY <1>5, <1>6, <1>7, <1>10, <1>11

LEMMA LaunchPlaces == Inv /\ Launch => Places' /\ About(Head(todo).task)
<1> SUFFICES ASSUME Inv, Launch PROVE Places' /\ About(Head(todo).task)
  OBVIOUS
<1>0. PICK c \in Campaign : c = Head(todo).task
  BY NextKnown DEF Launch
<1>1. /\ Places /\ todo # << >> /\ CallKnown(Head(todo)) /\ Head(todo) \in Step
      /\ Head(todo).op = "launch"
  BY NextKnown DEF Launch
<1>2. /\ Matches(c) /\ Ready(c) /\ c \notin Waiting /\ machine[c] # None
  BY <1>0, <1>1 DEF Places, CallKnown, Ready
<1>3. /\ Write(c, Started, StateAfter(Started)) /\ todo' = Tail(todo)
      /\ future' = [future EXCEPT ![c] =
             [lease |-> Head(todo).lease, done |-> FALSE, result |-> None]]
      /\ UNCHANGED <<try, resumes, cause, queue>>
  BY <1>0 DEF Launch, schedVars, Started, StateAfter
<1>4. /\ machine'[c] # None /\ machine'[c].state = "running" /\ Matches(c)'
      /\ ~Observed(c)'
      /\ \A b \in Campaign : b # c =>
           /\ machine'[b] = machine[b]
           /\ \A t \in Tries : log'[<<b, t>>] = log[<<b, t>>]
  <2>1. Started \in Entry /\ Started.type = "started" /\ StateAfter(Started) = "running"
    BY EntryTypes DEF Started, StateAfter
  <2>2. QED
    BY <1>2, <1>3, <2>1, WriteAbout DEF Ready
<1>5. \A b \in Campaign : b # c => future'[b] = future[b]
  BY <1>3 DEF Inv, RunnerTypeOK
<1>6. About(c)
  BY <1>3, <1>4, <1>5 DEF About
<1>7. FlightKnown(c)'
  BY <1>4 DEF FlightKnown, Ready
<1>8. Places'
  BY <1>0, <1>1, <1>2, <1>3, <1>4, <1>6, <1>7, LeavesStack
<1>9. QED
  BY <1>0, <1>6, <1>8

LEMMA RejectPlaces == Inv /\ Reject => Places' /\ About(Head(todo).task)
<1> SUFFICES ASSUME Inv, Reject PROVE Places' /\ About(Head(todo).task)
  OBVIOUS
<1>0. PICK c \in Campaign : c = Head(todo).task
  BY NextKnown DEF Reject
<1>1. /\ Places /\ todo # << >> /\ CallKnown(Head(todo)) /\ Head(todo) \in Step
      /\ Head(todo).op = "reject"
  BY NextKnown DEF Reject
<1>2. /\ Matches(c) /\ Ready(c) /\ c \notin Waiting /\ machine[c] # None
      /\ future[c] = None
  BY <1>0, <1>1 DEF Places, CallKnown, Ready
<1>3. PICK y \in Step : /\ y.task = c /\ y.op = "finish"
                        /\ todo' = <<y>> \o Tail(todo)
  <2>1. Call("finish", c, 0) \in Step /\ Call("finish", c, 0).task = c
        /\ Call("finish", c, 0).op = "finish"
    BY CallType
  <2>2. todo' = <<Call("finish", c, 0)>> \o Tail(todo)
    BY <1>0 DEF Reject
  <2>3. QED
    BY <2>1, <2>2
<1>4. UNCHANGED <<try, future, resumes, cause, queue>>
  BY DEF Reject, schedVars
<1>5. /\ machine'[c] # None /\ machine'[c].state \in {"running", "uncertain"}
      /\ Matches(c)' /\ ~Observed(c)'
      /\ \A b \in Campaign : b # c =>
           /\ machine'[b] = machine[b]
           /\ \A t \in Tries : log'[<<b, t>>] = log[<<b, t>>]
  <2>1. CASE machine[c].state = "planned" /\ Write(c, Started, "running")
    <3>1. Started \in Entry /\ Started.type = "started" /\ StateAfter(Started) = "running"
      BY EntryTypes DEF Started, StateAfter
    <3>2. QED
      BY <1>2, <1>4, <2>1, <3>1, WriteAbout DEF Ready
  <2>2. CASE machine[c].state = "running" /\ Write(c, Uncertain(WorkerRestart), "uncertain")
    <3>1. PICK e \in Entry : /\ e = Uncertain(WorkerRestart) /\ e.type = "uncertain"
                             /\ StateAfter(e) = "uncertain"
      BY EntryTypes, RunnerPolicy DEF Uncertain, StateAfter
    <3>2. QED
      BY <1>2, <1>4, <2>2, <3>1, WriteAbout DEF Ready
  <2>3. CASE machine[c].state = "uncertain" /\ UNCHANGED <<log, machine>>
    <3>1. UNCHANGED <<log, try>> /\ UNCHANGED machine
      BY <1>4, <2>3
    <3>2. /\ StateIn(TaskOf(c))' = StateIn(TaskOf(c))
          /\ CauseIn(TaskOf(c))' = CauseIn(TaskOf(c))
          /\ Observed(c)' <=> Observed(c)
      BY <3>1, SameLog
    <3>3. QED
      BY <1>2, <2>3, <3>1, <3>2 DEF Ready, Matches
  <2>4. QED
    BY <1>0, <2>1, <2>2, <2>3 DEF Reject
<1>6. About(c)
  BY <1>4, <1>5 DEF About
<1>7. /\ todo \in Seq(Step) /\ OneCall /\ OneWait
      /\ Calls \subseteq Step /\ Waiting \subseteq Campaign
  BY <1>1, PlaceTypes DEF Places
<1>8. /\ OneCall' /\ Calls' = (Calls \ {Head(todo)}) \cup {y}
      /\ \A x \in Calls : x # Head(todo) => x.task # c
  BY <1>0, <1>1, <1>3, <1>7, HeadReplaced
<1>9. Waiting' = Waiting /\ OneWait'
  BY <1>4, <1>7 DEF Waiting, OneWait
<1>10. CallKnown(y)'
  BY <1>2, <1>3, <1>4, <1>5, <1>9 DEF CallKnown, Ready
<1>11. Places'
  BY <1>1, <1>2, <1>3, <1>4, <1>5, <1>6, <1>7, <1>8, <1>9, <1>10, PlacesStep
<1>12. QED
  BY <1>0, <1>6, <1>11

LEMMA FinishPlaces == Inv /\ FinishRejected => Places' /\ About(Head(todo).task)
<1> SUFFICES ASSUME Inv, FinishRejected PROVE Places' /\ About(Head(todo).task)
  OBVIOUS
<1>0. PICK c \in Campaign : c = Head(todo).task
  BY NextKnown DEF FinishRejected
<1>1. /\ Places /\ todo # << >> /\ CallKnown(Head(todo))
      /\ Head(todo).op = "finish"
  BY NextKnown DEF FinishRejected
<1>2. /\ Matches(c) /\ c \notin Waiting /\ machine[c] # None /\ future[c] = None
  BY <1>0, <1>1 DEF Places, CallKnown, Ready
<1>3. /\ Write(c, Terminal, StateAfter(Terminal)) /\ todo' = Tail(todo)
      /\ UNCHANGED <<try, future, resumes, cause, queue>>
  BY <1>0 DEF FinishRejected, schedVars, Terminal, StateAfter
<1>4. /\ Matches(c)'
      /\ \A b \in Campaign : b # c =>
           /\ machine'[b] = machine[b]
           /\ \A t \in Tries : log'[<<b, t>>] = log[<<b, t>>]
  BY <1>2, <1>3, EntryTypes, WriteAbout
<1>5. About(c)
  BY <1>3, <1>4 DEF About
<1>6. Places'
  BY <1>0, <1>1, <1>2, <1>3, <1>4, <1>5, LeavesStack
<1>7. QED
  BY <1>0, <1>5, <1>6

LEMMA CallbackPlaces ==
  ASSUME Inv, Places, NEW c \in Campaign, NEW k \in Interruption \cup {None},
         CallbackEnds(c, k)
  PROVE  Places' /\ About(c)
<1>1. /\ future[c] # None /\ future[c] \in Flight
      /\ UNCHANGED <<queue, log, try, todo, machine, resumes, cause>>
  BY DEF CallbackEnds, Running, Inv, RunnerTypeOK, schedVars
<1>2. future'[c] \in Flight /\ \A b \in Campaign : b # c => future'[b] = future[b]
  BY <1>1 DEF CallbackEnds, Flight, Inv, RunnerTypeOK
<1>3. About(c)
  BY <1>1, <1>2 DEF About
<1>4. FlightKnown(c) /\ Matches(c)
  BY <1>1 DEF Places, Futures
<1>5. FlightKnown(c)' /\ Matches(c)'
  <2>1. UNCHANGED <<log, try>>
    BY <1>1
  <2>2. /\ StateIn(TaskOf(c))' = StateIn(TaskOf(c))
        /\ CauseIn(TaskOf(c))' = CauseIn(TaskOf(c))
        /\ Observed(c)' <=> Observed(c)
    BY <2>1, SameLog
  <2>3. QED
    BY <1>1, <1>4, <2>2 DEF FlightKnown, Ready, Matches
<1>6. Calls' = Calls /\ Waiting' = Waiting /\ OneCall' /\ OneWait'
  BY <1>1 DEF Calls, Waiting, OneCall, OneWait, Places
<1>7. \A x \in Calls : x.task # c
  BY <1>1 DEF Places, CallKnown
<1>8. c \notin Waiting
  BY <1>1 DEF Places, WaitKnown
<1>9. QED
  BY <1>3, <1>5, <1>6, <1>7, <1>8, PlacesStep, PlaceTypes

LEMMA SweepPlaces ==
  ASSUME Inv, Sweep, NEW c \in Campaign, c = Head(queue)
  PROVE  /\ Places' /\ About(c) /\ c \in Waiting /\ Waiting' = Waiting \ {c}
         /\ \E y \in Step : y.task = c /\ y.op = "reject" /\ Calls' = {y}
<1>1. Places /\ queue # << >> /\ todo = << >>
  BY DEF Sweep, AllCollected, Inv
<1>2. /\ queue \in Seq(Campaign) /\ Calls \subseteq Step /\ Waiting \subseteq Campaign
      /\ OneWait
  BY <1>1, PlaceTypes DEF Places
<1>3. c = Head(queue)
  OBVIOUS
<1>4. UNCHANGED <<log, try, machine, future, resumes, cause>>
  BY DEF Sweep
<1>5. /\ c = queue[1] /\ 1 \in DOMAIN queue /\ c \in Waiting /\ WaitKnown(c) /\ Matches(c)
  BY <1>1, <1>2, <1>3 DEF Waiting, Places
<1>6. queue' = SubSeq(queue, 2, Len(queue))
  <2>1. CancelQueued(c)
    BY <1>3 DEF Sweep
  <2>2. PICK i \in 1 .. Len(queue) :
          /\ queue[i] = c
          /\ queue' = SubSeq(queue, 1, i - 1) \o SubSeq(queue, i + 1, Len(queue))
    BY <2>1 DEF CancelQueued
  <2>3. i = 1
    BY <1>2, <1>5, <2>2 DEF OneWait
  <2>4. queue' = SubSeq(queue, 1, 0) \o SubSeq(queue, 2, Len(queue))
    BY <2>2, <2>3
  <2>5. SubSeq(queue, 1, 0) = << >> /\ SubSeq(queue, 2, Len(queue)) \in Seq(Campaign)
    BY <1>2
  <2>6. \A q \in Seq(Campaign) : << >> \o q = q
    OBVIOUS
  <2>7. QED
    BY <2>4, <2>5, <2>6
<1>7. OneWait' /\ Waiting' = Waiting \ {c}
  <2>1. PICK n \in 0 .. Len(queue) : n = 1
    BY <1>1, <1>2, <1>5
  <2>2. {queue[i] : i \in 1 .. n} = {c}
    BY <1>5, <2>1
  <2>3. queue' = SubSeq(queue, n + 1, Len(queue))
    BY <1>6, <2>1
  <2>4. OneWait' /\ Waiting' = Waiting \ {queue[i] : i \in 1 .. n}
    BY <1>2, <2>3, Drained
  <2>5. QED
    BY <2>2, <2>4
<1>8. PICK y \in Step : y.task = c /\ y.op = "reject" /\ todo' = <<y>>
  BY <1>3, CallType DEF Sweep
<1>9. Calls' = {y} /\ OneCall'
  BY <1>8 DEF Calls, OneCall
<1>10. About(c)
  BY <1>4 DEF About
<1>11. Ready(c)' /\ Matches(c)' /\ future'[c] = None
  <2>1. UNCHANGED <<log, try>>
    BY <1>4
  <2>2. /\ StateIn(TaskOf(c))' = StateIn(TaskOf(c))
        /\ CauseIn(TaskOf(c))' = CauseIn(TaskOf(c))
        /\ Observed(c)' <=> Observed(c)
    BY <2>1, SameLog
  <2>3. QED
    BY <1>4, <1>5, <2>2 DEF WaitKnown, Ready, Matches
<1>12. CallKnown(y)'
  BY <1>7, <1>8, <1>11 DEF CallKnown
<1>13. Places'
  BY <1>1, <1>2, <1>7, <1>8, <1>9, <1>10, <1>11, <1>12, PlacesStep
<1>14. QED
  BY <1>5, <1>7, <1>8, <1>9, <1>10, <1>13

(* A collected campaign leaves its future; the campaigns its lease let in  *)
(* leave the queue for launch calls.                                       *)
LEMMA CollectAbout ==
  ASSUME Inv, NEW c \in Campaign, NEW u \in Usage, NEW n \in 0 .. Len(queue),
         CollectTerminal(c, u, n) \/ CollectUncertain(c, u, n)
  PROVE  /\ InBatch /\ Places /\ todo = << >> /\ future[c] # None /\ FlightKnown(c)
         /\ About(c) /\ Matches(c)' /\ future'[c] = None /\ machine'[c] # None
         /\ CollectUncertain(c, u, n) =>
              ~Observed(c)' /\ machine'[c].state = "uncertain"
         /\ CollectTerminal(c, u, n) => machine'[c].state = "terminal"
         /\ queue' = SubSeq(queue, n + 1, Len(queue))
         /\ UNCHANGED <<phase, try, resumes, cause>>
<1>1. /\ InBatch /\ Places /\ todo = << >> /\ future[c] # None
      /\ queue' = SubSeq(queue, n + 1, Len(queue))
      /\ UNCHANGED <<phase, try, resumes, cause>>
  BY DEF CollectTerminal, CollectUncertain, Collectable, Inv, Release
<1>2. FlightKnown(c) /\ Matches(c) /\ machine[c] # None /\ future[c] \in Flight
  BY <1>1 DEF Places, Futures, FlightKnown, Ready, Inv, RunnerTypeOK
<1>3. future' = [future EXCEPT ![c] = None]
  BY DEF CollectTerminal, CollectUncertain
<1>4. future'[c] = None /\ \A b \in Campaign : b # c => future'[b] = future[b]
  BY <1>3 DEF Inv, RunnerTypeOK
<1>5. /\ machine'[c] # None /\ Matches(c)'
      /\ \A b \in Campaign : b # c =>
           /\ machine'[b] = machine[b]
           /\ \A t \in Tries : log'[<<b, t>>] = log[<<b, t>>]
      /\ CollectUncertain(c, u, n) => ~Observed(c)' /\ machine'[c].state = "uncertain"
      /\ CollectTerminal(c, u, n) => machine'[c].state = "terminal"
  <2>1. CASE CollectTerminal(c, u, n)
    <3>1. /\ Write(c, Terminal, StateAfter(Terminal)) /\ ~CollectUncertain(c, u, n)
          /\ StateAfter(Terminal) = "terminal"
      BY <2>1 DEF CollectTerminal, CollectUncertain, Terminal, StateAfter
    <3>2. QED
      BY <1>1, <1>2, <3>1, EntryTypes, WriteAbout
  <2>2. CASE CollectUncertain(c, u, n)
    <3>1. future[c].result \in Interruption
      BY <1>2, <2>2 DEF CollectUncertain, Flight
    <3>2. PICK e \in Entry : /\ e = Uncertain(future[c].result) /\ e.type = "uncertain"
                             /\ StateAfter(e) = "uncertain"
      BY <3>1, EntryTypes DEF Uncertain, StateAfter
    <3>3. Write(c, e, StateAfter(e))
      BY <2>2, <3>2 DEF CollectUncertain
    <3>4. QED
      BY <1>1, <1>2, <2>2, <3>2, <3>3, WriteAbout
         DEF FlightKnown, Ready, CollectTerminal, CollectUncertain
  <2>3. QED
    BY <2>1, <2>2
<1>6. About(c)
  BY <1>1, <1>4, <1>5 DEF About
<1>7. QED
  BY <1>1, <1>2, <1>4, <1>5, <1>6

LEMMA CollectPlaces ==
  ASSUME Inv, NEW c \in Campaign, NEW u \in Usage, NEW n \in 0 .. Len(queue),
         CollectTerminal(c, u, n) \/ CollectUncertain(c, u, n)
  PROVE  Places'
<1>1. /\ InBatch /\ Places /\ todo = << >> /\ future[c] # None /\ FlightKnown(c)
      /\ About(c) /\ Matches(c)' /\ future'[c] = None /\ machine'[c] # None
      /\ CollectUncertain(c, u, n) => ~Observed(c)'
      /\ queue' = SubSeq(queue, n + 1, Len(queue))
      /\ UNCHANGED <<phase, try, resumes, cause>>
  BY CollectAbout
<1>2. /\ queue \in Seq(Campaign) /\ nextLease \in Nat \ {0} /\ OneWait
      /\ Waiting \subseteq Campaign /\ c \notin Waiting
  BY <1>1, PlaceTypes DEF Places, WaitKnown
<1>3. OneWait' /\ Waiting' = Waiting \ {queue[i] : i \in 1 .. n}
  BY <1>1, <1>2, Drained
<1>4. ASSUME NEW b \in Waiting
      PROVE  b \in Campaign /\ b # c /\ WaitKnown(b)'
  <2>1. WaitKnown(b) /\ b \in Campaign /\ b # c
    BY <1>1, <1>2 DEF Places
  <2>2. QED
    BY <1>1, <2>1, AboutOthers DEF WaitKnown, About
<1>5. \A x \in Launched(n) : CallKnown(x)' /\ x.task \in Waiting
  <2> SUFFICES ASSUME NEW x \in Launched(n)
               PROVE  CallKnown(x)' /\ x.task \in Waiting
    OBVIOUS
  <2>1. PICK i \in 1 .. n : x = Call("launch", queue[i], nextLease + i - 1)
    BY DEF Launched
  <2>2. i \in DOMAIN queue /\ queue[i] \in Waiting /\ queue[i] \notin Waiting'
    BY <1>2, <1>3 DEF Waiting
  <2>3. PICK b \in Waiting : b = queue[i]
    BY <2>2
  <2>4. WaitKnown(b)' /\ b \in Campaign /\ b \notin Waiting'
    BY <1>4, <2>2, <2>3
  <2>5. x.task = b /\ x.op = "launch"
    BY <2>1, <2>3 DEF Call
  <2>6. CallKnown(x)'
    BY <2>4, <2>5 DEF CallKnown, WaitKnown
  <2>7. QED
    BY <2>5, <2>6
<1>6. /\ \A b \in Waiting' : WaitKnown(b)'
      /\ \A b \in Futures' : FlightKnown(b)'
      /\ \A b \in Campaign : Matches(b)'
  <2>1. \A b \in Waiting' : WaitKnown(b)'
    BY <1>3, <1>4
  <2>2. ASSUME NEW b \in Campaign, future'[b] # None PROVE FlightKnown(b)'
    <3>1. b # c /\ future[b] # None /\ FlightKnown(b)
      BY <1>1, <2>2 DEF About, Places, Futures
    <3>2. QED
      BY <1>1, <3>1, AboutOthers DEF FlightKnown, About
  <2>3. \A b \in Campaign : Matches(b)'
    BY <1>1, AboutOthers DEF Places
  <2>4. QED
    BY <2>1, <2>2, <2>3 DEF Futures
<1>7. CASE todo' = Launches(n)
  <2>1. OneCall' /\ Calls' = Launched(n)
    BY <1>2, <1>7, LaunchesCalled
  <2>2. \A x \in Calls' : CallKnown(x)'
    BY <1>5, <2>1
  <2>3. QED
    BY <1>3, <1>6, <2>1, <2>2 DEF Places
<1>8. CASE CollectUncertain(c, u, n) /\ resumes[c] < MaxResumes
           /\ todo' = Launches(n) \o <<Call("again", c, 0)>>
  <2>1. PICK y \in Step : /\ y = Call("again", c, 0) /\ y.task = c /\ y.op = "again"
    BY CallType
  <2>2. OneCall' /\ Calls' = Launched(n) \cup {y}
    BY <1>2, <1>8, <2>1, LaunchesAndAgain
  <2>3. CallKnown(y)'
    BY <1>1, <1>2, <1>3, <1>8, <2>1 DEF CallKnown, Ready
  <2>4. \A x \in Calls' : CallKnown(x)'
    BY <1>5, <2>2, <2>3
  <2>5. QED
    BY <1>3, <1>6, <2>2, <2>4 DEF Places
<1>9. QED
  BY <1>7, <1>8 DEF CollectTerminal, CollectUncertain

(* A batch begins with one offer for every task of the plan.               *)
LEMMA BeginPlaces == BeginBatch => Places'
<1> SUFFICES ASSUME BeginBatch PROVE Places'
  OBVIOUS
<1>1. Plan \in Seq(Campaign) /\ DOMAIN Plan = 1 .. Len(Plan)
  BY PlanType
<1>2. \A i \in DOMAIN Plan : Plan[i] \in Campaign
  BY <1>1
<1>3. /\ DOMAIN todo' = DOMAIN Plan
      /\ \A i \in DOMAIN Plan : todo'[i] = Call("offer", Plan[i], 0)
      /\ queue' = << >>
  BY DEF BeginBatch
<1>4. \A i \in DOMAIN Plan : todo'[i].task = Plan[i] /\ todo'[i].op = "offer"
  BY <1>3 DEF Call
<1>5. OneCall' /\ OneWait' /\ Waiting' = {}
  BY <1>3, <1>4, PlanType DEF OneCall, OneWait, Waiting
<1>6. \A c \in Campaign : machine'[c] = None /\ future'[c] = None /\ cause'[c] = None
  BY DEF BeginBatch, Fresh
<1>7. \A x \in Calls' : CallKnown(x)'
  <2> SUFFICES ASSUME NEW i \in DOMAIN Plan PROVE CallKnown(todo[i])'
    BY <1>3 DEF Calls
  <2>1. PICK x : x = todo'[i]
    OBVIOUS
  <2>2. x.task \in Campaign /\ x.op = "offer"
    BY <1>2, <1>4, <2>1
  <2>3. CallKnown(x)'
    BY <1>5, <1>6, <2>2 DEF CallKnown
  <2>4. QED
    BY <2>1, <2>3 DEF CallKnown
<1>8. /\ \A c \in Futures' : FlightKnown(c)'
      /\ \A c \in Campaign : Matches(c)'
  BY <1>6 DEF Futures, Matches
<1>9. QED
  BY <1>5, <1>7, <1>8 DEF Places

LEMMA PlacesSame ==
  ASSUME Places, UNCHANGED <<todo, queue, log, try, machine, future, resumes, cause>>
  PROVE  Places'
<1>1. /\ Calls' = Calls /\ Waiting' = Waiting /\ Futures' = Futures
      /\ OneCall' = OneCall /\ OneWait' = OneWait
  BY DEF Calls, Waiting, Futures, OneCall, OneWait
<1>2. \A c : Observed(c)' <=> Observed(c)
  BY SameLog
<1>3. \A c : Ready(c)' <=> Ready(c)
  BY <1>2 DEF Ready
<1>4. \A c : Remembers(c)' <=> Remembers(c)
  BY DEF Remembers
<1>5. \A x : CallKnown(x)' <=> CallKnown(x)
  BY <1>1, <1>3, <1>4 DEF CallKnown
<1>6. \A c : (WaitKnown(c)' <=> WaitKnown(c)) /\ (FlightKnown(c)' <=> FlightKnown(c))
  BY <1>3, <1>4 DEF WaitKnown, FlightKnown
<1>7. \A c : Matches(c)' <=> Matches(c)
  <2> TAKE c
  <2>1. /\ StateIn(TaskOf(c))' = StateIn(TaskOf(c))
        /\ CauseIn(TaskOf(c))' = CauseIn(TaskOf(c))
    BY SameLog
  <2>2. QED
    BY <2>1 DEF Matches
<1>8. QED
  BY <1>1, <1>5, <1>6, <1>7 DEF Places

----------------------------------------------------------------------------
(* The invariant                                                           *)

LEMMA InvInit == Init => Inv
<1> SUFFICES ASSUME Init PROVE Inv
  OBVIOUS
<1>1. SchedInv
  BY InitSchedInv DEF Init
<1>2. RunnerTypeOK
  <2>1. TypeOK
    BY <1>1 DEF SchedInv
  <2>2. QED
    BY <2>1, RunnerPolicy DEF Init, RunnerTypeOK, Fresh
<1>3. QED
  BY <1>1, <1>2 DEF Inv, Init, InBatch

LEMMA InvNext == Inv /\ [Next]_vars => Inv'
<1> SUFFICES ASSUME Inv, [Next]_vars, InBatch' PROVE Places'
  BY SchedKept, TypesKept DEF Inv
<1>1. CASE OfferTask \/ SkipTask \/ OfferAgain \/ Launch \/ Reject \/ FinishRejected
           \/ BeginBatch
  BY <1>1, OfferTaskPlaces, SkipTaskPlaces, OfferAgainPlaces, LaunchPlaces, RejectPlaces,
     FinishPlaces, BeginPlaces
<1>2. ASSUME NEW c \in Campaign, NEW u \in Usage, NEW n \in 0 .. Len(queue),
             CollectTerminal(c, u, n) \/ CollectUncertain(c, u, n)
      PROVE  Places'
  BY <1>2, CollectPlaces
<1>3. ASSUME NEW c \in Campaign, Callback(c)
      PROVE  Places'
  <2>1. InBatch
    BY <1>3 DEF Callback, CallbackEnds, InBatch
  <2>2. QED
    BY <1>3, <2>1, CallbackPlaces DEF Callback, Inv
<1>4. CASE RefuseTask \/ LaunchRaises \/ AppendRaises \/ Crash \/ Return \/ Exit
           \/ \E a \in Attempt : Recover(a)
  BY <1>4 DEF RefuseTask, LaunchRaises, AppendRaises, Abort, Crash, Return, Exit, Recover,
     runVars, InBatch
<1>5. CASE UNCHANGED vars
  BY <1>5, PlacesSame DEF Inv, InBatch, vars, runVars, schedVars
<1>6. CASE Sweep
  <2>1. Head(queue) \in Campaign
    BY <1>6, PlaceTypes DEF Sweep
  <2>2. QED
    BY <1>6, <2>1, SweepPlaces
<1>7. QED
  BY <1>1, <1>2, <1>3, <1>4, <1>5, <1>6 DEF Next, Main, Driver

(* The tables of run(), of the scheduler and of the log agree about every  *)
(* campaign at every moment of a batch (runner.py:206-436).                *)
THEOREM RunnerInvariant == Spec => []Inv
<1>1. QED
  BY InvInit, InvNext, PTL DEF Spec

(* run()'s tables keep their shape, through every batch, crash and failed  *)
(* append (runner.py:206-218).                                             *)
THEOREM RunnerTypeCorrect == Spec => []RunnerTypeOK
<1>1. Inv => RunnerTypeOK
  BY DEF Inv
<1>2. QED
  BY <1>1, RunnerInvariant, PTL

(* A machine that went through resumes, rejections and failed appends is   *)
(* in the state the durable events of its attempt describe, and remembers  *)
(* the interruption they describe (events.py:300-364).                     *)
THEOREM MachinesMatch == Spec => []MachineMatchesLog
<1>1. Inv => MachineMatchesLog
  BY DEF Inv, Places, Matches, MachineMatchesLog
<1>2. QED
  BY <1>1, RunnerInvariant, PTL

----------------------------------------------------------------------------
(* The worker's own lease table                                            *)

(* Nothing the runner does, in whatever order callbacks end, breaks what   *)
(* the scheduler promises of the running campaigns (runner.py:280-429).    *)
THEOREM RunnerLeasesFit == Spec => []LeasesFit
<1>1. Inv => LeasesFit
  BY DEF Inv, SchedInv, LeasesFit
<1>2. QED
  BY <1>1, RunnerInvariant, PTL

----------------------------------------------------------------------------
(* No campaign is run again                                                *)

LEMMA RerunStep ==
  ASSUME Inv, [Next]_vars, NEW c \in Campaign, future[c] = None, future'[c] # None
  PROVE  ~Observed(c)
<1>1. CASE Launch
  <2>1. PICK d \in Campaign : d = Head(todo).task
    BY <1>1, NextKnown DEF Launch
  <2>2. CallKnown(Head(todo)) /\ Head(todo).op = "launch"
    BY <1>1, NextKnown DEF Launch
  <2>3. Ready(d)
    BY <2>1, <2>2 DEF CallKnown
  <2>4. \A b \in Campaign : b # d => future'[b] = future[b]
    BY <1>1, <2>1 DEF Launch, Inv, RunnerTypeOK
  <2>5. QED
    BY <2>3, <2>4 DEF Ready
<1>2. ~BeginBatch
  BY DEF BeginBatch, Fresh
<1>3. ASSUME NEW d \in Campaign, NEW k \in Interruption \cup {None}, CallbackEnds(d, k)
      PROVE  FALSE
  BY <1>3 DEF CallbackEnds, Running, Inv, RunnerTypeOK
<1>4. ASSUME NEW d \in Campaign, NEW u \in Usage, NEW n \in 0 .. Len(queue),
             CollectTerminal(d, u, n) \/ CollectUncertain(d, u, n)
      PROVE  FALSE
  <2>1. future' = [future EXCEPT ![d] = None]
    BY <1>4 DEF CollectTerminal, CollectUncertain
  <2>2. QED
    BY <2>1 DEF Inv, RunnerTypeOK
<1>5. CASE UNCHANGED future
  BY <1>5
<1>6. QED
  BY <1>1, <1>2, <1>3, <1>4, <1>5
     DEF Next, Main, Driver, Callback, OfferTask, SkipTask, RefuseTask, LaunchRaises,
         Reject, FinishRejected, OfferAgain, Sweep, Return, AppendRaises, Exit, Crash,
         Recover, runVars, vars

(* No callback is ever started for a campaign that has a terminal          *)
(* observation, under this or another attempt number, after whatever       *)
(* queueing, resuming and restarting (runner.py:298-320, 449-452).         *)
THEOREM NeverRerun == Spec => TerminalNeverRerun
<1>1. Inv /\ [Next]_vars =>
        [\A c \in Campaign : (future[c] = None /\ future'[c] # None) =>
           \A t \in Tries : StateIn(<<c, t>>) # "terminal"]_vars
  BY RerunStep DEF Observed
<1>2. QED
  BY <1>1, RunnerInvariant, PTL DEF Spec, TerminalNeverRerun

----------------------------------------------------------------------------
(* The log is an attempt log                                               *)

Legal(state, k, e) ==
  \/ e.type = "started" /\ state = "planned"
  \/ e.type = "started" /\ state = "uncertain" /\ k \notin Blocked
  \/ e.type = "uncertain" /\ state = "running"
  \/ e.type = "terminal" /\ state \in {"running", "uncertain"}

LEMMA LegalRecords ==
  ASSUME LogType, NEW a \in Attempt, NEW e \in Entry,
         Legal(StateIn(a), CauseIn(a), e),
         log' = [log EXCEPT ![a] = Append(@, e)]
  PROVE  Promise!LogNext
<1>1. log[a] # << >> =>
        /\ log[a][Len(log[a])] \in Entry
        /\ StateIn(a) = StateAfter(log[a][Len(log[a])])
  BY StateTells
<1>2. StateIn(a) = "planned" <=> log[a] = << >>
  BY StateTells
<1>3. StateIn(a) = "uncertain" => CauseIn(a) = log[a][Len(log[a])].cause
  BY CauseTells
<1>4. Promise!MayAppend(log[a], e)
  <2>1. CASE log[a] = << >>
    BY <1>2, <2>1 DEF Legal, Promise!MayAppend
  <2>2. CASE log[a] # << >>
    <3> DEFINE l == log[a][Len(log[a])]
    <3>1. l.type \in {"started", "uncertain", "terminal"} /\ StateIn(a) = StateAfter(l)
      BY <1>1, <2>2 DEF Entry
    <3>2. StateIn(a) # "planned" /\ (StateIn(a) = "uncertain" => CauseIn(a) = l.cause)
      BY <1>2, <1>3, <2>2
    <3> HIDE DEF l
    <3>3. Promise!Follows(l, e)
      BY <3>1, <3>2 DEF Legal, StateAfter, Promise!Follows
    <3>4. QED
      BY <2>2, <3>3 DEF Promise!MayAppend, l
  <2>3. QED
    BY <2>1, <2>2
<1>5. e \in Promise!Entry
  BY DEF Entry, Promise!Entry
<1>6. Promise!Record(a, e)
  BY <1>4 DEF Promise!Record
<1>7. QED
  BY <1>5, <1>6 DEF Promise!LogNext

(* The same, for the append of a machine.                                  *)
LEMMA WriteRecords ==
  ASSUME Inv, Places, NEW c \in Campaign, machine[c] # None, NEW e \in Entry, NEW st,
         Legal(machine[c].state, machine[c].cause, e), Write(c, e, st)
  PROVE  Promise!LogNext
<1>1. PICK a \in Attempt : a = TaskOf(c)
  BY DEF TaskOf, Attempt, Inv, RunnerTypeOK
<1>2. Legal(StateIn(a), CauseIn(a), e)
  BY <1>1 DEF Places, Matches
<1>3. LogType /\ log' = [log EXCEPT ![a] = Append(@, e)]
  BY <1>1 DEF Write, LogType, Inv, RunnerTypeOK
<1>4. QED
  BY <1>2, <1>3, LegalRecords

LEMMA RunnerStepRecords == Inv /\ [Next]_vars => [Promise!LogNext]_log
<1> SUFFICES ASSUME Inv, [Next]_vars, log' # log PROVE Promise!LogNext
  OBVIOUS
<1>1. ASSUME Launch \/ Reject \/ FinishRejected
      PROVE  Promise!LogNext
  <2>1. PICK c \in Campaign : c = Head(todo).task
    BY <1>1, NextKnown DEF Launch, Reject, FinishRejected
  <2>2. /\ Places /\ CallKnown(Head(todo))
        /\ Launch => Head(todo).op = "launch"
        /\ FinishRejected => Head(todo).op = "finish"
        /\ Head(todo).op # "offer"
    BY <1>1, NextKnown DEF Launch, Reject, FinishRejected
  <2>3. /\ machine[c] # None
        /\ Launch => Remembers(c)
        /\ FinishRejected => machine[c].state \in {"running", "uncertain"}
    BY <2>1, <2>2 DEF CallKnown, Ready
  <2>4. /\ Started \in Entry /\ Started.type = "started"
        /\ Terminal \in Entry /\ Terminal.type = "terminal"
        /\ Uncertain(WorkerRestart) \in Entry
        /\ Uncertain(WorkerRestart).type = "uncertain"
    BY EntryTypes, RunnerPolicy DEF Started, Terminal, Uncertain
  <2>5. CASE Launch
    <3>1. Launchable(c) /\ Write(c, Started, "running")
      BY <2>1, <2>5 DEF Launch
    <3>2. Legal(machine[c].state, machine[c].cause, Started)
      BY <2>3, <2>4, <2>5, <3>1 DEF Launchable, ResumeCause, Remembers, Legal
    <3>3. QED
      BY <2>2, <2>3, <2>4, <3>1, <3>2, WriteRecords
  <2>6. CASE Reject
    <3>1. CASE machine[c].state = "planned" /\ Write(c, Started, "running")
      <4>1. Legal(machine[c].state, machine[c].cause, Started)
        BY <2>4, <3>1 DEF Legal
      <4>2. QED
        BY <2>2, <2>3, <2>4, <3>1, <4>1, WriteRecords
    <3>2. CASE machine[c].state = "running" /\ Write(c, Uncertain(WorkerRestart), "uncertain")
      <4>1. Legal(machine[c].state, machine[c].cause, Uncertain(WorkerRestart))
        BY <2>4, <3>2 DEF Legal
      <4>2. QED
        BY <2>2, <2>3, <2>4, <3>2, <4>1, WriteRecords
    <3>3. QED
      BY <2>1, <2>6, <3>1, <3>2 DEF Reject
  <2>7. CASE FinishRejected
    <3>1. Write(c, Terminal, "terminal")
      BY <2>1, <2>7 DEF FinishRejected
    <3>2. Legal(machine[c].state, machine[c].cause, Terminal)
      BY <2>3, <2>4, <2>7 DEF Legal
    <3>3. QED
      BY <2>2, <2>3, <2>4, <3>1, <3>2, WriteRecords
  <2>8. QED
    BY <1>1, <2>5, <2>6, <2>7
<1>2. ASSUME NEW c \in Campaign, NEW u \in Usage, NEW n \in 0 .. Len(queue),
             CollectTerminal(c, u, n) \/ CollectUncertain(c, u, n)
      PROVE  Promise!LogNext
  <2>1. Places /\ FlightKnown(c) /\ future[c] # None
    BY <1>2, CollectAbout
  <2>2. machine[c] # None /\ machine[c].state = "running" /\ future[c] \in Flight
    BY <2>1 DEF FlightKnown, Ready, Inv, RunnerTypeOK
  <2>3. CASE CollectTerminal(c, u, n)
    <3>1. Terminal \in Entry /\ Legal(machine[c].state, machine[c].cause, Terminal)
      BY <2>2, EntryTypes DEF Terminal, Legal
    <3>2. Write(c, Terminal, "terminal")
      BY <2>3 DEF CollectTerminal
    <3>3. QED
      BY <2>1, <2>2, <3>1, <3>2, WriteRecords
  <2>4. CASE CollectUncertain(c, u, n)
    <3>1. future[c].result \in Interruption
      BY <2>2, <2>4 DEF CollectUncertain, Flight
    <3>2. PICK e \in Entry : e = Uncertain(future[c].result) /\ e.type = "uncertain"
      BY <3>1, EntryTypes DEF Uncertain
    <3>3. Legal(machine[c].state, machine[c].cause, e)
      BY <2>2, <3>2 DEF Legal
    <3>4. Write(c, e, "uncertain")
      BY <2>4, <3>2 DEF CollectUncertain
    <3>5. QED
      BY <2>1, <2>2, <3>3, <3>4, WriteRecords
  <2>5. QED
    BY <1>2, <2>3, <2>4
<1>3. ASSUME NEW a \in Attempt, Recover(a)
      PROVE  Promise!LogNext
  <2>1. PICK e \in Entry : e = Uncertain(WorkerRestart) /\ e.type = "uncertain"
    BY EntryTypes, RunnerPolicy DEF Uncertain
  <2>2. /\ LogType /\ log' = [log EXCEPT ![a] = Append(@, e)]
        /\ Legal(StateIn(a), CauseIn(a), e)
    BY <1>3, <2>1 DEF Recover, Legal, LogType, Inv, RunnerTypeOK
  <2>3. QED
    BY <2>2, LegalRecords
<1>4. QED
  BY <1>1, <1>2, <1>3
     DEF Next, Main, Driver, Callback, CallbackEnds, OfferTask, SkipTask, RefuseTask,
         LaunchRaises, OfferAgain, Sweep, Return, AppendRaises, Exit, Crash, BeginBatch, vars

(* Whatever the plan, the order in which callbacks end, the crashes, the   *)
(* failed appends and the recoveries: what run() and the driver leave in   *)
(* the event log is a legal lifecycle of every attempt, one event at a     *)
(* time (events.py:210-364, runner.py:200-436).                            *)
THEOREM RunnerRefinesLog == Spec => RunnerImplementsLog
<1>1. Init => Promise!LogInit
  BY DEF Init, Promise!LogInit
<1>2. QED
  BY <1>1, RunnerStepRecords, RunnerInvariant, PTL
     DEF Spec, RunnerImplementsLog, Promise!LogSpec

(* So the log of every run of the driver has what an attempt log has: the  *)
(* terminal event of an attempt is its last, and an attempt whose          *)
(* interruption the policy blocks is never started again.                  *)
LogFacts == INSTANCE AttemptLogProofs WITH history <- log

THEOREM RunnerLogFinal ==
  Spec => []Promise!TerminalIsLast /\ []Promise!BlockedStaysBlocked
<1>1. Promise!LogInit => LogFacts!LogInit
  BY DEF Promise!LogInit, LogFacts!LogInit
<1>2. [Promise!LogNext]_log => [LogFacts!LogNext]_log
  BY DEF Promise!LogNext, LogFacts!LogNext, Promise!Record, LogFacts!Record,
         Promise!MayAppend, LogFacts!MayAppend, Promise!Follows, LogFacts!Follows,
         Promise!Entry, LogFacts!Entry
<1>3. RunnerImplementsLog => LogFacts!LogSpec
  BY <1>1, <1>2, PTL DEF RunnerImplementsLog, Promise!LogSpec, LogFacts!LogSpec
<1>4. LogFacts!TerminalIsLast => Promise!TerminalIsLast
  BY DEF LogFacts!TerminalIsLast, Promise!TerminalIsLast
<1>5. LogFacts!BlockedStaysBlocked => Promise!BlockedStaysBlocked
  BY DEF LogFacts!BlockedStaysBlocked, Promise!BlockedStaysBlocked
<1>6. QED
  BY <1>3, <1>4, <1>5, RunnerRefinesLog, LogFacts!TerminalFinality,
     LogFacts!BlockedNeverResumed, PTL

----------------------------------------------------------------------------
(* Leases, waiting campaigns and outcomes                                  *)

\* Every lease has one owner: a future, or a launch call.
Leased ==
  /\ \A l \in DOMAIN active :
       \/ \E c \in Futures : future[c].lease = l
       \/ \E x \in Calls : x.op = "launch" /\ x.lease = l
  /\ \A c \in Futures :
       future[c].lease \in DOMAIN active /\ active[future[c].lease] = c
  /\ \A x \in Calls : x.op = "launch" =>
       x.lease \in DOMAIN active /\ active[x.lease] = x.task

\* The pending campaigns are the queued ones and those about to be decided.
Held ==
  /\ Waiting \subseteq pending
  /\ \A x \in Calls : x.op \in {"offer", "launch"} => x.task \in pending
  /\ \A c \in pending :
       \/ c \in Waiting
       \/ \E x \in Calls : x.task = c /\ x.op \in {"offer", "launch", "reject"}

\* Nothing runs and nothing will be launched, and a campaign that could have
\* run is being rejected or has been: the sweep is under way.
Sweeping ==
  /\ Futures = {} /\ \A x \in Calls : x.op \in {"reject", "finish"}
  /\ Swept \/ \E x \in Calls : ~PermanentlyRejected(x.task)

Idle == queue # << >> => (~Admissible(Head(queue)) \/ Sweeping)

\* A task that is in no place any more has its outcome.
Placed(c) == c \in Waiting \/ future[c] # None \/ \E x \in Calls : x.task = c

Settled(c) ==
  /\ outcome[c] \in {"existing", "terminal", "unsupported"}
       <=> StateIn(TaskOf(c)) = "terminal"
  /\ outcome[c] = "uncertain" <=> StateIn(TaskOf(c)) = "uncertain"
  /\ outcome[c] # None

Told == \A i \in DOMAIN Plan : Placed(Plan[i]) \/ Settled(Plan[i])

Books == Leased /\ Held /\ Idle /\ Told

Report ==
  phase = "returned" =>
    /\ active = << >> /\ queue = << >>
    /\ \A i \in DOMAIN Plan : Settled(Plan[i])

\* The step leaves what is waiting, pending and reported of the others.
Others(c) ==
  /\ \A b \in Campaign : b # c =>
       /\ b \in Waiting' <=> b \in Waiting
       /\ b \in pending' <=> b \in pending
       /\ outcome'[b] = outcome[b]
  /\ \A x : x.task # c => (x \in Calls' <=> x \in Calls)

LEMMA HeldStep ==
  ASSUME Inv, Held, NEW c \in Campaign, Others(c), RunnerTypeOK',
         Waiting' \subseteq Campaign, Calls' \subseteq Step,
         c \in Waiting' => c \in pending',
         \A x \in Calls' :
           x.task = c /\ x.op \in {"offer", "launch"} => c \in pending',
         c \in pending' =>
           \/ c \in Waiting'
           \/ \E x \in Calls' : x.task = c /\ x.op \in {"offer", "launch", "reject"}
  PROVE  Held'
<1>1. pending' \subseteq Campaign
  BY DEF RunnerTypeOK
<1>2. Waiting' \subseteq pending'
  BY DEF Others, Held
<1>3. \A x \in Calls' : x.op \in {"offer", "launch"} => x.task \in pending'
  <2> SUFFICES ASSUME NEW x \in Calls', x.op \in {"offer", "launch"}, x.task # c
               PROVE  x.task \in pending'
    OBVIOUS
  <2>1. x \in Calls /\ x.task \in Campaign
    BY DEF Others, Step
  <2>2. QED
    BY <2>1 DEF Others, Held
<1>4. ASSUME NEW b \in pending', b # c
      PROVE  \/ b \in Waiting'
             \/ \E x \in Calls' : x.task = b /\ x.op \in {"offer", "launch", "reject"}
  <2>1. b \in Campaign /\ b \in pending
    BY <1>1, <1>4 DEF Others
  <2>2. \A x \in Calls : x.task = b => x \in Calls'
    BY <1>4 DEF Others
  <2>3. QED
    BY <1>4, <2>1, <2>2 DEF Others, Held
<1>5. QED
  BY <1>2, <1>3, <1>4 DEF Held

LEMMA ToldStep ==
  ASSUME Inv, Told, NEW c \in Campaign, About(c), Others(c),
         Placed(c)' \/ Settled(c)' \/ \A i \in DOMAIN Plan : Plan[i] # c
  PROVE  Told'
<1> SUFFICES ASSUME NEW b \in Campaign, b # c, Placed(b) \/ Settled(b)
             PROVE  Placed(b)' \/ Settled(b)'
  BY PlanType DEF Told
<1>1. CASE Placed(b)
  <2>1. future'[b] = future[b]
    BY DEF About
  <2>2. \A x \in Calls : x.task = b => x \in Calls'
    BY DEF Others
  <2>3. QED
    BY <1>1, <2>1, <2>2 DEF Placed, Others
<1>2. CASE Settled(b)
  <2>1. StateIn(TaskOf(b))' = StateIn(TaskOf(b))
    BY AboutOthers
  <2>2. outcome'[b] = outcome[b]
    BY DEF Others
  <2>3. QED
    BY <1>2, <2>1, <2>2 DEF Settled
<1>3. QED
  BY <1>1, <1>2

LEMMA LeasedStays ==
  ASSUME Leased, UNCHANGED active, Futures' = Futures,
         \A c \in Futures : future'[c].lease = future[c].lease,
         \A x : x.op = "launch" => (x \in Calls' <=> x \in Calls)
  PROVE  Leased'
  BY DEF Leased

(* A lease that is granted makes no waiting campaign fit.                  *)
LEMMA GrantBlocks ==
  ASSUME SchedInv, NEW c \in Campaign, SubmitAdmitted(c),
         NEW b \in Campaign, ~Admissible(b)
  PROVE  ~Admissible(b)'
<1>1. TypeOK /\ IsTable(active)
  BY ActiveIsTable DEF SchedInv
<1>2. /\ DOMAIN active' = DOMAIN active \cup {nextLease}
      /\ nextLease \notin DOMAIN active
      /\ \A l \in DOMAIN active : active'[l] = active[l]
      /\ active'[nextLease] = c
      /\ active' = [l \in DOMAIN active' |-> active'[l]]
  BY <1>1 DEF SubmitAdmitted, TypeOK
<1>3. /\ IsFiniteSet(DOMAIN active')
      /\ Cardinality(DOMAIN active) \in Nat
      /\ Cardinality(DOMAIN active') = Cardinality(DOMAIN active) + 1
  BY <1>1, <1>2, FS_AddElement, FS_CardinalityType DEF IsTable
<1>4. \A l \in DOMAIN active' : active'[l] \in Campaign
  BY <1>1, <1>2 DEF IsTable
<1>5. IsTable(active')
  BY <1>2, <1>3, <1>4 DEF IsTable
<1>6. /\ InUse(Cpu, active) <= InUse(Cpu, active') /\ InUse(Mem, active) <= InUse(Mem, active')
      /\ InUse(Cpu, active) \in Nat /\ InUse(Cpu, active') \in Nat
      /\ InUse(Mem, active) \in Nat /\ InUse(Mem, active') \in Nat
  BY <1>1, <1>2, <1>5, Loads, InUseMonotone, UnitsFinite
<1>7. \A d \in Dim : /\ used'[d] = used[d] /\ used[d] \in Nat
                     /\ reserved[d] \in Int /\ reserved'[d] \in Int
                     /\ reserved[d] <= reserved'[d]
  <2> TAKE d \in Dim
  <2>1. used'[d] = used[d] /\ used[d] \in Nat /\ reserved[d] \in Int
    BY <1>1 DEF SubmitAdmitted, TypeOK
  <2>2. reserved'[d] = reserved[d] + Expected(d)[c]
    BY DEF SubmitAdmitted
  <2>3. Expected(d)[c] \in Nat
    BY Loads DEF IsLoad
  <2>4. QED
    BY <2>1, <2>2, <2>3
<1>8. SUFFICES ASSUME CanAdmit(b, active', used', reserved')
               PROVE  CanAdmit(b, active, used, reserved)
  BY DEF Admissible
<1>9. /\ Cpu[b] \in Nat /\ Mem[b] \in Nat
      /\ CpuCores \in Nat /\ MemoryUnits \in Nat /\ MaxConcurrent \in Nat
  BY RequestType, EnvelopePositive
<1>10. /\ Cardinality(DOMAIN active) < MaxConcurrent
       /\ InUse(Cpu, active) + Cpu[b] <= CpuCores
       /\ InUse(Mem, active) + Mem[b] <= MemoryUnits
  <2>1. /\ Cardinality(DOMAIN active') < MaxConcurrent
        /\ InUse(Cpu, active') + Cpu[b] <= CpuCores
        /\ InUse(Mem, active') + Mem[b] <= MemoryUnits
    BY <1>8 DEF CanAdmit
  <2>2. QED
    BY <1>3, <1>6, <1>9, <2>1
<1>11. Solver[b] # None => \A l \in DOMAIN active : Solver[active[l]] # Solver[b]
  BY <1>2, <1>8 DEF CanAdmit
<1>12. ASSUME NEW d \in Dim, Quota[d] # None, Estimate[b][d] # None
       PROVE  used[d] + reserved[d] + Estimate[b][d] <= Quota[d]
  <2>1. used'[d] + reserved'[d] + Estimate[b][d] <= Quota[d]
    BY <1>8, <1>12 DEF CanAdmit
  <2>2. Quota[d] \in Nat /\ Estimate[b][d] \in Nat
    BY <1>12, QuotaType, RequestType
  <2>3. QED
    BY <1>7, <2>1, <2>2
<1>13. QED
  BY <1>10, <1>11, <1>12 DEF CanAdmit

(* What an offer does to the stack and the queue.                          *)
LEMMA OfferEffect ==
  ASSUME Inv, Places, todo # << >>, NEW c \in Campaign, c = Head(todo).task,
         CallKnown(Head(todo)), Offer(c, Tail(todo))
  PROVE  /\ Head(todo) \in Calls /\ Head(todo).task = c
         /\ \A x \in Calls : x # Head(todo) => x.task # c
         /\ \/ /\ SubmitAdmitted(c) /\ Waiting' = Waiting /\ queue' = queue
               /\ \E y \in Step :
                    /\ y.task = c /\ y.op = "launch" /\ y.lease = nextLease
                    /\ Calls' = (Calls \ {Head(todo)}) \cup {y}
            \/ /\ SubmitRejected(c) /\ Waiting' = Waiting /\ queue' = queue
               /\ \E y \in Step :
                    /\ y.task = c /\ y.op = "reject"
                    /\ Calls' = (Calls \ {Head(todo)}) \cup {y}
            \/ /\ SubmitQueued(c) /\ Waiting' = Waiting \cup {c}
               /\ Calls' = Calls \ {Head(todo)}
<1>1. /\ todo \in Seq(Step) /\ OneCall /\ OneWait /\ c \notin Waiting
      /\ queue \in Seq(Campaign) /\ nextLease \in Nat
  BY PlaceTypes DEF Places, CallKnown
<1>2. /\ Head(todo) \in Calls
      /\ \A x \in Calls : x # Head(todo) => x.task # c
  <2>1. /\ 1 \in DOMAIN todo /\ Head(todo) = todo[1]
        /\ \A i \in DOMAIN todo : i # 1 => todo[i].task # todo[1].task
    BY <1>1 DEF OneCall
  <2>2. QED
    BY <2>1 DEF Calls
<1>3. ASSUME NEW y \in Step, y.task = c, todo' = <<y>> \o Tail(todo)
      PROVE  Calls' = (Calls \ {Head(todo)}) \cup {y}
  BY <1>1, <1>3, HeadReplaced
<1>4. CASE SubmitAdmitted(c) /\ todo' = <<Call("launch", c, nextLease)>> \o Tail(todo)
  <2>1. queue' = queue /\ Waiting' = Waiting
    BY <1>4 DEF SubmitAdmitted, Waiting
  <2>2. /\ Call("launch", c, nextLease) \in Step
        /\ Call("launch", c, nextLease).task = c /\ Call("launch", c, nextLease).op = "launch"
        /\ Call("launch", c, nextLease).lease = nextLease
    BY <1>1, CallType
  <2>3. QED
    BY <1>2, <1>3, <1>4, <2>1, <2>2
<1>5. CASE SubmitRejected(c) /\ todo' = <<Call("reject", c, 0)>> \o Tail(todo)
  <2>1. queue' = queue /\ Waiting' = Waiting
    BY <1>5 DEF SubmitRejected, schedVars, Waiting
  <2>2. /\ Call("reject", c, 0) \in Step
        /\ Call("reject", c, 0).task = c /\ Call("reject", c, 0).op = "reject"
    BY CallType
  <2>3. QED
    BY <1>2, <1>3, <1>5, <2>1, <2>2
<1>6. CASE SubmitQueued(c) /\ todo' = Tail(todo)
  <2>1. Calls' = Calls \ {Head(todo)}
    BY <1>1, <1>6, HeadDone
  <2>2. Waiting' = Waiting \cup {c}
    BY <1>1, <1>6, Joined DEF SubmitQueued
  <2>3. QED
    BY <1>2, <1>6, <2>1, <2>2
<1>7. QED
  BY <1>4, <1>5, <1>6 DEF Offer

LEMMA PlaceTypesImplied == Inv => Calls \subseteq Step /\ Waiting \subseteq Campaign
  BY PlaceTypes

LEMMA PlaceTypesNext == Inv' => Calls' \subseteq Step /\ Waiting' \subseteq Campaign
<1>1. (Inv => Calls \subseteq Step /\ Waiting \subseteq Campaign)'
  BY PlaceTypesImplied, PTL
<1>2. QED
  BY <1>1

(* The scheduler's tables are as before, so the queue waits as before.     *)
LEMMA IdleStays ==
  ASSUME Idle, UNCHANGED schedVars, Sweeping => Sweeping'
  PROVE  Idle'
<1>1. UNCHANGED <<active, queue, used, reserved>>
  BY DEF schedVars
<1>2. Admissible(Head(queue))' <=> Admissible(Head(queue))
  BY <1>1 DEF Admissible
<1>3. QED
  BY <1>1, <1>2 DEF Idle

LEMMA OfferBooks == Inv /\ Places /\ Books /\ (OfferTask \/ OfferAgain) => Books'
<1> SUFFICES ASSUME Inv, Places, Books, OfferTask \/ OfferAgain PROVE Books'
  OBVIOUS
<1>0. PICK c \in Campaign : c = Head(todo).task
  BY NextKnown DEF OfferTask, OfferAgain
<1>1. /\ todo # << >> /\ CallKnown(Head(todo)) /\ Head(todo).op \in {"offer", "again"}
      /\ OfferTask => Head(todo).op = "offer"
      /\ Head(todo) \in Calls
  BY NextKnown DEF OfferTask, OfferAgain
<1>2. /\ Offer(c, Tail(todo)) /\ future' = future /\ outcome' = outcome /\ try' = try
      /\ pending' \in {pending, pending \cup {c}} /\ (OfferAgain => c \in pending')
  BY <1>0 DEF OfferTask, OfferAgain
<1>3. c \in pending'
  BY <1>0, <1>1, <1>2 DEF Books, Held
<1>4. About(c)
  BY <1>0, OfferTaskPlaces, OfferAgainPlaces
<1>5. Inv' /\ RunnerTypeOK' /\ Calls' \subseteq Step /\ Waiting' \subseteq Campaign
  BY InvNext, PlaceTypesNext DEF Next, Main, Inv
<1>6. c \notin Waiting /\ future[c] = None
  BY <1>0, <1>1 DEF CallKnown
<1>7. /\ queue \in Seq(Campaign) /\ Waiting \subseteq Campaign /\ Calls \subseteq Step
      /\ nextLease \in Nat /\ DOMAIN active \subseteq 1 .. nextLease - 1
  BY PlaceTypes DEF Inv, RunnerTypeOK, TypeOK
<1>8. ~Sweeping
  BY <1>1 DEF Sweeping
<1>9. Futures' = Futures
  BY <1>2 DEF Futures
<1>10. /\ \A x \in Calls : x # Head(todo) => x.task # c
       /\ \/ /\ SubmitAdmitted(c) /\ Waiting' = Waiting /\ queue' = queue
             /\ \E y \in Step :
                  /\ y.task = c /\ y.op = "launch" /\ y.lease = nextLease
                  /\ Calls' = (Calls \ {Head(todo)}) \cup {y}
          \/ /\ SubmitRejected(c) /\ Waiting' = Waiting /\ queue' = queue
             /\ \E y \in Step :
                  /\ y.task = c /\ y.op = "reject"
                  /\ Calls' = (Calls \ {Head(todo)}) \cup {y}
          \/ /\ SubmitQueued(c) /\ Waiting' = Waiting \cup {c}
             /\ Calls' = Calls \ {Head(todo)}
  BY <1>0, <1>1, <1>2, OfferEffect
<1>11. CASE /\ SubmitAdmitted(c) /\ Waiting' = Waiting /\ queue' = queue
            /\ \E y \in Step :
                 /\ y.task = c /\ y.op = "launch" /\ y.lease = nextLease
                 /\ Calls' = (Calls \ {Head(todo)}) \cup {y}
  <2>1. PICK y \in Step : /\ y.task = c /\ y.op = "launch" /\ y.lease = nextLease
                          /\ Calls' = (Calls \ {Head(todo)}) \cup {y}
    BY <1>11
  <2>2. Others(c)
    BY <1>0, <1>2, <1>11, <2>1 DEF Others
  <2>3. /\ DOMAIN active' = DOMAIN active \cup {nextLease} /\ nextLease \notin DOMAIN active
        /\ active'[nextLease] = c /\ \A l \in DOMAIN active : active'[l] = active[l]
    BY <1>7, <1>11 DEF SubmitAdmitted
  <2>4. Leased'
    <3>1. \A x \in Calls : x.op = "launch" => x \in Calls'
      BY <1>1, <2>1
    <3>2. ASSUME NEW l \in DOMAIN active'
          PROVE  \/ \E d \in Futures' : future'[d].lease = l
                 \/ \E x \in Calls' : x.op = "launch" /\ x.lease = l
      BY <1>2, <1>9, <2>1, <2>3, <3>1 DEF Books, Leased
    <3>3. ASSUME NEW d \in Futures'
          PROVE  future'[d].lease \in DOMAIN active' /\ active'[future'[d].lease] = d
      BY <1>2, <1>9, <2>3 DEF Books, Leased
    <3>4. ASSUME NEW x \in Calls', x.op = "launch"
          PROVE  x.lease \in DOMAIN active' /\ active'[x.lease] = x.task
      BY <2>1, <2>3, <3>4 DEF Books, Leased
    <3>5. QED
      BY <3>2, <3>3, <3>4 DEF Leased
  <2>5. Held'
    BY <1>3, <1>5, <2>1, <2>2, HeldStep DEF Books
  <2>6. Told'
    BY <1>4, <2>1, <2>2, ToldStep DEF Books, Placed
  <2>7. ASSUME queue # << >> PROVE ~Admissible(Head(queue))'
    <3>1. PICK b \in Campaign : b = Head(queue)
      BY <1>7, <2>7
    <3>2. ~Admissible(b)'
      BY <1>8, <1>11, <2>7, <3>1, GrantBlocks DEF Books, Idle, Inv
    <3>3. QED
      BY <1>11, <3>1, <3>2 DEF Admissible
  <2>8. Idle'
    BY <1>11, <2>7 DEF Idle
  <2>9. QED
    BY <2>4, <2>5, <2>6, <2>8 DEF Books
<1>12. CASE /\ SubmitRejected(c) /\ Waiting' = Waiting /\ queue' = queue
            /\ \E y \in Step :
                 /\ y.task = c /\ y.op = "reject"
                 /\ Calls' = (Calls \ {Head(todo)}) \cup {y}
  <2>1. PICK y \in Step : /\ y.task = c /\ y.op = "reject"
                          /\ Calls' = (Calls \ {Head(todo)}) \cup {y}
    BY <1>12
  <2>2. Others(c)
    BY <1>0, <1>2, <1>12, <2>1 DEF Others
  <2>3. UNCHANGED schedVars
    BY <1>12 DEF SubmitRejected
  <2>4. Leased'
    BY <1>1, <1>2, <1>9, <2>1, <2>3, LeasedStays DEF Books, schedVars
  <2>5. Held'
    BY <1>3, <1>5, <2>1, <2>2, HeldStep DEF Books
  <2>6. Told'
    BY <1>4, <2>1, <2>2, ToldStep DEF Books, Placed
  <2>7. Idle'
    BY <1>8, <2>3, IdleStays DEF Books
  <2>8. QED
    BY <2>4, <2>5, <2>6, <2>7 DEF Books
<1>13. CASE /\ SubmitQueued(c) /\ Waiting' = Waiting \cup {c}
            /\ Calls' = Calls \ {Head(todo)}
  <2>1. Others(c)
    BY <1>0, <1>2, <1>13 DEF Others
  <2>2. Leased'
    BY <1>1, <1>2, <1>9, <1>13, LeasedStays DEF Books, SubmitQueued
  <2>3. Held'
    BY <1>3, <1>5, <1>10, <1>13, <2>1, HeldStep DEF Books
  <2>4. Told'
    BY <1>4, <1>13, <2>1, ToldStep DEF Books, Placed
  <2>5. ~Admissible(Head(queue'))
    <3>1. CASE queue = << >>
      <4>1. Head(queue') = c
        BY <1>13, <3>1 DEF SubmitQueued
      <4>2. QED
        BY <1>13, <4>1 DEF SubmitQueued
    <3>2. CASE queue # << >>
      <4>1. Head(queue') = Head(queue)
        BY <1>7, <1>13, <3>2 DEF SubmitQueued
      <4>2. QED
        BY <1>8, <3>2, <4>1 DEF Books, Idle
    <3>3. QED
      BY <3>1, <3>2
  <2>6. ~Admissible(Head(queue))'
    BY <1>13, <2>5 DEF Admissible, SubmitQueued
  <2>7. QED
    BY <2>2, <2>3, <2>4, <2>6 DEF Books, Idle
<1>14. QED
  BY <1>10, <1>11, <1>12, <1>13

(* A campaign leaves the stack with its outcome or for a thread.           *)
LEMMA HeadLeaves ==
  ASSUME Inv, Places, todo # << >>, NEW c \in Campaign, c = Head(todo).task,
         CallKnown(Head(todo)), todo' = Tail(todo), queue' = queue
  PROVE  /\ Head(todo) \in Calls /\ Calls' = Calls \ {Head(todo)}
         /\ \A x \in Calls : x # Head(todo) => x.task # c
         /\ Waiting' = Waiting /\ c \notin Waiting' /\ future[c] = None
<1>1. todo \in Seq(Step) /\ OneCall
  BY PlaceTypes DEF Places
<1>2. /\ Head(todo) \in Calls /\ Calls' = Calls \ {Head(todo)}
      /\ \A x \in Calls : x # Head(todo) => x.task # c
  BY <1>1, HeadDone
<1>3. Waiting' = Waiting /\ c \notin Waiting /\ future[c] = None
  BY DEF Waiting, CallKnown
<1>4. QED
  BY <1>2, <1>3

LEMMA SkipBooks == Inv /\ Places /\ Books /\ SkipTask => Books'
<1> SUFFICES ASSUME Inv, Places, Books, SkipTask PROVE Books'
  OBVIOUS
<1>0. PICK c \in Campaign : c = Head(todo).task
  BY NextKnown DEF SkipTask
<1>1. /\ todo # << >> /\ CallKnown(Head(todo)) /\ Head(todo).op = "offer"
  BY NextKnown DEF SkipTask
<1>2. /\ todo' = Tail(todo) /\ UNCHANGED <<schedVars, future, log, try>>
      /\ pending' = pending \ {c}
      /\ outcome' = [outcome EXCEPT ![c] = "existing"]
      /\ StateIn(TaskOf(c)) = "terminal"
  BY <1>0 DEF SkipTask
<1>3. About(c)
  BY <1>0, SkipTaskPlaces
<1>4. RunnerTypeOK' /\ Calls' \subseteq Step /\ Waiting' \subseteq Campaign
  BY InvNext, PlaceTypesNext DEF Next, Main, Inv
<1>5. /\ Head(todo) \in Calls /\ Calls' = Calls \ {Head(todo)}
      /\ \A x \in Calls : x # Head(todo) => x.task # c
      /\ Waiting' = Waiting /\ c \notin Waiting'
  BY <1>0, <1>1, <1>2, HeadLeaves DEF schedVars
<1>6. /\ outcome'[c] = "existing"
      /\ \A b \in Campaign : b # c => outcome'[b] = outcome[b]
  BY <1>2 DEF Inv, RunnerTypeOK
<1>7. Others(c)
  BY <1>0, <1>2, <1>5, <1>6 DEF Others
<1>8. Leased'
  BY <1>1, <1>2, <1>5, LeasedStays DEF Books, schedVars, Futures
<1>9. Held'
  BY <1>2, <1>4, <1>5, <1>7, HeldStep DEF Books
<1>10. Idle'
  BY <1>1, <1>2, <1>5, IdleStays DEF Books, Sweeping
<1>11. Settled(c)'
  <2>1. StateIn(TaskOf(c))' = "terminal"
    BY <1>2, SameLog
  <2>2. QED
    BY <1>6, <2>1, RunnerNone DEF Settled
<1>12. Told'
  BY <1>3, <1>7, <1>11, ToldStep DEF Books
<1>13. QED
  BY <1>8, <1>9, <1>10, <1>12 DEF Books

LEMMA LaunchBooks == Inv /\ Places /\ Books /\ Launch => Books'
<1> SUFFICES ASSUME Inv, Places, Books, Launch PROVE Books'
  OBVIOUS
<1>0. PICK c \in Campaign : c = Head(todo).task
  BY NextKnown DEF Launch
<1>1. /\ todo # << >> /\ CallKnown(Head(todo)) /\ Head(todo).op = "launch"
      /\ Head(todo).lease \in Nat
  BY NextKnown DEF Launch, Step
<1>2. /\ todo' = Tail(todo) /\ UNCHANGED <<schedVars, outcome>>
      /\ pending' = pending \ {c}
      /\ future' = [future EXCEPT ![c] =
             [lease |-> Head(todo).lease, done |-> FALSE, result |-> None]]
  BY <1>0 DEF Launch
<1>3. About(c)
  BY <1>0, LaunchPlaces
<1>4. RunnerTypeOK' /\ Calls' \subseteq Step /\ Waiting' \subseteq Campaign
  BY InvNext, PlaceTypesNext DEF Next, Main, Inv
<1>5. /\ Head(todo) \in Calls /\ Calls' = Calls \ {Head(todo)}
      /\ \A x \in Calls : x # Head(todo) => x.task # c
      /\ Waiting' = Waiting /\ c \notin Waiting' /\ future[c] = None
  BY <1>0, <1>1, <1>2, HeadLeaves DEF schedVars
<1>6. Others(c)
  BY <1>0, <1>2, <1>5 DEF Others
<1>7. /\ future'[c] # None /\ future'[c].lease = Head(todo).lease
      /\ \A b \in Campaign : b # c => future'[b] = future[b]
  <2>1. [lease |-> Head(todo).lease, done |-> FALSE, result |-> None] \in Flight
    BY <1>1 DEF Flight
  <2>2. future'[c] = [lease |-> Head(todo).lease, done |-> FALSE, result |-> None]
    BY <1>2 DEF Inv, RunnerTypeOK
  <2>3. QED
    BY <1>2, <2>1, <2>2, RunnerNone DEF Inv, RunnerTypeOK
<1>8. Futures' = Futures \cup {c} /\ active' = active
  BY <1>2, <1>7 DEF Futures, schedVars
<1>9. Leased'
  <2>1. /\ Head(todo).lease \in DOMAIN active /\ active[Head(todo).lease] = c
        /\ c \notin Futures
    BY <1>0, <1>1, <1>5 DEF Books, Leased, Futures
  <2>2. \A d \in Futures : d \in Futures' /\ future'[d].lease = future[d].lease
    BY <1>7, <1>8, <2>1 DEF Futures
  <2>3. ASSUME NEW l \in DOMAIN active'
        PROVE  \/ \E d \in Futures' : future'[d].lease = l
               \/ \E x \in Calls' : x.op = "launch" /\ x.lease = l
    <3>1. CASE l = Head(todo).lease
      BY <1>7, <1>8, <3>1
    <3>2. CASE l # Head(todo).lease
      BY <1>5, <1>8, <2>2, <3>2 DEF Books, Leased
    <3>3. QED
      BY <3>1, <3>2
  <2>4. ASSUME NEW d \in Futures'
        PROVE  future'[d].lease \in DOMAIN active' /\ active'[future'[d].lease] = d
    BY <1>7, <1>8, <2>1, <2>2 DEF Books, Leased
  <2>5. \A x \in Calls' : x.op = "launch" =>
          x.lease \in DOMAIN active' /\ active'[x.lease] = x.task
    BY <1>5, <1>8 DEF Books, Leased
  <2>6. QED
    BY <2>3, <2>4, <2>5 DEF Leased
<1>10. Held'
  BY <1>2, <1>4, <1>5, <1>6, HeldStep DEF Books
<1>11. Idle'
  BY <1>1, <1>2, <1>5, IdleStays DEF Books, Sweeping
<1>12. Told'
  BY <1>3, <1>6, <1>7, ToldStep DEF Books, Placed
<1>13. QED
  BY <1>9, <1>10, <1>11, <1>12 DEF Books

LEMMA RejectBooks == Inv /\ Places /\ Books /\ Reject => Books'
<1> SUFFICES ASSUME Inv, Places, Books, Reject PROVE Books'
  OBVIOUS
<1>0. PICK c \in Campaign : c = Head(todo).task
  BY NextKnown DEF Reject
<1>1. /\ todo # << >> /\ CallKnown(Head(todo)) /\ Head(todo).op = "reject"
      /\ Head(todo) \in Calls
  BY NextKnown DEF Reject
<1>2. /\ UNCHANGED <<schedVars, outcome, future>> /\ pending' = pending \ {c}
      /\ todo' = <<Call("finish", c, 0)>> \o Tail(todo)
  BY <1>0 DEF Reject
<1>3. About(c)
  BY <1>0, RejectPlaces
<1>4. RunnerTypeOK' /\ Calls' \subseteq Step /\ Waiting' \subseteq Campaign
  BY InvNext, PlaceTypesNext DEF Next, Main, Inv
<1>5. PICK y \in Step : /\ y.task = c /\ y.op = "finish"
                        /\ todo' = <<y>> \o Tail(todo)
  <2>1. Call("finish", c, 0) \in Step /\ Call("finish", c, 0).task = c
        /\ Call("finish", c, 0).op = "finish"
    BY CallType
  <2>2. QED
    BY <1>2, <2>1
<1>6. /\ Calls' = (Calls \ {Head(todo)}) \cup {y}
      /\ \A x \in Calls : x # Head(todo) => x.task # c
  BY <1>0, <1>1, <1>5, PlaceTypes, HeadReplaced DEF Places
<1>7. Waiting' = Waiting /\ c \notin Waiting
  BY <1>0, <1>1, <1>2 DEF Waiting, CallKnown, schedVars
<1>8. Others(c)
  BY <1>0, <1>2, <1>5, <1>6, <1>7 DEF Others
<1>9. Leased'
  BY <1>1, <1>2, <1>5, <1>6, LeasedStays DEF Books, schedVars, Futures
<1>10. Held'
  BY <1>2, <1>4, <1>5, <1>6, <1>7, <1>8, HeldStep DEF Books
<1>11. Idle'
  <2>1. Sweeping => Sweeping'
    BY <1>2, <1>0, <1>5, <1>6 DEF Sweeping, Swept, Futures
  <2>2. QED
    BY <1>2, <2>1, IdleStays DEF Books
<1>12. Told'
  BY <1>3, <1>5, <1>6, <1>8, ToldStep DEF Books, Placed
<1>13. QED
  BY <1>9, <1>10, <1>11, <1>12 DEF Books

LEMMA FinishBooks == Inv /\ Places /\ Books /\ FinishRejected => Books'
<1> SUFFICES ASSUME Inv, Places, Books, FinishRejected PROVE Books'
  OBVIOUS
<1>0. PICK c \in Campaign : c = Head(todo).task
  BY NextKnown DEF FinishRejected
<1>1. /\ todo # << >> /\ CallKnown(Head(todo)) /\ Head(todo).op = "finish"
  BY NextKnown DEF FinishRejected
<1>2. /\ todo' = Tail(todo) /\ UNCHANGED <<schedVars, pending, future, try>>
      /\ outcome' = [outcome EXCEPT ![c] = "unsupported"]
      /\ Write(c, Terminal, StateAfter(Terminal))
  BY <1>0 DEF FinishRejected, Terminal, StateAfter
<1>3. About(c)
  BY <1>0, FinishPlaces
<1>4. RunnerTypeOK' /\ Calls' \subseteq Step /\ Waiting' \subseteq Campaign
  BY InvNext, PlaceTypesNext DEF Next, Main, Inv
<1>5. /\ Head(todo) \in Calls /\ Calls' = Calls \ {Head(todo)}
      /\ \A x \in Calls : x # Head(todo) => x.task # c
      /\ Waiting' = Waiting /\ c \notin Waiting'
  BY <1>0, <1>1, <1>2, HeadLeaves DEF schedVars
<1>6. /\ outcome'[c] = "unsupported"
      /\ \A b \in Campaign : b # c => outcome'[b] = outcome[b]
  BY <1>2 DEF Inv, RunnerTypeOK
<1>7. Others(c)
  BY <1>0, <1>2, <1>5, <1>6 DEF Others
<1>8. c \notin pending
  BY <1>1, <1>5 DEF Books, Held
<1>9. Leased'
  BY <1>1, <1>2, <1>5, LeasedStays DEF Books, schedVars, Futures
<1>10. Held'
  BY <1>2, <1>4, <1>5, <1>7, <1>8, HeldStep DEF Books
<1>11. Idle'
  <2>1. Sweeping => Sweeping'
    <3>1. Swept => Swept'
      BY <1>6 DEF Swept
    <3>2. ~PermanentlyRejected(c) => Swept'
      BY <1>6 DEF Swept
    <3>3. QED
      BY <1>0, <1>2, <1>5, <3>1, <3>2 DEF Sweeping, Futures
  <2>2. QED
    BY <1>2, <2>1, IdleStays DEF Books
<1>12. Settled(c)'
  <2>1. machine[c] # None /\ Matches(c)
    BY <1>0, <1>1 DEF CallKnown, Ready, Places
  <2>2. StateIn(TaskOf(c))' = "terminal"
    <3>1. Terminal \in Entry /\ StateAfter(Terminal) = "terminal"
      BY EntryTypes DEF Terminal, StateAfter
    <3>2. /\ machine'[c] # None /\ machine'[c].state = StateAfter(Terminal)
          /\ Matches(c)'
      BY <1>2, <2>1, <3>1, WriteAbout
    <3>3. QED
      BY <3>1, <3>2 DEF Matches
  <2>3. QED
    BY <1>6, <2>2, RunnerNone DEF Settled
<1>13. Told'
  BY <1>3, <1>7, <1>12, ToldStep DEF Books
<1>14. QED
  BY <1>9, <1>10, <1>11, <1>13 DEF Books

LEMMA CallbackBooks ==
  ASSUME Inv, Places, Books, NEW c \in Campaign, NEW k \in Interruption \cup {None},
         CallbackEnds(c, k)
  PROVE  Books'
<1>1. /\ future[c] # None /\ future[c] \in Flight
      /\ UNCHANGED <<schedVars, log, try, todo, pending, outcome>>
  BY DEF CallbackEnds, Running, Inv, RunnerTypeOK
<1>2. /\ future'[c] \in Flight /\ future'[c].lease = future[c].lease
      /\ \A b \in Campaign : b # c => future'[b] = future[b]
  BY <1>1 DEF CallbackEnds, Flight, Inv, RunnerTypeOK
<1>3. Futures' = Futures /\ c \in Futures /\ future'[c] # None
  BY <1>1, <1>2, RunnerNone DEF Futures
<1>4. About(c)
  BY CallbackPlaces
<1>5. Calls' = Calls /\ Waiting' = Waiting
  BY <1>1 DEF Calls, Waiting, schedVars
<1>6. Others(c)
  BY <1>1, <1>5 DEF Others
<1>7. Leased'
  BY <1>1, <1>2, <1>3, <1>5, LeasedStays DEF Books, schedVars, Futures
<1>8. Held'
  BY <1>1, <1>5 DEF Books, Held
<1>9. Idle'
  BY <1>1, <1>3, IdleStays DEF Books, Sweeping
<1>10. Told'
  BY <1>3, <1>4, <1>6, ToldStep DEF Books, Placed
<1>11. QED
  BY <1>7, <1>8, <1>9, <1>10 DEF Books

LEMMA SweepBooks == Inv /\ Places /\ Books /\ Sweep => Books'
<1> SUFFICES ASSUME Inv, Places, Books, Sweep PROVE Books'
  OBVIOUS
<1>0. PICK c \in Campaign : c = Head(queue)
  BY PlaceTypes DEF Sweep
<1>1. /\ todo = << >> /\ Futures = {} /\ Calls = {}
      /\ pending' = pending \ {c} /\ UNCHANGED <<future, outcome, active>>
  BY <1>0 DEF Sweep, AllCollected, Futures, Calls, CancelQueued
<1>2. About(c) /\ c \in Waiting /\ Waiting' = Waiting \ {c}
  BY <1>0, SweepPlaces
<1>3. PICK y \in Step : y.task = c /\ y.op = "reject" /\ Calls' = {y}
  BY <1>0, SweepPlaces
<1>4. RunnerTypeOK' /\ Calls' \subseteq Step /\ Waiting' \subseteq Campaign
  BY InvNext, PlaceTypesNext DEF Next, Main, Inv
<1>5. Others(c)
  BY <1>1, <1>2, <1>3 DEF Others
<1>6. Leased'
  BY <1>1, <1>3, LeasedStays DEF Books, Futures
<1>7. Held'
  BY <1>1, <1>2, <1>3, <1>4, <1>5, HeldStep DEF Books
<1>8. Idle'
  <2>1. ~PermanentlyRejected(c)
    BY <1>0, <1>2, PlaceTypes DEF Sweep, Inv, SchedInv, QueueServable
  <2>2. ~PermanentlyRejected(y.task)'
    BY <1>3, <2>1
  <2>3. QED
    BY <1>1, <1>3, <2>2 DEF Idle, Sweeping, Futures
<1>9. Told'
  BY <1>2, <1>3, <1>5, ToldStep DEF Books, Placed
<1>10. QED
  BY <1>6, <1>7, <1>8, <1>9 DEF Books

LEMMA BeginBooks == BeginBatch => Books'
<1> SUFFICES ASSUME BeginBatch PROVE Books'
  OBVIOUS
<1>1. /\ DOMAIN todo' = DOMAIN Plan
      /\ \A i \in DOMAIN Plan : todo'[i] = Call("offer", Plan[i], 0)
      /\ queue' = << >> /\ active' = << >>
      /\ pending' = {Plan[i] : i \in DOMAIN Plan}
  BY DEF BeginBatch
<1>2. \A i \in DOMAIN Plan : todo'[i].task = Plan[i] /\ todo'[i].op = "offer"
  BY <1>1 DEF Call
<1>3. Waiting' = {} /\ Futures' = {} /\ DOMAIN active' = {}
  BY <1>1 DEF Waiting, Futures, BeginBatch, Fresh
<1>4. \A x \in Calls' : \E i \in DOMAIN Plan : x.op = "offer" /\ x.task = Plan[i]
  BY <1>1, <1>2 DEF Calls
<1>5. \A i \in DOMAIN Plan : \E x \in Calls' : x.op = "offer" /\ x.task = Plan[i]
  BY <1>1, <1>2 DEF Calls
<1>6. Leased'
  BY <1>3, <1>4 DEF Leased
<1>7. Held'
  BY <1>1, <1>3, <1>4, <1>5 DEF Held
<1>8. Idle'
  BY <1>1 DEF Idle
<1>9. Told'
  BY <1>5 DEF Told, Placed
<1>10. QED
  BY <1>6, <1>7, <1>8, <1>9 DEF Books

(* What collecting does to the stack and the queue.                        *)
LEMMA CollectEffect ==
  ASSUME Inv, Places, NEW c \in Campaign, NEW u \in Usage, NEW n \in 0 .. Len(queue),
         CollectTerminal(c, u, n) \/ CollectUncertain(c, u, n)
  PROVE  /\ Waiting' = Waiting \ {queue[i] : i \in 1 .. n}
         /\ \A i \in 1 .. n : queue[i] \in Waiting
         /\ \A x \in Calls' : \/ x.op = "again" /\ x.task = c
                             \/ \E i \in 1 .. n : /\ x.task = queue[i] /\ x.op = "launch"
                                                 /\ x.lease = nextLease + i - 1
         /\ \A i \in 1 .. n :
              \E x \in Calls' : /\ x.task = queue[i] /\ x.op = "launch"
                              /\ x.lease = nextLease + i - 1
         /\ \/ outcome' = outcome /\ \E x \in Calls' : x.task = c
            \/ /\ CollectTerminal(c, u, n)
               /\ outcome' = [outcome EXCEPT ![c] = "terminal"]
            \/ /\ CollectUncertain(c, u, n)
               /\ outcome' = [outcome EXCEPT ![c] = "uncertain"]
<1>1. /\ future[c] # None /\ queue' = SubSeq(queue, n + 1, Len(queue))
  BY CollectAbout
<1>2. /\ queue \in Seq(Campaign) /\ nextLease \in Nat \ {0} /\ OneWait
      /\ c \notin Waiting
  BY <1>1, PlaceTypes DEF Places, WaitKnown
<1>3. /\ Waiting' = Waiting \ {queue[i] : i \in 1 .. n}
      /\ \A i \in 1 .. n : queue[i] \in Waiting
  <2>1. Waiting' = Waiting \ {queue[i] : i \in 1 .. n}
    BY <1>1, <1>2, Drained
  <2>2. \A i \in 1 .. n : i \in DOMAIN queue
    BY <1>2
  <2>3. QED
    BY <2>1, <2>2 DEF Waiting
<1>4. /\ \A x \in Launched(n) : \E i \in 1 .. n : /\ x.task = queue[i] /\ x.op = "launch"
                                                 /\ x.lease = nextLease + i - 1
      /\ \A i \in 1 .. n :
           \E x \in Launched(n) : /\ x.task = queue[i] /\ x.op = "launch"
                                /\ x.lease = nextLease + i - 1
  <2>1. ASSUME NEW i \in 1 .. n
        PROVE  LET x == Call("launch", queue[i], nextLease + i - 1)
               IN  x.task = queue[i] /\ x.op = "launch" /\ x.lease = nextLease + i - 1
    BY DEF Call
  <2>2. \A x \in Launched(n) : \E i \in 1 .. n : x = Call("launch", queue[i], nextLease + i - 1)
    BY DEF Launched
  <2>3. \A i \in 1 .. n : Call("launch", queue[i], nextLease + i - 1) \in Launched(n)
    BY DEF Launched
  <2> HIDE DEF Launched
  <2>4. \A x \in Launched(n) : \E i \in 1 .. n : /\ x.task = queue[i] /\ x.op = "launch"
                                                /\ x.lease = nextLease + i - 1
    BY <2>1, <2>2
  <2>5. QED
    BY <2>1, <2>3, <2>4
<1>5. CASE todo' = Launches(n)
  <2>1. Calls' = Launched(n)
    BY <1>2, <1>5, LaunchesCalled
  <2>2. \/ /\ CollectTerminal(c, u, n)
           /\ outcome' = [outcome EXCEPT ![c] = "terminal"]
        \/ /\ CollectUncertain(c, u, n)
           /\ outcome' = [outcome EXCEPT ![c] = "uncertain"]
        \/ outcome' = outcome /\ todo' = Launches(n) \o <<Call("again", c, 0)>>
    BY DEF CollectTerminal, CollectUncertain
  <2>3. todo' # Launches(n) \o <<Call("again", c, 0)>>
    <3>1. Launches(n) \in Seq(Step) /\ Call("again", c, 0) \in Step
      BY <1>2, LaunchesType, CallType
    <3>2. Len(Launches(n) \o <<Call("again", c, 0)>>) # Len(Launches(n))
      BY <3>1
    <3>3. QED
      BY <1>5, <3>2
  <2>4. QED
    BY <1>3, <1>4, <2>1, <2>2, <2>3
<1>6. CASE outcome' = outcome /\ todo' = Launches(n) \o <<Call("again", c, 0)>>
  <2>1. PICK y \in Step : /\ y = Call("again", c, 0) /\ y.task = c /\ y.op = "again"
    BY CallType
  <2>2. Calls' = Launched(n) \cup {y}
    BY <1>2, <1>6, <2>1, LaunchesAndAgain
  <2>3. QED
    BY <1>3, <1>4, <1>6, <2>1, <2>2
<1>7. QED
  BY <1>5, <1>6 DEF CollectTerminal, CollectUncertain

LEMMA CollectBooks ==
  ASSUME Inv, Places, Books, NEW c \in Campaign, NEW u \in Usage,
         NEW n \in 0 .. Len(queue),
         CollectTerminal(c, u, n) \/ CollectUncertain(c, u, n)
  PROVE  Books'
<1> DEFINE D == {queue[i] : i \in 1 .. n}
           l == future[c].lease
<1>1. /\ todo = << >> /\ future[c] # None /\ About(c) /\ future'[c] = None
      /\ machine'[c] # None /\ Matches(c)'
      /\ CollectUncertain(c, u, n) => machine'[c].state = "uncertain"
      /\ CollectTerminal(c, u, n) => machine'[c].state = "terminal"
      /\ queue' = SubSeq(queue, n + 1, Len(queue))
  BY CollectAbout
<1>2. /\ Waiting' = Waiting \ D
      /\ \A i \in 1 .. n : queue[i] \in Waiting
      /\ \A x \in Calls' : \/ x.op = "again" /\ x.task = c
                          \/ \E i \in 1 .. n : /\ x.task = queue[i] /\ x.op = "launch"
                                              /\ x.lease = nextLease + i - 1
      /\ \A i \in 1 .. n :
           \E x \in Calls' : /\ x.task = queue[i] /\ x.op = "launch"
                           /\ x.lease = nextLease + i - 1
      /\ \/ outcome' = outcome /\ \E x \in Calls' : x.task = c
         \/ /\ CollectTerminal(c, u, n)
            /\ outcome' = [outcome EXCEPT ![c] = "terminal"]
         \/ /\ CollectUncertain(c, u, n)
            /\ outcome' = [outcome EXCEPT ![c] = "uncertain"]
  BY CollectEffect
<1>3. /\ queue \in Seq(Campaign) /\ nextLease \in Nat \ {0}
      /\ DOMAIN active \subseteq 1 .. nextLease - 1
      /\ Calls = {} /\ c \in Futures /\ n \in Nat /\ n <= Len(queue)
  BY <1>1, PlaceTypes DEF Calls, Futures, Inv, RunnerTypeOK, TypeOK
<1>4. Release(l, u, n) /\ pending' = pending
  BY DEF CollectTerminal, CollectUncertain
<1>5. Futures' = Futures \ {c} /\ \A d \in Futures' : future'[d] = future[d]
  BY <1>1 DEF About, Futures
<1>6. Leased'
  <2>1. /\ active' = LeasesAfter(l, n)
        /\ DOMAIN active' = (DOMAIN active \ {l}) \cup (nextLease .. nextLease + n - 1)
    BY <1>4 DEF Release, LeasesAfter
  <2>2. \A m \in DOMAIN active \ {l} : m \in DOMAIN active' /\ active'[m] = active[m]
    BY <1>3, <2>1 DEF LeasesAfter
  <2>3. \A i \in 1 .. n : /\ nextLease + i - 1 \in DOMAIN active'
                         /\ active'[nextLease + i - 1] = queue[i]
    <3> TAKE i \in 1 .. n
    <3>1. /\ nextLease + i - 1 \in nextLease .. nextLease + n - 1
          /\ (nextLease + i - 1) - nextLease + 1 = i
          /\ ~(nextLease + i - 1 < nextLease)
      BY <1>3
    <3>2. QED
      BY <2>1, <3>1 DEF LeasesAfter
  <2>4. ASSUME NEW m \in DOMAIN active'
        PROVE  \/ \E d \in Futures' : future'[d].lease = m
               \/ \E x \in Calls' : x.op = "launch" /\ x.lease = m
    <3>1. CASE m \in DOMAIN active \ {l}
      <4>1. PICK d \in Futures : future[d].lease = m
        BY <1>3, <3>1 DEF Books, Leased
      <4>2. d # c
        BY <3>1, <4>1
      <4>3. QED
        BY <1>5, <4>1, <4>2
    <3>2. CASE m \in nextLease .. nextLease + n - 1
      <4>1. m - nextLease + 1 \in 1 .. n /\ nextLease + (m - nextLease + 1) - 1 = m
        BY <1>3, <3>2
      <4>2. QED
        BY <1>2, <4>1
    <3>3. QED
      BY <2>1, <3>1, <3>2
  <2>5. ASSUME NEW d \in Futures'
        PROVE  future'[d].lease \in DOMAIN active' /\ active'[future'[d].lease] = d
    <3>1. d \in Futures /\ d # c /\ future'[d] = future[d]
      BY <1>5
    <3>2. /\ future[d].lease \in DOMAIN active /\ active[future[d].lease] = d
          /\ active[l] = c
      BY <1>3, <3>1 DEF Books, Leased
    <3>3. future[d].lease \in DOMAIN active \ {l}
      BY <3>1, <3>2
    <3>4. QED
      BY <2>2, <3>1, <3>2, <3>3
  <2>6. ASSUME NEW x \in Calls', x.op = "launch"
        PROVE  x.lease \in DOMAIN active' /\ active'[x.lease] = x.task
    BY <1>2, <2>3, <2>6
  <2>7. QED
    BY <2>4, <2>5, <2>6 DEF Leased
<1>7. Held'
  <2>1. Waiting' \subseteq pending'
    BY <1>2, <1>4 DEF Books, Held
  <2>2. \A x \in Calls' : x.op \in {"offer", "launch"} => x.task \in pending'
    BY <1>2, <1>4 DEF Books, Held
  <2>3. ASSUME NEW b \in pending'
        PROVE  \/ b \in Waiting'
               \/ \E x \in Calls' : x.task = b /\ x.op \in {"offer", "launch", "reject"}
    <3>1. b \in Waiting
      BY <1>3, <1>4 DEF Books, Held
    <3>2. QED
      BY <1>2, <3>1
  <2>4. QED
    BY <2>1, <2>2, <2>3 DEF Held
<1>8. Idle'
  <2>1. SUFFICES ASSUME queue' # << >> PROVE ~Admissible(Head(queue))'
    BY DEF Idle
  <2>2. n < Len(queue) /\ Head(queue') = queue[n + 1]
    BY <1>1, <1>3, <2>1
  <2>3. (n + 1) - 1 = n
    BY <1>3
  <2>4. ~CanAdmit(queue[n + 1], active', used', reserved')
    BY <1>4, <2>2, <2>3 DEF Release
  <2>5. QED
    BY <2>2, <2>4 DEF Admissible
<1>9. Told'
  <2>1. Placed(c)' \/ Settled(c)'
    <3>1. CASE outcome' = outcome /\ \E x \in Calls' : x.task = c
      BY <3>1 DEF Placed
    <3>2. CASE /\ CollectTerminal(c, u, n)
               /\ outcome' = [outcome EXCEPT ![c] = "terminal"]
      <4>1. outcome'[c] = "terminal" /\ StateIn(TaskOf(c))' = "terminal"
        BY <1>1, <3>2 DEF Matches, Inv, RunnerTypeOK
      <4>2. QED
        BY <4>1, RunnerNone DEF Settled
    <3>3. CASE /\ CollectUncertain(c, u, n)
               /\ outcome' = [outcome EXCEPT ![c] = "uncertain"]
      <4>1. outcome'[c] = "uncertain" /\ StateIn(TaskOf(c))' = "uncertain"
        BY <1>1, <3>3 DEF Matches, Inv, RunnerTypeOK
      <4>2. QED
        BY <4>1, RunnerNone DEF Settled
    <3>4. QED
      BY <1>2, <3>1, <3>2, <3>3
  <2>2. ASSUME NEW b \in Campaign, b # c, Placed(b) \/ Settled(b)
        PROVE  Placed(b)' \/ Settled(b)'
    <3>1. future'[b] = future[b] /\ outcome'[b] = outcome[b]
      BY <1>1, <1>2, <2>2 DEF About, Inv, RunnerTypeOK
    <3>2. CASE Placed(b)
      <4>1. CASE b \in Waiting
        <5>1. CASE b \in D
          <6>1. PICK i \in 1 .. n : b = queue[i]
            BY <5>1
          <6>2. QED
            BY <1>2, <6>1 DEF Placed
        <5>2. CASE b \notin D
          BY <1>2, <4>1, <5>2 DEF Placed
        <5>3. QED
          BY <5>1, <5>2
      <4>2. CASE future[b] # None
        BY <3>1, <4>2 DEF Placed
      <4>3. QED
        BY <1>3, <3>2, <4>1, <4>2 DEF Placed
    <3>3. CASE Settled(b)
      <4>1. StateIn(TaskOf(b))' = StateIn(TaskOf(b))
        BY <1>1, <2>2, AboutOthers
      <4>2. QED
        BY <3>1, <3>3, <4>1 DEF Settled
    <3>4. QED
      BY <2>2, <3>2, <3>3
  <2>3. \A i \in DOMAIN Plan : Plan[i] \in Campaign
    BY PlanType
  <2>4. QED
    BY <2>1, <2>2, <2>3 DEF Books, Told
<1>10. QED
  BY <1>6, <1>7, <1>8, <1>9 DEF Books

(* A batch that returns has nothing left: no call, future or waiting       *)
(* campaign, hence no lease, and every task has its outcome.               *)
LEMMA ReturnReports == Inv /\ Places /\ Books /\ Return => Report'
<1> SUFFICES ASSUME Inv, Places, Books, Return PROVE Report'
  OBVIOUS
<1>1. /\ todo = << >> /\ Calls = {} /\ Futures = {} /\ pending = {}
      /\ \A c \in Campaign : future[c] = None
  BY DEF Return, AllCollected, Calls, Futures
<1>2. Waiting = {}
  BY <1>1 DEF Books, Held
<1>3. queue = << >>
  <2>1. queue \in Seq(Campaign)
    BY PlaceTypes
  <2>2. queue # << >> => 1 \in DOMAIN queue
    BY <2>1
  <2>3. QED
    BY <1>2, <2>2 DEF Waiting
<1>4. active = << >>
  <2>1. DOMAIN active = {}
    BY <1>1 DEF Books, Leased
  <2>2. active \in [DOMAIN active -> Campaign]
    BY DEF Inv, RunnerTypeOK, TypeOK
  <2>3. QED
    BY <2>1, <2>2
<1>5. UNCHANGED <<active, queue, log, try, outcome>>
  BY DEF Return, schedVars
<1>6. ASSUME NEW i \in DOMAIN Plan
      PROVE  Settled(Plan[i])'
  <2>1. PICK c \in Campaign : c = Plan[i]
    BY PlanType
  <2>2. Settled(c)
    BY <1>1, <1>2, <2>1 DEF Books, Told, Placed
  <2>3. StateIn(TaskOf(c))' = StateIn(TaskOf(c))
    BY <1>5, SameLog
  <2>4. Settled(c)'
    BY <1>5, <2>2, <2>3 DEF Settled
  <2>5. QED
    BY <2>1, <2>4
<1>7. QED
  BY <1>3, <1>4, <1>5, <1>6 DEF Report

LEMMA ReportStays ==
  ASSUME Report, UNCHANGED <<phase, schedVars, log, try, outcome>>
  PROVE  Report'
<1>1. \A c : Settled(c)' <=> Settled(c)
  <2> TAKE c
  <2>1. StateIn(TaskOf(c))' = StateIn(TaskOf(c))
    BY SameLog
  <2>2. QED
    BY <2>1 DEF Settled
<1>2. QED
  BY <1>1 DEF Report, schedVars

LEMMA BooksSame ==
  ASSUME Books, UNCHANGED <<schedVars, todo, pending, future, log, try, outcome>>
  PROVE  Books'
<1>1. Calls' = Calls /\ Waiting' = Waiting /\ Futures' = Futures
  BY DEF Calls, Waiting, Futures, schedVars
<1>2. Leased'
  BY <1>1, LeasedStays DEF Books, schedVars
<1>3. Held'
  BY <1>1 DEF Books, Held
<1>4. Idle'
  BY <1>1, IdleStays DEF Books, Sweeping, Swept
<1>5. Told'
  <2>1. \A c : Settled(c)' <=> Settled(c)
    <3> TAKE c
    <3>1. StateIn(TaskOf(c))' = StateIn(TaskOf(c))
      BY SameLog
    <3>2. QED
      BY <3>1 DEF Settled
  <2>2. \A c : Placed(c)' <=> Placed(c)
    BY <1>1 DEF Placed
  <2>3. QED
    BY <2>1, <2>2 DEF Books, Told
<1>6. QED
  BY <1>2, <1>3, <1>4, <1>5 DEF Books

RunnerInv == Inv /\ (InBatch => Books) /\ Report

LEMMA RunnerInvInit == Init => RunnerInv
  BY InvInit DEF RunnerInv, Report, Init, InBatch

LEMMA RunnerInvNext == RunnerInv /\ [Next]_vars => RunnerInv'
<1> SUFFICES ASSUME RunnerInv, [Next]_vars PROVE (InBatch => Books)' /\ Report'
  BY InvNext DEF RunnerInv
<1>0. Inv /\ Report /\ (InBatch => Places /\ Books)
  BY DEF RunnerInv, Inv
<1>1. CASE OfferTask \/ OfferAgain \/ SkipTask \/ Launch \/ Reject \/ FinishRejected
           \/ Sweep
  <2>1. InBatch /\ phase' = phase
    BY <1>1 DEF OfferTask, OfferAgain, SkipTask, Launch, Reject, FinishRejected, Sweep,
         NextCall, AllCollected
  <2>2. Books'
    BY <1>0, <1>1, <2>1, OfferBooks, SkipBooks, LaunchBooks, RejectBooks, FinishBooks,
       SweepBooks
  <2>3. QED
    BY <2>1, <2>2 DEF Report, InBatch
<1>2. ASSUME NEW c \in Campaign, NEW u \in Usage, NEW n \in 0 .. Len(queue),
             CollectTerminal(c, u, n) \/ CollectUncertain(c, u, n)
      PROVE  (InBatch => Books)' /\ Report'
  <2>1. InBatch /\ phase' = phase
    BY <1>2 DEF CollectTerminal, CollectUncertain, Collectable
  <2>2. Books'
    BY <1>0, <1>2, <2>1, CollectBooks
  <2>3. QED
    BY <2>1, <2>2 DEF Report, InBatch
<1>3. ASSUME NEW c \in Campaign, Callback(c)
      PROVE  (InBatch => Books)' /\ Report'
  <2>1. PICK k \in Interruption \cup {None} : CallbackEnds(c, k)
    BY <1>3 DEF Callback
  <2>2. phase' = phase /\ phase # "returned"
    BY <2>1 DEF CallbackEnds
  <2>3. InBatch => Books'
    BY <1>0, <2>1, CallbackBooks
  <2>4. QED
    BY <2>2, <2>3 DEF Report, InBatch
<1>4. CASE BeginBatch
  BY <1>4, BeginBooks DEF BeginBatch, Report
<1>5. CASE Return
  <2>1. InBatch /\ phase' = "returned"
    BY <1>5 DEF Return, AllCollected
  <2>2. QED
    BY <1>0, <1>5, <2>1, ReturnReports DEF InBatch
<1>6. CASE RefuseTask \/ LaunchRaises \/ AppendRaises \/ Crash \/ Exit
           \/ \E a \in Attempt : Recover(a)
  <2>1. phase' \in {"aborted", "down"}
    BY <1>6 DEF RefuseTask, LaunchRaises, AppendRaises, Abort, Crash, Exit, Recover, runVars
  <2>2. QED
    BY <2>1 DEF Report, InBatch
<1>7. CASE UNCHANGED vars
  BY <1>0, <1>7, BooksSame, ReportStays DEF vars, runVars, InBatch
<1>8. QED
  BY <1>1, <1>2, <1>3, <1>4, <1>5, <1>6, <1>7 DEF Next, Main, Driver

LEMMA RunnerBooks == Spec => []RunnerInv
  BY RunnerInvInit, RunnerInvNext, PTL DEF Spec

----------------------------------------------------------------------------
(* What run() and the scheduler hold agrees                                *)

LEMMA LeasesAre == RunnerInv => LeasesAccounted
<1> SUFFICES ASSUME RunnerInv, InBatch PROVE LeasesAccounted
  BY DEF LeasesAccounted
<1>1. Places /\ Leased
  BY DEF RunnerInv, Inv, Books
<1>2. \A i \in LaunchCalls : todo[i] \in Calls /\ todo[i].op = "launch"
  BY DEF LaunchCalls, Calls
<1>3. \A x \in Calls : x.op = "launch" => \E i \in LaunchCalls : x = todo[i]
  BY DEF LaunchCalls, Calls
<1>4. DOMAIN active = {future[c].lease : c \in Futures}
                        \cup {todo[i].lease : i \in LaunchCalls}
  <2>1. ASSUME NEW l \in DOMAIN active
        PROVE  l \in {future[c].lease : c \in Futures}
                       \cup {todo[i].lease : i \in LaunchCalls}
    BY <1>1, <1>3 DEF Leased
  <2>2. \A c \in Futures : future[c].lease \in DOMAIN active
    BY <1>1 DEF Leased
  <2>3. \A i \in LaunchCalls : todo[i].lease \in DOMAIN active
    BY <1>1, <1>2 DEF Leased
  <2>4. QED
    BY <2>1, <2>2, <2>3
<1>5. \A c \in Futures : active[future[c].lease] = c
  BY <1>1 DEF Leased
<1>6. \A i \in LaunchCalls :
        active[todo[i].lease] = todo[i].task /\ todo[i].task \notin Futures
  BY <1>1, <1>2 DEF Leased, Places, CallKnown, Futures
<1>7. \A i, j \in LaunchCalls : i # j => todo[i].lease # todo[j].lease
  BY <1>1, <1>6 DEF Places, OneCall, LaunchCalls
<1>8. QED
  BY <1>4, <1>5, <1>6, <1>7 DEF LeasesAccounted

LEMMA QueueIs == RunnerInv => QueueIsPending
<1> SUFFICES ASSUME RunnerInv, InBatch PROVE QueueIsPending
  BY DEF QueueIsPending
<1>1. /\ Places /\ Held /\ queue \in Seq(Campaign)
  BY PlaceTypes DEF RunnerInv, Inv, Books
<1>2. \A i \in LaunchCalls : todo[i].task \in pending
  BY <1>1 DEF LaunchCalls, Calls, Held
<1>3. ASSUME todo = << >>
      PROVE  /\ {queue[i] : i \in DOMAIN queue} = pending
             /\ Len(queue) = Cardinality(pending)
  <2>1. Calls = {}
    BY <1>3 DEF Calls
  <2>2. Waiting = pending
    BY <1>1, <2>1 DEF Held
  <2>3. Cardinality(Waiting) = Len(queue)
    <3>1. /\ Len(queue) \in Nat /\ DOMAIN queue = 1 .. Len(queue)
          /\ queue = [i \in 1 .. Len(queue) |-> queue[i]]
      BY <1>1
    <3>2. queue \in Bijection(1 .. Len(queue), Waiting)
      BY <1>1, <3>1 DEF Places, OneWait, Waiting, Bijection, Injection, Surjection, IsInjective
    <3>3. ExistsBijection(1 .. Len(queue), Waiting)
      BY <3>2 DEF ExistsBijection
    <3>4. QED
      BY <3>1, <3>3, FS_CountingElements
  <2>4. QED
    BY <2>2, <2>3 DEF Waiting
<1>4. QED
  BY <1>2, <1>3 DEF QueueIsPending

LEMMA WorkIs == RunnerInv => WorkConserving
<1> SUFFICES ASSUME RunnerInv, InBatch, todo = << >>, queue # << >>, ~Swept
             PROVE  ~Admissible(Head(queue))
  BY DEF WorkConserving
<1>1. Calls = {}
  BY DEF Calls
<1>2. QED
  BY <1>1 DEF RunnerInv, Books, Idle, Sweeping

(* While a batch runs, every lease has exactly one owner, the pending      *)
(* table is the queue, and no capacity is left idle that the head of the   *)
(* queue could use: after any order of collecting, resuming, launching,    *)
(* rejecting and failing (runner.py:248-427).                              *)
THEOREM TablesStayInStep == Spec => []TablesAgree
<1>1. RunnerInv => TablesAgree
  BY LeasesAre, QueueIs, WorkIs DEF RunnerInv, Inv, TablesAgree
<1>2. QED
  BY <1>1, RunnerBooks, PTL

(* What run() believes of an attempt, and what it reports at the end, is   *)
(* what the log holds (events.py:300-364, runner.py:431-436).              *)
THEOREM ReportIsLog == Spec => []LogIsTold
<1>1. RunnerInv => MachineMatchesLog
  BY DEF RunnerInv, Inv, Places, Matches, MachineMatchesLog
<1>2. RunnerInv => ReportMatchesLog
  BY DEF RunnerInv, Report, Settled, ReportMatchesLog
<1>3. QED
  BY <1>1, <1>2, RunnerBooks, PTL DEF LogIsTold
============================================================================
