--------------------------- MODULE DocumentProofs ---------------------------
(***************************************************************************)
(* Theorems about the two components that keep their state in documents:   *)
(* the chain of locks before an evaluation launch (LaunchIsBacked and      *)
(* RunIsReported, for every panel, every benchmark, and every number of    *)
(* commands and edits) and the adjudication ledger (ConsensusStands and    *)
(* RoundTrip, for any findings, people, labels and relabels).              *)
(***************************************************************************)
EXTENDS EvaluationLaunch, AdjudicationLedger, FiniteSetTheorems,
        WellFoundedInduction, TLAPS

(* A protocol lock is only ever made from a complete protocol.             *)
Complete(d) == d.kind = "protocol" => ~ d.missing /\ d.replicates > 0

(* What the hashes protect: a sealed document is one that a command wrote  *)
(* under its own name, and a sealed report that calls an evaluation ready  *)
(* was made by a check.                                                    *)
LaunchInv ==
  /\ lock = [f \in Lock |-> lock[f]]
  /\ \A f \in Lock :
       Readable(lock[f]) /\ Sealed(lock[f]) =>
         lock[f].body \in issued /\ lock[f].body.kind = f
  /\ command # None => command.kind \in Lock /\ Complete(command)
  /\ \A d \in issued : Complete(d)
  /\ report # None /\ report.sealed /\ report.mode = "evaluation" /\ report.ready
       => checked

LEMMA LaunchInvInit == LaunchInit => LaunchInv
  BY DEF LaunchInit, LaunchInv, Readable

(* Beginning a command tears the document it will write.                   *)
LEMMA WriteKeeps ==
  ASSUME LaunchInv, NEW body, Write(body), body.kind \in Lock, Complete(body)
  PROVE  LaunchInv'
  BY DEF LaunchInv, Write, Readable, Sealed, Complete

LEMMA LaunchInvNext == LaunchInv /\ [LaunchNext]_launchVars => LaunchInv'
<1> SUFFICES ASSUME LaunchInv, [LaunchNext]_launchVars
             PROVE  LaunchInv'
  OBVIOUS
<1>1. ASSUME NEW answer \in [Family -> Answer], Preflight(answer)
      PROVE  LaunchInv'
  <2> DEFINE body == [kind |-> "models", id |-> commands + 1,
                rows |-> [f \in Family |-> LockRow(catalogue[f], answer[f])]]
  <2>1. Write(body)
    BY <1>1 DEF Preflight
  <2>2. body.kind \in Lock /\ Complete(body)
    BY DEF Lock, Complete
  <2> HIDE DEF body
  <2>3. QED
    BY <2>1, <2>2, WriteKeeps
<1>2. ASSUME NEW m, NEW b, LockProtocol(m, b)
      PROVE  LaunchInv'
  <2> DEFINE body == [kind |-> "protocol", id |-> commands + 1, locked |-> TRUE,
                missing |-> FALSE, replicates |-> planning.replicates,
                model |-> m, benchmark |-> b]
  <2>1. Write(body)
    BY <1>2 DEF LockProtocol
  <2>2. body.kind \in Lock /\ Complete(body)
    BY <1>2 DEF Lock, Complete, LockProtocol
  <2> HIDE DEF body
  <2>3. QED
    BY <2>1, <2>2, WriteKeeps
<1>3. ASSUME NEW mode, NEW p, NEW m, NEW b, NEW config, Plan(mode, p, m, b, config)
      PROVE  LaunchInv'
  <2> DEFINE body == [kind |-> "plan", id |-> commands + 1, mode |-> mode,
                protocol |-> p, model |-> m, benchmark |-> b, config |-> config]
  <2>1. Write(body)
    BY <1>3 DEF Plan
  <2>2. body.kind \in Lock /\ Complete(body)
    BY DEF Lock, Complete
  <2> HIDE DEF body
  <2>3. QED
    BY <2>1, <2>2, WriteKeeps
<1>4. CASE Finish
  BY <1>4 DEF Finish, LaunchInv, Readable, Sealed, Complete
<1>5. CASE Crash
  BY <1>5 DEF Crash, LaunchInv, inputs, Readable, Sealed, Complete
<1>6. ASSUME NEW mode, Readiness(mode)
      PROVE  LaunchInv'
  BY <1>6 DEF Readiness, ReportFor, LaunchInv, Readable, Sealed, Complete
<1>7. CASE LaunchCheck
  BY <1>7 DEF LaunchCheck, LaunchInv, Readable, Sealed, Complete
<1>8. ASSUME NEW tasks, EvaluationRun(tasks)
      PROVE  LaunchInv'
  BY <1>8 DEF EvaluationRun, LaunchInv, Readable, Sealed, Complete
<1>9. CASE NewInputs
  BY <1>9 DEF NewInputs, LaunchInv, Readable, Sealed, Complete
<1>10. ASSUME NEW f \in Lock, EditDocument(f)
       PROVE  LaunchInv'
  BY <1>10 DEF EditDocument, LaunchInv, Readable, Sealed, Complete
<1>11. CASE EditReport
  BY <1>11 DEF EditReport, LaunchInv, Readable, Sealed, Complete
<1>12. CASE UNCHANGED launchVars
  BY <1>12 DEF launchVars, LaunchInv, Readable, Sealed, Complete
<1>13. CASE WritePlan
  BY <1>13, <1>3 DEF WritePlan
<1>14. QED
  BY <1>1, <1>2, <1>4, <1>5, <1>6, <1>7, <1>8, <1>9, <1>10, <1>11, <1>12, <1>13
     DEF LaunchNext

----------------------------------------------------------------------------
(* What the gates of a ready evaluation say about the documents.           *)
LEMMA ReadyMeansGates ==
  ASSUME Gates("evaluation") = RequiredGates
  PROVE  /\ ProtocolGate("evaluation", lock.protocol)
         /\ ModelGate("evaluation", lock.models)
         /\ PlanGate("evaluation", lock.plan, lock.protocol, lock.models)
<1>1. {"protocol", "G3.04", "campaign_plan"} \subseteq Gates("evaluation")
  BY DEF RequiredGates
<1>2. QED
  BY <1>1 DEF Gates

(* An allowed launch goes back to documents the commands wrote for each    *)
(* other, and for the benchmark at hand (readiness.py:277-427).            *)
THEOREM LaunchBacking == LaunchSpec => []LaunchIsBacked
<1>1. LaunchInit => LaunchIsBacked
  BY DEF LaunchInit, LaunchIsBacked
<1>2. LaunchInv /\ LaunchIsBacked /\ [LaunchNext]_launchVars => LaunchIsBacked'
  <2> SUFFICES ASSUME LaunchInv, LaunchIsBacked, [LaunchNext]_launchVars,
                      boundary' # None, boundary'.at = "launch"
               PROVE  LaunchIsBacked'
    BY DEF LaunchIsBacked
  <2>1. CASE UNCHANGED launchVars
    BY <2>1 DEF launchVars, LaunchIsBacked
  <2>2. CASE LaunchCheck
    <3>1. Guard(report', lock.plan, {})
      BY <2>2 DEF LaunchCheck
    <3>2. Gates("evaluation") = RequiredGates
      BY <2>2, <3>1 DEF LaunchCheck, Guard, ReportFor
    <3>3. /\ ProtocolGate("evaluation", lock.protocol)
          /\ ModelGate("evaluation", lock.models)
          /\ PlanGate("evaluation", lock.plan, lock.protocol, lock.models)
      BY <3>2, ReadyMeansGates
    <3>4. {"plan", "models", "protocol"} \subseteq Lock
      BY DEF Lock
    <3>5. {lock.plan.body, lock.models.body, lock.protocol.body} \subseteq issued
      BY <3>3, <3>4 DEF LaunchInv, ProtocolGate, ModelGate, PlanGate
    <3>6. UNCHANGED <<lock, issued, evidence>>
      BY <2>2 DEF LaunchCheck, inputs
    <3>7. QED
      BY <3>3, <3>5, <3>6 DEF LaunchIsBacked, ProtocolGate, ModelGate, PlanGate
  <2>3. CASE ~ LaunchCheck /\ LaunchNext
    <3>1. boundary' = None \/ boundary'.at = "run"
      BY <2>3 DEF LaunchNext, Preflight, LockProtocol, WritePlan, Plan, Write, Finish,
         Crash, Readiness, EvaluationRun, NewInputs, EditDocument, EditReport
    <3>2. QED
      BY <3>1
  <2>4. QED
    BY <2>1, <2>2, <2>3
<1>3. QED
  BY <1>1, <1>2, LaunchInvInit, LaunchInvNext, PTL DEF LaunchSpec

(* An evaluation starts only after a check has found it ready, and only    *)
(* with campaigns of an evaluation plan (readiness.py:109-150).            *)
THEOREM RunReporting == LaunchSpec => []RunIsReported
<1>1. LaunchInit => RunIsReported
  BY DEF LaunchInit, RunIsReported
<1>2. LaunchInv /\ RunIsReported /\ [LaunchNext]_launchVars => RunIsReported'
  <2> SUFFICES ASSUME LaunchInv, RunIsReported, [LaunchNext]_launchVars,
                      boundary' # None, boundary'.at = "run"
               PROVE  RunIsReported'
    BY DEF RunIsReported
  <2>1. CASE UNCHANGED launchVars
    BY <2>1 DEF launchVars, RunIsReported
  <2>2. ASSUME NEW tasks, EvaluationRun(tasks)
        PROVE  RunIsReported'
    <3>1. report # None /\ Guard(report, lock.plan, tasks)
      BY <2>2 DEF EvaluationRun
    <3>2. checked
      BY <3>1 DEF Guard, LaunchInv
    <3>3. /\ boundary'.tasks = tasks
          /\ UNCHANGED <<lock, checked>>
      BY <2>2 DEF EvaluationRun
    <3>4. QED
      BY <3>1, <3>2, <3>3 DEF Guard, RunIsReported
  <2>3. CASE LaunchNext /\ ~ \E tasks : EvaluationRun(tasks)
    <3>1. boundary' = None \/ boundary'.at = "launch"
      BY <2>3 DEF LaunchNext, Preflight, LockProtocol, WritePlan, Plan, Write, Finish,
         Crash, Readiness, LaunchCheck, NewInputs, EditDocument, EditReport
    <3>2. QED
      BY <3>1
  <2>4. QED
    BY <2>1, <2>2, <2>3
<1>3. QED
  BY <1>1, <1>2, LaunchInvInit, LaunchInvNext, PTL DEF LaunchSpec

----------------------------------------------------------------------------
(***************************************************************************)
(* AdjudicationLedger.  A reconciliation stands on the first two labels of *)
(* its finding (Standing), which no later label can take from it; the      *)
(* relabel events of a finding chain from its reconciliation to its        *)
(* effective status (Chained).                                             *)
(***************************************************************************)
LedgerTypeOK ==
  /\ labels \in Seq(Label)
  /\ recon \in [Finding -> Reconciliation \cup {NoRecord}]
  /\ DOMAIN effective = Finding
  /\ relabels \in Seq(RelabelEvent)

LabelledOnce ==
  \A i, j \in DOMAIN labels : i # j => Key(labels[i]) # Key(labels[j])

StandsOn(f, i, j) ==
  /\ i < j /\ labels[i].finding = f /\ labels[j].finding = f
  /\ \A k \in 1 .. j : labels[k].finding = f => k \in {i, j}
  /\ recon[f].raters = <<labels[i].rater, labels[j].rater>>
  /\ recon[f].adjudicator \notin {labels[i].rater, labels[j].rater}
  /\ recon[f].verdict = Consensus(labels[i], labels[j])
  /\ recon[f].verdict.status = "unresolved" => recon[f].explained

Standing == \A f \in Finding : recon[f] # NoRecord =>
              \E i, j \in DOMAIN labels : StandsOn(f, i, j)

Chained ==
  /\ \A i \in DOMAIN relabels :
       /\ recon[relabels[i].finding] # NoRecord
       /\ relabels[i].previous = EffectiveAfter(Snapshot, relabels[i].finding, i - 1)
  /\ effective = Replayed(Snapshot)

LedgerInv == LedgerTypeOK /\ LabelledOnce /\ Standing /\ Chained

LEMMA RelabelFacts ==
  ASSUME LedgerTypeOK
  PROVE  /\ Len(relabels) \in Nat /\ DOMAIN relabels = 1 .. Len(relabels)
         /\ \A i \in 1 .. Len(relabels) :
              /\ relabels[i] \in RelabelEvent
              /\ relabels[i].finding \in Finding /\ relabels[i].new \in Status
<1>1. relabels \in Seq(RelabelEvent)
  BY DEF LedgerTypeOK
<1>2. \A e \in RelabelEvent : e.finding \in Finding /\ e.new \in Status
  BY DEF RelabelEvent
<1> QED BY <1>1, <1>2

LEMMA PairEnds ==
  ASSUME NEW i \in Nat, NEW j \in Nat, i < j
  PROVE  Earliest({i, j}) = i /\ Latest({i, j}) = j /\ Cardinality({i, j}) = 2
<1>1. Earliest({i, j}) = i
  <2> DEFINE P(x) == x \in {i, j} /\ \A y \in {i, j} : x <= y
  <2>1. P(i) /\ \A x : P(x) => x = i
    OBVIOUS
  <2> QED BY <2>1 DEF Earliest
<1>2. Latest({i, j}) = j
  <2> DEFINE P(x) == x \in {i, j} /\ \A y \in {i, j} : y <= x
  <2>1. P(j) /\ \A x : P(x) => x = j
    OBVIOUS
  <2> QED BY <2>1 DEF Latest
<1>3. Cardinality({i, j}) = 2
  <2>1. IsFiniteSet({i}) /\ Cardinality({i}) = 1 /\ j \notin {i}
    BY FS_Singleton
  <2>2. Cardinality({i} \cup {j}) = 2
    BY <2>1, FS_AddElement
  <2>3. {i} \cup {j} = {i, j}
    OBVIOUS
  <2> QED BY <2>2, <2>3
<1> QED BY <1>1, <1>2, <1>3

LEMMA TwoPlaces ==
  ASSUME NEW n \in Nat, NEW I \in SUBSET (1 .. n), Cardinality(I) = 2
  PROVE  \E i, j \in I : i < j /\ I = {i, j}
<1>1. IsFiniteSet(1 .. n)
  BY FS_Interval
<1>2. IsFiniteSet(I)
  BY <1>1, FS_Subset
<1>3. I # {}
  BY FS_EmptySet
<1>4. PICK a \in I : TRUE
  BY <1>3
<1>5. IsFiniteSet(I \ {a}) /\ Cardinality(I \ {a}) = 1
  BY <1>2, <1>4, FS_RemoveElement
<1>6. PICK b : I \ {a} = {b}
  BY <1>5, FS_Singleton
<1>7. I = {a, b} /\ a # b /\ a \in 1 .. n /\ b \in 1 .. n
  BY <1>4, <1>6
<1>8. CASE a < b
  BY <1>7, <1>8
<1>9. CASE b < a
  BY <1>7, <1>9
<1> QED BY <1>7, <1>8, <1>9

\* A reconciliation that is made stands on the two labels of its finding.
LEMMA ReconciledStands ==
  ASSUME LedgerTypeOK, NEW f \in Finding, NEW a \in Person, NEW e \in BOOLEAN,
         MayReconcile(labels, f, a, e)
  PROVE  LET r == Reconciled(labels, f, a, e) IN
         /\ r \in Reconciliation
         /\ \E i, j \in DOMAIN labels :
              /\ i < j /\ labels[i].finding = f /\ labels[j].finding = f
              /\ \A k \in 1 .. j : labels[k].finding = f => k \in {i, j}
              /\ r.raters = <<labels[i].rater, labels[j].rater>>
              /\ r.adjudicator \notin {labels[i].rater, labels[j].rater}
              /\ r.verdict = Consensus(labels[i], labels[j])
              /\ r.verdict.status = "unresolved" => r.explained
<1> DEFINE own == LabelsOf(labels, f)
<1>1. Len(labels) \in Nat /\ own \in SUBSET (1 .. Len(labels)) /\ Cardinality(own) = 2
  BY DEF LedgerTypeOK, LabelsOf, MayReconcile
<1>2. PICK i, j \in own : i < j /\ own = {i, j}
  BY <1>1, TwoPlaces
<1>3. Earliest(own) = i /\ Latest(own) = j
  BY <1>1, <1>2, PairEnds
<1>4. Reconciled(labels, f, a, e) =
        [raters |-> <<labels[i].rater, labels[j].rater>>, adjudicator |-> a,
         verdict |-> Consensus(labels[i], labels[j]), explained |-> e]
  BY <1>3 DEF Reconciled
<1>5. /\ \A k \in own : labels[k].rater # a
      /\ Consensus(labels[i], labels[j]).status = "unresolved" => e
  BY <1>3 DEF MayReconcile
<1>6. labels[i] \in Label /\ labels[j] \in Label
  BY <1>1 DEF LedgerTypeOK
<1>7. Consensus(labels[i], labels[j]) \in Verdict \cup {Unresolved}
  BY <1>6 DEF Label, Consensus
<1>8. Reconciled(labels, f, a, e) \in Reconciliation
  BY <1>4, <1>6, <1>7 DEF Reconciliation, Label
<1>9. /\ labels[i].finding = f /\ labels[j].finding = f
      /\ \A k \in 1 .. j : labels[k].finding = f => k \in {i, j}
  <2>1. DOMAIN labels = 1 .. Len(labels)
    BY DEF LedgerTypeOK
  <2> QED BY <1>1, <1>2, <2>1 DEF LabelsOf
<1>10. i \in DOMAIN labels /\ j \in DOMAIN labels
  BY DEF LabelsOf
<1> QED BY <1>2, <1>4, <1>5, <1>8, <1>9, <1>10

LEMMA Joined ==
  ASSUME NEW S, NEW s \in Seq(S), NEW t \in Seq(S)
  PROVE  /\ \A x \in 1 .. Len(t) : (s \o t)[Len(s) + x] = t[x]
         /\ DOMAIN (s \o t) = 1 .. (Len(s) + Len(t))
  OBVIOUS

\* Labels that are appended under new keys.
LEMMA AppendedLabels ==
  ASSUME LedgerInv, NEW more \in Seq(Label), labels' = labels \o more,
         \A k \in DOMAIN more : Key(more[k]) \notin Keys(labels \o SubSeq(more, 1, k - 1)),
         UNCHANGED <<recon, effective, relabels>>
  PROVE  LedgerInv'
<1> USE DEF LedgerInv
<1>1. /\ labels \in Seq(Label) /\ labels' \in Seq(Label)
      /\ Len(labels) \in Nat /\ Len(more) \in Nat
      /\ DOMAIN labels = 1 .. Len(labels) /\ DOMAIN more = 1 .. Len(more)
      /\ DOMAIN labels' = 1 .. (Len(labels) + Len(more))
      /\ \A k \in DOMAIN labels : labels'[k] = labels[k]
      /\ \A k \in DOMAIN more : labels'[Len(labels) + k] = more[k]
  BY DEF LedgerTypeOK
<1>2. LabelledOnce'
  <2>1. ASSUME NEW i \in DOMAIN labels', NEW j \in DOMAIN labels', i < j
        PROVE  Key(labels'[i]) # Key(labels'[j])
    <3>1. CASE j \in DOMAIN labels
      BY <1>1, <2>1, <3>1 DEF LabelledOnce
    <3>2. CASE j \notin DOMAIN labels
      <4> DEFINE k == j - Len(labels)
                 before == labels \o SubSeq(more, 1, k - 1)
      <4>1. k \in DOMAIN more /\ labels'[j] = more[k]
        BY <1>1, <3>2
      <4>2. /\ SubSeq(more, 1, k - 1) \in Seq(Label)
            /\ Len(SubSeq(more, 1, k - 1)) = k - 1
            /\ \A x \in 1 .. (k - 1) : SubSeq(more, 1, k - 1)[x] = more[x]
        BY <1>1, <4>1
      <4>3. i \in DOMAIN before /\ before[i] = labels'[i]
        <5>1. CASE i \in DOMAIN labels
          BY <1>1, <4>1, <4>2, <5>1
        <5>2. CASE i \notin DOMAIN labels
          <6> DEFINE x == i - Len(labels)
          <6>1. x \in 1 .. (k - 1) /\ i = Len(labels) + x
            BY <1>1, <2>1, <4>1, <5>2
          <6>2. before[Len(labels) + x] = SubSeq(more, 1, k - 1)[x]
            <7> DEFINE sub == SubSeq(more, 1, k - 1)
            <7>1. sub \in Seq(Label) /\ x \in 1 .. Len(sub)
              BY <4>2, <6>1
            <7> HIDE DEF sub, x
            <7>2. (labels \o sub)[Len(labels) + x] = sub[x]
              BY <1>1, <7>1, Joined
            <7> QED BY ONLY <7>2 DEF sub
          <6>3. labels'[Len(labels) + x] = more[x]
            BY <1>1, <4>1, <6>1
          <6>4. Len(labels) + x \in DOMAIN before
            BY <1>1, <4>1, <4>2, <6>1
          <6> QED BY <4>2, <6>1, <6>2, <6>3, <6>4
        <5> QED BY <5>1, <5>2
      <4>4. Key(before[i]) \in Keys(before)
        BY <4>3 DEF Keys
      <4> QED BY <4>1, <4>3, <4>4
    <3> QED BY <3>1, <3>2
  <2>2. ASSUME NEW i \in DOMAIN labels', NEW j \in DOMAIN labels', i # j
        PROVE  Key(labels'[i]) # Key(labels'[j])
    <3>1. i < j \/ j < i
      BY <1>1, <2>2
    <3> QED BY <2>1, <3>1
  <2> QED BY <2>2 DEF LabelledOnce
<1>3. Standing'
  <2> SUFFICES ASSUME NEW f \in Finding, recon[f] # NoRecord
               PROVE  \E i, j \in DOMAIN labels' : StandsOn(f, i, j)'
    BY DEF Standing
  <2>1. PICK i, j \in DOMAIN labels : StandsOn(f, i, j)
    BY DEF Standing
  <2>2. /\ i \in DOMAIN labels' /\ j \in DOMAIN labels'
        /\ labels'[i] = labels[i] /\ labels'[j] = labels[j]
        /\ \A k \in 1 .. j : labels'[k] = labels[k]
    BY <1>1
  <2>3. StandsOn(f, i, j)'
    BY <2>1, <2>2 DEF StandsOn
  <2> QED BY <2>2, <2>3
<1>4. Chained'
  <2>1. ASSUME NEW f, NEW n
        PROVE  EffectiveAfter(Snapshot, f, n)' = EffectiveAfter(Snapshot, f, n)
    BY DEF EffectiveAfter, Snapshot
  <2>2. Replayed(Snapshot)' = Replayed(Snapshot)
    BY DEF Replayed, EffectiveAfter, Snapshot
  <2> QED BY <2>1, <2>2 DEF Chained
<1> QED BY <1>1, <1>2, <1>3, <1>4 DEF LedgerTypeOK

LEMMA AddLabelKeeps ==
  ASSUME LedgerInv, NEW l \in Label, AddLabel(l) PROVE LedgerInv'
<1> DEFINE more == <<l>>
<1>1. more \in Seq(Label) /\ DOMAIN more = {1} /\ labels \in Seq(Label)
  BY DEF LedgerInv, LedgerTypeOK
<1>2. labels' = labels \o more
  BY <1>1 DEF AddLabel
<1>3. labels \o SubSeq(more, 1, 0) = labels
  BY <1>1
<1>4. \A k \in DOMAIN more : Key(more[k]) \notin Keys(labels \o SubSeq(more, 1, k - 1))
  <2>1. Key(l) \notin Keys(labels) /\ more[1] = l
    BY DEF AddLabel
  <2>2. Key(more[1]) \notin Keys(labels \o SubSeq(more, 1, 1 - 1))
    <3>1. 1 - 1 = 0
      OBVIOUS
    <3> HIDE DEF more
    <3> QED BY <1>3, <2>1, <3>1
  <2> QED BY <1>1, <2>2
<1>5. UNCHANGED <<recon, effective, relabels>>
  BY DEF AddLabel
<1> HIDE DEF more
<1> QED BY <1>1, <1>2, <1>4, <1>5, AppendedLabels

LEMMA ImportLabelsKeeps ==
  ASSUME LedgerInv, NEW imported \in Seq(Label), ImportLabels(imported) PROVE LedgerInv'
<1>1. PICK n \in 0 .. Len(imported) :
        /\ \A k \in 1 .. n :
             Key(imported[k]) \notin Keys(labels \o SubSeq(imported, 1, k - 1))
        /\ labels' = labels \o SubSeq(imported, 1, n)
  BY DEF ImportLabels
<1> DEFINE more == SubSeq(imported, 1, n)
<1>2. /\ more \in Seq(Label) /\ Len(more) = n /\ DOMAIN more = 1 .. n
      /\ \A k \in 1 .. n : more[k] = imported[k]
  OBVIOUS
<1>3. ASSUME NEW k \in 1 .. n
      PROVE  SubSeq(more, 1, k - 1) = SubSeq(imported, 1, k - 1)
  BY <1>2
<1>4. \A k \in DOMAIN more : Key(more[k]) \notin Keys(labels \o SubSeq(more, 1, k - 1))
  BY <1>1, <1>2, <1>3
<1>5. UNCHANGED <<recon, effective, relabels>>
  BY DEF ImportLabels
<1> HIDE DEF more
<1> QED BY <1>1, <1>2, <1>4, <1>5, AppendedLabels DEF more

LEMMA ReconcileKeeps ==
  ASSUME LedgerInv, NEW f \in Finding, NEW a \in Person, NEW e \in BOOLEAN,
         Reconcile(f, a, e)
  PROVE  LedgerInv'
<1> USE DEF LedgerInv
<1> DEFINE r == Reconciled(labels, f, a, e)
<1>1. /\ recon[f] = NoRecord /\ MayReconcile(labels, f, a, e)
      /\ recon' = [recon EXCEPT ![f] = r]
      /\ effective' = [effective EXCEPT ![f] = r.verdict.status]
      /\ UNCHANGED <<labels, relabels>>
  BY DEF Reconcile
<1>2. /\ r \in Reconciliation
      /\ \E i, j \in DOMAIN labels :
           /\ i < j /\ labels[i].finding = f /\ labels[j].finding = f
           /\ \A k \in 1 .. j : labels[k].finding = f => k \in {i, j}
           /\ r.raters = <<labels[i].rater, labels[j].rater>>
           /\ r.adjudicator \notin {labels[i].rater, labels[j].rater}
           /\ r.verdict = Consensus(labels[i], labels[j])
           /\ r.verdict.status = "unresolved" => r.explained
  BY <1>1, ReconciledStands
<1> HIDE DEF r
<1>3. LedgerTypeOK'
  BY <1>1, <1>2 DEF LedgerTypeOK
<1>4. /\ recon'[f] = r /\ r # NoRecord /\ effective'[f] = r.verdict.status
      /\ \A g \in Finding \ {f} : recon'[g] = recon[g] /\ effective'[g] = effective[g]
  BY <1>1, <1>2, NoRecordIsApart DEF LedgerTypeOK
<1>5. LabelledOnce'
  BY <1>1 DEF LabelledOnce
<1>6. Standing'
  <2> SUFFICES ASSUME NEW g \in Finding, recon'[g] # NoRecord
               PROVE  \E i, j \in DOMAIN labels : StandsOn(g, i, j)'
    BY <1>1 DEF Standing
  <2>1. CASE g = f
    BY <1>1, <1>2, <1>4, <2>1 DEF StandsOn
  <2>2. CASE g # f
    BY <1>1, <1>4, <2>2 DEF StandsOn, Standing
  <2> QED BY <2>1, <2>2
<1>7. \A i \in DOMAIN relabels : relabels[i].finding \in Finding \ {f}
  BY <1>1, RelabelFacts DEF Chained
<1>8. \A g \in Finding \ {f} : \A n : EffectiveAfter(Snapshot, g, n)' = EffectiveAfter(Snapshot, g, n)
  BY <1>1, <1>4 DEF EffectiveAfter, Snapshot
<1>9. \A i \in DOMAIN relabels :
        /\ recon'[relabels[i].finding] # NoRecord
        /\ relabels[i].previous = EffectiveAfter(Snapshot', relabels[i].finding, i - 1)
  BY <1>4, <1>7, <1>8 DEF Chained
<1>10. effective' = Replayed(Snapshot')
  <2>1. {i \in 1 .. Len(relabels) : relabels[i].finding = f} = {}
    BY <1>7 DEF LedgerTypeOK
  <2>2. EffectiveAfter(Snapshot', f, Len(relabels)) = effective'[f]
    BY <1>1, <1>4, <2>1 DEF EffectiveAfter, Snapshot
  <2>3. \A g \in Finding \ {f} : EffectiveAfter(Snapshot', g, Len(relabels)) = effective'[g]
    BY <1>4, <1>8 DEF Chained, Replayed, Snapshot
  <2>4. DOMAIN effective' = Finding /\ effective' = [g \in Finding |-> effective'[g]]
    BY <1>1 DEF LedgerTypeOK
  <2>5. \A g \in Finding : effective'[g] = EffectiveAfter(Snapshot', g, Len(relabels))
    BY <2>2, <2>3
  <2>6. Snapshot'.relabels = relabels
    BY <1>1 DEF Snapshot
  <2>7. Replayed(Snapshot') = [g \in Finding |-> EffectiveAfter(Snapshot', g, Len(relabels))]
    BY <2>6 DEF Replayed
  <2>8. [g \in Finding |-> EffectiveAfter(Snapshot', g, Len(relabels))]
          = [g \in Finding |-> effective'[g]]
    BY <2>5
  <2> QED BY <2>4, <2>7, <2>8
<1>11. Chained'
  BY <1>1, <1>9, <1>10 DEF Chained
<1> QED BY <1>3, <1>5, <1>6, <1>11

\* A non-empty set of positions has a greatest member: the one nearest to the
\* end, by the well-foundedness of < on the distances.
LEMMA Greatest ==
  ASSUME NEW n \in Nat, NEW S, S \subseteq 1 .. n, S # {}
  PROVE  \E x \in S : \A y \in S : y <= x
<1> DEFINE R == {p \in Nat \X Nat : p[1] < p[2]}
           T == {n - y : y \in S}
<1>1. IsWellFoundedOn(R, Nat)
  BY NatLessThanWellFounded DEF OpToRel
<1>2. T \subseteq Nat /\ T # {}
  <2>1. \A y \in S : y \in Int /\ n - y \in Nat
    OBVIOUS
  <2>2. QED
    BY <2>1
<1>3. PICK t \in T : \A u \in T : ~(<<u, t>> \in R)
  <2> HIDE DEF R, T
  <2>1. QED
    BY <1>1, <1>2, WFMin
<1>4. PICK x \in S : t = n - x
  OBVIOUS
<1>5. \A y \in S : n - y \in T
  OBVIOUS
<1>6. \A y \in S : ~(n - y < n - x)
  <2> HIDE DEF T
  <2>1. QED
    BY <1>2, <1>3, <1>4, <1>5
<1>7. x \in Nat /\ \A y \in S : y \in Nat /\ y <= x
  BY <1>6
<1> QED BY <1>4, <1>7

LEMMA LatestChosen ==
  ASSUME NEW n \in Nat, NEW I \in SUBSET (1 .. n), I # {}
  PROVE  Latest(I) \in I /\ \A j \in I : j <= Latest(I)
<1>1. \E i \in I : \A j \in I : j <= i
  BY Greatest
<1> QED BY <1>1 DEF Latest

\* The effective status of a reconciled finding is a status.
LEMMA EffectiveTyped ==
  ASSUME LedgerTypeOK, NEW f \in Finding, recon[f] # NoRecord
  PROVE  EffectiveAfter(Snapshot, f, Len(relabels)) \in Status
<1> DEFINE I == {i \in 1 .. Len(relabels) : relabels[i].finding = f}
<1>1. recon[f] \in Reconciliation /\ Len(relabels) \in Nat
  BY DEF LedgerTypeOK
<1>2. recon[f].verdict.status \in Status
  BY <1>1, VerdictType DEF Reconciliation, Unresolved, Status
<1>3. ASSUME I # {} PROVE relabels[Latest(I)].new \in Status
  <2>1. Latest(I) \in 1 .. Len(relabels)
    <3> HIDE DEF I
    <3>1. I \in SUBSET (1 .. Len(relabels))
      BY DEF I
    <3> QED BY <1>1, <1>3, <3>1, LatestChosen
  <2> QED BY <2>1, RelabelFacts
<1> HIDE DEF I
<1> QED BY <1>2, <1>3 DEF EffectiveAfter, Snapshot, I

LEMMA RelabelKeeps ==
  ASSUME LedgerInv, NEW f \in Finding, NEW s \in Status, Relabel(f, s) PROVE LedgerInv'
<1> USE DEF LedgerInv
<1> DEFINE event == [finding |-> f, previous |-> effective[f], new |-> s]
           n == Len(relabels)
<1>1. /\ recon[f] # NoRecord /\ relabels' = Append(relabels, event)
      /\ effective' = [effective EXCEPT ![f] = s]
      /\ UNCHANGED <<labels, recon>>
  BY DEF Relabel
<1>2. n \in Nat /\ relabels \in Seq(RelabelEvent)
  BY DEF LedgerTypeOK
<1>3. /\ DOMAIN relabels' = 1 .. (n + 1) /\ Len(relabels') = n + 1
      /\ relabels'[n + 1] = event /\ \A i \in 1 .. n : relabels'[i] = relabels[i]
  BY <1>1, <1>2
<1>4. \A g \in Finding : \A m \in 0 .. n :
        EffectiveAfter(Snapshot', g, m) = EffectiveAfter(Snapshot, g, m)
  <2> SUFFICES ASSUME NEW g \in Finding, NEW m \in 0 .. n
               PROVE  EffectiveAfter(Snapshot', g, m) = EffectiveAfter(Snapshot, g, m)
    OBVIOUS
  <2> DEFINE I == {i \in 1 .. m : relabels[i].finding = g}
  <2>1. {i \in 1 .. m : relabels'[i].finding = g} = I
    BY <1>2, <1>3
  <2>2. ASSUME I # {} PROVE relabels'[Latest(I)] = relabels[Latest(I)]
    <3>1. I \in SUBSET (1 .. m) /\ m \in Nat
      BY <1>2
    <3>2. Latest(I) \in I
      <4> HIDE DEF I
      <4> QED BY <2>2, <3>1, LatestChosen
    <3>3. Latest(I) \in 1 .. n
      BY <1>2, <3>1, <3>2
    <3> QED BY <1>3, <3>3
  <2> HIDE DEF I
  <2> QED BY <1>1, <2>1, <2>2 DEF EffectiveAfter, Snapshot, I
<1>5. EffectiveAfter(Snapshot', f, n + 1) = s
  <2> DEFINE I == {i \in 1 .. (n + 1) : relabels'[i].finding = f}
  <2>1. n + 1 \in I /\ \A i \in I : i <= n + 1 /\ i \in Nat
    BY <1>2, <1>3
  <2>2. Latest(I) = n + 1
    <3> DEFINE P(x) == x \in I /\ \A y \in I : y <= x
    <3>1. P(n + 1) /\ \A x : P(x) => x = n + 1
      <4> HIDE DEF I
      <4> QED BY <1>2, <2>1
    <3> HIDE DEF I
    <3> QED BY <3>1 DEF Latest
  <2>3. relabels'[Latest(I)].new = s
    BY <1>3, <2>2
  <2>4. I # {}
    BY <2>1
  <2>5. Snapshot'.relabels = relabels' /\ Snapshot'.recon = recon
    BY <1>1 DEF Snapshot
  <2> QED BY <1>1, <2>3, <2>4, <2>5 DEF EffectiveAfter
<1>6. \A g \in Finding \ {f} :
        EffectiveAfter(Snapshot', g, n + 1) = EffectiveAfter(Snapshot, g, n)
  <2> SUFFICES ASSUME NEW g \in Finding \ {f}
               PROVE  EffectiveAfter(Snapshot', g, n + 1) = EffectiveAfter(Snapshot', g, n)
    BY <1>2, <1>4
  <2>1. {i \in 1 .. (n + 1) : relabels'[i].finding = g}
          = {i \in 1 .. n : relabels'[i].finding = g}
    BY <1>2, <1>3
  <2> QED BY <2>1 DEF EffectiveAfter, Snapshot
<1>7. \A g \in Finding : effective[g] = EffectiveAfter(Snapshot, g, n)
  BY DEF Chained, Replayed, Snapshot
<1>8. effective' = Replayed(Snapshot')
  <2>1. \A g \in Finding : effective'[g] = EffectiveAfter(Snapshot', g, n + 1)
    BY <1>1, <1>5, <1>6, <1>7 DEF LedgerTypeOK
  <2>2. effective' = [g \in Finding |-> effective'[g]]
    BY <1>1 DEF LedgerTypeOK
  <2>3. Snapshot'.relabels = relabels'
    BY DEF Snapshot
  <2>4. Replayed(Snapshot') = [g \in Finding |-> EffectiveAfter(Snapshot', g, n + 1)]
    BY <1>3, <2>3 DEF Replayed
  <2> QED BY <2>1, <2>2, <2>4
<1>9. \A i \in DOMAIN relabels' :
        /\ recon[relabels'[i].finding] # NoRecord
        /\ relabels'[i].previous = EffectiveAfter(Snapshot', relabels'[i].finding, i - 1)
  <2> SUFFICES ASSUME NEW i \in 1 .. (n + 1)
               PROVE  /\ recon[relabels'[i].finding] # NoRecord
                      /\ relabels'[i].previous =
                           EffectiveAfter(Snapshot', relabels'[i].finding, i - 1)
    BY <1>3
  <2>1. CASE i = n + 1
    BY <1>1, <1>2, <1>3, <1>4, <1>7, <2>1
  <2>2. CASE i # n + 1
    <3>1. i \in 1 .. n /\ i - 1 \in 0 .. n /\ i \in DOMAIN relabels
      BY <1>2, <2>2
    <3>2. relabels[i].finding \in Finding
      BY <3>1, RelabelFacts
    <3> QED BY <1>3, <1>4, <3>1, <3>2 DEF Chained
  <2> QED BY <2>1, <2>2
<1>10. Chained'
  BY <1>1, <1>8, <1>9 DEF Chained
<1>11. effective[f] \in Status
  BY <1>1, <1>7, EffectiveTyped
<1>12. LedgerTypeOK'
  <2>1. event \in RelabelEvent
    BY <1>11 DEF RelabelEvent
  <2>2. relabels' \in Seq(RelabelEvent)
    <3> HIDE DEF event
    <3> QED BY <1>1, <1>2, <2>1
  <2> QED BY <1>1, <2>2 DEF LedgerTypeOK
<1>13. LabelledOnce' /\ Standing'
  BY <1>1 DEF LabelledOnce, Standing, StandsOn
<1> QED BY <1>10, <1>12, <1>13

LEMMA SameLedgerKeeps ==
  ASSUME LedgerInv, UNCHANGED <<labels, recon, effective, relabels>> PROVE LedgerInv'
<1> USE DEF LedgerInv
<1>1. \A f, i, j : StandsOn(f, i, j)' <=> StandsOn(f, i, j)
  BY DEF StandsOn
<1>2. LedgerTypeOK' /\ LabelledOnce' /\ Standing'
  BY <1>1 DEF LedgerTypeOK, LabelledOnce, Standing
<1>3. \A f, n : EffectiveAfter(Snapshot', f, n) = EffectiveAfter(Snapshot, f, n)
  BY DEF EffectiveAfter, Snapshot
<1>4. Replayed(Snapshot') = Replayed(Snapshot)
  BY <1>3 DEF Replayed, Snapshot
<1>5. Chained'
  BY <1>3, <1>4 DEF Chained
<1> QED BY <1>2, <1>5

\* A load leads back to the ledger that was saved: its effective statuses
\* are those the saved relabel events end in.
LEMMA ReloadKeeps ==
  ASSUME LedgerInv, Reload PROVE LedgerInv' /\ effective' = effective
<1>1. effective' = effective /\ UNCHANGED <<labels, recon, relabels>>
  BY DEF Reload, LedgerInv, Chained
<1> QED BY <1>1, SameLedgerKeeps

LEMMA LedgerInitially == LedgerInit => LedgerInv
<1> SUFFICES ASSUME LedgerInit PROVE LedgerInv
  OBVIOUS
<1> USE DEF LedgerInit
<1>1. LedgerTypeOK
  BY DEF LedgerTypeOK, Fresh
<1>2. LabelledOnce /\ Standing
  BY DEF LabelledOnce, Standing, Fresh
<1>3. Replayed(Snapshot) = Fresh
  BY DEF Replayed, EffectiveAfter, Snapshot, Fresh
<1>4. Chained
  BY <1>3 DEF Chained
<1> QED BY <1>1, <1>2, <1>4 DEF LedgerInv

LEMMA LedgerStep == ASSUME LedgerInv, [LedgerNext]_ledgerVars PROVE LedgerInv'
<1>1. CASE UNCHANGED ledgerVars
  BY <1>1, SameLedgerKeeps DEF ledgerVars
<1>2. CASE \E l \in Label : Len(labels) < MaxLabels /\ AddLabel(l)
  BY <1>2, AddLabelKeeps
<1>3. CASE \E l, m \in Label : Len(labels) + 2 <= MaxLabels /\ ImportLabels(<<l, m>>)
  <2>1. PICK l, m \in Label : ImportLabels(<<l, m>>)
    BY <1>3
  <2>2. <<l, m>> \in Seq(Label)
    OBVIOUS
  <2> QED BY <2>1, <2>2, ImportLabelsKeeps
<1>4. CASE \E f \in Finding, p \in Person, e \in BOOLEAN : Reconcile(f, p, e)
  BY <1>4, ReconcileKeeps
<1>5. CASE \E f \in Finding, s \in Status : Len(relabels) < MaxRelabels /\ Relabel(f, s)
  BY <1>5, RelabelKeeps
<1>6. CASE \E f \in Finding, s \in MappingStatus : MapRequirement(f, s)
  BY <1>6, SameLedgerKeeps DEF MapRequirement
<1>7. CASE Reload
  BY <1>7, ReloadKeeps
<1> QED BY <1>1, <1>2, <1>3, <1>4, <1>5, <1>6, <1>7 DEF LedgerNext

\* A ledger is refused only for a label too many.
LEMMA OnlyLateLabels ==
  ASSUME LedgerInv,
         \A f \in Finding : recon[f] # NoRecord => ~(Cardinality(LabelsOf(labels, f)) > 2)
  PROVE  Loadable(Snapshot)
<1> USE DEF LedgerInv
<1>1. /\ Snapshot.labels = labels /\ Snapshot.recon = recon
      /\ Snapshot.relabels = relabels
  BY DEF Snapshot
<1>2. ASSUME NEW f \in Finding, recon[f] # NoRecord
      PROVE  /\ MayReconcile(labels, f, recon[f].adjudicator, recon[f].explained)
             /\ Reconciled(labels, f, recon[f].adjudicator, recon[f].explained) = recon[f]
  <2> DEFINE own == LabelsOf(labels, f)
  <2>1. PICK i, j \in DOMAIN labels : StandsOn(f, i, j)
    BY <1>2 DEF Standing
  <2>2. DOMAIN labels = 1 .. Len(labels) /\ Len(labels) \in Nat
    BY DEF LedgerTypeOK
  <2>3. IsFiniteSet(own) /\ {i, j} \subseteq own /\ Cardinality(own) \in Nat
    <3>1. IsFiniteSet(1 .. Len(labels))
      BY <2>2, FS_Interval
    <3>2. own \subseteq 1 .. Len(labels)
      BY <2>2 DEF LabelsOf
    <3>3. IsFiniteSet(own)
      BY <3>1, <3>2, FS_Subset
    <3> QED BY <2>1, <3>3, FS_CardinalityType DEF StandsOn, LabelsOf
  <2>4. i \in Nat /\ j \in Nat /\ i < j
    BY <2>1, <2>2 DEF StandsOn
  <2>5. Earliest({i, j}) = i /\ Latest({i, j}) = j /\ Cardinality({i, j}) = 2
    BY <2>4, PairEnds
  <2>6. own = {i, j}
    <3>1. ~(Cardinality(own) > 2)
      BY <1>2
    <3>2. Cardinality({i, j}) <= Cardinality(own)
             /\ (Cardinality({i, j}) = Cardinality(own) => {i, j} = own)
      BY <2>3, FS_Subset
    <3> HIDE DEF own
    <3> QED BY <2>3, <2>5, <3>1, <3>2
  <2>7. recon[f] \in Reconciliation
    BY <1>2 DEF LedgerTypeOK
  <2>8. Reconciled(labels, f, recon[f].adjudicator, recon[f].explained)
          = [raters |-> recon[f].raters, adjudicator |-> recon[f].adjudicator,
             verdict |-> recon[f].verdict, explained |-> recon[f].explained]
    BY <2>1, <2>5, <2>6 DEF Reconciled, StandsOn
  <2>9. Reconciled(labels, f, recon[f].adjudicator, recon[f].explained) = recon[f]
    BY <2>7, <2>8 DEF Reconciliation
  <2>10. MayReconcile(labels, f, recon[f].adjudicator, recon[f].explained)
    BY <2>1, <2>5, <2>6 DEF MayReconcile, StandsOn
  <2> QED BY <2>9, <2>10
<1>3. \A i, j \in DOMAIN labels : i # j => Key(labels[i]) # Key(labels[j])
  BY DEF LabelledOnce
<1>4. \A i \in DOMAIN relabels :
        /\ recon[relabels[i].finding] # NoRecord
        /\ relabels[i].previous = EffectiveAfter(Snapshot, relabels[i].finding, i - 1)
  BY DEF Chained
<1> QED BY <1>1, <1>2, <1>3, <1>4 DEF Loadable

(* What holds of the ledger at every moment: a rater labels a finding      *)
(* once, a reconciliation stands on the first two labels of its finding,   *)
(* and the relabel events lead from there to the effective status.         *)
THEOREM LedgerInvariant == LedgerSpec => []LedgerInv
  BY LedgerInitially, LedgerStep, PTL DEF LedgerSpec

(* A reconciliation keeps saying what its two raters said, for any number  *)
(* of findings, people and labels (ledger.py:384-436).                     *)
THEOREM ReconciliationStands == LedgerSpec => []ConsensusStands
<1>1. LedgerInv => ConsensusStands
  <2> SUFFICES ASSUME LedgerInv, NEW f \in Finding, recon[f] # NoRecord
               PROVE  LET r == recon[f] IN
                      /\ r.raters[1] # r.raters[2]
                      /\ r.adjudicator \notin {r.raters[1], r.raters[2]}
                      /\ \E l, m \in {labels[i] : i \in DOMAIN labels} :
                           /\ Key(l) = <<f, r.raters[1]>> /\ Key(m) = <<f, r.raters[2]>>
                           /\ r.verdict = Consensus(l, m)
    BY DEF ConsensusStands
  <2>1. PICK i, j \in DOMAIN labels : StandsOn(f, i, j)
    BY DEF LedgerInv, Standing
  <2>2. i # j
    BY <2>1 DEF StandsOn, LedgerInv, LedgerTypeOK
  <2>3. Key(labels[i]) = <<f, labels[i].rater>> /\ Key(labels[j]) = <<f, labels[j].rater>>
    BY <2>1 DEF StandsOn, Key
  <2>4. labels[i].rater # labels[j].rater
    BY <2>2, <2>3 DEF LedgerInv, LabelledOnce
  <2> QED BY <2>1, <2>3, <2>4 DEF StandsOn
<1> QED BY <1>1, LedgerInvariant, PTL

(* A saved ledger comes back as it was, effective statuses included, and   *)
(* no order of the operations makes one that is refused but a label added  *)
(* to a finding that was already reconciled (ledger.py:297-372, 384-390,   *)
(* 438-454).                                                               *)
THEOREM LedgerRoundTrip == LedgerSpec => []RoundTrip
<1>1. LedgerInv => RoundTrip
  BY OnlyLateLabels DEF RoundTrip, LedgerInv, Chained
<1> QED BY <1>1, LedgerInvariant, PTL
============================================================================
