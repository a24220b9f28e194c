------------------------- MODULE AdjudicationLedger -------------------------
(***************************************************************************)
(* AdjudicationLedger (src/crossllm/adjudication/ledger.py): raters label  *)
(* blinded findings, an adjudicator reconciles two labels, reconciled      *)
(* findings can be relabelled and mapped to requirements.  The ledger is   *)
(* saved as one JSON file and loaded by replaying every record through     *)
(* the operation that wrote it.  What was not saved is lost, so that a     *)
(* load leads back to the ledger of the moment of the save: a save and the *)
(* load that follows it are one action.                                    *)
(*                                                                         *)
(* Roles, confidences, times and texts are left out: a label carries its   *)
(* verdict, and an uncertainty reason is given or not.  Every label        *)
(* carries a creation time, as import requires (ledger.py:542).            *)
(***************************************************************************)
EXTENDS Integers, Sequences, FiniteSets

CONSTANTS
  Finding,      \* finding identifiers
  Person,       \* raters, adjudicators and actors
  Verdict,      \* the status and first failure a label can have
  NoRecord,     \* an absent record
  MaxLabels,    \* bound on labels
  MaxRelabels,  \* bound on relabel events
  MaxMapped     \* bound on mapped findings

Status == {"confirmed", "rejected", "unresolved"}

MappingStatus == {"mapped", "unmapped", "uncertain"}

\* A confirmed verdict is a true vulnerability, and no other verdict is.
ASSUME VerdictType ==
  \A v \in Verdict :
    /\ DOMAIN v = {"status", "failure"}
    /\ v.status \in Status
    /\ v.status = "confirmed" <=> v.failure = "true_vulnerability"

ASSUME LedgerBounds ==
  MaxLabels \in Nat /\ MaxRelabels \in Nat /\ MaxMapped \in Nat

VARIABLES
  labels,     \* _labels, in insertion order
  recon,      \* _reconciliations: finding -> record or NoRecord
  effective,  \* _effective_status: finding -> status or NoRecord
  relabels,   \* _relabels
  mapping     \* _mappings: finding -> status or NoRecord

ledgerVars == <<labels, recon, effective, relabels, mapping>>

Unresolved == [status |-> "unresolved", failure |-> "timeout_or_unsupported"]

Label == [finding : Finding, rater : Person, verdict : Verdict]

Reconciliation ==
  [raters : Person \X Person, adjudicator : Person,
   verdict : Verdict \cup {Unresolved}, explained : BOOLEAN]

ASSUME NoRecordIsApart == NoRecord \notin Reconciliation

RelabelEvent == [finding : Finding, previous : Status, new : Status]

----------------------------------------------------------------------------
\* The places of the labels of a finding.
LabelsOf(ls, f) == {i \in DOMAIN ls : ls[i].finding = f}

Earliest(I) == CHOOSE i \in I : \A j \in I : i <= j
Latest(I) == CHOOSE i \in I : \A j \in I : j <= i

Key(l) == <<l.finding, l.rater>>

Keys(ls) == {Key(ls[i]) : i \in DOMAIN ls}

(* Two labels agree on their verdict, or the finding is unresolved.        *)
Consensus(l, m) ==
  IF l.verdict = m.verdict THEN l.verdict ELSE Unresolved

(* Mutant: a rater of the finding may adjudicate it.                       *)
MayReconcileOwn(ls, f, adjudicator, explained) ==
  LET own == LabelsOf(ls, f)
  IN  /\ Cardinality(own) = 2
      /\ Consensus(ls[Earliest(own)], ls[Latest(own)]).status = "unresolved" => explained

(* What reconcile requires and returns, for a ledger with labels ls; an    *)
(* unresolved consensus needs an uncertainty reason.                       *)
MayReconcile(ls, f, adjudicator, explained) ==
  LET own == LabelsOf(ls, f)
  IN  /\ Cardinality(own) = 2
      /\ \A i \in own : ls[i].rater # adjudicator
      /\ Consensus(ls[Earliest(own)], ls[Latest(own)]).status = "unresolved" => explained

Reconciled(ls, f, adjudicator, explained) ==
  LET own == LabelsOf(ls, f)
      first == ls[Earliest(own)]
      second == ls[Latest(own)]
  IN  [raters |-> <<first.rater, second.rater>>, adjudicator |-> adjudicator,
       verdict |-> Consensus(first, second), explained |-> explained]

----------------------------------------------------------------------------
Fresh == [f \in Finding |-> NoRecord]

LedgerInit ==
  /\ labels = << >> /\ relabels = << >>
  /\ recon = Fresh /\ effective = Fresh /\ mapping = Fresh

\* add_label: a rater labels a finding once.
AddLabel(l) ==
  /\ Key(l) \notin Keys(labels)
  /\ labels' = Append(labels, l)
  /\ UNCHANGED <<recon, effective, relabels, mapping>>

(* import_labels: the rows are added one by one; the first one a rater     *)
(* already labelled raises, and the rows before it stay.                   *)
ImportLabels(rows) ==
  /\ \E n \in 0 .. Len(rows) :
       LET Accepted(k) == Key(rows[k]) \notin Keys(labels \o SubSeq(rows, 1, k - 1))
       IN  /\ \A k \in 1 .. n : Accepted(k)
           /\ n < Len(rows) => ~Accepted(n + 1)
           /\ labels' = labels \o SubSeq(rows, 1, n)
  /\ UNCHANGED <<recon, effective, relabels, mapping>>

Reconcile(f, adjudicator, explained) ==
  /\ recon[f] = NoRecord
  /\ MayReconcile(labels, f, adjudicator, explained)
  /\ LET r == Reconciled(labels, f, adjudicator, explained)
     IN  /\ recon' = [recon EXCEPT ![f] = r]
         /\ effective' = [effective EXCEPT ![f] = r.verdict.status]
  /\ UNCHANGED <<labels, relabels, mapping>>

(* Mutant: the effective status is not moved on.                           *)
RelabelKeepsStatus(f, new) ==
  /\ recon[f] # NoRecord
  /\ relabels' = Append(relabels,
       [finding |-> f, previous |-> effective[f], new |-> new])
  /\ UNCHANGED <<labels, recon, effective, mapping>>

Relabel(f, new) ==
  /\ recon[f] # NoRecord
  /\ relabels' = Append(relabels,
       [finding |-> f, previous |-> effective[f], new |-> new])
  /\ effective' = [effective EXCEPT ![f] = new]
  /\ UNCHANGED <<labels, recon, mapping>>

MapRequirement(f, s) ==
  /\ mapping[f] = NoRecord
  /\ mapping' = [mapping EXCEPT ![f] = s]
  /\ UNCHANGED <<labels, recon, effective, relabels>>

----------------------------------------------------------------------------
(* Saving and loading                                                      *)

\* as_dict: the effective status is not written, it follows from the rest.
Snapshot ==
  [labels |-> labels, recon |-> recon, relabels |-> relabels, mapping |-> mapping]

\* The effective status of f when the first n relabel events are replayed.
EffectiveAfter(s, f, n) ==
  LET I == {i \in 1 .. n : s.relabels[i].finding = f}
  IN  IF s.recon[f] = NoRecord THEN NoRecord
      ELSE IF I = {} THEN s.recon[f].verdict.status
      ELSE s.relabels[Latest(I)].new

(* from_dict accepts a saved ledger: every label is new, every             *)
(* reconciliation is accepted and comes out as it was written, and so does *)
(* every relabel event.                                                    *)
Loadable(s) ==
  /\ \A i, j \in DOMAIN s.labels : i # j => Key(s.labels[i]) # Key(s.labels[j])
  /\ \A f \in Finding : s.recon[f] # NoRecord =>
       LET r == s.recon[f]
       IN  /\ MayReconcile(s.labels, f, r.adjudicator, r.explained)
           /\ Reconciled(s.labels, f, r.adjudicator, r.explained) = r
  /\ \A i \in DOMAIN s.relabels :
       /\ s.recon[s.relabels[i].finding] # NoRecord
       /\ s.relabels[i].previous = EffectiveAfter(s, s.relabels[i].finding, i - 1)

Replayed(s) == [f \in Finding |-> EffectiveAfter(s, f, Len(s.relabels))]

(* write_json, and load_json in a new process.  A file that is refused     *)
(* changes nothing.                                                        *)
Reload ==
  /\ Loadable(Snapshot)
  /\ effective' = Replayed(Snapshot)
  /\ UNCHANGED <<labels, recon, relabels, mapping>>

LedgerNext ==
  \/ \E l \in Label : Len(labels) < MaxLabels /\ AddLabel(l)
  \/ \E l, m \in Label : Len(labels) + 2 <= MaxLabels /\ ImportLabels(<<l, m>>)
  \/ \E f \in Finding, p \in Person, e \in BOOLEAN : Reconcile(f, p, e)
  \/ \E f \in Finding, s \in Status :
       Len(relabels) < MaxRelabels /\ Relabel(f, s)
  \/ \E f \in Finding, s \in MappingStatus :
       /\ Cardinality({g \in Finding : mapping[g] # NoRecord}) < MaxMapped
       /\ MapRequirement(f, s)
  \/ Reload

LedgerSpec == LedgerInit /\ [][LedgerNext]_ledgerVars

----------------------------------------------------------------------------

(* A reconciliation keeps saying what its two raters said: both labels are *)
(* still there, from two people of whom neither is the adjudicator, and    *)
(* the verdict is their consensus, whatever is added, imported or loaded   *)
(* afterwards (ledger.py:384-436).                                         *)
ConsensusStands ==
  \A f \in Finding : recon[f] # NoRecord =>
    LET r == recon[f]
    IN  /\ r.raters[1] # r.raters[2]
        /\ r.adjudicator \notin {r.raters[1], r.raters[2]}
        /\ \E l, m \in {labels[i] : i \in DOMAIN labels} :
             /\ Key(l) = <<f, r.raters[1]>> /\ Key(m) = <<f, r.raters[2]>>
             /\ r.verdict = Consensus(l, m)

(* Saving a ledger and loading it gives the ledger back, also the          *)
(* effective statuses, which are not saved but follow from the relabel     *)
(* history in the order it was written.  Of all orders of the operations,  *)
(* only a label added to a finding that was already reconciled makes a     *)
(* ledger impossible to load; an empty text in a record does so as well,   *)
(* and is left out (ledger.py:297-372, 384-390, 404, 438-454, 511-522).    *)
RoundTrip ==
  IF Loadable(Snapshot)
  THEN Replayed(Snapshot) = effective
  ELSE \E f \in Finding : recon[f] # NoRecord /\ Cardinality(LabelsOf(labels, f)) > 2
============================================================================
