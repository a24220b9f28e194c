--------------------------- MODULE SymbolicPaired ---------------------------
(***************************************************************************)
(* SymbolicPairedExplorer (src/crossllm/backends/symbolic_paired.py): the  *)
(* transition relation of the fixture encoded a second time, over arrays   *)
(* of fixed width filled up with -1 (here None) and their counts.  The     *)
(* solver picks an action kind and a candidate message for every step; the *)
(* constraints then determine the arrays after the step - all but the      *)
(* count of the deliveries, which a rollback does not constrain.  A pick   *)
(* of NOOP ends the schedule and changes nothing.  The loop that asks the  *)
(* solver for one schedule after the other is not modelled here.  A        *)
(* fixture with a history pins the arrays to that history: that is a state *)
(* this module reaches from the empty one with every count as it should be. *)
(***************************************************************************)
EXTENDS PairedExplorer

VARIABLE sym  \* the solver's variables of the current step, and its picks so far

symbolicVars == <<profile, sym>>

Filled(width) == [k \in 0 .. width - 1 |-> None]

SymbolicInitial ==
  [pending |-> Filled(MaxPending), pendingCount |-> 0,
   committed |-> Filled(MaxTransactions), committedCount |-> 0,
   delivered |-> Filled(MaxTransactions), deliveredCount |-> 0,
   sourceClock |-> 0, destinationClock |-> 0, tx |-> 0, channel |-> 0,
   picks |-> << >>]

----------------------------------------------------------------------------
(* The relations between an array before and after a step                  *)

AppendRelation(a, count, m) ==
  [k \in DOMAIN a |-> IF k < count THEN a[k] ELSE IF k = count THEN m ELSE None]

RemoveSlot(a, count, slot) ==
  [k \in DOMAIN a |-> IF k < slot THEN a[k] ELSE
                      IF k < count - 1 THEN a[k + 1] ELSE None]

FirstMatch(a, count, m) ==
  CHOOSE k \in 0 .. count - 1 : a[k] = m /\ \A j \in 0 .. k - 1 : a[j] # m

(* Mutant: a rollback takes the first match, as a delivery does.           *)
LastMatchFirst(a, count, m) == FirstMatch(a, count, m)

LastMatch(a, count, m) ==
  CHOOSE k \in 0 .. count - 1 : a[k] = m /\ \A j \in k + 1 .. count - 1 : a[j] # m

Queued(a, count, m) == \E k \in 0 .. count - 1 : a[k] = m

----------------------------------------------------------------------------
(* The actions                                                             *)

MayPickEnqueue(p, s, m) ==
  /\ s.pendingCount < MaxPending
  /\ s.tx < MaxTransactions
  /\ s.channel < MaxChannel
  /\ m \in Authorized
  /\ ~p.duplicates => \A k \in DOMAIN s.committed : s.committed[k] # m

PickEnqueue(s, m) ==
  [s EXCEPT !.pending = AppendRelation(@, s.pendingCount, m),
            !.pendingCount = @ + 1,
            !.committed = AppendRelation(@, s.committedCount, m),
            !.committedCount = @ + 1,
            !.sourceClock = @ + 1, !.tx = @ + 1, !.channel = @ + 1,
            !.picks = Append(@, <<"enqueue", m>>)]

MayPickDeliver(p, s, m) ==
  /\ s.tx < MaxTransactions
  /\ s.channel < MaxChannel
  /\ s.deliveredCount < MaxTransactions
  /\ Queued(s.pending, s.pendingCount, m)
  /\ ~p.reorder => s.pending[0] = m

PickDeliver(s, m) ==
  [s EXCEPT !.pending = RemoveSlot(@, s.pendingCount,
                                   FirstMatch(s.pending, s.pendingCount, m)),
            !.pendingCount = @ - 1,
            !.delivered = AppendRelation(@, s.deliveredCount, m),
            !.deliveredCount = @ + 1,
            !.destinationClock = @ + 1, !.tx = @ + 1, !.channel = @ + 1,
            !.picks = Append(@, <<"deliver", m>>)]

(* Mutant: a rollback needs a channel transition.                          *)
MayPickReorgOnChannel(p, s, m) ==
  /\ p.reorg
  /\ s.committedCount > 0
  /\ s.tx < MaxTransactions
  /\ s.channel < MaxChannel
  /\ s.committed[s.committedCount - 1] = m
  /\ Queued(s.pending, s.pendingCount, m)

MayPickReorg(p, s, m) ==
  /\ p.reorg
  /\ s.committedCount > 0
  /\ s.tx < MaxTransactions
  /\ s.committed[s.committedCount - 1] = m
  /\ Queued(s.pending, s.pendingCount, m)

\* No constraint of a rollback names the count of the deliveries.
PickReorg(s, m, d) ==
  [s EXCEPT !.pending = RemoveSlot(@, s.pendingCount,
                                   LastMatch(s.pending, s.pendingCount, m)),
            !.pendingCount = @ - 1,
            !.committed = RemoveSlot(@, s.committedCount, s.committedCount - 1),
            !.committedCount = @ - 1,
            !.deliveredCount = d,
            !.sourceClock = @ - 1, !.tx = @ + 1,
            !.picks = Append(@, <<"reorg", m>>)]

SymbolicInit == profile \in Profiles /\ sym = SymbolicInitial

SymbolicNext ==
  /\ UNCHANGED profile
  /\ \E m \in Candidate :
       \/ MayPickEnqueue(profile, sym, m) /\ sym' = PickEnqueue(sym, m)
       \/ MayPickDeliver(profile, sym, m) /\ sym' = PickDeliver(sym, m)
       \/ /\ MayPickReorg(profile, sym, m)
          /\ \E d \in 0 .. MaxTransactions : sym' = PickReorg(sym, m, d)

SymbolicSpec == SymbolicInit /\ [][SymbolicNext]_symbolicVars

----------------------------------------------------------------------------
(* The fixture state the picks lead to: the committed and the queued       *)
(* messages are those of the arrays, the deliveries those of the picks.    *)
(* Only the kinds and the selections are read from a model (_decode), and  *)
(* the fixture replays them.                                               *)

Values(a, count) == [i \in 1 .. count |-> a[i - 1]]

Deliveries(picks) ==
  LET upTo[n \in 0 .. Len(picks)] ==
        IF n = 0 THEN << >>
        ELSE IF picks[n][1] = "deliver" THEN Append(upTo[n - 1], picks[n][2])
        ELSE upTo[n - 1]
  IN  upTo[Len(picks)]

\* The payload delivered last under a nonce.
LastReceived(q, n) ==
  LET i == SelectLastInSeq(q, LAMBDA m : m.nonce = n)
  IN  IF i = 0 THEN None ELSE q[i].payload

\* How many of the first n picks are channel transitions.
OnChannel(picks, n) == Cardinality({i \in 1 .. n : picks[i][1] # "reorg"})

Decoded(s) ==
  LET delivered == Deliveries(s.picks)
  IN  [committed |-> Values(s.committed, s.committedCount),
       pending |-> Values(s.pending, s.pendingCount),
       delivered |-> delivered,
       received |-> [n \in {m.nonce : m \in Message} |-> LastReceived(delivered, n)],
       sourceClock |-> s.sourceClock, destinationClock |-> s.destinationClock,
       channel |-> s.channel,
       log |-> [i \in 1 .. Len(s.picks) |->
                  Entry(s.picks[i][1], s.picks[i][2], OnChannel(s.picks, i))]]

Native == INSTANCE PairedFixture WITH state <- Decoded(sym)

\* What the constraints allow after one more step.
Encoded(p, s) ==
  {PickEnqueue(s, m) : m \in {c \in Candidate : MayPickEnqueue(p, s, c)}}
    \cup {PickDeliver(s, m) : m \in {c \in Candidate : MayPickDeliver(p, s, c)}}
    \cup {PickReorg(s, x[1], x[2]) :
            x \in {c \in Candidate : MayPickReorg(p, s, c)} \X (0 .. MaxTransactions)}

\* The count of the deliveries is the right one.
Counted(s) == s.deliveredCount = Len(Deliveries(s.picks))

----------------------------------------------------------------------------

(* Every schedule the encoding allows is a schedule of the native fixture, *)
(* with the same queue, source history, clocks and evidence: its native    *)
(* replay never reports symbolic_native_transition_mismatch, also where a  *)
(* rollback left the count of the deliveries open (symbolic_paired.py:     *)
(* 256-266, 491-498).                                                      *)
SymbolicImplementsFixture == Native!PairedSpec

(* The schedules of the encoding are those of the concrete explorer, so    *)
(* that an unsatisfiable encoding means as much as an exhausted search:    *)
(* each step leads where one of the explorer's does, and each of those can *)
(* be picked with the right count of the deliveries, which leaves every    *)
(* later step possible, although a wrong one may rule deliveries out.  The *)
(* second, with reordering, for candidates that are enqueued once          *)
(* (paired_explorer.py:173-200).                                           *)
EveryMoveIsEncoded ==
  /\ \A t \in Encoded(profile, sym) : Decoded(t) \in Successors(profile, Decoded(sym))
  /\ (profile.duplicates => ~profile.reorder) /\ Counted(sym) =>
       \A n \in Successors(profile, Decoded(sym)) :
         \E t \in Encoded(profile, sym) : Counted(t) /\ Decoded(t) = n

============================================================================
