--------------------------- MODULE PairedFixture ---------------------------
(***************************************************************************)
(* PairedFixture (src/crossllm/semantics/paired.py): two chains and the    *)
(* channel between them.  A caller enqueues messages on the source,        *)
(* delivers queued messages to the destination and rolls back messages     *)
(* that are not final, within fixed bounds and under a fixed profile.      *)
(* Snapshot, restore and reset copy whole states and lead back to states   *)
(* the fixture was in: they are left out.                                  *)
(***************************************************************************)
EXTENDS PairedState, FiniteSets

VARIABLE state  \* DualChainState

pairedVars == <<profile, state>>

PairedInit == profile \in Profiles /\ state = Initial

Enqueue(m) ==
  /\ CanEnqueue(profile, state, m)
  /\ state' = Enqueued(state, m)
  /\ UNCHANGED profile

Deliver(i) ==
  /\ CanDeliver(profile, state, i)
  /\ state' = Delivered(state, i)
  /\ UNCHANGED profile

Reorg(i) ==
  /\ CanReorg(profile, state, i)
  /\ state' = Reorged(state, i)
  /\ UNCHANGED profile

PairedNext ==
  \/ \E m \in Message : Enqueue(m)
  \/ \E i \in DOMAIN state.pending : Deliver(i)
  \/ \E i \in DOMAIN state.committed : Reorg(i)

PairedSpec == PairedInit /\ [][PairedNext]_pairedVars

----------------------------------------------------------------------------

\* The shape of DualChainState (paired.py:118-148).
PairedTypeOK ==
  /\ profile \in Profile
  /\ {"committed", "pending", "delivered", "log"} \subseteq DOMAIN state
  /\ \A q \in {state.committed, state.pending, state.delivered} : q \in Seq(Message)
  /\ state.sourceClock \in 0 .. MaxTransactions
  /\ state.destinationClock \in 0 .. MaxTransactions
  /\ state.channel \in 0 .. MaxChannel
  /\ Len(state.pending) <= MaxPending

Copies(q, id) == Cardinality({i \in DOMAIN q : Identity(q[i]) = id})

(* The channel neither loses, forges nor doubles a message: every          *)
(* committed copy is queued or was delivered, also when copies of one      *)
(* identity are rolled back while others are already delivered, so that a  *)
(* delivered message is never rolled back (paired.py:186-261).             *)
ChannelConserves ==
  \A id \in {Identity(m) : m \in Message} :
    Copies(state.committed, id)
      = Copies(state.pending, id) + Copies(state.delivered, id)

(* Without duplicates no identity reaches the destination twice, whatever  *)
(* is rolled back, enqueued again or attested by someone else in between   *)
(* (paired.py:191-195, 245-247).                                           *)
DeliveredOnce ==
  ~profile.duplicates =>
    \A i, j \in DOMAIN state.delivered :
      i # j => Identity(state.delivered[i]) # Identity(state.delivered[j])

(* Nothing is lost and nothing is doubled on the way, under every profile, *)
(* however rollbacks, duplicates and deliveries are interleaved.           *)
ChannelKeepsMessages == ChannelConserves /\ DeliveredOnce

(* A channel without reordering and duplicates delivers in the canonical   *)
(* order of the source, through every rollback (paired.py:208, 249-258).   *)
InOrderChannel ==
  (~profile.reorder /\ ~profile.duplicates)
    => state.committed = state.delivered \o state.pending

(* The clocks and counters agree with the histories: rollbacks set the     *)
(* source clock back, take a transaction and no channel transition         *)
(* (paired.py:259-260, 283-285).                                           *)
CountersAgree ==
  /\ state.sourceClock = Len(state.committed)
  /\ state.destinationClock = Len(state.delivered)
  /\ 2 * state.channel = Len(state.log) + Len(state.committed) + Len(state.delivered)

(* An action log is evidence: replaying it from the start is accepted and  *)
(* leads to the very state it was recorded in.  Where only the latest      *)
(* message can be rolled back, this is so for every log; with duplicates,  *)
(* for a channel without reordering (witness.py:122-145).                  *)
ReplayReproduces ==
  (/\ profile.reorg => profile.depth = 1
   /\ profile.duplicates => ~profile.reorder)
    => Replayed(profile, Initial, state.log) = state
============================================================================
