---------------------------- MODULE PairedState ----------------------------
(***************************************************************************)
(* DualChainState and the moves of PairedFixture                           *)
(* (src/crossllm/semantics/paired.py) as pure operators, and the replay of *)
(* an action log through them (src/crossllm/replay/witness.py).            *)
(*                                                                         *)
(* A message is its nonce, its payload and its attestor.  The attestor is  *)
(* not part of the identity; domains, emitter, recipient and intent are,   *)
(* and stand with the payload.  The canonical histories are the identities *)
(* of the committed and of the delivered messages and are left out, and so *)
(* is the ghost data of observe.  transaction_count is the length of the   *)
(* action log: both grow together in _record_action.                       *)
(***************************************************************************)
EXTENDS Integers, Sequences, SequencesExt

CONSTANTS
  Message,          \* records [nonce, payload, attestor]
  Authorized,       \* the messages _validate_message accepts
  None,             \* nothing received, a refused move
  MaxTransactions,  \* TransitionBounds.max_transactions
  MaxChannel,       \* TransitionBounds.max_channel_transitions
  MaxPending,       \* TransitionBounds.max_pending
  Profiles          \* the profiles a fixture is made with

ASSUME BoundsPositive ==
  /\ MaxTransactions \in Nat \ {0}
  /\ MaxChannel \in Nat \ {0}
  /\ MaxPending \in Nat \ {0}

ASSUME AuthorizedType == Authorized \subseteq Message

\* TransitionProfile; a rollback needs a positive finality depth.
Profile ==
  {p \in [reorder : BOOLEAN, duplicates : BOOLEAN, reorg : BOOLEAN, depth : Nat] :
     p.reorg => p.depth >= 1}

ASSUME ProfilesType == Profiles \subseteq Profile

VARIABLE profile  \* TransitionProfile, fixed for the life of the fixture

Identity(m) == <<m.nonce, m.payload>>

LogEntry ==
  [action : {"enqueue", "deliver", "reorg"}, message : Message, channel : Nat]

DualChainState ==
  [committed : Seq(Message), pending : Seq(Message), delivered : Seq(Message),
   received : [{m.nonce : m \in Message} -> {m.payload : m \in Message} \cup {None}],
   sourceClock : Int, destinationClock : Nat, channel : Nat, log : Seq(LogEntry)]

ASSUME NoneIsApart == None \notin DualChainState /\ None \notin Message

Initial ==
  [committed |-> << >>, pending |-> << >>, delivered |-> << >>,
   received |-> [n \in {m.nonce : m \in Message} |-> None],
   sourceClock |-> 0, destinationClock |-> 0, channel |-> 0, log |-> << >>]

----------------------------------------------------------------------------
(* The moves                                                               *)

HasTransaction(s) == Len(s.log) < MaxTransactions

HasChannel(s) == HasTransaction(s) /\ s.channel < MaxChannel

Entry(action, m, channel) == [action |-> action, message |-> m, channel |-> channel]

(* Mutant: a message is compared with its attestor.                        *)
CanEnqueueTwice(p, s, m) ==
  /\ m \in Authorized
  /\ HasChannel(s)
  /\ Len(s.pending) < MaxPending
  /\ p.duplicates \/ \A i \in DOMAIN s.committed : s.committed[i] # m

CanEnqueue(p, s, m) ==
  /\ m \in Authorized
  /\ HasChannel(s)
  /\ Len(s.pending) < MaxPending
  /\ p.duplicates
       \/ \A i \in DOMAIN s.committed : Identity(s.committed[i]) # Identity(m)

Enqueued(s, m) ==
  [s EXCEPT !.pending = Append(@, m), !.committed = Append(@, m),
            !.sourceClock = @ + 1, !.channel = @ + 1,
            !.log = Append(@, Entry("enqueue", m, s.channel + 1))]

(* Mutant: any queued message can be delivered.                            *)
CanDeliverAny(p, s, i) == i \in DOMAIN s.pending /\ HasChannel(s)

CanDeliver(p, s, i) ==
  /\ i \in DOMAIN s.pending
  /\ p.reorder \/ i = 1
  /\ HasChannel(s)

Delivered(s, i) ==
  LET m == s.pending[i]
  IN  [s EXCEPT !.pending = RemoveAt(@, i), !.delivered = Append(@, m),
                !.received[m.nonce] = m.payload,
                !.destinationClock = @ + 1, !.channel = @ + 1,
                !.log = Append(@, Entry("deliver", m, s.channel + 1))]

\* The last queued message with the identity of m; 0 if there is none.
LastPending(s, m) ==
  SelectLastInSeq(s.pending, LAMBDA q : Identity(q) = Identity(m))

FirstPending(s, m) ==
  SelectInSeq(s.pending, LAMBDA q : Identity(q) = Identity(m))

(* Mutant: a message with exactly depth confirmations is not yet final.    *)
CanReorgFinal(p, s, i) ==
  /\ p.reorg
  /\ i \in DOMAIN s.committed
  /\ Len(s.committed) - i <= p.depth
  /\ HasTransaction(s)
  /\ LastPending(s, s.committed[i]) # 0

(* Mutant: a delivered message can be rolled back.                         *)
CanReorgDelivered(p, s, i) ==
  /\ p.reorg
  /\ i \in DOMAIN s.committed
  /\ Len(s.committed) - i < p.depth
  /\ HasTransaction(s)

(* reorg: the number of messages committed after i is its number of        *)
(* confirmations; a final or a delivered message stays.                    *)
CanReorg(p, s, i) ==
  /\ p.reorg
  /\ i \in DOMAIN s.committed
  /\ Len(s.committed) - i < p.depth
  /\ HasTransaction(s)
  /\ LastPending(s, s.committed[i]) # 0

Reorged(s, i) ==
  LET m == s.committed[i]
  IN  [s EXCEPT !.pending = RemoveAt(@, LastPending(s, m)),
                !.committed = RemoveAt(@, i),
                !.sourceClock = @ - 1,
                !.log = Append(@, Entry("reorg", m, s.channel))]

----------------------------------------------------------------------------
(* Replay                                                                  *)

(* One recorded action on state s: a delivery takes the first queued       *)
(* message with the identity, a rollback the latest committed message.     *)
Applied(p, s, action, m) ==
  CASE action = "enqueue" /\ CanEnqueue(p, s, m) -> Enqueued(s, m)
    [] action = "deliver" /\ CanDeliver(p, s, FirstPending(s, m)) ->
         Delivered(s, FirstPending(s, m))
    [] action = "reorg" /\ CanReorg(p, s, Len(s.committed)) ->
         Reorged(s, Len(s.committed))
    [] OTHER -> None

(* replay_action_records: the log a replay writes must match the recorded  *)
(* one in action, identity and both indices; e is its entry number n.      *)
ReplayStep(p, s, e, n) ==
  LET t == Applied(p, s, e.action, e.message)
      r == t.log[Len(t.log)]
  IN  IF t = None THEN None
      ELSE IF /\ Identity(r.message) = Identity(e.message)
              /\ Len(t.log) = n
              /\ r.channel = e.channel
           THEN t ELSE None

\* The state after the log is replayed on state s; None when it is refused.
Replayed(p, s, log) ==
  LET after[n \in 0 .. Len(log)] ==
        IF n = 0 THEN s
        ELSE LET t == after[n - 1]
             IN  IF t = None THEN None ELSE ReplayStep(p, t, log[n], n)
  IN  after[Len(log)]
============================================================================
