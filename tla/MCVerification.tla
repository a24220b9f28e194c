-------------------------- MODULE MCVerification --------------------------
(* Two places for commands, up to three commands, with the repository's    *)
(* tool or with others.  The archives hold the same false predicate twice; *)
(* or once, and one that holds and whose fields only the repository's tool *)
(* supplies; or campaigns that the provider, the case, the manifest, the   *)
(* compiler or the loader makes unusable.                                  *)
EXTENDS Verification, TLC

CONSTANTS p1, p2, f1, f2, f3, w1, w2, own, other

MCProcess == {p1, p2}
Commands == Permutations({p1, p2})
MCForm == {f1, f2, f3}
MCWitness == {w1, w2}
MCTrace == [f \in MCForm |-> w1]

Proposed(f, holds) ==
  [slot |-> "candidate", compiled |-> "ok", bound |-> TRUE, lowers |-> TRUE,
   actions |-> "executable", form |-> f, missing |-> {},
   request |-> [profile |-> TRUE, identity |-> TRUE, kind |-> "state",
                bound |-> TRUE, lowers |-> TRUE, workflow |-> TRUE,
                solc |-> "accepts", holds |-> holds]]

False == Proposed(f1, FALSE)
True == [Proposed(f2, TRUE) EXCEPT !.missing = {"actor_addresses"}]
Uncompiled == [Proposed(f3, TRUE) EXCEPT !.request.solc = "rejects_predicate"]
Literal == [Proposed(f3, FALSE) EXCEPT !.request.kind = "literal"]

Archive(n, slots) ==
  [id |-> n, pair |-> n, arm |-> "crossllm", whole |-> TRUE, listed |-> TRUE,
   loads |-> TRUE, failures |-> FALSE, slots |-> slots]

OneForm == <<Archive(1, <<False, False>>)>>
TwoForms == <<Archive(1, <<False, True>>)>>

MCDatasets ==
  {OneForm, TwoForms, <<Archive(1, <<True>>)>>,
   <<[Archive(1, <<False>>) EXCEPT !.loads = FALSE],
     [Archive(2, <<Literal>>) EXCEPT !.failures = TRUE]>>,
   <<Archive(1, <<Uncompiled>>), [Archive(2, <<True>>) EXCEPT !.listed = FALSE]>>,
   <<Archive(1, <<True>>), [Archive(2, <<False>>) EXCEPT !.pair = 1]>>}

\* Two candidates have by far the most outcomes between them.
MCMaxStarts ==
  [d \in MCDatasets |-> IF d = OneForm THEN 1 ELSE IF d = TwoForms THEN 2 ELSE 3]

MCCandidate == {False, True, Uncompiled, Literal}

MCConfig ==
  {[tools |-> TRUE, own |-> FALSE, spec |-> other, deferred |-> {}],
   [tools |-> TRUE, own |-> TRUE, spec |-> own, deferred |-> {"actor_addresses"}]}

Sat(w) == [ran |-> "answered", status |-> "sat", complete |-> TRUE,
           violation |-> TRUE, witness |-> w]

MCSearchAnswer ==
  {Sat(w1), Sat(w2), [Sat(None) EXCEPT !.ran = "timeout"]}

Pass(w) == [ran |-> "answered", status |-> "pass", trace |-> w,
            violation |-> TRUE, holds |-> FALSE]

MCCheckAnswer == {Pass(w1), Pass(w2)}

Replayed(w) == [ran |-> "answered", status |-> "pass", trace |-> w,
                holds |-> FALSE, relevant |-> TRUE]

MCReplayAnswer == {Replayed(w1), [Replayed(w1) EXCEPT !.relevant = FALSE]}
============================================================================
