-------------------------- MODULE MCPairedFixture --------------------------
(* Two identities, one of them with two attestors, and every profile with  *)
(* a finality depth of up to two.                                          *)
EXTENDS PairedFixture

MCMessage ==
  {[nonce |-> 1, payload |-> "p", attestor |-> "x"],
   [nonce |-> 1, payload |-> "p", attestor |-> "y"],
   [nonce |-> 1, payload |-> "q", attestor |-> "x"]}

MCProfiles ==
  {p \in [reorder : BOOLEAN, duplicates : BOOLEAN, reorg : BOOLEAN, depth : 0 .. 2] :
     p.reorg <=> p.depth >= 1}
============================================================================
