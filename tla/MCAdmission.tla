---------------------------- MODULE MCAdmission ----------------------------
(* Instances of Admission: r is the root, a and b hold the capability k.   *)
EXTENDS Admission

Hop(x, y, delegable, expires) ==
  [grantor |-> x, grantee |-> y, cap |-> "k", delegable |-> delegable, issued |-> 0,
   expires |-> expires, signed |-> TRUE]
Forged(hop) == [hop EXCEPT !.signed = FALSE]

Plain(s) == [sender |-> s, cap |-> "k", nonce |-> 0, expires_at |-> 0, optional |-> TRUE]
Expiring(s, n, e) == [sender |-> s, cap |-> "k", nonce |-> n, expires_at |-> e, optional |-> FALSE]
PairOf(g) == [cap |-> "k", grantee |-> g]

A == <<Hop("r", "a", TRUE, 0)>>
Quiet == [frames |-> {}, anchored |-> {"a", "b"}, chains |-> {}, pairs |-> {}, memo |-> 0,
          manifest |-> 0, follows |-> {"r"}, room |-> 1, reassembly |-> FALSE, store |-> 2,
          grantees |-> {}, caps |-> {"k"}, expiries |-> {}, revs |-> 2, maxMade |-> 0,
          maxMint |-> 0, until |-> 1]

(* A memo of one slot between two senders, one of them by delegation; chains *)
(* expire and are renewed, the first hop is revoked and restored.            *)
Remembering == [Quiet EXCEPT !.frames = {Plain("a"), Plain("b")}, !.memo = 1, !.until = 3,
  !.pairs = {PairOf("a")}, !.maxMint = 3,
  !.chains = {<<Hop("r", "a", TRUE, 3)>>, A, <<Hop("r", "a", TRUE, 0), Hop("a", "b", FALSE, 2)>>}]
(* Expiring frames for a window of one slot, repeated at will, some of them  *)
(* refused by the reassembly or for a sender that no root anchors.           *)
Repeated == [Quiet EXCEPT !.memo = 2, !.until = 4, !.chains = {A, <<Forged(A[1])>>},
  !.anchored = {"a"}, !.reassembly = TRUE,
  !.frames = {Expiring("a", 1, 2), Expiring("a", 2, 4), Expiring("a", 3, 0),
              Expiring("b", 4, 3)},
  !.pairs = {PairOf("a")}, !.maxMint = 3]
(* The root publishes what it revoked, the receiver has room for one missing *)
(* pair; with and without room for both revocations. Where it may follow     *)
(* another issuer there is room for one.                                     *)
Gated == [Quiet EXCEPT !.frames = {Plain("a")}, !.chains = {A}, !.manifest = 1,
  !.pairs = {PairOf("a"), PairOf("b")}, !.maxMint = 3]
GatedOne == [Gated EXCEPT !.pairs = {PairOf("a")}, !.maxMint = 4, !.follows = {"r", "b"}]
GatedTight == [Gated EXCEPT !.revs = 1]
(* Chains minted and extended, some of them after a revocation. *)
Granting == [Quiet EXCEPT !.grantees = {"a", "b"}, !.expiries = {0, 2, 3}, !.maxMade = 2,
  !.until = 3, !.pairs = {PairOf("a")}, !.maxMint = 1]
(* A store of one chain and three subjects. *)
Crowded == [Quiet EXCEPT !.store = 1, !.until = 3, !.frames = {Plain("a"), Plain("b")},
  !.chains = {A, <<Hop("r", "b", FALSE, 2)>>, <<Hop("r", "c", TRUE, 3)>>},
  !.pairs = {PairOf("a")}, !.maxMint = 2]

AllEnvs == [remembering |-> Remembering, repeated |-> Repeated, gated |-> Gated,
            gatedOne |-> GatedOne, gatedTight |-> GatedTight,
            granting |-> Granting, crowded |-> Crowded]
(* One pair, revoked, restored and revoked again. *)
OnePair == [reissued |-> [Gated EXCEPT !.pairs = {PairOf("a")}, !.maxMint = 3, !.frames = {},
                                       !.chains = {}]]
=============================================================================
