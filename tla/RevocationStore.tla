-------------------------- MODULE RevocationStore --------------------------
(***************************************************************************)
(* What a revocation store takes: fzn_revocation_admit, _confirm_admit and *)
(* _admin_admit of chain/revocation.c as functions from a store to a store.*)
(* Each answers a record [err, s]: the error and the store afterwards.     *)
(*                                                                         *)
(* A record is [kind, id, issuer, cap, grantee, epoch, sup, cut]: its id   *)
(* stands for the hash of its bytes, sup for the id it supersedes or       *)
(* undoes, 0 for naming nothing. Signatures verify: a record that does not *)
(* is refused before the store is touched. An offer's chain is a sequence  *)
(* of hops, << >> for a root's; each hop is delegable and signed.          *)
(***************************************************************************)
EXTENDS RevocationJudge

Answer(err, s) == [err |-> err, s |-> s]

Bump(s) == [s EXCEPT !.generation = @ + 1]

(* Of the record's triple. *)
Same(e, r) == e.issuer = r.issuer /\ e.cap = r.cap /\ e.grantee = r.grantee
Held(s, r) == {e \in s.entries : Same(e, r)}
Entry(s, r) == CHOOSE e \in s.entries : Same(e, r)

Vote(r, id, withdrawn, cut) ==
  [issuer |-> r.issuer, cap |-> r.cap, grantee |-> r.grantee, id |-> id, held |-> r.id,
   epoch |-> r.epoch, withdrawn |-> withdrawn, cut |-> cut]

Mut_Replace(s, r, e) == [s EXCEPT !.entries = @ \cup {e}]

Replace(s, r, e) == [s EXCEPT !.entries = (@ \ Held(s, r)) \cup {e}]

(* chain_verify without revocations or clock: it starts at the root asked    *)
(* about or at a member of the set, each hop is granted by the last grantee, *)
(* all under one capability, and it ends at the issuer.                      *)
ChainLinks(s, chain, cap, root, key) ==
  /\ chain[1].grantor = root \/ Member(s, chain[1].grantor)
  /\ \A i \in DOMAIN chain : chain[i].cap = cap
  /\ \A i \in 2..Len(chain) : chain[i].grantor = chain[i - 1].grantee
  /\ chain[Len(chain)].grantee = key

(* entitled_as_admin: the admin is kept on first sight, and one chain per key. *)
EntitledAsAdmin(s, key, chain, root) ==
  LET kept == {a \in Range(s.admins) : a.key = key}
      ad   == [key |-> key, chain |-> chain]
  IN IF ~ChainLinks(s, chain, AdminCap, root, key) THEN Answer("CHAIN_INVALID", s)
     ELSE IF kept # {} THEN Answer(IF ad \in kept THEN "OK" ELSE "CHAIN_INVALID", s)
     ELSE IF Len(s.admins) >= s.adminCapacity THEN Answer("STORE_FULL", s)
     ELSE Answer("OK", Bump([s EXCEPT !.admins = Append(@, ad)]))

(* Who may put a record into the store: a root with no chain, an admin, or a *)
(* holder of the capability revoked.                                         *)
Entitled(s, key, cap, chain, root) ==
  IF chain = << >>
  THEN Answer(IF key = root \/ Member(s, key) THEN "OK" ELSE "WRONG_ROOT", s)
  ELSE IF chain[1].cap = AdminCap THEN EntitledAsAdmin(s, key, chain, root)
  ELSE Answer(IF ChainLinks(s, chain, cap, root, key) THEN "OK" ELSE "CHAIN_INVALID", s)

TakeWithdrawal(s, r) ==
  IF Held(s, r) = {}
  THEN IF Cardinality(s.entries) >= s.capacity THEN Answer("STORE_FULL", s)
       ELSE Answer("OK", Bump(Replace(s, r, Vote(r, r.sup, TRUE, 0))))
  ELSE LET e == Entry(s, r)
           t == Replace(s, r, [e EXCEPT !.held = r.id, !.withdrawn = TRUE])
       IN IF e.id # r.sup \/ e.epoch # r.epoch THEN Answer("UNKNOWN_TARGET", s)
          ELSE Answer("OK", IF e.withdrawn THEN t ELSE Bump(t))

Mut_TakeOverWithdrawn(s, r) ==
  IF Entry(s, r).id = r.id THEN Answer("OK", s)
  ELSE IF r.sup = 0 THEN Answer("UNKNOWN_TARGET", s)
  ELSE Answer("OK", Replace(s, r, Vote(r, r.id, FALSE, r.cut)))

TakeOverWithdrawn(s, r) ==
  IF Entry(s, r).id = r.id THEN Answer("OK", s)
  ELSE IF r.sup = 0 THEN Answer("UNKNOWN_TARGET", s)
  ELSE Answer("OK", Bump(Replace(s, r, Vote(r, r.id, FALSE, r.cut))))

Mut_TakeOverLive(s, r) ==
  LET e == Entry(s, r)
  IN Answer("OK", IF e.cut = r.cut THEN s
                  ELSE Bump(Replace(s, r, [e EXCEPT !.cut = r.cut])))

TakeOverLive(s, r) ==
  LET e == Entry(s, r)
      t == Replace(s, r, Vote(r, r.id, FALSE, r.cut))
  IN IF r.id # e.id /\ r.sup = e.id
     THEN Answer("OK", IF e.cut = r.cut THEN t ELSE Bump(t))
     ELSE Answer("OK", s)

TakeFirst(s, r) ==
  IF Cardinality(s.entries) >= s.capacity THEN Answer("STORE_FULL", s)
  ELSE Answer("OK", Bump(Replace(s, r, Vote(r, r.id, FALSE, r.cut))))

Admit(s, r, chain, root) ==
  LET by == Entitled(s, r.issuer, r.cap, chain, root)
      t  == by.s
  IN IF by.err # "OK" THEN by
     ELSE IF r.kind = "withdrawal" THEN TakeWithdrawal(t, r)
     ELSE IF Held(t, r) = {} THEN TakeFirst(t, r)
     ELSE IF Entry(t, r).withdrawn THEN TakeOverWithdrawn(t, r)
     ELSE TakeOverLive(t, r)

(* fzn_revocation_confirm_admit: one confirmation per confirmer and hop. *)
ConfirmAdmit(s, c, chain, root) ==
  LET by == IF chain = << >> THEN Entitled(s, c.confirmer, AdminCap, chain, root)
            ELSE EntitledAsAdmin(s, c.confirmer, chain, root)
      t  == by.s
  IN IF by.err # "OK" THEN by
     ELSE IF c \in t.confirms THEN Answer("OK", t)
     ELSE IF Cardinality(t.confirms) >= t.confirmCapacity THEN Answer("STORE_FULL", t)
     ELSE Answer("OK", Bump([t EXCEPT !.confirms = @ \cup {c}]))

SetK(s, k) == IF s.quorum = k THEN s ELSE Bump([s EXCEPT !.quorum = k])

(* holds_exactly of node/revoke.c: the store now says what the record says. *)
HoldsExactly(s, r) ==
  /\ Held(s, r) # {}
  /\ LET e == Entry(s, r)
     IN IF r.kind = "withdrawal" THEN e.withdrawn /\ e.id = r.sup
        ELSE ~e.withdrawn /\ e.id = r.id

EmptyStore(k, roots, capacity, adminCapacity, confirmCapacity) ==
  [entries |-> {}, admins |-> << >>, confirms |-> {}, quorum |-> k, roots |-> roots,
   void |-> {}, generation |-> 1, capacity |-> capacity, adminCapacity |-> adminCapacity,
   confirmCapacity |-> confirmCapacity]
=============================================================================
