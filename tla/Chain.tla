------------------------------- MODULE Chain -------------------------------
(***************************************************************************)
(* Capability chains and what is remembered of them: the verification of   *)
(* chain/chain.c, the store of chain/chain_store.c, the verdicts of        *)
(* chain/memo.c and the missing revocations of chain/manifest.c, each a    *)
(* function from its table to an answer and a table.                       *)
(*                                                                         *)
(* A hop is [grantor, grantee, cap, delegable, issued, expires, signed];   *)
(* its signature is whether the grantor made it. A time of 0 is no expiry. *)
(***************************************************************************)
EXTENDS RevocationStore

CONSTANT MaxHops   \* FZN_CHAIN_MAX_HOPS

ASSUME MaxHopsAssumption == MaxHops \in Nat \ {0}

NO_EXPIRY == 0
Past(expires, now) == expires # NO_EXPIRY /\ expires <= now

Soonest(hops) ==
  LET real == {hops[i].expires : i \in DOMAIN hops} \ {NO_EXPIRY}
  IN IF real = {} THEN NO_EXPIRY ELSE Min(real)

(* The root a chain hangs from: the key asked for, or a member of the root   *)
(* set whose act still counts.                                               *)
RightRoot(revs, hops, root) ==
  IF revs.roots # {}
  THEN Member(revs, hops[1].grantor) /\ RootCounts(revs, hops[1].grantor, hops[1])
  ELSE hops[1].grantor = root

(* The first pass over one hop, in the order the code asks. *)
HopErr(hops, i, cap, now, revoked) ==
  IF \/ hops[i].cap # cap
     \/ i > 1 /\ hops[i].grantor # hops[i - 1].grantee
     \/ i > 1 /\ ~hops[i - 1].delegable
     \/ Past(hops[i].expires, hops[i].issued) THEN "CHAIN_INVALID"
  ELSE IF Past(hops[i].expires, now) THEN "EXPIRED"
  ELSE IF revoked[i] THEN "REVOKED" ELSE "OK"

FirstErr(errs) ==
  LET bad == {i \in DOMAIN errs : errs[i] # "OK"}
  IN IF bad = {} THEN "OK" ELSE errs[Min(bad)]

HopErrs(hops, cap, now, revoked) == [i \in DOMAIN hops |-> HopErr(hops, i, cap, now, revoked)]

(* The whole of it, given how the first pass went. *)
Judged(hops, root, revs, pending, err) ==
  IF Len(hops) \notin 1..MaxHops THEN "MALFORMED"
  ELSE IF ~RightRoot(revs, hops, root) THEN "WRONG_ROOT"
  ELSE IF err # "OK" THEN err
  ELSE IF \E i \in DOMAIN hops : hops[i].grantor \in pending THEN "INCOMPLETE"
  ELSE IF \E i \in DOMAIN hops : ~hops[i].signed THEN "CHAIN_INVALID"
  ELSE "OK"

(* "pending" is the issuers a manifest says this host lacks something of.    *)
(* The stores asked here were told of no admins, so none stands.             *)
fzn_chain_verify(hops, root, cap, now, revs, pending) ==
  Judged(hops, root, revs, pending,
         FirstErr(HopErrs(hops, cap, now, JudgeLinks(revs, hops, cap, {}))))

(* hop_sign: a hop that would expire no later than it is issued is refused. *)
hop_sign(grantor, grantee, cap, now, expires, delegable) ==
  IF Past(expires, now) THEN {}
  ELSE {[grantor |-> grantor, grantee |-> grantee, cap |-> cap, delegable |-> delegable,
         issued |-> now, expires |-> expires, signed |-> TRUE]}

Mut_Delegated(hops, root, cap, now, grantee, expires, delegable, revs) ==
  IF Len(hops) >= MaxHops \/ fzn_chain_verify(hops, root, cap, now, revs, {}) # "OK" THEN {}
  ELSE {Append(hops, h) : h \in hop_sign(Last(hops).grantee, grantee, cap, now, expires, delegable)}

(* fzn_chain_delegate: the chains it makes, none or one. The expiry asked    *)
(* for is held to the soonest of the chain extended.                         *)
Delegated(hops, root, cap, now, grantee, expires, delegable, revs) ==
  LET soonest == Soonest(hops)
      held == IF soonest # NO_EXPIRY /\ (expires = NO_EXPIRY \/ expires > soonest)
              THEN soonest ELSE expires
  IN IF \/ Len(hops) >= MaxHops
        \/ fzn_chain_verify(hops, root, cap, now, revs, {}) # "OK"
        \/ ~Last(hops).delegable THEN {}
     ELSE {Append(hops, h) :
             h \in hop_sign(Last(hops).grantee, grantee, cap, now, held, delegable)}

(***************************************************************************)
(* The chain store: entries in the order of their slots.                   *)
(***************************************************************************)
find_expired(entries, now) == {i \in DOMAIN entries : Past(entries[i].expires, now)}

StoreEntry(root, cap, hops) ==
  [root |-> root, cap |-> cap, grantee |-> Last(hops).grantee, expires |-> Soonest(hops),
   hops |-> hops]

Mut_Placed(entries, capacity, new, gone) ==
  IF Len(entries) < capacity THEN Answer("OK", Append(entries, new))
  ELSE IF gone # {} THEN Answer("OK", [entries EXCEPT ![Min(gone)] = new])
  ELSE Answer("STORE_FULL", entries)

(* Over the chain held for the same triple, into a free slot, or over one    *)
(* that expired.                                                             *)
Placed(entries, capacity, new, gone) ==
  LET same == {i \in DOMAIN entries : /\ entries[i].root = new.root
                                      /\ entries[i].cap = new.cap
                                      /\ entries[i].grantee = new.grantee}
  IN IF same # {} THEN Answer("OK", [entries EXCEPT ![Min(same)] = new])
     ELSE IF Len(entries) < capacity THEN Answer("OK", Append(entries, new))
     ELSE IF gone # {} THEN Answer("OK", [entries EXCEPT ![Min(gone)] = new])
     ELSE Answer("STORE_FULL", entries)

(* fzn_chain_store_admit, given what the verification said. *)
StoreAdmit(entries, capacity, hops, root, cap, now, err) ==
  IF err # "OK" THEN Answer(err, entries)
  ELSE Placed(entries, capacity, StoreEntry(root, cap, hops), find_expired(entries, now))

(* The chain held for a subject, if it has not expired. *)
fzn_chain_store_lookup(entries, root, cap, subject, now) ==
  {e.hops : e \in {x \in Range(entries) : /\ x.root = root /\ x.cap = cap
                                          /\ x.grantee = subject /\ ~Past(x.expires, now)}}

(***************************************************************************)
(* The memo: slots of remembered verdicts, and where the next overwrite    *)
(* lands when every slot is live.                                          *)
(***************************************************************************)
EmptyMemo(capacity) ==
  [slots |-> [i \in 1..capacity |-> [root |-> "", grantee |-> "", cap |-> "",
                                     expires |-> 0, generation |-> 0]],
   cursor |-> 1]

SameTriple(e, root, grantee, cap) == e.root = root /\ e.grantee = grantee /\ e.cap = cap

Mut_memo_allows(m, root, grantee, cap, generation, now) ==
  \E i \in DOMAIN m.slots : /\ m.slots[i].generation = generation
                            /\ SameTriple(m.slots[i], root, grantee, cap)

fzn_chain_memo_allows(m, root, grantee, cap, generation, now) ==
  \E i \in DOMAIN m.slots : /\ m.slots[i].generation = generation
                            /\ SameTriple(m.slots[i], root, grantee, cap)
                            /\ ~Past(m.slots[i].expires, now)

fzn_chain_memo_record(m, root, hops, generation) ==
  LET grantee == Last(hops).grantee
      cap == hops[1].cap
      same == {i \in DOMAIN m.slots : SameTriple(m.slots[i], root, grantee, cap)}
      stale == {i \in DOMAIN m.slots : m.slots[i].generation # generation}
      slot == IF same # {} THEN Min(same) ELSE IF stale # {} THEN Min(stale) ELSE m.cursor
      new == [root |-> root, grantee |-> grantee, cap |-> cap, expires |-> Soonest(hops),
              generation |-> generation]
  IN IF m.slots = << >> THEN m
     ELSE [slots  |-> [m.slots EXCEPT ![slot] = new],
           cursor |-> IF same = {} /\ stale = {} THEN (m.cursor % Len(m.slots)) + 1 ELSE m.cursor]

(***************************************************************************)
(* The manifest: which issuers are followed, the most pairs each has ever  *)
(* named and whether one was dropped, and the pairs known to be missing.   *)
(***************************************************************************)
EmptyManifest(capacity, room) ==
  [issuers |-> << >>, deficit |-> {}, capacity |-> capacity, room |-> room]

Follows(m, issuer) == issuer \in DOMAIN m.issuers

(* Nobody is ever dropped from a full table of issuers. *)
fzn_manifest_follow(m, issuer) ==
  IF Follows(m, issuer) \/ Cardinality(DOMAIN m.issuers) >= m.room THEN m
  ELSE [m EXCEPT !.issuers = @ @@ (issuer :> [pairs_seen |-> 0, overflowed |-> FALSE])]

(* fzn_manifest_issue: every vote of the issuer's own, undone ones too. *)
fzn_manifest_issue(revs, issuer) ==
  [issuer |-> issuer,
   pairs  |-> {[cap |-> e.cap, grantee |-> e.grantee, id |-> e.id, withdrawn |-> e.withdrawn] :
                 e \in {x \in revs.entries : x.issuer = issuer}}]

Missing(issuer, p) == [issuer |-> issuer, cap |-> p.cap, grantee |-> p.grantee]

(* What the store says of the pair is what the issuer says, or later. *)
Ahead(revs, issuer, p) ==
  \E e \in revs.entries : /\ Same(e, Missing(issuer, p)) /\ e.id = p.id
                          /\ ~(p.withdrawn /\ ~e.withdrawn)

(* One pair: listed if missing and not listed yet, dropped when the table is *)
(* full.                                                                     *)
TakePair(w, revs, issuer, capacity, p) ==
  LET d == Missing(issuer, p)
  IN IF Ahead(revs, issuer, p) \/ d \in w.deficit THEN w
     ELSE IF Cardinality(w.deficit) >= capacity THEN [w EXCEPT !.dropped = TRUE]
     ELSE [w EXCEPT !.deficit = @ \cup {d}]

Mut_Overflows(was, count, dropped) == dropped

(* A drop is remembered until a manifest no smaller than any before lands    *)
(* whole.                                                                    *)
Overflows(was, count, dropped) ==
  dropped \/ (was.overflowed /\ count < was.pairs_seen)

fzn_manifest_admit(m, revs, record) ==
  LET w == FoldLeft(LAMBDA x, p : TakePair(x, revs, record.issuer, m.capacity, p),
                    [deficit |-> m.deficit, dropped |-> FALSE], SetToSeq(record.pairs))
      was == m.issuers[record.issuer]
      count == Cardinality(record.pairs)
      now == [pairs_seen |-> Max({was.pairs_seen, count}),
              overflowed |-> Overflows(was, count, w.dropped)]
  IN IF ~Follows(m, record.issuer) THEN m
     ELSE [m EXCEPT !.deficit = w.deficit, !.issuers = [@ EXCEPT ![record.issuer] = now]]

fzn_manifest_satisfy(m, d) == [m EXCEPT !.deficit = @ \ {d}]

fzn_manifest_pending(m) == {d.issuer : d \in m.deficit}
=============================================================================
