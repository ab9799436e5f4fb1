------------------------------ MODULE Admission ------------------------------
(***************************************************************************)
(* A receiver of sealed frames: fzn_admit of admit/admit.c, over the replay*)
(* window, the chain store, the memo of verdicts, the revocation store and *)
(* the manifest it consults, while the root it anchors goes on granting,   *)
(* revoking and publishing what it revoked.                                *)
(*                                                                         *)
(* The receiver, the root and the granting keys share one clock. Records,  *)
(* manifests and chains reach the receiver in any order and any number of  *)
(* times, or never. A frame refused before its seal opens changes nothing  *)
(* and is left out. The environments of Envs say which frames, chains and  *)
(* revocations there are, whose senders a root anchors, which of memo,     *)
(* manifest and reassembly the receiver has, and how large each table is.  *)
(***************************************************************************)
EXTENDS Chain

CONSTANTS Envs,            \* name -> [frames, anchored, chains, pairs, memo, manifest, follows,
                           \*          room, reassembly, store, grantees, caps, expiries,
                           \*          revs, maxMade, maxMint, until]
          Root,            \* the anchored root
          Horizon,         \* env->max_ahead
          WindowCapacity   \* the replay window's slots

ASSUME AdmissionAssumption ==
  \A n \in DOMAIN Envs : Envs[n].until \in Nat /\ Envs[n].store \in Nat \ {0}

VARIABLES
  env,        \* the name of the environment, chosen once
  now,
  window,     \* the replay window's slots
  chains,     \* the chain store
  memo,
  revs,       \* the receiver's revocation store
  manifest,   \* the receiver's manifest state
  own,        \* the root's own revocation store
  minted,     \* the votes the root made, in order
  published,  \* the manifests it signed
  made,       \* the chains minted and delegated so far
  shown,      \* history: the chains the receiver took into its store
  told,       \* history: the pairs named by manifests the receiver took
  done,       \* history: the expiring frames admitted
  last        \* history: how the last frame fared

vars == <<now, window, chains, memo, revs, manifest, own, minted, published, made,
          shown, told, done, last>>

E == Envs[env]

Window == INSTANCE ReplayWindow
            WITH Nonce <- {}, UMAX <- 1000, Capacity <- WindowCapacity, MaxAhead <- Horizon,
                 entries <- window, executed <- done, replayed <- {}

HasMemo == E.memo > 0
Pending == IF E.manifest > 0 THEN fzn_manifest_pending(manifest) ELSE {}
Verifies(hops, cap) == fzn_chain_verify(hops, Root, cap, now, revs, Pending)

Nothing == [how |-> "none"]

Init ==
  /\ env \in DOMAIN Envs
  /\ now = 1
  /\ window = {} /\ chains = << >> /\ memo = EmptyMemo(E.memo)
  /\ revs = EmptyStore(1, {}, E.revs, 1, 1) /\ own = EmptyStore(1, {}, Cardinality(E.pairs), 1, 1)
  /\ manifest = EmptyManifest(E.manifest, E.room)
  /\ minted = << >> /\ published = {} /\ made = {}
  /\ shown = {} /\ told = {} /\ done = {} /\ last = Nothing

-----------------------------------------------------------------------------
(* fzn_admit from the freshness check on. *)

Outcome(how, f, win, mem) == [how |-> how, frame |-> f, window |-> win, memo |-> mem]

Mut_ChainVerdict(f, win, hops, err) == Outcome("chain", f, win, memo)

(* The verdict on the chain held, remembered if it is good. *)
ChainVerdict(f, win, hops, err) ==
  IF err # "OK" THEN Outcome(err, f, win, memo)
  ELSE Outcome("chain", f, win, fzn_chain_memo_record(memo, Root, hops, revs.generation))

(* The chain step takes the memo's word, or looks the chain up and verifies. *)
(* What the store packed always opens.                                       *)
ChainStep(f, win, held) ==
  IF HasMemo /\ fzn_chain_memo_allows(memo, Root, f.sender, f.cap, revs.generation, now)
  THEN Outcome("memo", f, win, memo)
  ELSE IF held = {} THEN Outcome("NO_CHAIN", f, win, memo)
  ELSE LET hops == CHOOSE h \in held : TRUE
       IN ChainVerdict(f, win, hops, Verifies(hops, f.cap))

Slot(f) == [nonce |-> f.nonce, expires_at |-> f.expires_at]

(* fzn_reasm_accept may refuse the chunk (Reassembly has its reasons): the   *)
(* slot stays spent and the verdict remembered.                              *)
Reassembled(o, accepted) == IF accepted THEN o ELSE [o EXCEPT !.how = "REASSEMBLY"]

Mut_Spent(swept, f) == swept

(* The window with the frame's slot spent. *)
Spent(swept, f) == Window!Recorded(swept, now, Slot(f), f.optional)

(* The replay slot is spent before the sender's root is asked for and the    *)
(* chain is looked at.                                                       *)
fzn_admit(f, swept, fresh, fr) ==
  IF fresh # "OK" THEN Outcome(fresh, f, window, memo)
  ELSE IF fr # "OK" THEN Outcome(fr, f, swept, memo)
  ELSE IF f.sender \notin E.anchored THEN Outcome("NO_CHAIN", f, Spent(swept, f), memo)
  ELSE ChainStep(f, Spent(swept, f), fzn_chain_store_lookup(chains, Root, f.cap, f.sender, now))

Admitted(o) == o.how \in {"memo", "chain"}

Receive(f, accepted) ==
  \E swept \in {Window!fzn_replay_expire(window, now)} :
  \E step \in {fzn_admit(f, swept, Window!fzn_freshness_check(now, f.expires_at, f.optional),
                         Window!Verdict(swept, now, Slot(f), f.optional))} :
  \E o \in {Reassembled(step, accepted)} :
     /\ accepted \/ (E.reassembly /\ Admitted(step))
     /\ window' = o.window
     /\ memo' = o.memo
     /\ last' = [how |-> o.how, frame |-> f, again |-> Admitted(o) /\ f \in done]
     /\ done' = IF Admitted(o) /\ f.expires_at # NO_EXPIRY THEN done \cup {f} ELSE done
     /\ UNCHANGED <<now, chains, revs, manifest, own, minted, published, made, shown, told>>

-----------------------------------------------------------------------------
(* What else happens to the receiver. *)

(* A chain is offered, before any frame relies on it. *)
StoreChain(hops) ==
  \E a \in {StoreAdmit(chains, E.store, hops, Root, hops[1].cap, now, Verifies(hops, hops[1].cap))} :
     /\ chains' = a.s
     /\ shown' = IF a.err = "OK" THEN shown \cup {hops} ELSE shown
     /\ last' = Nothing
     /\ UNCHANGED <<now, window, memo, revs, manifest, own, minted, published, made, told, done>>

(* fzn_revocation_admit drains the deficit on every branch a revocation can  *)
(* take but a full store, and on none a withdrawal takes.                    *)
Satisfied(m, r, err) ==
  IF r.kind = "revocation" /\ err # "STORE_FULL"
  THEN fzn_manifest_satisfy(m, Missing(r.issuer, r)) ELSE m

Learn(r) ==
  \E a \in {Admit(revs, r, << >>, Root)} :
     /\ revs' = a.s
     /\ manifest' = Satisfied(manifest, r, a.err)
     /\ last' = Nothing
     /\ UNCHANGED <<now, window, chains, memo, own, minted, published, made, shown, told, done>>

Follow(issuer) ==
  /\ E.manifest > 0
  /\ manifest' = fzn_manifest_follow(manifest, issuer)
  /\ last' = Nothing
  /\ UNCHANGED <<now, window, chains, memo, revs, own, minted, published, made, shown, told, done>>

TakeManifest(record) ==
  /\ E.manifest > 0
  /\ Follows(manifest, record.issuer)
  /\ manifest' = fzn_manifest_admit(manifest, revs, record)
  /\ told' = told \cup record.pairs
  /\ last' = Nothing
  /\ UNCHANGED <<now, window, chains, memo, revs, own, minted, published, made, shown, done>>

-----------------------------------------------------------------------------
(* What the root and the keys it granted to do meanwhile. *)

(* The root's next vote on a pair: revoke it, undo that, revoke it again.    *)
NextVote(p) ==
  LET target == [issuer |-> Root, cap |-> p.cap, grantee |-> p.grantee]
      new == Held(own, target) = {}
      e == Entry(own, target)
      undo == ~new /\ ~e.withdrawn
  IN target @@
     [kind  |-> IF undo THEN "withdrawal" ELSE "revocation",
      id    |-> Len(minted) + 1,
      epoch |-> IF undo THEN e.epoch ELSE CurrentEpoch(own, Root, p.cap, p.grantee),
      sup   |-> IF new THEN 0 ELSE e.id,
      cut   |-> 0]

MintVote(p) ==
  /\ Len(minted) < E.maxMint
  /\ \E v \in {NextVote(p)} : /\ minted' = Append(minted, v)
                             /\ own' = Admit(own, v, << >>, Root).s
  /\ last' = Nothing
  /\ UNCHANGED <<now, window, chains, memo, revs, manifest, published, made, shown, told, done>>

Publish ==
  /\ E.manifest > 0
  /\ published' = published \cup {fzn_manifest_issue(own, Root)}
  /\ last' = Nothing
  /\ UNCHANGED <<now, window, chains, memo, revs, manifest, own, minted, made, shown, told, done>>

Makes(new) ==
  /\ Cardinality(made) < E.maxMade
  /\ new # {}
  /\ made' = made \cup new
  /\ last' = Nothing
  /\ UNCHANGED <<now, window, chains, memo, revs, manifest, own, minted, published, shown, told, done>>

MintChain(grantee, cap, expires, delegable) ==
  Makes({<<h>> : h \in hop_sign(Root, grantee, cap, now, expires, delegable)})

(* A holder extends its chain, asking its own revocation store: the root's.  *)
Delegate(hops, grantee, expires, delegable) ==
  Makes(Delegated(hops, Root, hops[1].cap, now, grantee, expires, delegable, own))

Tick ==
  /\ now < E.until
  /\ now' = now + 1
  /\ last' = Nothing
  /\ UNCHANGED <<window, chains, memo, revs, manifest, own, minted, published, made, shown, told, done>>

Next ==
  \/ \E f \in E.frames, accepted \in BOOLEAN : Receive(f, accepted)
  \/ \E hops \in E.chains \cup made : StoreChain(hops)
  \/ \E r \in Range(minted) : Learn(r)
  \/ \E issuer \in E.follows : Follow(issuer)
  \/ \E record \in published : TakeManifest(record)
  \/ \E p \in E.pairs : MintVote(p)
  \/ Publish
  \/ \E g \in E.grantees, c \in E.caps, x \in E.expiries, d \in BOOLEAN : MintChain(g, c, x, d)
  \/ \E hops \in made, g \in E.grantees, x \in E.expiries, d \in BOOLEAN : Delegate(hops, g, x, d)
  \/ Tick

Spec == Init /\ [][Next /\ UNCHANGED env]_<<vars, env>>

-----------------------------------------------------------------------------
(* Properties. *)

Overflowed == Follows(manifest, Root) /\ manifest.issuers[Root].overflowed

(* No table passes its capacity, and the chain store holds one chain for a   *)
(* root, capability and grantee.                                             *)
TypeOK ==
  /\ now \in 1..E.until
  /\ Cardinality(window) <= WindowCapacity
  /\ Len(chains) <= E.store
  /\ \A i, j \in DOMAIN chains :
       chains[i].cap = chains[j].cap /\ chains[i].grantee = chains[j].grantee => i = j
  /\ memo.cursor \in 1..Max({1, E.memo})
  /\ Cardinality(manifest.deficit) <= E.manifest
  /\ Cardinality(DOMAIN manifest.issuers) <= E.room
  /\ Cardinality(revs.entries) <= E.revs

(* A frame fzn_admit lets through, by a remembered verdict or a fresh one,   *)
(* comes from a sender with a chain this receiver took that verifies now:    *)
(* neither an expiry nor a revocation since the verdict is missed, whatever  *)
(* slot of the memo or of the store was reused in between.                   *)
EntitledNow ==
  last.how \in {"memo", "chain"} =>
    \E hops \in shown :
      /\ Last(hops).grantee = last.frame.sender
      /\ fzn_chain_verify(hops, Root, last.frame.cap, now, revs, {}) = "OK"

(* An expiring frame is let through at most once, although fzn_admit takes   *)
(* the shortcut of the memo, chains come and go between two arrivals, and a  *)
(* frame refused after its slot was spent may come again.                    *)
AtMostOnce == last.how = "none" \/ ~last.again

(* Every pair a manifest named is held in the revocation store, listed as    *)
(* missing, or admitted to have been dropped: fzn_manifest_admit never loses *)
(* one silently, an older manifest clears nothing, and a revocation a full   *)
(* store refused stays listed.                                               *)
ToldAccounted ==
  \A p \in told : \/ Missing(Root, p) \in manifest.deficit
                  \/ Held(revs, Missing(Root, p)) # {}
                  \/ Overflowed

(* A chain verified afresh lets nothing through while the root is known to   *)
(* have revoked a pair this receiver holds nothing about.                    *)
GateHolds ==
  last.how = "chain" =>
    Overflowed \/ \A p \in told : Held(revs, Missing(Root, p)) # {}

(* What fzn_chain_mint and fzn_chain_delegate make is a chain that verifies  *)
(* until it expires or one of its hops is revoked, and its last hop says     *)
(* when: no later than any hop before it.                                    *)
DelegationSound ==
  \A hops \in made :
    /\ fzn_chain_verify(hops, Root, hops[1].cap, now, own, {}) \in {"OK", "EXPIRED", "REVOKED"}
    /\ Last(hops).expires = Soonest(hops)

(* manifest.h: a zero deficit means "nothing the manifests I hold names is   *)
(* missing". A revocation a manifest named is then held, or a later vote on  *)
(* its pair (ids number the root's votes), or at the least the pair is       *)
(* revoked by an earlier one.                                                *)
ZeroDeficitComplete ==
  fzn_manifest_pending(manifest) = {} /\ ~Overflowed =>
    \A p \in told : ~p.withdrawn =>
      \E e \in Held(revs, Missing(Root, p)) : e.id >= p.id \/ ~e.withdrawn
=============================================================================
