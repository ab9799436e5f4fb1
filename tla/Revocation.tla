----------------------------- MODULE Revocation -----------------------------
(***************************************************************************)
(* The nodes of one estate revoking, undoing and learning revocations:     *)
(* node/revoke.c over the store of chain/revocation.c, with the memo of    *)
(* chain/memo.c beside it.                                                 *)
(*                                                                         *)
(* A node keeps one row per target it voted on (its latest record), one    *)
(* per vote it learned, and the confirmations; the store itself is never   *)
(* saved, and a restart rebuilds it by admitting the rows again. A record  *)
(* minted travels to the other nodes in any order and any number of times, *)
(* or, where the estate says so, as an author's journal carries it: once, in the order *)
(* it was minted.                                                          *)
(***************************************************************************)
EXTENDS RevocationStore

CONSTANTS Root,        \* the key the estate is pinned to
          Watched,     \* chains authorisation is asked about: sequences of hops
          Envs         \* the estates there are, by name, see EnvAssumption

(***************************************************************************)
(* An estate, and the bounds on what happens in it:                        *)
(*   nodes      each names its key; those that vote (issuers), and those   *)
(*              that take what the others publish (learners);              *)
(*   chainOf    the chain a node votes with, << >> for the root;           *)
(*   targets    what may be revoked: records [cap, grantee];               *)
(*   quorums    the values k takes;                                        *)
(*   cuts       the lines a vote may draw, 0 among them;                   *)
(*   seconds    the confirmations that may be given of admins' hops;       *)
(*   memo       whether the receive path is handed a memo;                 *)
(*   inOrder    whether records arrive as the author's journal has them;   *)
(*   maxMint, maxFail, maxRestart   bounds: records minted, saves that     *)
(*              fail, restarts; maxGeneration: where k moves no more;      *)
(*   capacity, adminCapacity, confirmCapacity   of each node's tables.     *)
(***************************************************************************)
ASSUME EnvAssumption ==
  \A name \in DOMAIN Envs :
    LET v == Envs[name]
    IN /\ v.issuers \subseteq v.nodes /\ v.learners \subseteq v.nodes
       /\ Root \notin {t.grantee : t \in v.targets}
       /\ \A n \in v.nodes : v.chainOf[n] = << >> <=> n = Root
       /\ 0 \in v.cuts /\ v.cuts \subseteq Nat
       /\ v.quorums \subseteq Nat \ {0}
       /\ {v.memo, v.inOrder} \subseteq BOOLEAN

VARIABLES env,         \* the estate, which never changes
          minted,      \* every record minted; a record's id is its place here
          public,      \* the ids a node serves to the others
          seconded,    \* confirmations published
          store,       \* each node's store, in memory
          issuedRow,   \* each node's row per target: the id it last issued, or 0
          voteRow,     \* each node's row per issuer and target: the id learned, or 0
          confirmRow,  \* the confirmations each node saved
          memo,        \* each node's remembered verdicts: a generation, or 0
          taken,       \* the ids each node has been through
          again,       \* ... and those of them its journal has not applied since its last start
          fails, restarts

vars == <<minted, public, seconded, store, issuedRow, voteRow, confirmRow, memo, taken,
          again, fails, restarts>>

Estate == Envs[env]
Nodes == Estate.nodes
Targets == Estate.targets
ChainOf == Estate.chainOf

Fresh(k) ==
  EmptyStore(k, {}, Estate.capacity, Estate.adminCapacity, Estate.confirmCapacity)

Init ==
  /\ env \in DOMAIN Envs
  /\ minted = << >> /\ public = {} /\ seconded = {}
  /\ \E k \in Estate.quorums : store = [n \in Nodes |-> Fresh(k)]
  /\ issuedRow = [n \in Nodes |-> [t \in Targets |-> 0]]
  /\ voteRow = [n \in Nodes |-> [m \in Nodes |-> [t \in Targets |-> 0]]]
  /\ confirmRow = [n \in Nodes |-> {}]
  /\ memo = [n \in Nodes |-> [w \in Watched |-> 0]]
  /\ taken = [n \in Nodes |-> {}] /\ again = [n \in Nodes |-> {}]
  /\ fails = 0 /\ restarts = 0

NewId == Len(minted) + 1

Record(kind, n, t, epoch, sup, cut) ==
  [kind |-> kind, id |-> NewId, issuer |-> n, cap |-> t.cap, grantee |-> t.grantee,
   epoch |-> epoch, sup |-> sup, cut |-> cut]

Previous(n, t) == minted[issuedRow[n][t]]
HasRow(n, t) == issuedRow[n][t] # 0

NextEpoch(n, t) == CurrentEpoch(store[n], Root, t.cap, t.grantee)

(* A revocation: the first, one over an undone vote naming what the undo     *)
(* undid, or a live vote's line moved. Revoking again with the line where it *)
(* is answers ALREADY and mints nothing.                                     *)
ToRevoke(n, t, cut) ==
  IF ~HasRow(n, t) THEN {Record("revocation", n, t, NextEpoch(n, t), 0, cut)}
  ELSE IF Previous(n, t).kind = "withdrawal"
  THEN {Record("revocation", n, t, NextEpoch(n, t), Previous(n, t).sup, cut)}
  ELSE IF Previous(n, t).cut = cut THEN {}
  ELSE {Record("revocation", n, t, Previous(n, t).epoch, issuedRow[n][t], cut)}

(* Only a vote of its own in force can be undone, in the epoch it was cast. *)
ToUndo(n, t) ==
  IF HasRow(n, t) /\ Previous(n, t).kind = "revocation"
  THEN {Record("withdrawal", n, t, Previous(n, t).epoch, issuedRow[n][t], 0)}
  ELSE {}

(* The tail of issue(): admitted here, then the row, then the act logged so  *)
(* that it travels. Either write may fail, and what was admitted stays in    *)
(* force until a restart.                                                    *)
Issue(n, t, r, saved, logged) ==
  LET a == Admit(store[n], r, ChainOf[n], Root)
  IN /\ Len(minted) < Estate.maxMint
     /\ saved \/ ~logged
     /\ store' = [store EXCEPT ![n] = a.s]
     /\ \/ a.err # "OK" /\ saved /\ logged /\ a.s # store[n]
           /\ UNCHANGED <<minted, public, issuedRow, fails>>
        \/ /\ a.err = "OK"
           /\ minted' = Append(minted, r)
           /\ fails' = fails + (IF logged THEN 0 ELSE 1) /\ fails' <= Estate.maxFail
           /\ issuedRow' = IF saved THEN [issuedRow EXCEPT ![n][t] = r.id] ELSE issuedRow
           /\ public' = IF logged THEN public \cup {r.id} ELSE public
     /\ UNCHANGED <<seconded, voteRow, confirmRow, memo, taken, again, restarts>>

Revoke(n, t, cut, saved, logged) ==
  \E r \in ToRevoke(n, t, cut) : Issue(n, t, r, saved, logged)

Unrevoke(n, t, saved, logged) ==
  \E r \in ToUndo(n, t) : Issue(n, t, r, saved, logged)

(* fzn_node_apply_round takes a stream from what was applied up to what was  *)
(* received, in order; the applied position is in memory only.               *)
Applied(n) == taken[n] \ again[n]
Due(n, i) ==
  /\ i \in public
  /\ Estate.inOrder => /\ i \notin Applied(n)
                       /\ \A j \in public : j < i /\ minted[j].issuer = minted[i].issuer
                                              => j \in Applied(n)

(* admins_full: full for want of an admin's place only, which nobody grows:   *)
(* the record is refused. Any other full table is waited on.                 *)
AdminsFull(s, err) ==
  /\ err = "STORE_FULL" /\ Len(s.admins) >= s.adminCapacity
  /\ Cardinality(s.entries) < s.capacity /\ Cardinality(s.confirms) < s.confirmCapacity
Waits(a) == a.err = "STORE_FULL" /\ ~AdminsFull(a.s, a.err)

(* finish_vote: admitted with its issuer's chain, and saved as the triple's  *)
(* row only when the store now says exactly that. A save that fails, or a    *)
(* table waited on, leaves the record to be applied.                         *)
Take(n, i, saved) ==
  LET r == minted[i]
      a == Admit(store[n], r, ChainOf[r.issuer], Root)
      t == [cap |-> r.cap, grantee |-> r.grantee]
      keep == a.err = "OK" /\ HoldsExactly(a.s, r)
  IN /\ Due(n, i)
     /\ saved \/ keep
     /\ store' = [store EXCEPT ![n] = a.s]
     /\ IF Waits(a) \/ ~saved THEN UNCHANGED <<taken, again>>
        ELSE /\ taken' = [taken EXCEPT ![n] = @ \cup {i}]
             /\ again' = [again EXCEPT ![n] = @ \ {i}]
     /\ voteRow' = IF keep /\ saved THEN [voteRow EXCEPT ![n][r.issuer][t] = i] ELSE voteRow
     /\ fails' = fails + (IF saved THEN 0 ELSE 1) /\ fails' <= Estate.maxFail
     /\ UNCHANGED <<minted, public, seconded, issuedRow, confirmRow, memo, restarts>>

(* fzn_node_confirm_act: a hop of another's admin chain seconded. The act is *)
(* logged first, so it travels even when this node's own store refuses it.   *)
Confirm(n, c, saved) ==
  LET a == ConfirmAdmit(store[n], c, ChainOf[n], Root)
  IN /\ c.confirmer = n /\ c \notin seconded
     /\ saved \/ a.err = "OK"
     /\ store' = [store EXCEPT ![n] = a.s]
     /\ seconded' = seconded \cup {c}
     /\ confirmRow' = IF a.err = "OK" /\ saved THEN [confirmRow EXCEPT ![n] = @ \cup {c}]
                      ELSE confirmRow
     /\ fails' = fails + (IF saved THEN 0 ELSE 1) /\ fails' <= Estate.maxFail
     /\ UNCHANGED <<minted, public, issuedRow, voteRow, memo, taken, again, restarts>>

TakeConfirm(n, c, saved) ==
  LET a == ConfirmAdmit(store[n], c, ChainOf[c.confirmer], Root)
  IN /\ saved \/ a.err = "OK"
     /\ store' = [store EXCEPT ![n] = a.s]
     /\ confirmRow' = IF a.err = "OK" /\ saved THEN [confirmRow EXCEPT ![n] = @ \cup {c}]
                      ELSE confirmRow
     /\ fails' = fails + (IF saved THEN 0 ELSE 1) /\ fails' <= Estate.maxFail
     /\ UNCHANGED <<minted, public, seconded, issuedRow, voteRow, memo, taken, again, restarts>>

(* The estate's k changes under a node. *)
SetEstateK(n, k) ==
  /\ k # store[n].quorum /\ store[n].generation < Estate.maxGeneration
  /\ store' = [store EXCEPT ![n] = SetK(@, k)]
  /\ UNCHANGED <<minted, public, seconded, issuedRow, voteRow, confirmRow, memo, taken, again,
                 fails, restarts>>

(***************************************************************************)
(* fzn_node_revocations_load: the rows admitted again in the order of      *)
(* their slots, into a fresh store. A row that will not admit stops the    *)
(* load and the node does not start, with two exceptions: an admin past    *)
(* the admins' table, and a vote superseded by one already held.           *)
(***************************************************************************)
IssuedRows(n) == SetToSeq({issuedRow[n][t] : t \in Targets} \ {0})
Mut_VoteRows(n) ==
  SetToSeq({i \in {voteRow[n][m][t] : m \in Nodes, t \in Targets} \ {0} :
              minted[i].kind = "revocation"})
VoteRows(n) == SetToSeq({voteRow[n][m][t] : m \in Nodes, t \in Targets} \ {0})

Walked(w, a, passed) == [s |-> a.s, ok |-> w.ok /\ (a.err = "OK" \/ passed)]

IssuedWalked(w, i) ==
  LET a == Admit(w.s, minted[i], ChainOf[minted[i].issuer], Root)
  IN Walked(w, a, ~Waits(a) /\ a.err = "STORE_FULL")

Mut_VoteWalked(w, i) == IssuedWalked(w, i)

VoteWalked(w, i) ==
  LET a == Admit(w.s, minted[i], ChainOf[minted[i].issuer], Root)
  IN Walked(w, a, IF a.err = "STORE_FULL" THEN ~Waits(a) ELSE Held(w.s, minted[i]) # {})

ConfirmWalked(w, c) ==
  LET a == ConfirmAdmit(w.s, c, ChainOf[c.confirmer], Root)
  IN Walked(w, a, ~Waits(a) /\ a.err = "STORE_FULL")

Loaded(n) ==
  LET issued == FoldLeft(IssuedWalked, [s |-> Fresh(store[n].quorum), ok |-> TRUE], IssuedRows(n))
      votes  == FoldLeft(VoteWalked, issued, VoteRows(n))
  IN FoldLeft(ConfirmWalked, votes, SetToSeq(confirmRow[n]))

(* What a node knows of what was published, by its journal or as its author. *)
Heard(n) == taken[n] \cup {i \in DOMAIN minted : minted[i].issuer = n}

(* The journal comes up with nothing marked applied, so every record of it   *)
(* is applied once more, over the store the rows gave back.                  *)
Restart(n) ==
  /\ restarts < Estate.maxRestart /\ Loaded(n).ok
  /\ restarts' = restarts + 1
  /\ store' = [store EXCEPT ![n] = Loaded(n).s]
  /\ memo' = [memo EXCEPT ![n] = [w \in Watched |-> 0]]
  /\ again' = IF Estate.inOrder /\ n \in Estate.learners
              THEN [again EXCEPT ![n] = Heard(n) \cap public] ELSE again
  /\ UNCHANGED <<minted, public, seconded, issuedRow, voteRow, confirmRow, taken, fails>>

Covers(n, w) == CoversChain(store[n], w, w[1].cap)

(* fzn_chain_memo_allows, and fzn_admit's verification when it does not: a   *)
(* chain that verifies is remembered under the store's generation.           *)
Remembered(n, w) == memo[n][w] # 0 /\ memo[n][w] = store[n].generation

Authorise(n, w) ==
  /\ Estate.memo /\ ~Remembered(n, w) /\ ~Covers(n, w)
  /\ memo' = [memo EXCEPT ![n][w] = store[n].generation]
  /\ UNCHANGED <<minted, public, seconded, store, issuedRow, voteRow, confirmRow, taken, again,
                 fails, restarts>>

Next ==
  \E n \in Nodes :
    \/ n \in Estate.issuers /\ \E t \in Targets, cut \in Estate.cuts, saved, logged \in BOOLEAN :
         Revoke(n, t, cut, saved, logged)
    \/ n \in Estate.issuers /\ \E t \in Targets, saved, logged \in BOOLEAN :
         Unrevoke(n, t, saved, logged)
    \/ n \in Estate.learners /\ \E i \in public, saved \in BOOLEAN : Take(n, i, saved)
    \/ \E c \in Estate.seconds, saved \in BOOLEAN : Confirm(n, c, saved)
    \/ n \in Estate.learners /\ \E c \in seconded, saved \in BOOLEAN : TakeConfirm(n, c, saved)
    \/ n \in Estate.learners /\ \E k \in Estate.quorums : SetEstateK(n, k)
    \/ Restart(n)
    \/ \E w \in Watched : Authorise(n, w)

Spec == Init /\ [][Next /\ UNCHANGED env]_<<vars, env>>
-----------------------------------------------------------------------------
Ids == 0..Estate.maxMint
Entries == [issuer : Nodes, cap : {t.cap : t \in Targets}, grantee : {t.grantee : t \in Targets},
            id : Ids, held : Ids, epoch : 0..EpochTop, withdrawn : BOOLEAN, cut : Estate.cuts]

(* Types, and the bounds the tables keep: no table grows past its capacity,  *)
(* and a triple has one entry (find_entry).                                  *)
TypeOK ==
  /\ public \subseteq 1..Len(minted)
  /\ \A n \in Nodes :
       /\ store[n].entries \subseteq Entries
       /\ Cardinality(store[n].entries) <= Estate.capacity
       /\ Len(store[n].admins) <= Estate.adminCapacity
       /\ Cardinality(store[n].confirms) <= Estate.confirmCapacity
       /\ \A e, f \in store[n].entries : Same(e, f) => e = f
       /\ \A a, b \in DOMAIN store[n].admins :
            store[n].admins[a].key = store[n].admins[b].key => a = b
       /\ issuedRow[n] \in [Targets -> 0..Len(minted)]
       /\ voteRow[n] \in [Nodes -> [Targets -> 0..Len(minted)]]
       /\ taken[n] \subseteq 1..Len(minted) /\ again[n] \subseteq Heard(n)
  /\ fails \in 0..Estate.maxFail /\ restarts \in 0..Estate.maxRestart

(* A remembered verdict is never older than the answer: while the generation *)
(* is the one it was recorded under, verifying again would allow the chain   *)
(* (memo.h: "invalidates every entry at once the moment any revocation       *)
(* lands").                                                                  *)
MemoHonest == \A n \in Nodes : \A w \in Watched : Remembered(n, w) => ~Covers(n, w)

(* What a node has been through of an issuer's records on a target, and the  *)
(* latest the issuer published.                                              *)
On(m, t, ids) == {i \in ids : minted[i].issuer = m /\ minted[i].cap = t.cap
                              /\ minted[i].grantee = t.grantee}
Seen(n, m, t) == On(m, t, Heard(n))
Latest(m, t) == Max({0} \cup On(m, t, public))

(* A node that has been through an issuer's latest record, a revocation,     *)
(* holds that issuer's vote against the target (revocation.c: "A revocation  *)
(* store errs revoked").                                                     *)
LatestStands ==
  \A n, m \in Nodes : \A t \in Targets :
    LET i == Latest(m, t)
    IN i \in taken[n] /\ minted[i].kind = "revocation"
         => \E e \in store[n].entries : Same(e, minted[i]) /\ ~e.withdrawn

(* Records arrive as a journal has them, and every save succeeds. *)
Journalled == Estate.inOrder /\ fails = 0

(* With the journal's delivery a node holds exactly the latest record of     *)
(* each other issuer it has been through: live or undone, under its id and   *)
(* epoch. After a restart the journal is applied from its beginning over     *)
(* what the rows gave back: a vote in force never lapses meanwhile, while an *)
(* undone one is owed only once all of it was applied again (node/apply.h:   *)
(* "applies everything again and changes nothing").                          *)
HoldsLatest ==
  Journalled => \A n, m \in Nodes : \A t \in Targets :
    n # m /\ Seen(n, m, t) # {} =>
      LET r == minted[Max(Seen(n, m, t))]
      IN again[n] = {} \/ r.kind = "revocation" =>
           /\ HoldsExactly(store[n], r)
           /\ Entry(store[n], r).epoch = r.epoch /\ Entry(store[n], r).held = r.id

(* A restart brings back every vote learned from another node as the store   *)
(* held it, live or undone, under its id and epoch, and none besides.        *)
Learned(n) == {[issuer |-> e.issuer, cap |-> e.cap, grantee |-> e.grantee, id |-> e.id,
                epoch |-> e.epoch, withdrawn |-> e.withdrawn] :
                 e \in {x \in store[n].entries : x.issuer # n}}
RestartKeepsLearned ==
  [][\A n \in Nodes : fails = 0 /\ restarts' # restarts => Learned(n)' = Learned(n)]_vars

(* A node can always be started again: every row it saved admits, or is one  *)
(* the load passes over (the daemon ends when fzn_node_revocations_load      *)
(* refuses).                                                                 *)
AlwaysLoads == \A n \in Nodes : Loaded(n).ok

(* After a restart a node's store says of its own votes what its issued rows *)
(* say (node/revoke.h: "the latest record is what a restart must             *)
(* re-establish").                                                           *)
RestartHoldsIssued ==
  [][\A n \in Nodes : \A t \in Targets :
       restarts' # restarts /\ HasRow(n, t) /\ HoldsExactly(store[n], Previous(n, t))
         => HoldsExactly(store'[n], Previous(n, t))]_vars

(***************************************************************************)
(* Quorum, asked of the history of votes a node has been through rather    *)
(* than of the entries its store keeps.                                    *)
(***************************************************************************)
VotedIn(n, t, e) ==
  {m \in Nodes : \E i \in Seen(n, m, t) : minted[i].kind = "revocation" /\ minted[i].epoch = e}
LeftIn(n, t, e) ==
  {m \in Nodes : Seen(n, m, t) # {} /\
     LET r == minted[Max(Seen(n, m, t))]
     IN r.epoch > e \/ (r.epoch = e /\ r.kind = "withdrawal")}
InForce(n, t) ==
  {m \in Nodes : Seen(n, m, t) # {} /\ minted[Max(Seen(n, m, t))].kind = "revocation"}
(* Only admins vote, and the root named each of them. *)
PlainAdmins ==
  Journalled /\ Root \notin Estate.issuers /\ \A m \in Nodes : Len(ChainOf[m]) <= 1
Judged(n, w) == [cap |-> w[1].cap, grantee |-> w[Len(w)].grantee]

(* A device k admins revoked in one epoch stays revoked until k issuers have *)
(* minted withdrawals: no lone admin restores it (the latch of judge_hop).   *)
QuorumToRestore ==
  PlainAdmins => \A n \in Nodes : \A w \in Watched : \A e \in 0..EpochTop :
    LET t == Judged(n, w)
        undone == {m \in Nodes : \E i \in On(m, t, 1..Len(minted)) :
                                   minted[i].kind = "withdrawal" /\ minted[i].epoch >= e}
    IN again[n] = {} /\ Cardinality(VotedIn(n, t, e)) >= Quorum(store[n]) /\ ~Covers(n, w)
         => Cardinality(undone) >= Quorum(store[n])

(* A device is revoked only by k issuers: k votes in force, or k cast in an  *)
(* epoch that fewer than k have left. A vote cast after k withdrew counts    *)
(* from one again (sec 399).                                                 *)
QuorumToRevoke ==
  PlainAdmins => \A n \in Nodes : \A w \in Watched :
    LET t == Judged(n, w)
        q == Quorum(store[n])
    IN again[n] = {} /\ Covers(n, w) =>
         \/ Cardinality(InForce(n, t)) >= q
         \/ \E e \in 0..EpochTop : /\ Cardinality(VotedIn(n, t, e)) >= q
                                   /\ Cardinality(LeftIn(n, t, e)) < q

(* Both ways it takes a quorum, and never less -- at a node that has been    *)
(* through its journal once more since it was started.                       *)
QuorumBothWays == QuorumToRevoke /\ QuorumToRestore

(* Which admins are confirmed is the least set the rule allows, whatever the *)
(* order the table was filled in: a hop an admin granted needs the root, or  *)
(* k - 1 others who are confirmed already, so admins cannot confirm each     *)
(* other in a circle (confirm_admins goes round until a round adds nobody).  *)
Closed(s, X) ==
  \A ad \in Range(s.admins) :
    (\A i \in 2..Len(ad.chain) :
       \/ ad.chain[i].grantor = Root
       \/ [confirmer |-> Root, grant |-> ad.chain[i]] \in s.confirms
       \/ Cardinality({x \in X \ {ad.chain[i].grantor} :
                         [confirmer |-> x, grant |-> ad.chain[i]] \in s.confirms})
            >= Quorum(s) - 1)
    => ad.key \in X
ConfirmedLeast ==
  \A n \in Nodes :
    LET s == store[n]
    IN ConfirmAdmins(s, AdminKeys(s)) =
         {x \in AdminKeys(s) : \A X \in SUBSET AdminKeys(s) : Closed(s, X) => x \in X}

(* An admin the root has revoked revokes nobody: a device is revoked only if *)
(* somebody voted whom no root's vote in force is against (the second pass   *)
(* of standing_admins).                                                      *)
Silenced(n, m) ==
  \E e \in store[n].entries : /\ e.issuer = Root /\ ~e.withdrawn
                              /\ e.cap = AdminCap /\ e.grantee = m
RevokedVotesNothing ==
  fails = 0 => \A n \in Nodes : \A w \in Watched :
    Covers(n, w) => \E m \in Nodes : Seen(n, m, Judged(n, w)) # {} /\ ~Silenced(n, m)
=============================================================================
