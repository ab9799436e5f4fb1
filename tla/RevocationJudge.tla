-------------------------- MODULE RevocationJudge --------------------------
(***************************************************************************)
(* How a revocation store answers: the rule of chain/revocation.c that     *)
(* says which hops of a chain are revoked, from the set of votes held.     *)
(*                                                                         *)
(* A store is a record                                                     *)
(*   entries   at most one vote per (issuer, capability, grantee): the     *)
(*             latest revocation's id, the record held, its epoch and cut, *)
(*             and whether it was withdrawn;                               *)
(*   admins    the admins admitted, in arrival order, each with the chain  *)
(*             of hops it stands on;                                       *)
(*   confirms  who confirmed which hop of an admin's chain;                *)
(*   quorum    the estate's k;                                             *)
(*   roots     the root set's members, {} for a store asked about one root *)
(*             only, and void, the acts the root set no longer counts;     *)
(*   generation, capacity, adminCapacity, confirmCapacity.                 *)
(* A hop is a record [grantor, grantee, cap]; its hash names it, so the    *)
(* hop itself stands for the hash. An entry's epoch is 0..EpochTop, where  *)
(* EpochTop plays UINT64_MAX. A line (cut) is a position in the revoked    *)
(* device's act log and 0 is no line at all.                               *)
(***************************************************************************)
EXTENDS Integers, Sequences, FiniteSets, FiniteSetsExt, SequencesExt

CONSTANTS AdminCap,    \* the capability whose holders vote
          EpochTop     \* stands for UINT64_MAX

ASSUME EpochAssumption == EpochTop \in Nat \ {0}

Quorum(s) == IF s.quorum = 0 THEN 1 ELSE s.quorum

AdminKeys(s) == {s.admins[a].key : a \in DOMAIN s.admins}

(* fzn_root_ops_t.member and .counts, as the estate's root set answers. *)
Member(s, k) == k \in s.roots
RootCounts(s, k, act) == <<k, act>> \notin s.void

RootEntry(s, e, root) ==
  IF s.roots # {}
  THEN Member(s, e.issuer) /\ RootCounts(s, e.issuer, e.held)
  ELSE e.issuer = root

(***************************************************************************)
(* A question about one hop: the keys that granted up to it, whom it names,*)
(* under which capability, which admins stand, whether any issuer is heard *)
(* (as when the next epoch is asked for), and the floor a root's undo sets *)
(* (-1 for none).                                                          *)
(***************************************************************************)
Question(grantors, grantee, cap, ok, any) ==
  [grantors |-> grantors, grantee |-> grantee, cap |-> cap, ok |-> ok, any |-> any,
   floor |-> -1]

Counts(s, e, h) ==
  /\ e.cap = h.cap /\ e.grantee = h.grantee
  /\ e.epoch > h.floor
  /\ LET admin == e.issuer \in AdminKeys(s)
     IN IF h.any THEN Member(s, e.issuer) \/ ~admin \/ e.issuer \in h.ok
        ELSE IF Member(s, e.issuer) THEN RootEntry(s, e, e.issuer)
        ELSE e.issuer \in h.grantors \/ (admin /\ e.issuer \in h.ok)

Votes(s, h) == {e \in s.entries : Counts(s, e, h)}
Live(vs) == {e \in vs : ~e.withdrawn}

EpochClosed(s, votes, epoch) ==
  Cardinality({e \in votes :
                 e.epoch > epoch \/ (e.epoch = epoch /\ e.withdrawn)}) >= Quorum(s)

OpenEpoch(s, h) ==
  LET votes == Votes(s, h)
      first == h.floor + 1
      named == {e.epoch : e \in votes}
      asked == {first} \cup named \cup {n + 1 : n \in named \ {EpochTop}}
      open  == {c \in asked : c >= first /\ ~EpochClosed(s, votes, c)}
  IN IF h.floor = EpochTop \/ open = {} THEN EpochTop ELSE Min(open)

(* The root's own votes: a live one settles the hop, an undone one sets the  *)
(* floor under which no vote is heard. This is one root's pass: with several *)
(* in the set the code raises the floor as it goes, so that a vote below it  *)
(* later in the table is not heard, and its answer depends on their order.   *)
RootPass(s, h, root) ==
  LET own == {e \in Votes(s, h) : RootEntry(s, e, root)}
  IN [live  |-> Live(own) # {},
      floor |-> Max({-1} \cup {e.epoch : e \in own \ Live(own)})]

Mut_JudgeHop(s, h0, root) ==
  LET r == RootPass(s, h0, root)
  IN [verdict |-> IF r.live THEN "root"
                  ELSE IF Cardinality(Live(Votes(s, [h0 EXCEPT !.floor = r.floor]))) >= Quorum(s)
                  THEN "live" ELSE "free",
      epoch |-> 0]

JudgeHop(s, h0, root) ==
  LET r     == RootPass(s, h0, root)
      h     == [h0 EXCEPT !.floor = r.floor]
      vs    == Votes(s, h)
      epoch == OpenEpoch(s, h)
      cast  == {e \in vs : e.epoch = epoch}
      left  == cast \ Live(cast)
      q     == Quorum(s)
  IN IF r.live THEN [verdict |-> "root", epoch |-> 0]
     ELSE IF Cardinality(Live(vs)) >= q THEN [verdict |-> "live", epoch |-> 0]
     ELSE IF Cardinality(vs) < q THEN [verdict |-> "free", epoch |-> 0]
     ELSE IF Cardinality(cast) >= q /\ Cardinality(left) < q
          THEN [verdict |-> "latched", epoch |-> epoch]
     ELSE [verdict |-> "free", epoch |-> 0]

Grantors(chain, i) == {chain[j].grantor : j \in 1..i}

JudgeLinks(s, chain, cap, ok) ==
  [i \in DOMAIN chain |->
     JudgeHop(s, Question(Grantors(chain, i), chain[i].grantee, cap, ok, FALSE),
              chain[1].grantor).verdict # "free"]

(***************************************************************************)
(* Whose grant of admin is confirmed: the table is gone through in its     *)
(* order, round after round, until a round adds nobody.                    *)
(***************************************************************************)
RootConfirms(s, k, first, act) ==
  IF s.roots # {} THEN Member(s, k) /\ RootCounts(s, k, act) ELSE k = first

AdminRooted(s, ad) == s.roots = {} \/ RootCounts(s, ad.chain[1].grantor, ad.chain[1])

Mut_HopConfirmed(s, ad, i, confirmed, eligible) ==
  LET hop == ad.chain[i]
      cs  == {c \in s.confirms : c.grant = hop}
  IN \/ hop.grantor = ad.chain[1].grantor
     \/ Cardinality({c.confirmer : c \in cs} \cap eligible) >= Quorum(s) - 1

HopConfirmed(s, ad, i, confirmed, eligible) ==
  LET hop == ad.chain[i]
      cs  == {c \in s.confirms : c.grant = hop /\ c.confirmer # hop.grantor}
  IN \/ hop.grantor = ad.chain[1].grantor \/ Member(s, hop.grantor)
     \/ \E c \in cs : RootConfirms(s, c.confirmer, ad.chain[1].grantor, c)
     \/ Cardinality({c.confirmer : c \in cs} \cap confirmed \cap eligible) >= Quorum(s) - 1

AdminConfirmed(s, ad, confirmed, eligible) ==
  /\ AdminRooted(s, ad)
  /\ \A i \in 2..Len(ad.chain) : HopConfirmed(s, ad, i, confirmed, eligible)

ConfirmRound(s, eligible, confirmed) ==
  FoldLeft(LAMBDA c, ad : IF AdminConfirmed(s, ad, c, eligible) THEN c \cup {ad.key} ELSE c,
           confirmed, s.admins)

ConfirmAdmins(s, eligible) ==
  LET after[n \in 0..Len(s.admins)] ==
        IF n = 0 THEN {} ELSE ConfirmRound(s, eligible, after[n - 1])
  IN IF Quorum(s) = 1 THEN {ad.key : ad \in {a \in Range(s.admins) : AdminRooted(s, a)}}
     ELSE after[Len(s.admins)]

Mut_StandingAdmins(s) == ConfirmAdmins(s, AdminKeys(s))

StandingAdmins(s) ==
  LET first == ConfirmAdmins(s, AdminKeys(s))
      own(ad) == JudgeLinks(s, ad.chain, AdminCap, first)
      unrevoked == {ad.key : ad \in {a \in Range(s.admins) :
                                       \A i \in DOMAIN a.chain : ~own(a)[i]}}
      ok == first \cap unrevoked
  IN ok \cap ConfirmAdmins(s, ok)

(* fzn_revocation_covers_links and _covers_chain: some hop is revoked. *)
CoversChain(s, chain, cap) ==
  LET links == JudgeLinks(s, chain, cap, StandingAdmins(s))
  IN \E i \in DOMAIN chain : links[i]

(* The epoch a vote cast now belongs to. *)
CurrentEpoch(s, root, cap, grantee) ==
  LET h == Question({}, grantee, cap, StandingAdmins(s), TRUE)
  IN OpenEpoch(s, [h EXCEPT !.floor = RootPass(s, h, root).floor])

(* Whether an act the i-th grantee logged stands although its hop is revoked: *)
(* every vote that binds must draw its line at the act or after it.           *)
ActStands(s, chain, cap, i, act) ==
  LET root == chain[1].grantor
      h0   == Question(Grantors(chain, i), chain[i].grantee, cap, StandingAdmins(s), FALSE)
      j    == JudgeHop(s, h0, root)
      vs   == Votes(s, [h0 EXCEPT !.floor = RootPass(s, h0, root).floor])
      bind == {e \in vs : ~e.withdrawn \/ (j.verdict = "latched" /\ e.epoch = j.epoch)}
  IN \/ j.verdict = "free"
     \/ bind # {} /\ \A e \in bind : e.cut # 0 /\ act <= e.cut
=============================================================================
