------------------------------- MODULE Spool -------------------------------
(***************************************************************************)
(* A blob received leaf by leaf: what its files hold (spool/spool.c,       *)
(* spool/spool_file.c and the .len and .tree beside them, node/files.c),   *)
(* which leaves to ask for next (spool/plan.c) and of whom                 *)
(* (spool/transfer.c).                                                     *)
(*                                                                         *)
(* Leaves are 0..n-1. A blob's files are a record                          *)
(*   len     whether the .len is there: the blob is held or wanted;        *)
(*   good    the leaves whose stored bytes hash as the root says;          *)
(*   cached  those of them written since the last fsync;                   *)
(*   bits    the .bits sidecar's bitmap, NoBits when there is no sidecar;  *)
(*   tree    the .tree: "none", "good", "low" when a hash of level 0 is    *)
(*           damaged, "high" when a node above that proofs read is.        *)
(* An operation that touches several files answers the sequence of states  *)
(* the disk goes through, so that a power cut can fall between any two.    *)
(***************************************************************************)
EXTENDS Integers, Sequences, FiniteSets, FiniteSetsExt, SequencesExt

CONSTANTS Candidates,   \* how many ranges a plan holds, CANDIDATES
          NoBits        \* the absence of a sidecar

Leaves(n) == 0..(n - 1)
SpanOf(first, count) == first..(first + count - 1)
NoFiles == [len |-> FALSE, good |-> {}, cached |-> {}, bits |-> NoBits, tree |-> "none"]

(***************************************************************************)
(* The spans a tree of n leaves has a node for.                            *)
(***************************************************************************)
SplitAt(n) == Max({k \in 1..(n - 1) : \E j \in 0..n : k = 2^j})

LargestAt(leafCount, first, maxCount) ==
  LET descend[lo \in Leaves(leafCount), n \in 1..leafCount] ==
        IF lo = first /\ n <= maxCount THEN n
        ELSE IF n <= 1 THEN 0
        ELSE IF first < lo + SplitAt(n) THEN descend[lo, SplitAt(n)]
        ELSE descend[lo + SplitAt(n), n - SplitAt(n)]
  IN IF first >= leafCount \/ maxCount = 0 THEN 0 ELSE descend[0, leafCount]

RunAt(n, present, i) ==
  Min({j \in (i + 1)..n : j = n \/ j \in present}) - i

(* fzn_spool_plan_want from leaf 0, which is where a fetch asks from: each   *)
(* run of missing leaves, cut into the largest spans that the limit allows.  *)
PlanWant(n, present, limit) ==
  LET take(i) == LargestAt(n, i, Min({RunAt(n, present, i), limit}))
      plan[i \in 0..n] ==
        IF i = n THEN <<>>
        ELSE IF i \in present THEN plan[i + 1]
        ELSE <<[first |-> i, count |-> take(i)]>> \o plan[i + take(i)]
  IN SubSeq(plan[0], 1, Min({Candidates, Len(plan[0])}))

(***************************************************************************)
(* Files. Place writes the leaves of a proved span that are missing, the   *)
(* first `writes` of them when the disk refuses the next.                  *)
(***************************************************************************)
Complete(n, present) == present = Leaves(n)

Placed(present, first, count, writes) ==
  {i \in SpanOf(first, count) : i \notin present /\ i < first + writes}

Write(d, ls) == [d EXCEPT !.good = @ \cup ls, !.cached = @ \cup ls]
Sync(d) == [d EXCEPT !.cached = {}]

Mut_Checkpoint(d, present) ==
  <<[d EXCEPT !.bits = present], [d EXCEPT !.bits = present, !.cached = {}]>>

(* fzn_spool_file_checkpoint: the data reaches the disk before the sidecar   *)
(* that speaks for it is renamed into place.                                 *)
Checkpoint(d, present) == <<Sync(d), [Sync(d) EXCEPT !.bits = present]>>

(* fzn_spool_file_resume: a sidecar missing or not this blob's is no leaf.   *)
Resume(d) == IF d.bits = NoBits THEN {} ELSE d.bits

(* open_whole: held is every file there and every bit set. *)
Whole(n, d) == d.len /\ d.tree # "none" /\ d.bits = Leaves(n)

(* build_tree: folded from the leaves read back, kept when it is the root's. *)
Folds(n, d) == d.good = Leaves(n)
BuildTree(n, d) == IF Folds(n, d) THEN <<[d EXCEPT !.tree = "good"]>> ELSE <<>>

(* A reply to any want that its asker can verify. *)
Servable(n, d) == Folds(n, d) /\ d.tree = "good"

(* fzn_node_files_remove: the sidecar first, then the data, the tree and the *)
(* length.                                                                   *)
RemoveFiles(d) ==
  <<[d EXCEPT !.bits = NoBits], [NoFiles EXCEPT !.len = d.len, !.tree = d.tree],
    [NoFiles EXCEPT !.len = d.len], NoFiles>>

(* fzn_node_files_put: made under work names and synced, then given their    *)
(* names, the sidecar last.                                                  *)
PutFiles(n) ==
  <<[NoFiles EXCEPT !.len = TRUE], [NoFiles EXCEPT !.len = TRUE, !.tree = "good"],
    [len |-> TRUE, tree |-> "good", good |-> Leaves(n), cached |-> {}, bits |-> NoBits],
    [len |-> TRUE, tree |-> "good", good |-> Leaves(n), cached |-> {}, bits |-> Leaves(n)]>>

Mut_VerifyFiles(n, d) == IF Folds(n, d) THEN <<>> ELSE Checkpoint(d, d.good)

(* fzn_node_files_verify of a blob held whole: the leaves read back against  *)
(* the root, and against the tree's level 0.                                 *)
VerifyFiles(n, d) ==
  IF Folds(n, d) THEN (IF d.tree = "low" THEN BuildTree(n, d) ELSE <<>>)
  ELSE IF d.tree # "low" THEN Checkpoint(d, d.bits \cap d.good)
  ELSE <<[d EXCEPT !.tree = "none"]>> \o Checkpoint([d EXCEPT !.tree = "none"], {})

(***************************************************************************)
(* The transfer: at most `window` ranges out at a time, each in a slot.    *)
(***************************************************************************)
Free == [live |-> FALSE]
Live(slots) == {i \in DOMAIN slots : slots[i].live}
FirstFree(slots) == Min({i \in DOMAIN slots : ~slots[i].live})

Overlaps(x, y) == x.first < y.first + y.count /\ y.first < x.first + x.count
Pending(assigns, r) == \E i \in Live(assigns) : Overlaps(r, assigns[i])

OnSuccess(t) ==
  IF t.successes + 1 < t.window THEN [t EXCEPT !.successes = @ + 1]
  ELSE [t EXCEPT !.successes = 0,
                 !.window = IF @ < Len(t.assigns) THEN @ + 1 ELSE @]
Mut_OnLoss(t) == [t EXCEPT !.window = @ \div 2, !.successes = 0]

OnLoss(t) == [t EXCEPT !.window = Max({1, @ \div 2}), !.successes = 0]

Opened(cap) ==
  [assigns |-> [i \in 1..cap |-> Free], inFlight |-> 0, window |-> 1, successes |-> 0]

AtMostOne(s) == IF s = <<>> THEN s ELSE <<Head(s)>>

Mut_NextWant(n, t, present, limit) ==
  IF t.inFlight >= t.window THEN <<>> ELSE AtMostOne(PlanWant(n, present, limit))

(* fzn_transfer_next_want: the range to ask for, as a sequence of at most one. *)
NextWant(n, t, present, limit) ==
  IF t.inFlight >= t.window THEN <<>>
  ELSE AtMostOne(SelectSeq(PlanWant(n, present, limit), LAMBDA r : ~Pending(t.assigns, r)))

Assign(t, peer, r) ==
  [t EXCEPT !.assigns[FirstFree(t.assigns)] =
              [live |-> TRUE, peer |-> peer, first |-> r.first, count |-> r.count],
            !.inFlight = @ + 1]

SlotOf(t, peer, r) ==
  {i \in Live(t.assigns) : /\ t.assigns[i].peer = peer
                           /\ t.assigns[i].first = r.first /\ t.assigns[i].count = r.count}
Released(t, slots) ==
  [t EXCEPT !.assigns = [i \in DOMAIN t.assigns |-> IF i \in slots THEN Free ELSE t.assigns[i]],
            !.inFlight = @ - Cardinality(slots)]

Delivered(t, peer, r, present) ==
  IF SlotOf(t, peer, r) = {} \/ ~(SpanOf(r.first, r.count) \subseteq present) THEN t
  ELSE OnSuccess(Released(t, {Min(SlotOf(t, peer, r))}))

Failed(t, peer, r) ==
  IF SlotOf(t, peer, r) = {} THEN t ELSE OnLoss(Released(t, {Min(SlotOf(t, peer, r))}))

(* fzn_transfer_expire, told which live slots are past their deadline. *)
Expired(t, late) == IF late = {} THEN t ELSE OnLoss(Released(t, late))
=============================================================================
