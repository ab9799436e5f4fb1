---------------------------- MODULE MCFileFetch ----------------------------
(* Instances of FileFetch. *)
EXTENDS FileFetch

Plain == [leaves |-> 3, peers |-> 2, window |-> 2, span |-> 2, budget |-> 4, every |-> 2, stale |-> 1,
          honest |-> {}, short |-> FALSE, full |-> FALSE, steps |-> FALSE, puts |-> FALSE,
          removes |-> FALSE, cuts |-> 0, damage |-> 0, treeDamage |-> {}]

(* Five leaves from one peer that answers and one that may do anything, short *)
(* replies, a budget that ends a fetch early and a power cut.                 *)
Fair == [Plain EXCEPT !.leaves = 5, !.span = 4, !.honest = {1}, !.short = TRUE, !.budget = 3,
                      !.cuts = 1]
(* One peer that answers among three. *)
Three == [Fair EXCEPT !.leaves = 4, !.peers = 3, !.budget = 2]
(* Nobody to rely on, late answers in slots used again, and fetches cut short. *)
Wild == [Plain EXCEPT !.steps = TRUE]
(* A disk that refuses, with a power cut, damage and removals. *)
Refusing == [Plain EXCEPT !.leaves = 2, !.full = TRUE, !.removes = TRUE, !.cuts = 1, !.peers = 1,
                          !.every = 1, !.damage = 1, !.puts = TRUE, !.treeDamage = {"low"}]
(* A disk that damages leaves and the tree's leaf hashes, checked and repaired. *)
Damaged == [Plain EXCEPT !.leaves = 2, !.peers = 1, !.honest = {1}, !.damage = 2, !.cuts = 1,
                         !.puts = TRUE, !.removes = TRUE, !.treeDamage = {"low"}]
(* Damage anywhere in the tree. *)
DamagedAbove == [Damaged EXCEPT !.leaves = 3, !.damage = 1, !.cuts = 0, !.treeDamage = {"low", "high"}]

(* One leaf at a time, so that one peer is out for two of them. *)
Slow == [Plain EXCEPT !.leaves = 7, !.span = 1, !.honest = {1}, !.stale = 0, !.budget = 7,
                      !.every = 3]

AllEnvs == [fair |-> Fair, three |-> Three, wild |-> Wild, refusing |-> Refusing, slow |-> Slow, damaged |-> Damaged]
TreeEnvs == [above |-> DamagedAbove]
=============================================================================
