------------------------- MODULE MCJournalExchange -------------------------
(***************************************************************************)
(* Two hosts: h2 converses with h1, which holds the key.                   *)
(***************************************************************************)
EXTENDS JournalExchange

CONSTANTS h1, h2, zero

PairTalks == {<<h2, h1>>}

(* A disk that takes everything, and hosts that die anywhere. *)
Crashes == [writers |-> {h1}, frail |-> {h1, h2}, reach |-> TRUE, estate |-> TRUE, page |-> 1,
            bridge |-> 2, seqs |-> 3, bodies |-> 2, crash |-> 2, disk |-> 0, ram |-> 0, row |-> 0]
(* Record files that refuse writes and cuts: the writer's, or those of the  *)
(* host that follows it, where RAM may refuse a row as well.                *)
BadDisk == [Crashes EXCEPT !.frail = {h1}, !.seqs = 2, !.crash = 1, !.disk = 1]
FollowerBadDisk == [BadDisk EXCEPT !.frail = {h2}, !.ram = 1]
(* The writer's files refuse twice, and it dies twice. *)
WorseDisk == [Crashes EXCEPT !.frail = {h1}, !.seqs = 2, !.bodies = 1, !.disk = 2]
(* Kept rows that wait in RAM over record files that take everything. *)
RowsWait == [Crashes EXCEPT !.seqs = 2, !.crash = 1, !.row = 1]
(* The key copied to both hosts. *)
TwoWriters == [Crashes EXCEPT !.writers = {h1, h2}, !.seqs = 2, !.crash = 0]
(* A stream other than the estate's: the writer sheds rows from RAM, or the *)
(* host that follows it does, and its kept rows wait there.                 *)
Sheds == [BadDisk EXCEPT !.ram = 1, !.estate = FALSE, !.page = 2]
FollowerSheds == [Sheds EXCEPT !.frail = {h2}, !.row = 1]
(* The writer alone, dying twice, with more to sign: what it sheds may lie  *)
(* over what the file has from before.                                      *)
Stale == [Sheds EXCEPT !.reach = FALSE, !.seqs = 3, !.crash = 2, !.disk = 2, !.ram = 0]

AllEnvs == {Crashes, BadDisk, FollowerBadDisk, WorseDisk, RowsWait, TwoWriters, Sheds,
            FollowerSheds, Stale}
OneCrash == {[Crashes EXCEPT !.bodies = 1, !.crash = 1, !.bridge = 3]}
===========================================================================
