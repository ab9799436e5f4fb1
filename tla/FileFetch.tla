----------------------------- MODULE FileFetch -----------------------------
(***************************************************************************)
(* A node's file: wanted, fetched from several peers at once, checked at   *)
(* rest, removed (node/files.c), as the daemon's event loop drives it      *)
(* (fetch_files and scrub_files of node/daemon.c) over asks that are       *)
(* answered once each or time out (node/asks.c).                           *)
(*                                                                         *)
(* disk   the blob's files (Spool);                                        *)
(* f      fzn_node_files_fetching_t, with the spool and the transfer in it;*)
(* asks   the requests out, each with the tag it is answered under;        *)
(* said   what the last step answered, when it was a check at rest;        *)
(* hurt   the leaves whose stored bytes were damaged since they were last  *)
(*        placed: the disk's doing, which no code sees before a check;     *)
(* left   how many power cuts and damages are still to come.               *)
(* A generation only tells the occupants of one slot apart, so the model   *)
(* reuses the ones no request out carries. Deadlines pass in any order.    *)
(***************************************************************************)
EXTENDS Spool

CONSTANTS Envs,      \* the environments, by name
          MaxPeers   \* no environment has more peers

VARIABLES disk, f, asks, said, hurt, left, env

vars == <<disk, f, asks, said, hurt, left, env>>

E == Envs[env]
N == E.leaves
Peers == 1..E.peers

NoFetch ==
  [active |-> FALSE, phase |-> 2, busy |-> FALSE, opened |-> FALSE, ok |-> FALSE, present |-> {},
   asked |-> [k \in Peers |-> 0], alive |-> {}, livePeers |-> 0,
   failures |-> [k \in Peers |-> 0], span |-> [k \in Peers |-> E.span], turn |-> 0,
   placed |-> 0, since |-> 0, t |-> Opened(E.window),
   out |-> [i \in 1..E.window |-> Free], nOut |-> 0]

Init ==
  /\ env \in DOMAIN Envs
  /\ disk = NoFiles /\ f = NoFetch /\ asks = {} /\ said = "none" /\ hurt = {}
  /\ left = [cuts |-> E.cuts, damage |-> E.damage]

(***************************************************************************)
(* A handler that writes ends in the last state of its path, or a power    *)
(* cut ends the process in any of them, keeping what was synced and any    *)
(* part of what was not.                                                   *)
(***************************************************************************)
PowerCut(path) ==
  /\ left.cuts > 0
  /\ \E i \in DOMAIN path : \E lost \in SUBSET path[i].cached :
       disk' = [path[i] EXCEPT !.good = @ \ lost, !.cached = {}]
  /\ f' = NoFetch /\ asks' = {} /\ said' = "none"
  /\ left' = [left EXCEPT !.cuts = @ - 1]
  /\ hurt' = hurt \ disk'.good

Ends(d, f2, asks2, answer) ==
  /\ disk' = d /\ f' = f2 /\ asks' = asks2 /\ said' = answer
  /\ hurt' = hurt \ d.good
  /\ UNCHANGED left

Does(path, f2, asks2, answer) ==
  \/ \E d \in {Last(<<disk>> \o path)} : Ends(d, f2, asks2, answer)
  \/ PowerCut(path)

Crash == PowerCut(<<disk>>)

(***************************************************************************)
(* The local verbs, each of which stops where the disk first refuses.      *)
(***************************************************************************)
Cuts(n) == IF E.full THEN 0..n ELSE {n}
Opens == IF E.full THEN BOOLEAN ELSE {TRUE}

Tries(path, answer) ==
  \E n \in Cuts(Len(path)) :
    Does(SubSeq(path, 1, n), f, asks, IF n = Len(path) THEN answer ELSE "none")

Want == ~disk.len /\ Tries(<<[disk EXCEPT !.len = TRUE]>>, "none")

PutFile == E.puts /\ disk = NoFiles /\ Tries(PutFiles(N), "none")

RemoveFile == E.removes /\ ~f.busy /\ disk # NoFiles /\ Tries(RemoveFiles(disk), "none")

CheckAnswer(path) ==
  IF path = <<>> \/ Last(path).bits = Leaves(N) THEN "intact" ELSE "dropped"

CheckFile ==
  /\ ~f.busy /\ Whole(N, disk)
  /\ \E path \in {VerifyFiles(N, disk)} : Tries(path, CheckAnswer(path))

(***************************************************************************)
(* What a request that failed costs: first the size of what the peer is    *)
(* asked for, then the peer.                                               *)
(***************************************************************************)
Shrunk(g, k, count) ==
  [g EXCEPT !.span[k] = IF count > 0 /\ @ > count THEN count ELSE @]

Mut_Charge(g, k, silent) ==
  IF silent /\ g.span[k] > 1 THEN [g EXCEPT !.span[k] = @ \div 2]
  ELSE IF g.failures[k] < 2 THEN [g EXCEPT !.failures[k] = @ + 1]
  ELSE [g EXCEPT !.alive = @ \ {k}, !.livePeers = @ - 1]

Charge(g, k, silent) ==
  IF silent /\ g.span[k] > 1 THEN [g EXCEPT !.span[k] = @ \div 2]
  ELSE IF k \notin g.alive THEN g
  ELSE IF g.failures[k] < 2 THEN [g EXCEPT !.failures[k] = @ + 1]
  ELSE [g EXCEPT !.failures[k] = 3, !.alive = @ \ {k}, !.livePeers = @ - 1]

DropOut(g, s) == [g EXCEPT !.out[s] = Free, !.nOut = @ - 1]

StillAssigned(g, s) == SlotOf(g.t, g.out[s].peer, g.out[s]) # {}

(***************************************************************************)
(* fzn_node_files_fetching_begin, as the pump calls it for a wanted file.  *)
(***************************************************************************)
Begin ==
  /\ ~f.active /\ disk.len /\ ~Whole(N, disk)
  /\ f' = [NoFetch EXCEPT !.active = TRUE, !.busy = TRUE, !.phase = 0]
  /\ said' = "none"
  /\ UNCHANGED <<disk, asks, hurt, left>>

(***************************************************************************)
(* fzn_node_files_fetching_next, one call of it.                           *)
(***************************************************************************)
Send(g, a) == f' = g /\ asks' = asks \cup {a}
Quiet(g) == f' = g /\ UNCHANGED asks

AskHolds ==
  /\ f.phase = 0
  /\ \E k \in {Min({p \in Peers : f.asked[p] = 0} \cup {E.peers + 1})} :
       /\ k \in Peers
       /\ Send([f EXCEPT !.asked[k] = 1], [slot |-> 0, gen |-> 0, peer |-> k])

(* start_fetching; a disk that refuses may not open the file. *)
StartFetching(g, opens) ==
  IF g.livePeers = 0 \/ ~opens THEN [g EXCEPT !.phase = 2]
  ELSE [g EXCEPT !.phase = 1, !.opened = TRUE, !.ok = TRUE, !.present = Resume(disk)]

(* The slots whose range ran out of time are charged to their peers. *)
Overdue(g) ==
  FoldLeft(LAMBDA h, s : IF h.out[s].live /\ ~StillAssigned(h, s)
                         THEN DropOut(Charge(Shrunk(h, h.out[s].peer, h.out[s].count),
                                             h.out[s].peer, TRUE), s)
                         ELSE h,
           g, [i \in 1..E.window |-> i])

FreshGen == Min(1..(Cardinality(asks) + 1) \ {a.gen : a \in asks})

NextPeer(g) ==
  Min({j \in 0..(E.peers - 1) : ((j + g.turn) % E.peers) + 1 \in g.alive})

AskRange(g, k, want) ==
  IF want = <<>> THEN Quiet(IF g.nOut = 0 THEN [g EXCEPT !.phase = 2] ELSE g)
  ELSE \E s \in {FirstFree(g.out)} :
       Send([g EXCEPT !.t = Assign(@, k, want[1]), !.nOut = @ + 1, !.turn = (@ + 1) % E.peers,
                      !.out[s] = [live |-> TRUE, peer |-> k, gen |-> FreshGen,
                                  first |-> want[1].first, count |-> want[1].count]],
            [slot |-> s, gen |-> FreshGen, peer |-> k])

AskMore(g) ==
  IF g.placed >= E.budget THEN Quiet(IF g.nOut = 0 THEN [g EXCEPT !.phase = 2] ELSE g)
  ELSE \E k \in {((NextPeer(g) + g.turn) % E.peers) + 1} :
         \E want \in {NextWant(N, g.t, g.present, g.span[k])} : AskRange(g, k, want)

(* An ask runs out with its range, so few outlive theirs: E.stale bounds them. *)
Stale(g) ==
  {a \in asks : a.slot # 0 /\ ~(g.out[a.slot].live /\ g.out[a.slot].gen = a.gen)}
MayBeLate(g) ==
  {i \in Live(g.t.assigns) : /\ g.t.assigns[i].peer \notin E.honest
                             /\ Cardinality(Stale(g)) < E.stale}

(* A fetch of more than 4 * leaves + 1000 calls ends: where E.steps that is  *)
(* after any call, elsewhere it is further off than the fetch is long.       *)
Fetch(g) ==
  \/ (Complete(N, g.present) \/ g.livePeers = 0 \/ E.steps) /\ Quiet([g EXCEPT !.phase = 2])
  \/ /\ ~Complete(N, g.present) /\ g.livePeers > 0
     /\ \E late \in SUBSET MayBeLate(g) :
        \E h \in {IF late = {} THEN g ELSE Overdue([g EXCEPT !.t = Expired(@, late)])} :
          IF h.livePeers = 0 THEN Quiet([h EXCEPT !.phase = 2]) ELSE AskMore(h)

Pump ==
  /\ f.active /\ said' = "none"
  /\ UNCHANGED <<disk, hurt, left>>
  /\ \/ AskHolds
     \/ /\ f.phase = 0 /\ \A k \in Peers : f.asked[k] = 2
        /\ \E opens \in Opens : \E g \in {StartFetching(f, opens)} :
             IF g.phase = 2 THEN Quiet(g) ELSE Fetch(g)
     \/ f.phase = 1 /\ Fetch(f)

(***************************************************************************)
(* fzn_node_files_fetching_take. A reply is "none" when the ask timed out  *)
(* or could not be sent, "bad" when it is not what was asked for or does   *)
(* not verify, or the number of leaves from the range's start that it      *)
(* proves. A full disk lets `writes` leaves through and then refuses, and  *)
(* lets a checkpoint do `steps` of its two.                                *)
(***************************************************************************)
TakeHolds(a) ==
  \E holds \in (IF a.peer \in E.honest THEN {TRUE} ELSE BOOLEAN) :
    /\ f' = IF f.phase # 0 \/ f.asked[a.peer] # 1 THEN f
            ELSE IF ~holds THEN [f EXCEPT !.asked[a.peer] = 2]
            ELSE [f EXCEPT !.asked[a.peer] = 2, !.alive = @ \cup {a.peer},
                           !.livePeers = @ + 1]
    /\ asks' = asks \ {a} /\ said' = "none"
    /\ UNCHANGED <<disk, hurt, left>>

Mut_Current(a) == f.phase = 1 /\ f.out[a.slot].live

(* The reply is to what the slot is out for now, and the transfer still has  *)
(* the range assigned.                                                       *)
Outstanding(a) == f.phase = 1 /\ f.out[a.slot].live /\ f.out[a.slot].gen = a.gen
Current(a) == Outstanding(a) /\ StillAssigned(f, a.slot)

(* What the holder of a range may send back of it: all, or a span that fits. *)
Sendable(r) ==
  {r.count} \cup (IF E.short THEN {LargestAt(N, r.first, c) : c \in 1..(r.count - 1)} ELSE {})
Replies(a) ==
  Sendable(f.out[a.slot]) \cup (IF a.peer \in E.honest THEN {} ELSE {0, -1})
NoReply == 0
BadReply == -1

Silent(g, s) ==
  Charge(DropOut(Shrunk([g EXCEPT !.t = Failed(@, g.out[s].peer, g.out[s])],
                        g.out[s].peer, g.out[s].count), s), g.out[s].peer, TRUE)

Refused(g, s) ==
  Charge([g EXCEPT !.t = Failed(@, g.out[s].peer, g.out[s])], g.out[s].peer, FALSE)

Grown(g, k) ==
  [g EXCEPT !.failures[k] = 0, !.span[k] = Min({2 * @, E.span})]

Accepted(g, s, count) ==
  Grown([g EXCEPT !.placed = @ + count,
                  !.t = IF count = g.out[s].count
                        THEN Delivered(@, g.out[s].peer, g.out[s], g.present)
                        ELSE Failed(@, g.out[s].peer, g.out[s])], g.out[s].peer)

Checkpointed(g, path, steps) ==
  IF g.since + 1 < E.every
  THEN [f |-> [g EXCEPT !.since = @ + 1], path |-> path]
  ELSE [f |-> IF steps = 2 THEN [g EXCEPT !.since = 0]
              ELSE [g EXCEPT !.since = 0, !.ok = FALSE, !.phase = 2],
        path |-> path \o SubSeq(Checkpoint(Last(<<disk>> \o path), g.present), 1, steps)]

Landed(present, ls, steps) ==
  <<Write(disk, ls)>> \o (IF Complete(N, present) /\ steps > 0 THEN <<Sync(Write(disk, ls))>> ELSE <<>>)

Take(g, s, count, writes, steps) ==
  LET ls == Placed(g.present, g.out[s].first, count, writes)
      h  == [g EXCEPT !.present = @ \cup ls]
  IN IF count = BadReply THEN Checkpointed(DropOut(Refused(g, s), s), <<>>, steps)
     ELSE IF writes < count
     THEN Checkpointed(DropOut(Refused(h, s), s), <<Write(disk, ls)>>, steps)
     ELSE Checkpointed(DropOut(Accepted(h, s, count), s), Landed(h.present, ls, steps), steps)

TakeData(a) ==
  \/ /\ ~Current(a)
     /\ f' = IF Outstanding(a) THEN DropOut(f, a.slot) ELSE f
     /\ asks' = asks \ {a} /\ said' = "none"
     /\ UNCHANGED <<disk, hurt, left>>
  \/ /\ Current(a)
     /\ \E count \in Replies(a) :
          IF count = NoReply THEN Ends(disk, Silent(f, a.slot), asks \ {a}, "none")
          ELSE \E writes \in Cuts(count), steps \in Cuts(2) :
               \E r \in {Take(f, a.slot, count, writes, steps)} :
                 Does(r.path, r.f, asks \ {a}, "none")

Answer(k) ==
  \E a \in asks : a.peer = k /\ (IF a.slot = 0 THEN TakeHolds(a) ELSE TakeData(a))

(***************************************************************************)
(* fzn_node_files_fetching_end; the links closed before it cancel the asks *)
(* still out, which a fetch that is over does not hear. A full disk stops  *)
(* it in the checkpoint's two steps or in building the tree.               *)
(***************************************************************************)
Mut_EndPath(steps) ==
  IF ~f.opened THEN <<>>
  ELSE SubSeq(Checkpoint(disk, f.present), 1, Min({steps, 2}))
       \o (IF steps = 3 /\ f.ok /\ f.placed > 0 /\ Complete(N, f.present)
           THEN BuildTree(N, Last(Checkpoint(disk, f.present))) ELSE <<>>)

EndPath(steps) ==
  IF ~f.opened THEN <<>>
  ELSE SubSeq(Checkpoint(disk, f.present), 1, Min({steps, 2}))
       \o (IF steps = 3 /\ f.ok /\ Complete(N, f.present)
           THEN BuildTree(N, Last(Checkpoint(disk, f.present))) ELSE <<>>)

End ==
  /\ f.active /\ f.phase = 2
  /\ \E steps \in Cuts(3) : \E path \in {EndPath(steps)} : Does(path, NoFetch, {}, "none")

(* The disk, on its own: a leaf or a hash of the tree no longer reads as written. *)
Damage ==
  /\ left.damage > 0
  /\ \/ \E l \in disk.good \ disk.cached :
          disk' = [disk EXCEPT !.good = @ \ {l}] /\ hurt' = hurt \cup {l}
     \/ /\ disk.tree = "good"
        /\ \E at \in E.treeDamage : disk' = [disk EXCEPT !.tree = at]
        /\ UNCHANGED hurt
  /\ left' = [left EXCEPT !.damage = @ - 1] /\ said' = "none"
  /\ UNCHANGED <<f, asks>>

Next ==
  \/ Want \/ PutFile \/ RemoveFile \/ CheckFile \/ Begin \/ Pump \/ End \/ Crash \/ Damage
  \/ \E k \in Peers : Answer(k)

Spec == Init /\ [][Next /\ UNCHANGED env]_vars

(***************************************************************************)
(* Fairness: the event loop calls the pump at every pass while a fetch is  *)
(* under way and at every round otherwise, and an ask is answered or times *)
(* out (fzn_node_asks_expire).                                             *)
(***************************************************************************)
FairSpec ==
  /\ Spec
  /\ WF_vars(Begin /\ UNCHANGED env) /\ WF_vars(Pump /\ UNCHANGED env)
  /\ WF_vars(End /\ UNCHANGED env)
  /\ \A k \in 1..MaxPeers : WF_vars(k \in Peers /\ Answer(k) /\ UNCHANGED env)

-----------------------------------------------------------------------------
(* The shape of the state: the disk's files, a fetch idle or in a phase, its *)
(* window between one and its cap.                                           *)
TypeOK ==
  /\ disk.good \subseteq Leaves(N) /\ disk.cached \subseteq disk.good
  /\ Resume(disk) \subseteq Leaves(N) /\ disk.tree \in {"none", "good", "low", "high"}
  /\ f.phase \in 0..2 /\ f.present \subseteq Leaves(N) /\ f.alive \subseteq Peers
  /\ f.t.window \in 1..E.window /\ f.t.successes < f.t.window
  /\ \A k \in Peers : f.span[k] \in 1..E.span /\ f.failures[k] \in 0..3
  /\ said \in {"none", "intact", "dropped"} /\ hurt \subseteq Leaves(N)

(* A sidecar never claims more than the disk holds: through power cuts       *)
(* between any two writes, refused writes, removals and repairs, a leaf      *)
(* whose bit is set, on disk or in the running fetch, was proved and is      *)
(* there, unless the disk itself damaged it since (spool_file.c, "the data   *)
(* fsync really precedes the sidecar write").                                *)
SidecarHonest ==
  /\ Resume(disk) \subseteq disk.good \cup hurt
  /\ f.opened => f.present \subseteq disk.good \cup hurt

(* No leaf is asked of two peers at once and none that is here is asked for: *)
(* the live ranges are disjoint and missing (fzn_transfer_next_want).        *)
AskedOnce ==
  \A i \in Live(f.t.assigns) :
    /\ SpanOf(f.t.assigns[i].first, f.t.assigns[i].count) \cap f.present = {}
    /\ \A j \in Live(f.t.assigns) \ {i} : ~Overlaps(f.t.assigns[i], f.t.assigns[j])

(* The two tables of what is out, the transfer's and the fetch's, say the    *)
(* same while a fetch runs: each slot out has its range assigned to its      *)
(* peer, both counts are right, so is the count of live peers, and each slot *)
(* out has its one ask, so that nothing waits for an answer that cannot come.*)
BooksAgree ==
  f.phase # 2 =>
    /\ f.livePeers = Cardinality(f.alive)
    /\ f.t.inFlight = Cardinality(Live(f.t.assigns)) /\ f.nOut = Cardinality(Live(f.out))
    /\ f.nOut = f.t.inFlight
    /\ \A s \in Live(f.out) :
         /\ Cardinality(SlotOf(f.t, f.out[s].peer, f.out[s])) = 1
         /\ \E a \in asks : a.slot = s /\ a.gen = f.out[s].gen /\ a.peer = f.out[s].peer

(* A peer that answers everything it is asked, in time and truthfully, is    *)
(* never given up, whatever the other peers answer late or wrong (charge;    *)
(* the generation in the tag). A disk that refuses writes is charged to the  *)
(* peer, so this is of disks that do not.                                    *)
HonestKept ==
  f.phase = 1 /\ ~E.full => E.honest \subseteq f.alive

(* A check at rest that says intact leaves a file whose every leaf and every *)
(* proof verifies (fzn_node_files_verify), where the damage is in a leaf or  *)
(* in the tree's leaf hashes.                                                *)
CheckedServes == said = "intact" /\ disk.tree # "high" => Servable(N, disk)

(* "when only the tree is wrong, it is rebuilt from the leaves"              *)
(* (node/files.h): a check that says intact leaves a file that serves.       *)
IntactServes == said = "intact" => Servable(N, disk)

(* A file wanted is in the end here whole, when one peer holds it and        *)
(* answers, whatever the others do, through power cuts and small budgets,    *)
(* when the disk damages and refuses nothing, nobody removes it and no fetch *)
(* meets its bound on calls (files.c:1052): one that met it every time       *)
(* before anything was placed would never get there.                         *)
Arrives == E.damage = 0 /\ E.honest # {} /\ ~E.removes /\ ~E.full /\ ~E.steps
             => (disk.len ~> Whole(N, disk))
=============================================================================
