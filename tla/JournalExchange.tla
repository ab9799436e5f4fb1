-------------------------- MODULE JournalExchange --------------------------
(***************************************************************************)
(* One issuer's stream between hosts: node/journal.c over the journal of   *)
(* record/journal.c, the record store beneath it (record/store_file.c      *)
(* under record/store_held.c), and the conversations that carry records    *)
(* between hosts (record/exchange.c, record/sync.c, driven by              *)
(* journal_talk_step in node/daemon.c).  Hosts crash and restart; a disk   *)
(* refuses writes and takes them again; an answer may never come, and a    *)
(* push may come late or twice.                                            *)
(*                                                                         *)
(* A record is its sequence, which of the bodies signed at that sequence   *)
(* it is, and the id of its predecessor; its id is the first two.          *)
(***************************************************************************)
EXTENDS JournalOps, SequencesExt

CONSTANTS
    Host,
    Talks,      \* <<h, p>>: h holds journal conversations with p
    MaxSeq,     \* bound: records signed
    Bodies,     \* bound: bodies signed at one sequence
    Window,     \* max_per_request of a pull
    HeldRows,   \* store_held's budget, in records
    Envs,       \* the circumstances a behaviour may be in, see Env
    NoRec

(* The circumstances: the hosts that hold the issuer's key (one, unless it *)
(* was copied); whether the stream is the estate's, which has a spine and  *)
(* is never shed; how many records fit one message; FZN_RECONCILE_BRIDGE_  *)
(* MAX; the hosts anything fails on; whether the hosts reach each other; and bounds on the sequences and       *)
(* bodies signed, on the crashes, on the refusals by the record files, by  *)
(* RAM, and of a kept row.                                                 *)
Env == [writers : SUBSET Host, frail : SUBSET Host, reach : BOOLEAN, estate : BOOLEAN,
        page : Nat \ {0}, bridge : Nat, seqs : 1..MaxSeq, bodies : 1..Bodies, crash : Nat, disk : Nat, ram : Nat,
        row : Nat]

Sequence == 1..MaxSeq
Id == {ZeroId} \cup (Sequence \X (1..Bodies))
Rec == [seq : Sequence, v : 1..Bodies, prev : Id]
id(r) == <<r.seq, r.v>>
IsRec(r) == r # NoRec

ASSUME ExchangeAssumption ==
    /\ UMAX > MaxSeq /\ Window \in Nat \ {0}
    /\ Talks \subseteq Host \X Host
    /\ \A v \in Envs : v \in Env

VARIABLES
    env,        \* the circumstances, which never change
    entry,      \* host -> its journal entry for the stream
    store,      \* host -> [disk, ram, stuck]
    kept,       \* host -> [base, below, spine], the rows of node/journal.c
    durable,    \* host -> the same rows as the disk has them
    talk,       \* <<h, p>> -> where h's conversation with p stands
    net,        \* messages in flight
    signed,     \* history: every record signed
    hole,       \* history: hosts whose store gave up or refused a record
    back,       \* history: hosts a start left holding less than they had received
    odd,        \* history: the others that refused a record as out of place
    faults      \* [crash, disk, ram, row] so far

vars == <<entry, store, kept, durable, talk, net, signed, hole, odd, back, faults>>

---------------------------------------------------------------------------
(* The store.  Each outcome says whether the put was OK, the store after,  *)
(* and which refusals it took.                                             *)
held_get(st, s) ==
    LET rows == {i \in DOMAIN st.ram : st.ram[i].seq = s}
    IN  IF rows = {} THEN st.disk[s] ELSE st.ram[Min(rows)]

Outcome(ok, st, disk, ram) ==
    [ok |-> ok, st |-> st, disk |-> disk, ram |-> ram, shed |-> FALSE]

(* hold(): a row already held is left; the kept stream is refused only by  *)
(* the allocator; another is made room for by shedding the oldest rows.    *)
hold(st, r, d) ==
    LET need == IF Len(st.ram) < HeldRows THEN 0 ELSE Len(st.ram) + 1 - HeldRows
        keeping(k) == [st EXCEPT !.ram = Append(SubSeq(@, k + 1, Len(@)), r)]
    IN  IF \E i \in DOMAIN st.ram : st.ram[i].seq = r.seq
        THEN {Outcome(TRUE, st, d, 0)}
        ELSE IF env.estate
        THEN {Outcome(TRUE, keeping(0), d, 0), Outcome(FALSE, st, d, 1)}
        ELSE {[Outcome(TRUE, keeping(k), d, IF k = need THEN 0 ELSE 1)
                 EXCEPT !.shed = k > 0] : k \in need..Len(st.ram)}
             \cup {[Outcome(FALSE, [st EXCEPT !.ram = <<>>], d, 1) EXCEPT !.shed = st.ram # <<>>]}

Mut_WriteBehind(st, r) ==
    {Outcome(TRUE, [st EXCEPT !.ram = Append(@, r), !.stuck = TRUE], 0, 0)}

(* held_put over store_file_put. *)
fzn_record_store_put(st, r) ==
    IF st.stuck THEN hold(st, r, 0)
    ELSE {Outcome(TRUE, [st EXCEPT !.disk[r.seq] = r], 0, 0)}
         \cup hold([st EXCEPT !.stuck = TRUE], r, 1)

(* fzn_node_journal_follow_stream after a start: anchored just under the   *)
(* base with the id kept there, then every record the store holds, until   *)
(* the first it does not or the chain does not take.                       *)
follow(st, k) ==
    LET at == k.base - 1
        anchored == IF at = 0 THEN NewEntry
                    ELSE fzn_journal_confirm(MovedTo(NewEntry, at, k.below, TRUE), at).e
        replay(o, s) ==
            LET r == held_get(st, s)
                a == fzn_journal_admit_chained(o.e, s, r.prev, id(r))
            IN  IF ~o.go THEN o
                ELSE IF ~IsRec(r) THEN [o EXCEPT !.go = FALSE]
                ELSE [e |-> a.e, go |-> a.err = "ok"]
    IN  FoldLeft(replay, [e |-> anchored, go |-> TRUE],
                 [i \in 1..(MaxSeq - at) |-> at + i]).e

---------------------------------------------------------------------------
(* What one message does to a host's journal and store.  A take carries    *)
(* the entry and store as they stand, `go' while the loop goes on, and how *)
(* it ended; each record may end in several ways, so takes come in sets.   *)
Take(h) ==
    [e |-> entry[h], st |-> store[h], next |-> 0, left |-> 0, go |-> TRUE,
     fork |-> FALSE, refused |-> FALSE, lost |-> FALSE, hole |-> FALSE, disk |-> 0, ram |-> 0]

Stopped(o) == [o EXCEPT !.go = FALSE]

(* ADMITTED, THEN STORED: the entry has moved whether or not the put does. *)
Stored(o, a, r) ==
    {[o EXCEPT !.e = a.e, !.st = p.st, !.go = p.ok, !.lost = ~p.ok,
               !.hole = @ \/ ~p.ok \/ p.shed, !.disk = @ + p.disk, !.ram = @ + p.ram] :
        p \in fzn_record_store_put(o.st, r)}

Mut_Counted(o) == [o EXCEPT !.next = @ + 2, !.left = @ - 1, !.go = @ /\ o.left # 1]

Counted(o) == [o EXCEPT !.next = @ + 1, !.left = @ - 1, !.go = @ /\ o.left # 1]

Mut_ForkStored(o, r) ==
    LET a == fzn_journal_admit_chained(o.e, r.seq, r.prev, id(r))
    IN  IF ~o.go THEN {o}
        ELSE IF a.err = "fork" THEN {Stopped(t) : t \in Stored(o, a, r)}
        ELSE IF a.err = "ok" THEN {IF t.lost THEN t ELSE Counted(t) : t \in Stored(o, a, r)}
        ELSE {Stopped(o)}

(* take_records, one record of the reply. *)
TakeAsked(o, r) ==
    LET a == fzn_journal_admit_chained(o.e, r.seq, r.prev, id(r))
    IN  IF ~o.go THEN {o}
        ELSE IF r.seq # o.next THEN {[Stopped(o) EXCEPT !.refused = TRUE]}
        ELSE CASE a.err = "fork" -> {[Stopped(o) EXCEPT !.e = a.e, !.fork = TRUE]}
               [] a.err = "ok" -> {IF t.lost THEN t ELSE Counted(t) : t \in Stored(o, a, r)}
               [] a.err = "duplicate" -> {Counted(o)}
               [] OTHER -> {[Stopped(o) EXCEPT !.refused = TRUE]}

(* fzn_exchange_take_push, one record: one behind the position is held. *)
TakePushed(o, r) ==
    LET a == fzn_journal_admit_chained(o.e, r.seq, r.prev, id(r))
    IN  IF ~o.go \/ r.seq < fzn_journal_next(o.e) THEN {o}
        ELSE CASE a.err = "fork" -> {[Stopped(o) EXCEPT !.e = a.e, !.fork = TRUE]}
               [] a.err = "ok" -> Stored(o, a, r)
               [] a.err = "duplicate" -> {o}
               [] OTHER -> {[Stopped(o) EXCEPT !.refused = TRUE]}

TakeAll(One(_, _), o, recs) ==
    FoldLeft(LAMBDA os, r : UNION {One(x, r) : x \in os}, {o}, recs)

(* The records a host can send from `from', while its store gives each. *)
RunFrom(h, from, upto) ==
    LET last == Min({upto, from + env.page - 1})
        n == CHOOSE k \in 0..env.page :
                /\ \A s \in from..(from + k - 1) : s <= last /\ IsRec(held_get(store[h], s))
                /\ from + k > last \/ ~IsRec(held_get(store[h], from + k))
    IN  [i \in 1..n |-> held_get(store[h], from + i - 1)]

Received(h) == fzn_journal_next(entry[h]) - 1

(* answer_records: only what the journal has received. *)
answer_records(h, from, max) == RunFrom(h, from, Min({Received(h), from + max - 1}))

(* answer_base: the base, the id below it, and the spine from `from' on. *)
answer_base(h, from) ==
    LET row(s) == IF IsRec(held_get(store[h], s)) THEN held_get(store[h], s) ELSE kept[h].spine[s]
        n == CHOOSE k \in 0..MaxSeq :
                /\ \A s \in from..(from + k - 1) : s <= Received(h) /\ IsRec(row(s))
                /\ from + k > Received(h) \/ ~IsRec(row(from + k))
    IN  [base |-> kept[h].base, below |-> kept[h].below,
         spine |-> IF env.estate THEN [i \in 1..n |-> row(from + i - 1)] ELSE <<>>]

---------------------------------------------------------------------------
(* Conversations.  One request is outstanding at a time, and the caller    *)
(* takes only that request's answer: what an abandoned one left in flight  *)
(* is dropped, except a push, which is acted on whenever it arrives.       *)
Idle == [st |-> "idle", next |-> 0, left |-> 0, seq |-> 0, mine |-> 0, missed |-> FALSE]

Message(c, k, x) == [c |-> c, k |-> k, x |-> x]
Abandoned(c) == {m \in net : m.c = c /\ m.k # "push"}

Mut_GoesOn(c, t, k, x) ==
    talk' = [talk EXCEPT ![c] = t] /\ net' = net \cup {Message(c, k, x)}

Goes(c, t, k, x) ==
    /\ talk' = [talk EXCEPT ![c] = t]
    /\ net' = (net \ Abandoned(c)) \cup {Message(c, k, x)}

Ends(c) ==
    /\ talk' = [talk EXCEPT ![c] = Idle]
    /\ net' = net \ Abandoned(c)

Struck(h, c, d, r, w) ==
    /\ c + d + r + w > 0 => h \in env.frail
    /\ faults' = [crash |-> faults.crash + c, disk |-> faults.disk + d,
                  ram |-> faults.ram + r, row |-> faults.row + w]
    /\ faults'.crash <= env.crash /\ faults'.disk <= env.disk
    /\ faults'.ram <= env.ram /\ faults'.row <= env.row

Faults(h, c, d, r) == Struck(h, c, d, r, 0)

Taken(h, o) ==
    /\ Faults(h, 0, o.disk, o.ram)
    /\ entry' = [entry EXCEPT ![h] = o.e]
    /\ store' = [store EXCEPT ![h] = o.st]
    /\ hole' = IF o.hole THEN hole \cup {h} ELSE hole
    /\ odd' = IF o.refused /\ h \notin back THEN odd \cup {h} ELSE odd

records_query(c, t) == Goes(c, t, "rq", [from |-> t.next, max |-> t.left])

(* journal_talk_step: the push follows the pull, however the pull ended    *)
(* short of silence.                                                       *)
PushBegin(c, t) == Goes(c, [t EXCEPT !.st = "push_digest"], "dq", NoRec)

Mut_NeverMissed(c, t) == Ends(c)

(* journal_settle: a stream the peer no longer holds is rebased. *)
Settle(c, t) ==
    /\ talk' = [talk EXCEPT ![c] = IF t.missed THEN [Idle EXCEPT !.st = "missed"] ELSE Idle]
    /\ net' = net \ Abandoned(c)

next_offer(c, t) ==
    LET recs == RunFrom(c[1], t.seq, t.mine)
    IN  IF recs = <<>> THEN Settle(c, t)
        ELSE Goes(c, [t EXCEPT !.st = "push_offers", !.seq = @ + Len(recs)], "push", recs)

---------------------------------------------------------------------------
Begin(c) ==
    /\ talk[c].st = "idle"
    /\ Goes(c, [Idle EXCEPT !.st = "pull_digest"], "dq", NoRec)
    /\ UNCHANGED <<entry, store, kept, durable, signed, hole, odd, back, faults>>

(* fzn_exchange_answer: nothing of the server's changes. *)
Serve(m) ==
    LET p == m.c[2]
        reply == CASE m.k = "dq" -> Message(m.c, "d", entry[p].received)
                   [] m.k = "rq" -> Message(m.c, "r", answer_records(p, m.x.from, m.x.max))
    IN  /\ env.reach /\ m.k \in {"dq", "rq"}
        /\ net' = (net \ {m}) \cup {reply}
        /\ UNCHANGED <<entry, store, kept, durable, talk, signed, hole, odd, back, faults>>

(* fzn_exchange_take_push; a push may be delivered again (keep), and only  *)
(* the one its sender still waits on has its answer taken.                 *)
ServePush(m, keep) ==
    LET c == m.c
        upto == m.x[Len(m.x)].seq
        awaited == talk[c].st = "push_offers" /\ talk[c].seq = upto + 1 /\ Abandoned(c) = {}
    IN  /\ m.k = "push"
        /\ \E o \in TakeAll(TakePushed, Take(c[2]), m.x) :
              /\ Taken(c[2], o)
              /\ net' = (IF keep THEN net ELSE net \ {m})
                        \cup (IF awaited THEN {Message(c, "pushed", ~o.go)} ELSE {})
        /\ UNCHANGED <<kept, durable, talk, signed, back>>

Lose(m) ==
    /\ m.k = "push"
    /\ net' = net \ {m}
    /\ UNCHANGED <<entry, store, kept, durable, talk, signed, hole, odd, back, faults>>

(* fzn_exchange_pull_step in its digest phase: plan_fetch's one range, up  *)
(* to Window past what is held here.                                       *)
PullDigest(c, m) ==
    LET mine == entry[c[1]].received
    IN  /\ talk[c].st = "pull_digest" /\ m.c = c /\ m.k = "d"
        /\ IF m.x > mine
           THEN records_query(c, [talk[c] EXCEPT !.st = "pull_records", !.next = mine + 1,
                                                 !.left = Min({m.x - mine, Window})])
           ELSE PushBegin(c, talk[c])
        /\ UNCHANGED <<entry, store, kept, durable, signed, hole, odd, back, faults>>

(* ... and in its records phase: an empty answer is a range missed. *)
PullRecords(c, m) ==
    LET t == talk[c]
    IN  /\ t.st = "pull_records" /\ m.c = c /\ m.k = "r"
        /\ \E o \in TakeAll(TakeAsked, [Take(c[1]) EXCEPT !.next = t.next, !.left = t.left], m.x) :
              /\ Taken(c[1], o)
              /\ IF m.x = <<>> THEN PushBegin(c, [t EXCEPT !.missed = TRUE])
                 ELSE IF o.go THEN records_query(c, [t EXCEPT !.next = o.next, !.left = o.left])
                 ELSE PushBegin(c, t)
        /\ UNCHANGED <<kept, durable, signed, back>>

PushDigest(c, m) ==
    /\ talk[c].st = "push_digest" /\ m.c = c /\ m.k = "d"
    /\ UNCHANGED <<entry, store, kept, durable, signed, hole, odd, back, faults>>
    /\ next_offer(c, [talk[c] EXCEPT !.seq = m.x + 1, !.mine = Received(c[1])])

(* A refusal or a fork at the peer ends the stream's offers. *)
Pushed(c, m) ==
    /\ talk[c].st = "push_offers" /\ m.c = c /\ m.k = "pushed"
    /\ UNCHANGED <<entry, store, kept, durable, signed, hole, odd, back, faults>>
    /\ IF m.x THEN Settle(c, talk[c]) ELSE next_offer(c, talk[c])

(* A NULL reply: silence ends a pull and its round, and ends a push. *)
Unanswered(c) ==
    /\ talk[c].st # "idle"
    /\ UNCHANGED <<entry, store, kept, durable, signed, hole, odd, back, faults>>
    /\ IF talk[c].st \in {"push_digest", "push_offers"} THEN Settle(c, talk[c]) ELSE Ends(c)

---------------------------------------------------------------------------
(* fzn_node_journal_write: KEPT, THEN ADMITTED. *)
Write(h) ==
    LET e == entry[h]
        seq == e.received + 1
        v == 1 + Cardinality({r \in signed : r.seq = seq})
        rec == [seq |-> seq, v |-> v, prev |-> IF seq = 1 THEN ZeroId ELSE e.head]
    IN  /\ h \in env.writers /\ e.has_head
        /\ seq <= env.seqs /\ v <= env.bodies
        /\ \E p \in fzn_record_store_put(store[h], rec) :
              /\ Faults(h, 0, p.disk, p.ram)
              /\ store' = [store EXCEPT ![h] = p.st]
              /\ hole' = IF p.shed THEN hole \cup {h} ELSE hole
              /\ IF p.ok
                 THEN /\ entry' = [entry EXCEPT ![h] =
                                     fzn_journal_admit_chained(@, seq, rec.prev, id(rec)).e]
                      /\ signed' = signed \cup {rec}
                 ELSE UNCHANGED <<entry, signed>>
        /\ UNCHANGED <<kept, durable, talk, net, odd, back>>

(* fzn_node_apply, one record: a store that will not give it stops there. *)
Apply(h) ==
    LET seq == entry[h].applied + 1
    IN  /\ seq <= entry[h].received
        /\ IsRec(held_get(store[h], seq))
        /\ entry' = [entry EXCEPT ![h] = fzn_journal_confirm(@, seq).e]
        /\ UNCHANGED <<store, kept, durable, talk, net, signed, hole, odd, back, faults>>

(* fzn_record_held_flush: oldest first, stopping where the disk refuses. *)
Flush(h, n) ==
    LET st == store[h]
    IN  /\ st.stuck /\ n \in 0..Len(st.ram) /\ (n > 0 \/ st.ram = <<>>)
        /\ store' = [store EXCEPT ![h] =
              [disk |-> [s \in Sequence |->
                           IF \E i \in 1..n : st.ram[i].seq = s
                           THEN held_get(st, s) ELSE st.disk[s]],
               ram |-> SubSeq(st.ram, n + 1, Len(st.ram)),
               stuck |-> n < Len(st.ram)]]
        /\ UNCHANGED <<entry, kept, durable, talk, net, signed, hole, odd, back, faults>>

(* The rows: fzn_persist_delta_save keeps a row the disk refuses in RAM,   *)
(* and everything after it, until a flush.  The spine is saved before the  *)
(* base, so the disk may have the one and not the other.                   *)
Keep(h, k, w) ==
    /\ kept' = [kept EXCEPT ![h] = k]
    /\ \E d \in IF w = 0 /\ kept[h] = durable[h] THEN {k}
                 ELSE {durable[h], [durable[h] EXCEPT !.spine = k.spine]} :
          durable' = [durable EXCEPT ![h] = d]

FlushRows(h) ==
    /\ durable[h] # kept[h]
    /\ \E d \in {kept[h], [durable[h] EXCEPT !.spine = kept[h].spine]} :
          durable' = [durable EXCEPT ![h] = d]
    /\ UNCHANGED <<entry, store, kept, talk, net, signed, hole, odd, back, faults>>

---------------------------------------------------------------------------
(* Starting again: RAM and every conversation are gone, the journal is     *)
(* rebuilt from the disk and the rows it has.                              *)
Restart(h, st, k) ==
    LET disk == [disk |-> st.disk, ram |-> <<>>, stuck |-> FALSE]
    IN  /\ Faults(h, 1, 0, 0)
        /\ store' = [store EXCEPT ![h] = disk]
        /\ kept' = [kept EXCEPT ![h] = k]
        /\ durable' = [durable EXCEPT ![h] = k]
        /\ entry' = [entry EXCEPT ![h] = follow(disk, k)]
        /\ back' = IF entry'[h].received < entry[h].received THEN back \cup {h} ELSE back
        /\ talk' = [c \in Talks |-> IF c[1] = h THEN Idle ELSE talk[c]]
        /\ net' = {m \in net : m.c[1] # h \/ m.k = "push"}
        /\ hole' = hole \ {h}
        /\ UNCHANGED <<signed, odd>>

Crash(h) == Restart(h, store[h], durable[h])

Mut_CutOneMore(st, from, below, n) ==
    [st EXCEPT !.disk = [s \in Sequence |-> IF s >= from /\ s <= below THEN NoRec ELSE st.disk[s]]]

(* held_cut over store_file_cut, which zeroes from the top down: the n     *)
(* topmost slots of the range are gone when it stops.                      *)
CutRows(st, from, below, n) ==
    [disk |-> [s \in Sequence |-> IF s >= from /\ s < below /\ s >= below - n
                                  THEN NoRec ELSE st.disk[s]],
     ram |-> SelectSeq(st.ram, LAMBDA r : r.seq < from \/ r.seq >= below),
     stuck |-> st.stuck]

Mut_NoSpine(h, from, upto) == kept[h].spine

(* spine_keep over a range of records held. *)
Spined(h, from, upto) ==
    [s \in Sequence |-> IF env.estate /\ s \in from..upto THEN held_get(store[h], s)
                        ELSE kept[h].spine[s]]

Kept(base, below, spine) == [base |-> base, below |-> below, spine |-> spine]

(* cut_point under journal_cut's limit: held, and read by the stream's reader. *)
MayCut(h, below) ==
    /\ below > kept[h].base /\ below - 1 <= entry[h].applied
    /\ \A s \in kept[h].base..(below - 1) : IsRec(held_get(store[h], s))

CutTo(h, below) == Kept(below, id(held_get(store[h], below - 1)), Spined(h, kept[h].base, below - 1))

(* fzn_node_journal_cut: the spine, then the base, then the records; a row *)
(* nothing will keep stops it, and so does a disk that will not cut.       *)
Cut(h, below) ==
    /\ MayCut(h, below)
    /\ \/ \E n \in 0..(below - kept[h].base), w \in {0, 1} :
             /\ Struck(h, 0, IF n < below - kept[h].base THEN 1 ELSE 0, 0, w)
             /\ Keep(h, CutTo(h, below), w)
             /\ store' = [store EXCEPT ![h] = CutRows(@, kept[h].base, below, n)]
       \/ /\ Struck(h, 0, 0, 1, 1)
          /\ Keep(h, [kept[h] EXCEPT !.spine = Spined(h, kept[h].base, below - 1)], 1)
          /\ UNCHANGED store
    /\ UNCHANGED <<entry, talk, net, signed, hole, odd, back>>

(* Dying inside it, the disk taking every row. *)
CrashInCut(h, below) ==
    /\ MayCut(h, below) /\ kept[h] = durable[h]
    /\ \/ \E s \in kept[h].base..(below - 1) :
             Restart(h, store[h], [kept[h] EXCEPT !.spine = Spined(h, kept[h].base, s)])
       \/ \E n \in 0..(below - kept[h].base) :
             Restart(h, CutRows(store[h], kept[h].base, below, n), CutTo(h, below))

---------------------------------------------------------------------------
(* fzn_reconcile_rebase: the peer's base and, for the estate stream, the   *)
(* bridge from what is held here to it.  The asking is synchronous, so the *)
(* peer's answer is read here.                                             *)
Bridge(h, p) == answer_base(p, entry[h].received + 1)
Gap(h, p) == kept[p].base - 1 - entry[h].received

BridgeLinks(e, b, n) ==
    /\ Len(b.spine) >= n /\ n <= env.bridge
    /\ id(b.spine[n]) = b.below
    /\ \A i \in 2..n : b.spine[i].prev = id(b.spine[i - 1])
    /\ e.has_head => b.spine[1].prev = e.head

Disputed(h, p, others) ==
    \E w \in others : \E i \in 1..Gap(h, p) :
        /\ i <= Len(Bridge(h, w).spine)
        /\ Bridge(h, w).spine[i] # Bridge(h, p).spine[i]

MayRebase(h, p, others) ==
    /\ ~entry[h].forked /\ Gap(h, p) > 0
    /\ env.estate => BridgeLinks(entry[h], Bridge(h, p), Gap(h, p)) /\ ~Disputed(h, p, others)

RebaseTo(h, p) ==
    LET held == entry[h].received
        own == Spined(h, kept[h].base, held)
    IN  Kept(kept[p].base, kept[p].below,
             [s \in Sequence |-> IF env.estate /\ s \in (held + 1)..(kept[p].base - 1)
                                 THEN Bridge(h, p).spine[s - held] ELSE own[s]])

Unspined(h) == env.estate /\ \E s \in kept[h].base..entry[h].received : ~IsRec(held_get(store[h], s))
Below(h) == IF kept[h].base <= entry[h].received THEN entry[h].received + 1 - kept[h].base ELSE 0

(* fzn_node_journal_rebase: the spine, the base, the records, then the     *)
(* journal's own position, which a store that will not cut leaves behind.  *)
Rebase(c, others) ==
    LET h == c[1]
        p == c[2]
        at == kept[p].base - 1
        moved == fzn_journal_confirm(MovedTo(entry[h], at, kept[p].below, TRUE), at).e
    IN  /\ talk[c].st = "missed" /\ others \subseteq {w \in Host \ {p} : <<h, w>> \in Talks}
        /\ IF MayRebase(h, p, others) /\ ~Unspined(h)
           THEN \E n \in 0..Below(h), w \in {0, 1} :
                   /\ Struck(h, 0, IF n < Below(h) THEN 1 ELSE 0, 0, w)
                   /\ Keep(h, RebaseTo(h, p), w)
                   /\ store' = [store EXCEPT ![h] = CutRows(@, kept[h].base, entry[h].received + 1, n)]
                   /\ entry' = IF n < Below(h) THEN entry ELSE [entry EXCEPT ![h] = moved]
           ELSE UNCHANGED <<entry, store, kept, durable, faults>>
        /\ Ends(c)
        /\ UNCHANGED <<signed, hole, odd, back>>

CrashInRebase(c) ==
    LET h == c[1]
        to == RebaseTo(h, c[2])
    IN  /\ talk[c].st = "missed" /\ kept[h] = durable[h]
        /\ MayRebase(h, c[2], {}) /\ ~Unspined(h)
        /\ \/ \E s \in kept[h].base..(to.base - 1) :
                 Restart(h, store[h], [kept[h] EXCEPT !.spine = [t \in Sequence |->
                                          IF t <= s THEN to.spine[t] ELSE kept[h].spine[t]]])
           \/ \E n \in 0..Below(h) :
                 Restart(h, CutRows(store[h], kept[h].base, entry[h].received + 1, n), to)

---------------------------------------------------------------------------
Init ==
    /\ env \in Envs
    /\ entry = [h \in Host |-> NewEntry]
    /\ store = [h \in Host |-> [disk |-> [s \in Sequence |-> NoRec], ram |-> <<>>, stuck |-> FALSE]]
    /\ kept = [h \in Host |-> Kept(1, ZeroId, [s \in Sequence |-> NoRec])]
    /\ durable = kept
    /\ talk = [c \in Talks |-> Idle]
    /\ net = {} /\ signed = {} /\ hole = {} /\ odd = {} /\ back = {}
    /\ faults = [crash |-> 0, disk |-> 0, ram |-> 0, row |-> 0]

Converse(c) ==
    \/ Begin(c)
    \/ Unanswered(c)
    \/ \E m \in net : PullDigest(c, m) \/ PullRecords(c, m) \/ PushDigest(c, m) \/ Pushed(c, m)
    \/ \E others \in SUBSET Host : Rebase(c, others)

Next ==
    \/ \E c \in Talks : Converse(c) \/ CrashInRebase(c)
    \/ \E m \in net : Serve(m) \/ ServePush(m, TRUE) \/ ServePush(m, FALSE) \/ Lose(m)
    \/ \E h \in Host :
          \/ Write(h) \/ Apply(h) \/ FlushRows(h) \/ Crash(h)
          \/ \E n \in 0..MaxSeq : Flush(h, n)
          \/ \E below \in 2..(MaxSeq + 1) : Cut(h, below) \/ CrashInCut(h, below)

Spec == Init /\ [][Next /\ UNCHANGED env]_<<vars, env>>

(* The daemon's rounds begin again for ever, and its tick flushes; a peer  *)
(* may be silent any number of times, and an answer late any number of     *)
(* times, but no kind of question goes unanswered for ever.                *)
FairSpec ==
    /\ Spec
    /\ \A c \in Talks :
          /\ WF_vars(Begin(c))
          /\ \A k \in {"dq", "rq"} : SF_vars(\E m \in net : m.c = c /\ m.k = k /\ Serve(m))
          /\ SF_vars(\E m \in net : m.c = c /\ ServePush(m, FALSE))
          /\ SF_vars(\E m \in net : PullDigest(c, m))
          /\ SF_vars(\E m \in net : PullRecords(c, m))
          /\ SF_vars(\E m \in net : PushDigest(c, m))
          /\ SF_vars(\E m \in net : Pushed(c, m))
          /\ SF_vars(Rebase(c, {}))
    /\ \A h \in Host : WF_vars(\E n \in 0..MaxSeq : Flush(h, n))

---------------------------------------------------------------------------
Rows == [Sequence -> Rec \cup {NoRec}]
KeptRows == [base : 1..(MaxSeq + 1), below : Id, spine : [Sequence -> Rec \cup {NoRec}]]

(* Every host's journal, store and rows have their types; what the journal *)
(* has applied it has received; a store that is not stuck holds nothing in *)
(* RAM; no request outlives its conversation's.                            *)
TypeOK ==
    /\ entry \in [Host -> Entry(Id)]
    /\ \A h \in Host :
          /\ store[h].disk \in Rows /\ store[h].ram \in Seq(Rec)
          /\ store[h].ram # <<>> => store[h].stuck
          /\ entry[h].applied <= entry[h].received /\ entry[h].received <= MaxSeq
          /\ kept[h] \in KeptRows /\ durable[h] \in KeptRows
    /\ \A c \in Talks : Cardinality(Abandoned(c)) <= 1
    /\ signed \subseteq Rec

Held(h) == {s \in kept[h].base..entry[h].received : IsRec(held_get(store[h], s))}

(* No sequence was signed twice: nobody wrote again what a crash took. *)
SignedOnce == \A r, q \in signed : r.seq = q.seq => r = q

(* What a host holds of the stream is one line: each record held follows   *)
(* the one before it, the first names what was cut below it, and the top   *)
(* one is the journal's head -- so what answer_records and next_offer send *)
(* is a run the other end can chain.  It ends when a sequence was signed   *)
(* twice and this host gave a record up: the row given up may have lain    *)
(* over the sequence's other record, in the file since before a crash.     *)
OneBranchHeld ==
    \A h \in Host : SignedOnce \/ h \notin hole => \A s \in Held(h) :
        LET r == held_get(store[h], s) IN
        /\ s = entry[h].received => entry[h].head = id(r)
        /\ s = kept[h].base => r.prev = kept[h].below
        /\ s - 1 \in Held(h) => r.prev = id(held_get(store[h], s - 1))

(* What a journal has received is an unbroken run the store holds (node/   *)
(* journal.h, fzn_node_journal_received): it is ahead of its store only    *)
(* after the store refused or shed a record, and only until the next       *)
(* start.                                                                  *)
AheadOnlyAfterARefusal ==
    \A h \in Host \ hole : Held(h) = kept[h].base..entry[h].received

(* While the journal stands past a record and holds one there, it holds    *)
(* that one: no push, pull, write, flush, cut or start puts another in its *)
(* place, with the exception OneBranchHeld makes.                          *)
NeverOverwritten ==
    [][\A h \in Host : SignedOnce' \/ h \notin hole \cup hole' =>
          \A s \in Held(h) : s \in Held(h)'
             => held_get(store'[h], s) = held_get(store[h], s)]_vars

(* fzn_node_journal_stands: from the head down to 1, through the store and *)
(* then the spine, each naming the next.                                   *)
fzn_node_journal_stands(h, at) ==
    LET row(s) == IF IsRec(held_get(store[h], s)) THEN held_get(store[h], s)
                  ELSE kept[h].spine[s]
        want(s) == IF s = entry[h].received THEN entry[h].head ELSE row(s + 1).prev
    IN  /\ \A s \in at..entry[h].received : IsRec(row(s))
        /\ \A s \in at..entry[h].received : id(row(s)) = want(s)

(* Every act of the estate stream still stands, whatever was cut and       *)
(* wherever in a cut or a rebase a host died -- unless its RAM refused a   *)
(* record.                                                                 *)
ActsStand ==
    env.estate => \A h \in Host \ hole : fzn_node_journal_stands(h, 1)

(* record/journal.h, ERR_FORK: "Two records from one issuer with one       *)
(* predecessor is a key used in two places".  Where one host writes, no    *)
(* journal ever answers FORK.                                              *)
ForkMeansTwoPlaces ==
    Cardinality(env.writers) = 1 => \A h \in Host : ~entry[h].forked

(* ... as long as the disk refused no record and no kept row: what it      *)
(* signed the writer then still has after a crash.                         *)
NoForkOnAGoodDisk == faults.disk = 0 /\ faults.row = 0 => ForkMeansTwoPlaces

(* Until some sequence was signed twice, a record out of place is met only *)
(* by a host that a start left behind where it was -- a push that was late *)
(* finds it holding less than its sender was told -- and by nobody else,   *)
(* whatever was lost, repeated, cut, shed or refused.                      *)
NoneOutOfPlace == SignedOnce => odd = {}

(* Whatever was lost, late, cut away or lost with a crash, a follower ends *)
(* where the peer it converses with is: by the records, or by a rebase up  *)
(* to the base when the peer no longer holds them.                         *)
CatchesUp ==
    \A c \in Talks : <>[](entry[c[1]].received = entry[c[2]].received
                          /\ entry[c[1]].head = entry[c[2]].head)

===========================================================================
