---------------------------- MODULE Reassembly ----------------------------
(* Reassembly of chunked messages: chunk/reassembly.c, and the plan a       *)
(* sender cuts them by: chunk/split.c.                                      *)
(*                                                                          *)
(* A table of slots holds half-finished messages.  Chunks arrive in any     *)
(* order, any number of times, or never; a complete message is handed to    *)
(* the caller once, and its slot stays the caller's until it is released.   *)
EXTENDS Integers, SequencesExt

CONSTANTS
  Sender, Msg,   \* who sends, and each sender's message ids
  NoOne,         \* the zeroed sender of a free slot
  Byte,          \* what a byte of payload can be
  MaxHold,       \* table->max_hold
  MaxChunks,     \* FZN_REASM_MAX_CHUNKS
  UMAX,          \* UINT64_MAX
  Envs           \* the tables and networks there are, by name, see Env

Chunk == [sender : Sender, msg : Msg, index : Nat, chunks : Nat, payload : Seq(Byte),
          expires_at : Nat]

(* A table: its capacity, the capacity of each slot's buffer and            *)
(* per_sender_max, of which fzn_reasm_init and fzn_reasm_slot_init refuse a *)
(* zero; the chunks the network may deliver; and the bound on the clock.    *)
Env == [slots : Nat \ {0}, buf : Nat \ {0}, quota : Nat \ {0}, arrivals : SUBSET Chunk,
        until : 0..UMAX]

ASSUME TableAssumption ==
  /\ {MaxHold, MaxChunks} \subseteq Nat \ {0}
  /\ UMAX \in Nat
  /\ NoOne \notin Sender
  /\ \A n \in DOMAIN Envs : Envs[n] \in Env

Time == 0..UMAX

VARIABLES
  env,      \* the name of the table and its network, which never change
  slots,    \* table->partials
  now,
  lent,     \* slot -> how often the caller was handed it and has not released it
  placed    \* history: slot -> the payload first accepted for each index

vars == <<slots, now, lent, placed>>

Table == Envs[env]

-----------------------------------------------------------------------------
(* split.c: the plan for a message of "total" bytes.                        *)

fzn_split_plan(total, max_payload) ==
  LET count == total \div max_payload + (IF total % max_payload # 0 THEN 1 ELSE 0) IN
  [ok         |-> total # 0 /\ count <= MaxChunks,
   total      |-> total,
   chunks     |-> count,
   chunk_size |-> IF count = 1 THEN total ELSE max_payload]

(* Offset and length of piece "index" of the plan. *)
fzn_split_at(plan, index) ==
  LET start == index * plan.chunk_size IN
  [offset |-> start,
   len    |-> IF index + 1 = plan.chunks THEN plan.total - start ELSE plan.chunk_size]

(* The chunks an honest sender cuts a message into. *)
SplitChunks(sender, msg, body, max_payload, expires_at) ==
  LET plan == fzn_split_plan(Len(body), max_payload) IN
  { LET at == fzn_split_at(plan, i) IN
    [sender |-> sender, msg |-> msg, index |-> i, chunks |-> plan.chunks,
     payload |-> SubSeq(body, at.offset + 1, at.offset + at.len),
     expires_at |-> expires_at] : i \in 0..(plan.chunks - 1) }

-----------------------------------------------------------------------------
(* The table.                                                               *)

(* fzn_reasm_release: the slot is zeroed, its buffer keeps its bytes. *)
fzn_reasm_release(s) ==
  [live |-> FALSE, handed |-> FALSE, sender |-> NoOne, msg |-> 0, chunks |-> 0,
   arrived |-> 0, expires_at |-> 0, chunk_size |-> 0, bytes |-> 0, parked |-> 0,
   seen |-> {}, buf |-> s.buf]

(* Mutant of fzn_reasm_expire: a message already handed out is swept too. *)
Mut_SweepHanded(tab, t) ==
  [i \in DOMAIN tab |->
     IF tab[i].live /\ tab[i].expires_at <= t THEN fzn_reasm_release(tab[i]) ELSE tab[i]]

(* fzn_reasm_expire: the slot of a message that was handed is the caller's. *)
fzn_reasm_expire(tab, t) ==
  [i \in DOMAIN tab |->
     IF tab[i].live /\ ~tab[i].handed /\ tab[i].expires_at <= t
       THEN fzn_reasm_release(tab[i]) ELSE tab[i]]

(* find: the live slots of this sender's message.  There is at most one. *)
Found(tab, c) == {i \in DOMAIN tab : tab[i].live /\ tab[i].msg = c.msg /\ tab[i].sender = c.sender}

held_by(tab, sender) == Cardinality({i \in DOMAIN tab : tab[i].live /\ tab[i].sender = sender})

hold_until(t) == IF MaxHold > UMAX - t THEN UMAX ELSE t + MaxHold

(* A message is held until its expiry or for max_hold, whichever is sooner. *)
Deadline(c, t) ==
  IF c.expires_at # 0 /\ c.expires_at < hold_until(t) THEN c.expires_at ELSE hold_until(t)

IsLast(c) == c.index + 1 = c.chunks
offset_of(s, index) == index * s.chunk_size

(* memcpy(buf + off, p, Len(p)) *)
Written(buf, off, p) ==
  [i \in DOMAIN buf |-> IF i > off /\ i <= off + Len(p) THEN p[i - off] ELSE buf[i]]

(* memcmp(buf + off, p, Len(p)) = 0 *)
Matches(buf, off, p) == \A i \in 1..Len(p) : buf[off + i] = p[i]

-----------------------------------------------------------------------------
(* fzn_reasm_accept, in its three parts.  Each answers with an error, the   *)
(* slot as the call leaves it and whether *out is set to it.                *)

Answer(err, s) == [err |-> err, slot |-> s, out |-> FALSE]

(* admit_first: the first chunk of a message sizes the slot "s", the first  *)
(* free one.                                                                *)
Sized(s, c, t) ==
  LET stride == IF c.chunks > 1 /\ IsLast(c) THEN 0 ELSE Len(c.payload) IN
  IF Len(c.payload) = 0 \/ Len(c.payload) > Table.buf \div c.chunks
    THEN Answer("TOO_LARGE", [s EXCEPT !.chunk_size = stride])
    ELSE Answer("OK", [s EXCEPT !.sender = c.sender, !.msg = c.msg, !.chunks = c.chunks,
                                !.arrived = 0, !.expires_at = Deadline(c, t),
                                !.bytes = 0, !.parked = 0, !.seen = {}, !.live = TRUE,
                                !.chunk_size = stride])

(* Mutant of Agrees: a later chunk may be longer than the stride. *)
Mut_AnyLength(s, c) == s.chunks = c.chunks /\ c.index < s.chunks /\ Len(c.payload) # 0

(* A later chunk must agree with what the first one claimed. *)
Agrees(s, c) ==
  /\ s.chunks = c.chunks
  /\ c.index < s.chunks
  /\ IF IsLast(c)
       THEN Len(c.payload) # 0 /\ (s.chunk_size # 0 => Len(c.payload) <= s.chunk_size)
       ELSE s.chunk_size # 0 => Len(c.payload) = s.chunk_size

(* A piece is put at "off", counted, and marked. *)
Put(s, c, off) ==
  [s EXCEPT !.buf = Written(s.buf, off, c.payload), !.seen = @ \cup {c.index},
            !.arrived = @ + 1, !.bytes = @ + Len(c.payload)]

(* The last piece came first: it waits at the end of the buffer until       *)
(* another piece tells the stride.                                          *)
Park(s, c) ==
  LET len == Len(c.payload) IN
  IF s.parked = 0
    THEN Answer("OK", [Put(s, c, Table.buf - len) EXCEPT !.parked = len])
    ELSE Answer(IF len = s.parked /\ Matches(s.buf, Table.buf - s.parked, c.payload)
                  THEN "OK" ELSE "CONFLICT", s)

(* Mutant of Unparked: the parked piece is left where it waits. *)
Mut_LeftParked(s, stride) == [s EXCEPT !.chunk_size = stride]

(* The stride becomes known and the parked piece is moved to its place. *)
Unparked(s, stride) ==
  LET tail == SubSeq(s.buf, Table.buf - s.parked + 1, Table.buf) IN
  [s EXCEPT !.chunk_size = stride, !.buf = Written(s.buf, (s.chunks - 1) * stride, tail)]

(* Mutant of Complete: a repeat hands a complete message out again. *)
Mut_HandedAgain(n) ==
  [err |-> "OK", slot |-> [n EXCEPT !.handed = @ \/ n.arrived = n.chunks],
   out |-> n.arrived = n.chunks]

(* The message is handed over when the last missing piece has landed, and   *)
(* not again when a piece is repeated.                                      *)
Complete(n) ==
  LET hand == n.arrived = n.chunks /\ ~n.handed IN
  [err |-> "OK", slot |-> [n EXCEPT !.handed = @ \/ hand], out |-> hand]

(* With the stride known, a piece goes to its place, a repeat is compared.  *)
Place(s, c) ==
  LET off == offset_of(s, c.index)
      n   == IF c.index \in s.seen THEN s ELSE Put(s, c, off) IN
  IF off > Table.buf \/ Len(c.payload) > Table.buf - off THEN Answer("TOO_LARGE", s)
  ELSE IF c.index \in s.seen /\ ~Matches(s.buf, off, c.payload) THEN Answer("CONFLICT", s)
  ELSE Complete(n)

(* What is done with a chunk that its slot agrees with. *)
Held(s, c) ==
  IF s.chunk_size # 0 THEN Place(s, c)
  ELSE IF IsLast(c) THEN Park(s, c)
  ELSE IF Len(c.payload) = 0 \/ Len(c.payload) < s.parked THEN Answer("MISMATCH", s)
  ELSE IF Len(c.payload) > Table.buf \div s.chunks THEN Answer("TOO_LARGE", s)
  ELSE Place(Unparked(s, Len(c.payload)), c)

(* The whole call on a table already swept: the answer, and the slot it     *)
(* touches (0 for none).                                                    *)
Outcome(tab, t, c) ==
  LET refuse(err) == [at |-> 0, ans |-> Answer(err, <<>>)]
      free == {i \in DOMAIN tab : ~tab[i].live}
      fresh == Sized(tab[Min(free)], c, t) IN
  IF c.expires_at # 0 /\ c.expires_at <= t THEN refuse("EXPIRED")
  ELSE IF Found(tab, c) # {}
    THEN LET i == Min(Found(tab, c)) IN
         IF Agrees(tab[i], c) THEN [at |-> i, ans |-> Held(tab[i], c)] ELSE refuse("MISMATCH")
  ELSE IF c.chunks = 0 \/ c.chunks > MaxChunks THEN refuse("TOO_LARGE")
  ELSE IF c.index >= c.chunks THEN refuse("MISMATCH")
  ELSE IF held_by(tab, c.sender) >= Table.quota THEN refuse("QUOTA")
  ELSE IF free = {} THEN refuse("FULL")
  ELSE [at |-> Min(free), ans |-> IF fresh.err = "OK" THEN Held(fresh.slot, c) ELSE fresh]

-----------------------------------------------------------------------------
(* fzn_reasm_plan_want: the ranges still missing from a slot, in order, at  *)
(* most "limit" pieces each and at most "cap" of them.                      *)

(* emit_run: the open run is cut into ranges, as far as there is room. *)
emit_run(acc, limit, cap) ==
  LET pieces == (acc.run + limit - 1) \div limit
      room   == cap - Len(acc.out)
      take   == IF pieces < room THEN pieces ELSE room IN
  [acc EXCEPT !.run = 0, !.full = @ \/ pieces > room,
              !.out = @ \o [j \in 1..take |->
                  [first |-> acc.first + (j - 1) * limit,
                   count |-> Min({limit, acc.run - (j - 1) * limit})]]]

(* Mutant of fzn_reasm_plan_want: the run that reaches the end is dropped. *)
Mut_NoFinalRun(s, limit, cap) ==
  LET step(acc, i) ==
        IF acc.full THEN acc
        ELSE IF (i - 1) \in s.seen THEN emit_run(acc, limit, cap)
        ELSE [acc EXCEPT !.first = IF acc.run = 0 THEN i - 1 ELSE @, !.run = @ + 1]
  IN FoldLeft(step, [out |-> <<>>, first |-> 0, run |-> 0, full |-> FALSE],
              [i \in 1..s.chunks |-> i]).out

fzn_reasm_plan_want(s, limit, cap) ==
  LET step(acc, i) ==
        IF acc.full THEN acc
        ELSE IF (i - 1) \in s.seen THEN emit_run(acc, limit, cap)
        ELSE [acc EXCEPT !.first = IF acc.run = 0 THEN i - 1 ELSE @, !.run = @ + 1]
  IN emit_run(FoldLeft(step, [out |-> <<>>, first |-> 0, run |-> 0, full |-> FALSE],
                       [i \in 1..s.chunks |-> i]), limit, cap).out

-----------------------------------------------------------------------------
EmptySlot == fzn_reasm_release([buf |-> [i \in 1..Table.buf |-> CHOOSE b \in Byte : TRUE]])

Init ==
  /\ env \in DOMAIN Envs
  /\ slots = [i \in 1..Table.slots |-> EmptySlot]
  /\ now \in 0..Table.until
  /\ lent = [i \in 1..Table.slots |-> 0]
  /\ placed = [i \in 1..Table.slots |-> <<>>]

(* The history of a slot follows it: cleared when the slot is freed, a piece *)
(* added when the call marks its index.                                     *)
PlacedAfter(old, s, c) ==
  IF ~s.live THEN <<>>
  ELSE [k \in s.seen |-> IF k \in DOMAIN old THEN old[k] ELSE c.payload]

Accept(c) ==
  LET swept == fzn_reasm_expire(slots, now)
      o     == Outcome(swept, now, c) IN
  /\ slots' = IF o.at = 0 THEN swept ELSE [swept EXCEPT ![o.at] = o.ans.slot]
  /\ lent' = IF o.ans.out THEN [lent EXCEPT ![o.at] = @ + 1] ELSE lent
  /\ placed' = [i \in 1..Table.slots |->
                 PlacedAfter(IF swept[i].live THEN placed[i] ELSE <<>>, slots'[i], c)]
  /\ UNCHANGED now

(* fzn_reasm_expire on its own: the daemon's periodic sweep. *)
Sweep ==
  /\ slots' = fzn_reasm_expire(slots, now)
  /\ placed' = [i \in 1..Table.slots |-> IF slots'[i].live THEN placed[i] ELSE <<>>]
  /\ UNCHANGED <<now, lent>>

(* The caller is done with a slot it was handed, and releases it whatever   *)
(* it holds by then.                                                        *)
Release(i) ==
  /\ lent[i] > 0
  /\ lent' = [lent EXCEPT ![i] = @ - 1]
  /\ slots' = [slots EXCEPT ![i] = fzn_reasm_release(@)]
  /\ placed' = [placed EXCEPT ![i] = <<>>]
  /\ UNCHANGED now

(* fzn_reasm_forget: a caller gives up on a reply it was waiting for. *)
Forget(sender, msg) ==
  /\ slots' = [i \in 1..Table.slots |->
       IF slots[i].live /\ ~slots[i].handed /\ slots[i].msg = msg /\ slots[i].sender = sender
         THEN fzn_reasm_release(slots[i]) ELSE slots[i]]
  /\ placed' = [i \in 1..Table.slots |-> IF slots'[i].live THEN placed[i] ELSE <<>>]
  /\ UNCHANGED <<now, lent>>

Tick ==
  /\ now < Table.until
  /\ now' = now + 1
  /\ UNCHANGED <<slots, lent, placed>>

Next ==
  \/ \E c \in Table.arrivals : Accept(c)
  \/ Sweep
  \/ \E i \in 1..Table.slots : Release(i)
  \/ \E sender \in Sender, msg \in Msg : Forget(sender, msg)
  \/ Tick

Spec == Init /\ [][Next /\ UNCHANGED env]_<<vars, env>>

-----------------------------------------------------------------------------
(* Properties.                                                              *)

Live == {i \in 1..Table.slots : slots[i].live}

(* The types, the counters against what they count, and the bounds. The     *)
(* caller has a slot once, from the moment it is marked as handed until it  *)
(* is released, so no release frees another message's slot. A slot          *)
(* is the message of one sender and no message has two; no sender holds     *)
(* more than its quota, so none fills the table alone; and a half-finished  *)
(* message is never held beyond max_hold, whatever expiry it claimed.       *)
TypeOK ==
  /\ now \in Time
  /\ \A i \in 1..Table.slots :
       LET s == slots[i] IN
       /\ DOMAIN s.buf = 1..Table.buf
       /\ s.arrived = Cardinality(s.seen)
       /\ s.seen \subseteq 0..(s.chunks - 1)
       /\ s.handed <=> s.live /\ s.arrived = s.chunks
       /\ lent[i] = IF s.handed THEN 1 ELSE 0
  /\ \A i, j \in Live :
       slots[i].sender = slots[j].sender /\ slots[i].msg = slots[j].msg => i = j
  /\ \A sender \in Sender :
       Cardinality({i \in Live : slots[i].sender = sender}) <= Table.quota
  /\ \A i \in Live : ~slots[i].handed => slots[i].expires_at <= hold_until(now)

(* Where piece k of a live slot lies in the buffer. *)
Lies(s, k) == IF s.chunk_size = 0 THEN Table.buf - s.parked ELSE offset_of(s, k)

(* What was accepted stays as it was accepted: whatever order the pieces    *)
(* and the repeats came in, and wherever the last piece waited, every piece *)
(* of a live message reads back from its own place in the buffer, and the   *)
(* pieces of one that is handed over tile its "bytes" without a hole.       *)
PiecesIntact ==
  \A i \in Live :
    LET s == slots[i] IN
    /\ \A k \in s.seen : /\ Lies(s, k) + Len(placed[i][k]) <= Table.buf
                         /\ Matches(s.buf, Lies(s, k), placed[i][k])
    /\ s.handed =>
         /\ \A k \in 0..(s.chunks - 2) : Len(placed[i][k]) = s.chunk_size
         /\ Len(placed[i][s.chunks - 1]) \in 1..s.chunk_size
         /\ s.bytes = (s.chunks - 1) * s.chunk_size + Len(placed[i][s.chunks - 1])

(* A message that was handed over is the caller's: no chunk and no sweep    *)
(* changes its slot until the caller releases it.                           *)
HandedUntouched ==
  [][ \A i \in 1..Table.slots : slots[i].handed => slots'[i] = slots[i] \/ Release(i) ]_vars

(* What a slot asks for is what it lacks: the ranges of plan_want name each *)
(* missing piece exactly once and in order, and with room for all of them   *)
(* leave none out.                                                          *)
WantExact ==
  \A i \in Live, limit \in 1..2, cap \in 1..MaxChunks :
    LET s     == slots[i]
        want  == fzn_reasm_plan_want(s, limit, cap)
        piece(r) == r.first..(r.first + r.count - 1)
        named == UNION {piece(want[j]) : j \in DOMAIN want} IN
    /\ Len(want) <= cap
    /\ \A j \in DOMAIN want : want[j].count \in 1..limit
    /\ \A j, k \in DOMAIN want : j < k => want[j].first + want[j].count <= want[k].first
    /\ named \subseteq 0..(s.chunks - 1) \ s.seen
    /\ Len(want) < cap => named = 0..(s.chunks - 1) \ s.seen

=============================================================================
