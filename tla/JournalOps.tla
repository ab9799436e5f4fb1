---------------------------- MODULE JournalOps ----------------------------
(***************************************************************************)
(* record/journal.c, one (issuer, stream) entry at a time: what each call  *)
(* answers and what it leaves in the entry.  `received' is the highest     *)
(* contiguous sequence held, `applied' how far the consumer has acted,     *)
(* `head' the id of the record at `received' while `has_head' says it is   *)
(* known, `forked' that a second branch was ever offered.                  *)
(*                                                                         *)
(* Sequences are unsigned and wrap: PlusOne(UMAX) is 0.                    *)
(***************************************************************************)
EXTENDS Integers

CONSTANTS
    UMAX,       \* the largest sequence, UINT64_MAX in the code
    ZeroId      \* the all-zero record id a first record names

Entry(Id) == [received : 0..UMAX, applied : 0..UMAX, head : Id,
              has_head : BOOLEAN, forked : BOOLEAN]

PlusOne(n) == IF n = UMAX THEN 0 ELSE n + 1

(* The entry at a new position, with what is known of the record there. *)
MovedTo(e, seq, head, known) ==
    [received |-> seq, applied |-> e.applied, head |-> head,
     has_head |-> known, forked |-> e.forked]

Forked(e) ==
    [received |-> e.received, applied |-> e.applied, head |-> e.head,
     has_head |-> e.has_head, forked |-> TRUE]

Answer(err, e) == [err |-> err, e |-> e]

---------------------------------------------------------------------------
(* fzn_journal_admit on an entry that is followed. *)
fzn_journal_admit(e, seq) ==
    IF seq = 0 THEN Answer("malformed", e)
    ELSE IF seq <= e.received THEN Answer("duplicate", e)
    ELSE IF seq > PlusOne(e.received) THEN Answer("gap", e)
    ELSE Answer("ok", MovedTo(e, seq, ZeroId, FALSE))

(* A second record at the head's own sequence. *)
SecondAtHead(e, seq, id) ==
    e.has_head /\ seq = e.received /\ e.received # 0 /\ e.head # id

Mut_OffTheHead(e, seq, prev) == FALSE

(* The next sequence, naming a predecessor that is not the head. *)
OffTheHead(e, seq, prev) ==
    seq = PlusOne(e.received) /\ e.has_head /\ e.head # prev

fzn_journal_admit_chained(e, seq, prev, id) ==
    IF seq = 0 THEN Answer("malformed", e)
    ELSE IF SecondAtHead(e, seq, id) \/ OffTheHead(e, seq, prev)
         THEN Answer("fork", Forked(e))
    ELSE LET a == fzn_journal_admit(e, seq)
         IN IF a.err = "ok"
            THEN Answer("ok", MovedTo(e, seq, id, TRUE))
            ELSE a

(* What fzn_journal_anchor writes into an entry it appends. *)
NewEntry == [received |-> 0, applied |-> 0, head |-> ZeroId,
             has_head |-> TRUE, forked |-> FALSE]

Mut_AnchorBack(e, seq) ==
    Answer("ok", MovedTo(e, seq, ZeroId, FALSE))

(* fzn_journal_anchor on an entry already there: never backwards, and a    *)
(* jump leaves no known head.                                              *)
AnchorTo(e, seq) ==
    IF seq <= e.received THEN Answer("duplicate", e)
    ELSE Answer("ok", MovedTo(e, seq, ZeroId, FALSE))

(* fzn_journal_confirm. *)
fzn_journal_confirm(e, seq) ==
    IF seq > e.received THEN Answer("not_received", e)
    ELSE IF seq <= e.applied THEN Answer("duplicate", e)
    ELSE Answer("ok", [e EXCEPT !.applied = seq])

Mut_NextWraps(e) == PlusOne(e.received)

(* fzn_journal_next: saturates rather than wrapping to the reserved 0. *)
fzn_journal_next(e) == IF e.received = UMAX THEN UMAX ELSE PlusOne(e.received)

(* fzn_journal_pending: unsigned subtraction. *)
fzn_journal_pending(e) ==
    e.received - e.applied + (IF e.applied > e.received THEN UMAX + 1 ELSE 0)
===========================================================================
