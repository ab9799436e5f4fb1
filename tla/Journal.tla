------------------------------ MODULE Journal ------------------------------
(***************************************************************************)
(* record/journal.c: a table of positions, one per (issuer, stream) that   *)
(* somebody chose to follow.  Records are offered in any order, from any   *)
(* peer, more than once, and with any id and predecessor; the consumer     *)
(* anchors, admits and confirms as it likes.                               *)
(***************************************************************************)
EXTENDS JournalOps, FiniteSets

CONSTANTS
    Key,        \* (issuer, stream) pairs
    Id,         \* record ids, ZeroId among them
    Capacity    \* entries the caller gave the journal

ASSUME JournalAssumption ==
    /\ UMAX \in Nat \ {0}
    /\ ZeroId \in Id
    /\ Capacity \in Nat

VARIABLES
    entries,    \* followed key -> its entry
    line        \* history: what admit_chained took, per key

vars == <<entries, line>>

followed == DOMAIN entries
Link == [seq : 0..UMAX, prev : Id, id : Id]

(* usable() and find(): UNKNOWN_ISSUER is the absence from `followed'. *)
Init ==
    /\ entries = [k \in {} |-> NewEntry]
    /\ line = [k \in Key |-> {}]

Admit(k, seq) ==
    /\ k \in followed
    /\ entries' = [entries EXCEPT ![k] = fzn_journal_admit(@, seq).e]
    /\ UNCHANGED line

AdmitChained(k, seq, prev, id) ==
    LET a == fzn_journal_admit_chained(entries[k], seq, prev, id)
    IN  /\ k \in followed
        /\ entries' = [entries EXCEPT ![k] = a.e]
        /\ line' = IF a.err = "ok"
                   THEN [line EXCEPT ![k] = @ \cup {[seq |-> seq, prev |-> prev, id |-> id]}]
                   ELSE line

Mut_AnchorNoRoom(k, seq) ==
    /\ entries' = [x \in followed \cup {k} |->
                     AnchorTo(IF x \in followed THEN entries[x] ELSE NewEntry,
                              IF x = k THEN seq ELSE 0).e]
    /\ UNCHANGED line

(* fzn_journal_anchor: a key not followed is appended while there is room  *)
(* (FULL otherwise, nothing evicted), then moved up to seq.                *)
Anchor(k, seq) ==
    /\ \/ /\ k \notin followed
          /\ Cardinality(followed) < Capacity
          /\ entries' = [x \in followed \cup {k} |->
                           IF x = k THEN AnchorTo(NewEntry, seq).e ELSE entries[x]]
       \/ /\ k \in followed
          /\ entries' = [entries EXCEPT ![k] = AnchorTo(@, seq).e]
    /\ UNCHANGED line

Confirm(k, seq) ==
    /\ k \in followed
    /\ entries' = [entries EXCEPT ![k] = fzn_journal_confirm(@, seq).e]
    /\ UNCHANGED line

Next ==
    \E k \in Key, seq \in 0..UMAX :
        \/ Admit(k, seq)
        \/ \E prev, id \in Id : AdmitChained(k, seq, prev, id)
        \/ Anchor(k, seq)
        \/ Confirm(k, seq)

Spec == Init /\ [][Next]_vars

---------------------------------------------------------------------------
(* Every entry has the fields of fzn_journal_entry_t, and there are never  *)
(* more of them than the caller gave room for.                             *)
TypeOK ==
    /\ followed \subseteq Key
    /\ entries \in [followed -> Entry(Id)]
    /\ line \in [Key -> SUBSET Link]
    /\ IsFiniteSet(followed) /\ Cardinality(followed) <= Capacity

(* What is applied was received, so fzn_journal_pending (an unsigned       *)
(* subtraction) never underflows into an enormous backlog -- the invariant *)
(* the comment in fzn_journal_anchor states instead of clamping.           *)
AppliedWithinReceived ==
    \A k \in followed :
        fzn_journal_pending(entries[k]) + entries[k].applied = entries[k].received

(* What chained admission took is one line, whatever was offered and       *)
(* however anchors and unchained admissions came between: one record per   *)
(* sequence, each naming the id of the one taken before it, and a first    *)
(* record naming nothing.                                                  *)
OneLine ==
    \A k \in Key : \A r, q \in line[k] :
        /\ r.seq = q.seq => r = q
        /\ q.seq = r.seq + 1 => q.prev = r.id
        /\ r.seq = 1 => r.prev = ZeroId

(* No unsigned wrap reaches a consumer: neither the backlog of             *)
(* fzn_journal_pending, nor fzn_journal_next, which never names the        *)
(* reserved sequence 0, even with a stream anchored at the very top.       *)
NoWrap ==
    /\ AppliedWithinReceived
    /\ \A k \in followed : fzn_journal_next(entries[k]) # 0

Forwards ==
    \A k \in followed :
        /\ k \in DOMAIN entries'
        /\ entries'[k].received >= entries[k].received
        /\ entries'[k].applied >= entries[k].applied
        /\ entries[k].forked => entries'[k].forked

(* A position never moves back and a fork is never forgotten, and no key   *)
(* is dropped: going back would readmit everything between.                *)
NeverRewound == [][Forwards]_vars
===========================================================================
