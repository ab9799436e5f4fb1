-------------------------- MODULE JournalProofs --------------------------
(* Proofs about Journal, for every set of issuers, ids and sequences.      *)
EXTENDS Journal, FiniteSetTheorems, TLAPS

Seqs == 0..UMAX

(* Unchained admission moves an entry by exactly one or leaves it alone. *)
LEMMA AdmitMoves ==
  ASSUME NEW e \in Entry(Id), NEW seq \in Seqs
  PROVE  LET a == fzn_journal_admit(e, seq)
         IN  /\ a.e \in Entry(Id)
             /\ a.err # "ok" => a.e = e
             /\ a.err = "ok" => /\ seq = e.received + 1
                                /\ a.e = MovedTo(e, seq, ZeroId, FALSE)
BY JournalAssumption DEF Seqs, fzn_journal_admit, Answer, Entry, PlusOne, MovedTo

(* Chained admission takes the next sequence only, and only when the head, *)
(* if it is known, is the predecessor named.                               *)
LEMMA ChainedMoves ==
  ASSUME NEW e \in Entry(Id), NEW seq \in Seqs, NEW prev \in Id, NEW id \in Id
  PROVE  LET a == fzn_journal_admit_chained(e, seq, prev, id)
         IN  /\ a.e \in Entry(Id)
             /\ a.e.received >= e.received
             /\ a.e.applied = e.applied
             /\ e.forked => a.e.forked
             /\ a.err # "ok" => /\ a.e.received = e.received
                                /\ a.e.head = e.head
                                /\ a.e.has_head = e.has_head
             /\ a.err = "ok" => /\ seq = e.received + 1
                                /\ e.has_head => prev = e.head
                                /\ a.e.received = seq
                                /\ a.e.head = id
                                /\ a.e.has_head
<1> DEFINE b == fzn_journal_admit(e, seq)
<1>1. /\ b.e \in Entry(Id)
      /\ b.err # "ok" => b.e = e
      /\ b.err = "ok" => /\ seq = e.received + 1
                         /\ b.e = MovedTo(e, seq, ZeroId, FALSE)
  BY AdmitMoves
<1>2. e.received \in Nat /\ UMAX \in Nat /\ seq \in Nat
  BY JournalAssumption DEF Entry, Seqs
<1>3. CASE seq = 0
  BY <1>2, <1>3 DEF fzn_journal_admit_chained, Answer
<1>4. CASE seq # 0 /\ (SecondAtHead(e, seq, id) \/ OffTheHead(e, seq, prev))
  <2>1. fzn_journal_admit_chained(e, seq, prev, id)
          = Answer("fork", Forked(e))
    BY <1>4 DEF fzn_journal_admit_chained
  <2> QED
    BY <1>2, <2>1 DEF Answer, Entry, Forked
<1>5. CASE seq # 0 /\ ~(SecondAtHead(e, seq, id) \/ OffTheHead(e, seq, prev))
  <2>1. CASE b.err = "ok"
    <3>1. PlusOne(e.received) = e.received + 1
      BY <1>1, <1>2, <2>1, JournalAssumption DEF PlusOne, Seqs, Entry
    <3>2. e.has_head => prev = e.head
      BY <1>5, <2>1, <1>1, <3>1 DEF OffTheHead
    <3>3. fzn_journal_admit_chained(e, seq, prev, id)
            = Answer("ok", MovedTo(e, seq, id, TRUE))
      BY <1>5, <2>1 DEF fzn_journal_admit_chained
    <3> QED
      BY <1>1, <1>2, <2>1, <3>2, <3>3 DEF Answer, Entry, MovedTo, Seqs
  <2>2. CASE b.err # "ok"
    <3>1. fzn_journal_admit_chained(e, seq, prev, id) = b
      BY <1>5, <2>2 DEF fzn_journal_admit_chained
    <3> QED
      BY <1>1, <1>2, <2>2, <3>1
  <2> QED
    BY <2>1, <2>2
<1> QED
  BY <1>3, <1>4, <1>5

(* An anchor never goes back, and a jump forgets the head. *)
LEMMA AnchorMoves ==
  ASSUME NEW e \in Entry(Id), NEW seq \in Seqs
  PROVE  LET a == AnchorTo(e, seq)
         IN  /\ a.e \in Entry(Id)
             /\ a.e.received >= e.received
             /\ a.e.applied = e.applied
             /\ a.e.forked = e.forked
             /\ a.e = e \/ (a.e.received > e.received /\ ~a.e.has_head)
BY JournalAssumption DEF Seqs, AnchorTo, Answer, Entry, MovedTo

(* Confirming raises `applied' to at most what was received. *)
LEMMA ConfirmMoves ==
  ASSUME NEW e \in Entry(Id), NEW seq \in Seqs
  PROVE  LET a == fzn_journal_confirm(e, seq)
         IN  /\ a.e \in Entry(Id)
             /\ a.e.received = e.received /\ a.e.forked = e.forked
             /\ a.e.head = e.head /\ a.e.has_head = e.has_head
             /\ a.e.applied >= e.applied
             /\ e.applied <= e.received => a.e.applied <= e.received
BY JournalAssumption DEF Seqs, fzn_journal_confirm, Answer, Entry

LEMMA NewEntryTyped == NewEntry \in Entry(Id)
BY JournalAssumption DEF NewEntry, Entry


---------------------------------------------------------------------------
(* Everything taken lies at or below the position; what lies at it is the  *)
(* head, and an entry at 0 still names nothing as its head.                *)
LineHeld ==
    /\ \A k \in Key : \A r \in line[k] :
          /\ k \in followed
          /\ 0 < r.seq /\ r.seq <= entries[k].received
          /\ r.seq = entries[k].received =>
                entries[k].has_head /\ entries[k].head = r.id
    /\ \A k \in followed :
          entries[k].received = 0 => entries[k].has_head /\ entries[k].head = ZeroId

Bounded == \A k \in followed : entries[k].applied <= entries[k].received

JournalInv == TypeOK /\ Bounded /\ LineHeld /\ OneLine

(* Replacing one entry by another entry keeps the table a table. *)
LEMMA Replaced ==
  ASSUME TypeOK, NEW k \in followed, NEW e \in Entry(Id),
         entries' = [entries EXCEPT ![k] = e]
  PROVE  /\ followed' = followed
         /\ entries' \in [followed -> Entry(Id)]
         /\ entries'[k] = e
         /\ \A x \in followed : x # k => entries'[x] = entries[x]
BY DEF TypeOK, followed

(* Every step keeps the table in shape and in bounds, and moves no entry   *)
(* back.                                                                   *)
LEMMA StepTable ==
  ASSUME JournalInv, NEW k \in Key, NEW seq \in Seqs,
         \/ Admit(k, seq)
         \/ \E prev, id \in Id : AdmitChained(k, seq, prev, id)
         \/ Anchor(k, seq)
         \/ Confirm(k, seq)
  PROVE  /\ followed' \subseteq Key /\ entries' \in [followed' -> Entry(Id)]
         /\ IsFiniteSet(followed') /\ Cardinality(followed') <= Capacity
         /\ followed \subseteq followed'
         /\ Bounded'
         /\ Forwards
<1> USE DEF JournalInv
<1>0. \A x \in followed : entries[x] \in Entry(Id)
  BY DEF TypeOK
<1>a. \A e \in Entry(Id) : e.received \in Nat /\ e.applied \in Nat
  BY JournalAssumption DEF Entry
<1>b. ASSUME NEW e \in Entry(Id), k \in followed,
             entries' = [entries EXCEPT ![k] = e],
             e.received >= entries[k].received, e.applied >= entries[k].applied,
             entries[k].forked => e.forked, e.applied <= e.received
      PROVE  /\ followed' \subseteq Key /\ entries' \in [followed' -> Entry(Id)]
             /\ IsFiniteSet(followed') /\ Cardinality(followed') <= Capacity
             /\ followed \subseteq followed'
             /\ Bounded'
             /\ Forwards
  <2>1. /\ followed' = followed
        /\ entries' \in [followed -> Entry(Id)]
        /\ entries'[k] = e
        /\ \A x \in followed : x # k => entries'[x] = entries[x]
    BY <1>b, Replaced
  <2>2. Bounded'
    BY <1>b, <2>1 DEF Bounded
  <2>3. \A x \in followed : /\ entries'[x].received >= entries[x].received
                            /\ entries'[x].applied >= entries[x].applied
                            /\ entries[x].forked => entries'[x].forked
    <3> SUFFICES ASSUME NEW x \in followed
                 PROVE  /\ entries'[x].received >= entries[x].received
                        /\ entries'[x].applied >= entries[x].applied
                        /\ entries[x].forked => entries'[x].forked
      OBVIOUS
    <3>1. CASE x = k
      BY <3>1, <1>b, <2>1
    <3>2. CASE x # k
      BY <3>2, <2>1, <1>0, <1>a
    <3> QED
      BY <3>1, <3>2
  <2>4. Forwards
    BY <2>1, <2>3 DEF Forwards, followed
  <2> QED
    BY <2>1, <2>2, <2>4 DEF TypeOK
<1>1. CASE Admit(k, seq)
  <2> DEFINE e == fzn_journal_admit(entries[k], seq).e
  <2>1. k \in followed /\ entries' = [entries EXCEPT ![k] = e]
    BY <1>1 DEF Admit
  <2>2. /\ e \in Entry(Id) /\ e.received >= entries[k].received
        /\ e.applied = entries[k].applied /\ e.forked = entries[k].forked
    <3>1. entries[k] \in Entry(Id)
      BY <1>0, <2>1
    <3>2. \/ e = entries[k]
          \/ seq = entries[k].received + 1 /\ e = MovedTo(entries[k], seq, ZeroId, FALSE)
      BY <3>1, AdmitMoves
    <3>3. e \in Entry(Id)
      BY <3>1, AdmitMoves
    <3> HIDE DEF e
    <3> QED
      BY <1>a, <3>1, <3>2, <3>3 DEF MovedTo
  <2>3. e.applied <= e.received /\ e.applied >= entries[k].applied
    BY <1>0, <1>a, <2>1, <2>2 DEF Bounded
  <2> HIDE DEF e
  <2> QED
    BY <1>b, <2>1, <2>2, <2>3
<1>2. ASSUME NEW prev \in Id, NEW id \in Id, AdmitChained(k, seq, prev, id)
      PROVE  /\ followed' \subseteq Key /\ entries' \in [followed' -> Entry(Id)]
             /\ IsFiniteSet(followed') /\ Cardinality(followed') <= Capacity
             /\ followed \subseteq followed'
             /\ Bounded'
             /\ Forwards
  <2> DEFINE e == fzn_journal_admit_chained(entries[k], seq, prev, id).e
  <2>1. k \in followed /\ entries' = [entries EXCEPT ![k] = e]
    BY <1>2 DEF AdmitChained
  <2>2. /\ e \in Entry(Id) /\ e.received >= entries[k].received
        /\ e.applied = entries[k].applied /\ (entries[k].forked => e.forked)
    BY <1>0, <2>1, ChainedMoves
  <2>3. e.applied <= e.received /\ e.applied >= entries[k].applied
    BY <1>0, <1>a, <2>1, <2>2 DEF Bounded
  <2> HIDE DEF e
  <2> QED
    BY <1>b, <2>1, <2>2, <2>3
<1>3. CASE Confirm(k, seq)
  <2> DEFINE e == fzn_journal_confirm(entries[k], seq).e
  <2>1. k \in followed /\ entries' = [entries EXCEPT ![k] = e]
    BY <1>3 DEF Confirm
  <2>2. /\ e \in Entry(Id) /\ e.received = entries[k].received
        /\ e.applied >= entries[k].applied /\ entries[k].forked = e.forked
        /\ e.applied <= e.received
    BY <1>0, <2>1, ConfirmMoves DEF Bounded
  <2>3. e.received >= entries[k].received
    BY <1>0, <1>a, <2>1, <2>2
  <2> HIDE DEF e
  <2> QED
    BY <1>b, <2>1, <2>2, <2>3
<1>4. CASE Anchor(k, seq) /\ k \in followed
  <2> DEFINE e == AnchorTo(entries[k], seq).e
  <2>1. entries' = [entries EXCEPT ![k] = e]
    BY <1>4 DEF Anchor
  <2>2. /\ e \in Entry(Id) /\ e.received >= entries[k].received
        /\ e.applied = entries[k].applied /\ entries[k].forked = e.forked
    BY <1>0, <1>4, AnchorMoves
  <2>3. e.applied <= e.received /\ e.applied >= entries[k].applied
    BY <1>0, <1>a, <1>4, <2>2 DEF Bounded
  <2> HIDE DEF e
  <2> QED
    BY <1>b, <1>4, <2>1, <2>2, <2>3
<1>5. CASE Anchor(k, seq) /\ k \notin followed
  <2> DEFINE e == AnchorTo(NewEntry, seq).e
  <2>1. /\ Cardinality(followed) < Capacity
        /\ entries' = [x \in followed \cup {k} |-> IF x = k THEN e ELSE entries[x]]
    BY <1>5 DEF Anchor
  <2>2. e \in Entry(Id) /\ e.applied <= e.received
    BY NewEntryTyped, AnchorMoves, <1>a DEF NewEntry
  <2> HIDE DEF e
  <2>3. followed' = followed \cup {k}
    BY <2>1 DEF followed
  <2>4. IsFiniteSet(followed') /\ Cardinality(followed') <= Capacity
    <3>1. /\ IsFiniteSet(followed \cup {k})
          /\ Cardinality(followed \cup {k}) = Cardinality(followed) + 1
      BY <1>5, FS_AddElement DEF TypeOK
    <3>2. Cardinality(followed) \in Nat
      BY FS_CardinalityType DEF TypeOK
    <3> QED
      BY <2>1, <2>3, <3>1, <3>2, JournalAssumption
  <2>5. entries' \in [followed' -> Entry(Id)]
    BY <1>0, <2>1, <2>2, <2>3
  <2>6. \A x \in followed : entries'[x] = entries[x]
    BY <1>5, <2>1
  <2>7. Bounded'
    BY <2>1, <2>2, <2>3 DEF Bounded
  <2>8. Forwards
    BY <1>0, <1>a, <2>3, <2>6 DEF Forwards, followed
  <2> QED
    BY <2>3, <2>4, <2>5, <2>7, <2>8 DEF TypeOK
<1> QED
  BY <1>1, <1>2, <1>3, <1>4, <1>5

(* Every step keeps what was taken on one line.  Only AdmitChained adds to *)
(* it, and only the successor of the position; a jump moves the position   *)
(* past the end of the line, so nothing can be linked to the wrong end.    *)
LEMMA StepLine ==
  ASSUME JournalInv, NEW k \in Key, NEW seq \in Seqs,
         \/ Admit(k, seq)
         \/ \E prev, id \in Id : AdmitChained(k, seq, prev, id)
         \/ Anchor(k, seq)
         \/ Confirm(k, seq)
  PROVE  line' \in [Key -> SUBSET Link] /\ LineHeld' /\ OneLine'
<1> USE DEF JournalInv
<1>0. \A x \in followed : entries[x] \in Entry(Id)
  BY DEF TypeOK
<1>a. \A e \in Entry(Id) : e.received \in Nat
  BY JournalAssumption DEF Entry
<1>b. \A x \in Key : \A r \in line[x] : r \in Link /\ r.seq \in Nat
  BY JournalAssumption DEF TypeOK, Link
(* An entry that stays where it was, or moves to where nothing was taken. *)
<1>c. ASSUME NEW e \in Entry(Id), k \in followed,
             entries' = [entries EXCEPT ![k] = e], line' = line,
             \/ /\ e.received = entries[k].received
                /\ e.head = entries[k].head
                /\ e.has_head = entries[k].has_head
             \/ e.received > entries[k].received
      PROVE  line' \in [Key -> SUBSET Link] /\ LineHeld' /\ OneLine'
  <2>1. /\ followed' = followed
        /\ entries'[k] = e
        /\ \A x \in followed : x # k => entries'[x] = entries[x]
    BY <1>c, Replaced
  <2>2. LineHeld'
    <3>1. ASSUME NEW x \in Key, NEW r \in line[x]
          PROVE  /\ x \in followed'
                 /\ 0 < r.seq /\ r.seq <= entries'[x].received
                 /\ r.seq = entries'[x].received =>
                       entries'[x].has_head /\ entries'[x].head = r.id
      <4>1. /\ x \in followed /\ 0 < r.seq /\ r.seq <= entries[x].received
            /\ r.seq = entries[x].received =>
                  entries[x].has_head /\ entries[x].head = r.id
        BY <3>1 DEF LineHeld
      <4>2. r.seq \in Nat /\ entries[x].received \in Nat
        BY <1>0, <1>a, <1>b, <4>1
      <4>3. CASE x # k
        BY <2>1, <4>1, <4>3
      <4>4. CASE x = k
        BY <1>a, <1>c, <2>1, <4>1, <4>2, <4>4
      <4> QED
        BY <4>3, <4>4
    <3>2. ASSUME NEW x \in followed', entries'[x].received = 0
          PROVE  entries'[x].has_head /\ entries'[x].head = ZeroId
      <4>1. CASE x # k
        BY <2>1, <3>2, <4>1 DEF LineHeld
      <4>2. CASE x = k
        BY <1>0, <1>a, <1>c, <2>1, <3>2, <4>2 DEF LineHeld
      <4> QED
        BY <4>1, <4>2
    <3> QED
      BY <1>c, <3>1, <3>2 DEF LineHeld
  <2> QED
    BY <1>c, <2>2 DEF TypeOK, OneLine
<1>1. CASE Admit(k, seq)
  <2> DEFINE e == fzn_journal_admit(entries[k], seq).e
  <2>1. k \in followed /\ entries' = [entries EXCEPT ![k] = e] /\ line' = line
    BY <1>1 DEF Admit
  <2>2. entries[k] \in Entry(Id) /\ e \in Entry(Id)
    BY <1>0, <2>1, AdmitMoves
  <2>3. \/ e = entries[k]
        \/ seq = entries[k].received + 1 /\ e = MovedTo(entries[k], seq, ZeroId, FALSE)
    BY <2>2, AdmitMoves
  <2> HIDE DEF e
  <2>4. \/ e = entries[k]
        \/ e.received > entries[k].received
    BY <1>a, <2>2, <2>3 DEF MovedTo
  <2> QED
    BY <1>c, <2>1, <2>2, <2>4
<1>2. CASE Confirm(k, seq)
  <2> DEFINE e == fzn_journal_confirm(entries[k], seq).e
  <2>1. k \in followed /\ entries' = [entries EXCEPT ![k] = e] /\ line' = line
    BY <1>2 DEF Confirm
  <2>2. /\ e \in Entry(Id) /\ e.received = entries[k].received
        /\ e.head = entries[k].head /\ e.has_head = entries[k].has_head
    BY <1>0, <2>1, ConfirmMoves
  <2> HIDE DEF e
  <2> QED
    BY <1>c, <2>1, <2>2
<1>3. CASE Anchor(k, seq) /\ k \in followed
  <2> DEFINE e == AnchorTo(entries[k], seq).e
  <2>1. entries' = [entries EXCEPT ![k] = e] /\ line' = line
    BY <1>3 DEF Anchor
  <2>2. e \in Entry(Id) /\ (e = entries[k] \/ e.received > entries[k].received)
    BY <1>0, <1>3, AnchorMoves
  <2> HIDE DEF e
  <2> QED
    BY <1>c, <1>3, <2>1, <2>2
<1>4. CASE Anchor(k, seq) /\ k \notin followed
  <2> DEFINE e == AnchorTo(NewEntry, seq).e
  <2>1. /\ entries' = [x \in followed \cup {k} |-> IF x = k THEN e ELSE entries[x]]
        /\ line' = line
    BY <1>4 DEF Anchor
  <2>2. e.received = 0 => e.has_head /\ e.head = ZeroId
    BY JournalAssumption DEF AnchorTo, Answer, NewEntry, MovedTo, Seqs
  <2> HIDE DEF e
  <2>3. followed' = followed \cup {k} /\ entries'[k] = e
    BY <2>1 DEF followed
  <2>4. \A x \in followed : entries'[x] = entries[x]
    BY <1>4, <2>1
  <2>5. LineHeld'
    BY <2>1, <2>2, <2>3, <2>4 DEF LineHeld
  <2> QED
    BY <2>1, <2>5 DEF TypeOK, OneLine
<1>5. ASSUME NEW prev \in Id, NEW id \in Id, AdmitChained(k, seq, prev, id)
      PROVE  line' \in [Key -> SUBSET Link] /\ LineHeld' /\ OneLine'
  <2> DEFINE a == fzn_journal_admit_chained(entries[k], seq, prev, id)
             e == a.e
             new == [seq |-> seq, prev |-> prev, id |-> id]
  <2>1. k \in followed /\ entries' = [entries EXCEPT ![k] = e]
    BY <1>5 DEF AdmitChained
  <2>2. /\ e \in Entry(Id)
        /\ a.err # "ok" => /\ e.received = entries[k].received
                           /\ e.head = entries[k].head
                           /\ e.has_head = entries[k].has_head
        /\ a.err = "ok" => /\ seq = entries[k].received + 1
                           /\ entries[k].has_head => prev = entries[k].head
                           /\ e.received = seq /\ e.head = id /\ e.has_head
    BY <1>0, <2>1, ChainedMoves
  <2>3. CASE a.err # "ok"
    <3>1. line' = line
      BY <1>5, <2>3 DEF AdmitChained
    <3> HIDE DEF a
    <3> QED
      BY <1>c, <2>1, <2>2, <2>3, <3>1
  <2>4. CASE a.err = "ok"
    <3>1. line' = [line EXCEPT ![k] = @ \cup {new}]
      BY <1>5, <2>4 DEF AdmitChained
    <3>2. /\ followed' = followed
          /\ entries'[k] = e
          /\ \A x \in followed : x # k => entries'[x] = entries[x]
      BY <2>1, <2>2, Replaced
    <3>3. new \in Link /\ seq \in Nat /\ entries[k].received \in Nat
      BY <1>0, <1>a, <2>1, JournalAssumption DEF Seqs, Link
    <3>4. /\ seq = entries[k].received + 1
          /\ entries[k].has_head => prev = entries[k].head
          /\ e.received = seq /\ e.head = id /\ e.has_head
      BY <2>2, <2>4
    <3> HIDE DEF a
    <3>5. \A x \in Key : line'[x] = IF x = k THEN line[k] \cup {new} ELSE line[x]
      BY <3>1 DEF TypeOK
    <3>6. line' \in [Key -> SUBSET Link]
      BY <3>1, <3>3 DEF TypeOK
    <3>7. \A r \in line[k] : /\ r.seq \in Nat /\ r.seq < seq
                             /\ r.seq + 1 = seq => prev = r.id
      BY <1>b, <3>3, <3>4 DEF LineHeld
    <3>8. seq = 1 => prev = ZeroId
      BY <2>1, <3>3, <3>4 DEF LineHeld
    <3>9. LineHeld'
      <4>1. ASSUME NEW x \in Key, NEW r \in line'[x]
            PROVE  /\ x \in followed'
                   /\ 0 < r.seq /\ r.seq <= entries'[x].received
                   /\ r.seq = entries'[x].received =>
                         entries'[x].has_head /\ entries'[x].head = r.id
        <5>1. CASE x # k
          BY <3>2, <3>5, <4>1, <5>1 DEF LineHeld
        <5>2. CASE x = k /\ r = new
          BY <2>1, <3>2, <3>3, <3>4, <5>2
        <5>3. CASE x = k /\ r \in line[k]
          BY <2>1, <3>2, <3>3, <3>4, <3>7, <5>3 DEF LineHeld
        <5> QED
          BY <3>5, <4>1, <5>1, <5>2, <5>3
      <4>2. ASSUME NEW x \in followed', entries'[x].received = 0
            PROVE  entries'[x].has_head /\ entries'[x].head = ZeroId
        <5>1. x # k
          BY <3>2, <3>3, <3>4, <4>2
        <5> QED
          BY <3>2, <4>2, <5>1 DEF LineHeld
      <4> QED
        BY <4>1, <4>2 DEF LineHeld
    <3>10. OneLine'
      <4> SUFFICES ASSUME NEW x \in Key, NEW r \in line'[x], NEW q \in line'[x]
                   PROVE  /\ r.seq = q.seq => r = q
                          /\ q.seq = r.seq + 1 => q.prev = r.id
                          /\ r.seq = 1 => r.prev = ZeroId
        BY DEF OneLine
      <4>1. CASE x # k \/ (r \in line[k] /\ q \in line[k])
        BY <3>5, <4>1 DEF OneLine
      <4>2. CASE x = k /\ r = new /\ q = new
        BY <3>3, <3>8, <4>2
      <4>3. CASE x = k /\ r = new /\ q \in line[k]
        BY <3>3, <3>7, <3>8, <4>3
      <4>4. CASE x = k /\ r \in line[k] /\ q = new
        BY <3>3, <3>7, <4>4 DEF OneLine
      <4> QED
        BY <3>5, <4>1, <4>2, <4>3, <4>4
    <3> QED
      BY <3>6, <3>9, <3>10
  <2> QED
    BY <2>3, <2>4
<1> QED
  BY <1>1, <1>2, <1>3, <1>4, <1>5

---------------------------------------------------------------------------
LEMMA Inductive == Spec => []JournalInv
<1>1. Init => JournalInv
  <2> SUFFICES ASSUME Init PROVE JournalInv
    OBVIOUS
  <2>1. followed = {}
    BY DEF Init, followed
  <2>2. IsFiniteSet(followed) /\ Cardinality(followed) = 0
    BY <2>1, FS_EmptySet
  <2>3. entries \in [followed -> Entry(Id)]
    BY <2>1 DEF Init
  <2> QED
    BY <2>1, <2>2, <2>3, JournalAssumption
       DEF Init, JournalInv, TypeOK, Bounded, LineHeld, OneLine, Link
<1>2. JournalInv /\ [Next]_vars => JournalInv'
  <2> SUFFICES ASSUME JournalInv, [Next]_vars PROVE JournalInv'
    OBVIOUS
  <2>1. CASE Next
    <3>1. PICK k \in Key, seq \in Seqs :
            \/ Admit(k, seq)
            \/ \E prev, id \in Id : AdmitChained(k, seq, prev, id)
            \/ Anchor(k, seq)
            \/ Confirm(k, seq)
      BY <2>1 DEF Next, Seqs
    <3>2. /\ followed' \subseteq Key /\ entries' \in [followed' -> Entry(Id)]
          /\ IsFiniteSet(followed') /\ Cardinality(followed') <= Capacity
          /\ Bounded'
      BY <3>1, StepTable
    <3>3. line' \in [Key -> SUBSET Link] /\ LineHeld' /\ OneLine'
      BY <3>1, StepLine
    <3> QED
      BY <3>2, <3>3 DEF JournalInv, TypeOK
  <2>2. CASE UNCHANGED vars
    BY <2>2 DEF vars, JournalInv, TypeOK, Bounded, LineHeld, OneLine, followed
  <2> QED
    BY <2>1, <2>2
<1> QED
  BY <1>1, <1>2, PTL DEF Spec

(* The table keeps its shape and never outgrows the caller's array: a full *)
(* journal refuses fzn_journal_anchor rather than evicting.                *)
THEOREM Typing == Spec => []TypeOK
<1>1. JournalInv => TypeOK
  BY DEF JournalInv
<1> QED
  BY Inductive, <1>1, PTL

(* What chained admission took is one chain, whatever is offered,          *)
(* anchored, admitted unchained or confirmed.                              *)
THEOREM Chained == Spec => []OneLine
<1>1. JournalInv => OneLine
  BY DEF JournalInv
<1> QED
  BY Inductive, <1>1, PTL

(* Neither the backlog of fzn_journal_pending nor the sequence of          *)
(* fzn_journal_next wraps, at any width and anchored anywhere.             *)
THEOREM Unwrapped == Spec => []NoWrap
<1>1. JournalInv => AppliedWithinReceived
  <2> SUFFICES ASSUME JournalInv, NEW k \in followed
               PROVE  fzn_journal_pending(entries[k]) + entries[k].applied
                        = entries[k].received
    BY DEF AppliedWithinReceived
  <2>1. entries[k] \in Entry(Id) /\ entries[k].applied <= entries[k].received
    BY DEF JournalInv, TypeOK, Bounded
  <2>2. entries[k].received \in Nat /\ entries[k].applied \in Nat
    BY <2>1, JournalAssumption DEF Entry
  <2> QED
    BY <2>1, <2>2 DEF fzn_journal_pending
<1>2. JournalInv => \A k \in followed : fzn_journal_next(entries[k]) # 0
  <2> SUFFICES ASSUME JournalInv, NEW k \in followed
               PROVE  fzn_journal_next(entries[k]) # 0
    OBVIOUS
  <2>1. entries[k].received \in 0..UMAX
    BY DEF JournalInv, TypeOK, Entry
  <2> QED
    BY <2>1, JournalAssumption DEF fzn_journal_next, PlusOne
<1>3. JournalInv => NoWrap
  BY <1>1, <1>2 DEF NoWrap
<1> QED
  BY Inductive, <1>3, PTL

(* A position, a confirmation and the mark of a fork are never taken back: *)
(* fzn_journal_anchor refuses to move backwards.                           *)
THEOREM Forward == Spec => NeverRewound
<1>1. ASSUME JournalInv, Next PROVE Forwards
  <2>1. PICK k \in Key, seq \in Seqs :
          \/ Admit(k, seq)
          \/ \E prev, id \in Id : AdmitChained(k, seq, prev, id)
          \/ Anchor(k, seq)
          \/ Confirm(k, seq)
    BY <1>1 DEF Next, Seqs
  <2> QED
    BY <1>1, <2>1, StepTable
<1>2. JournalInv /\ [Next]_vars => [Forwards]_vars
  BY <1>1
<1> QED
  BY Inductive, <1>2, PTL DEF Spec, NeverRewound
===========================================================================
