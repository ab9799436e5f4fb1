# fuzznet in TLA+

fuzznet is a C library and a daemon (`fuzznetd`) by which one user's hosts, and
the hosts of people they know, talk to each other: sealed datagrams, capability
chains and their revocation, signed records that replicate, files fetched leaf by
leaf from whoever holds them. This directory models the parts whose correctness
rests on the order in which things happen, checks them with TLC on small
instances, and proves the two that everything else stands on with TLAPS.

Contents: 1 the system and its parts; 2 modules and the code they model; 3 the
runs; 4 bounds; 5 fairness; 6 proofs; 7 where code and documentation part;
8 abstractions; 9 what is not modelled; 10 the plan.

## 1. The system and its parts

`fuzznetd` is one thread around a poll loop (`node/serve.c`, `node/daemon.c`).
Concurrency is therefore between hosts, between a host and its disk, and between
the steps of conversations that interleave in one loop, never between threads.
Three kinds of trouble are everywhere in it: datagrams are lost, repeated and
reordered; a host dies between any two writes, or its disk refuses one; tables
have a fixed capacity and say so when they are full.

| part | state | operations | what makes it hard |
|---|---|---|---|
| freshness and replay window, `frame/freshness.c` | the nonces admitted and their expiries, in memory | judge a frame, sweep, restart | a full window may not evict; the horizon saturates at the top of the clock |
| splitting and reassembly, `chunk/split.c`, `chunk/reassembly.c` | a table of half-finished messages and their buffers | accept, sweep, release, forget, plan what to ask again | the last piece comes first and has no place yet; pieces that contradict each other; a slot handed to the caller and still addressed |
| journal positions, `record/journal.c` | per stream: received, applied, head, forked | admit, admit chained, anchor, confirm | anchors between chained records; a sequence that wraps |
| node journal, record store, exchange, `node/journal.c`, `record/exchange.c`, `record/store_*.c` | the journal, records on disk and in RAM, base and spine rows | write, pull, push, apply, flush, cut, rebase | a crash inside a cut; a peer that cut what is asked of it; a key used on two hosts; rows shed from RAM |
| revocations, `chain/revocation.c`, `node/revoke.c` | votes, admins, confirmations; the rows that survive | revoke, undo, second, learn, load, judge a hop | quorums and epochs under any order of arrival; a store rebuilt from its rows |
| chains, chain store, memo, manifests, `chain/*.c` | chains kept, verdicts remembered, revocations known to be missing | verify, mint, delegate, store, remember, admit a manifest | a verdict remembered and then outdated; a table of missing pairs that overflows |
| admission, `admit/admit.c` | all of the above | admit one frame | the order of the five checks |
| files, `spool/*.c`, `node/files.c`, `node/asks.c` | leaves, sidecar, tree and length on disk; a transfer in memory | want, put, fetch, check at rest, remove | power cuts between four files; late answers; two tables that must agree |
| persisted rows, `persist/*.c` | rows on disk, rows waiting in RAM | load, save, remove, flush | a disk that refuses, and what is shed |
| sessions and devices, `device/device.c`, `node/sessions.c`, `wire/session_frame.c` | keys, counters, message numbers | ask, grant, call, renew | retries, late answers, counters at their end |
| replies, `node/replies.c` | answers kept a few seconds | keep, find | a retry after the answer was dropped |
| state cells, log, roster, roots, pairing, staged changes, groups, notes, messages | the estate's replicated state | apply in rounds | order of arrival, tables that fill |

`PROJECT.json` lists every part with its sources, and every hazard at its line.

What a user of this code relies on, and what the modules therefore state:

- a frame acts at most once, and only for a sender entitled at that moment;
- a message handed up is exactly a message some one sender cut;
- a stream is one line of records: nothing received is overwritten, reordered or
  silently lost, and a host that falls behind catches up;
- a device is revoked by a quorum and restored by a quorum, on every host that has
  heard the same records, and after every restart;
- a file's sidecar never claims bytes that are not there, and a file somebody
  serves arrives.

## 2. Modules and the code they model

A module's operators keep the names of the C functions they translate. The map in
`PROJECT.json` gives the lines of each.

| module | models | state and actions |
|---|---|---|
| `ReplayWindow` | `frame/freshness.c` | `now`, `entries`; `Admit` is one `fzn_replay_admit`, `Sweep`, `Tick`, `Restart` |
| `Reassembly` | `chunk/reassembly.c`, `chunk/split.c` | `slots`, `now`, `lent`; `Accept`, `Sweep`, `Release`, `Forget`, `Tick` |
| `JournalOps` | `record/journal.c`, one entry | operators from an entry to an answer and an entry |
| `Journal` | `record/journal.c`, the table | `entries`; `Admit`, `AdmitChained`, `Anchor`, `Confirm` |
| `JournalExchange` | `node/journal.c`, `record/exchange.c`, `record/store_file.c`, `record/store_held.c`, the rebase of `node/reconcile.c`, `journal_talk_step` of `node/daemon.c` | per host `entry`, `store`, `kept`, `durable`; per conversation `talk`; `net`. `Write`, `Apply`, `Begin`, `Serve`, `PullDigest`, `PullRecords`, `PushDigest`, `Pushed`, `ServePush`, `Cut`, `Rebase`, `Flush`, `FlushRows`, `Crash`, `CrashInCut`, `CrashInRebase`, `Lose` |
| `RevocationJudge` | the verdicts of `chain/revocation.c` | operators over a store: votes, epochs, quorums, confirmed and standing admins |
| `RevocationStore` | the admission of records in `chain/revocation.c` | operators from a store and a record to an answer and a store |
| `Revocation` | `node/revoke.c` over them, with the memo's generation | per node `store`, its rows and what a start has to apply again (`again`); mint, undo, second, learn, publish, change k, restart |
| `Chain` | `chain/chain.c`, `chain_store.c`, `memo.c`, `manifest.c` | operators from a table to an answer and a table |
| `Admission` | `admit/admit.c` over `Chain`, `ReplayWindow` (by `INSTANCE`) and `RevocationStore` | `Receive`, `StoreChain`, `Learn`, `Follow`, `TakeManifest`, `MintVote`, `Publish`, `MintChain`, `Delegate`, `Tick` |
| `Spool` | `spool/spool.c`, `spool_file.c`, `plan.c`, `transfer.c`, the tree of `blob/levels.c` as the files use it | operators; one that touches several files answers the sequence of states the disk goes through |
| `FileFetch` | `node/files.c`, `node/asks.c`, as `node/daemon.c` drives them | `disk`, `f` (the fetch under way), `asks`; `Want`, `PutFile`, `RemoveFile`, `CheckFile`, `Begin`, `Pump`, `Answer`, `End`, `Crash`, `Damage` |
| `ReplayWindowProofs`, `JournalProofs` | | the theorems of section 6 |
| `MC*` | | the instances of section 3 |

Composition: `JournalOps` is shared by `Journal`, where every sequence of calls is
possible, and `JournalExchange`, where the calls are those the daemon makes.
`RevocationJudge` and `RevocationStore` are shared by `Revocation` (many nodes) and
`Admission` (one receiver in front of them), which also instantiates
`ReplayWindow`. So the window that is proved is the window frames go through.

**Environments.** A module whose behaviour depends on circumstances (a disk that
refuses, a key on two hosts, a small table) takes a set of them, `Envs`, and a
variable `env` chosen once in `Init`. One run then covers them all, and every
property that holds only in some says which in its own text.

**Crashes.** In `JournalExchange` a handler that makes several writes has a crash
action of its own that stops after any of them. In `Spool` and `FileFetch` a handler
answers the *path* of disk states it goes through; `Does` ends in the last of them,
`PowerCut` in any, losing any part of what was not yet synced.

## 3. The runs

Each run is `tlc -config <cfg> <module>`. "Shows" is what the passing run shows of
its instance; each property has a mutant in `PROJECT.json`, a plausible slip in one
mapped definition under which the same run fails.

### `replay_window` (`MCReplayWindow`)
Three nonces, two slots, a clock over the whole of 0..5 and a horizon of 2.
- `ReplayClosed`: no expiring frame is executed twice between two starts.

### `reassembly` (`MCReassembly`)
Three tables: one slot and chunks whose claims contradict each other; more messages
than slots and quotas; three honest senders on a lossy, reordering network.
- `PiecesIntact`: every accepted piece reads back from its place, also the last
  piece that waited at the buffer's end until the stride was known, and the pieces of
  a message that is handed over leave no hole.
- `RoundTrip`: what is handed over is what that sender cut.
- `HandedUntouched`: a message handed over is the caller's until released.
- `WantExact`: the ranges asked again name each missing piece once.
- `TypeOK` says too that a slot is lent to the caller once until it is released, however
  often its pieces come again.
  It has the bounds: no sender holds more than its quota, nor for longer.

### `journal` (`MCJournal`)
Two streams for one slot, three ids, sequences that wrap at 3; every order of calls.
- `OneLine`: what chained admission took is one line per stream.
- `NoWrap`: no unsigned wrap in `pending` and `next`.
- `NeverRewound`: no call moves a position back, forgets a fork or drops a stream.

### `exchange`, `exchange_catches_up` (`MCJournalExchange`)
Two hosts and one author's stream of up to three records; a good disk with two crashes
anywhere; a disk and RAM that refuse; kept rows that wait in RAM; the key on both hosts; a
stream the writer, or its follower, may shed.
- `OneBranchHeld`: what a host holds chains, from the base to the journal's head. The one
  exception the code makes is in section 7: a host that gave a row up, once a sequence
  was signed twice.
- `AheadOnlyAfterARefusal`: the journal is ahead of its store only where the store
  refused or shed a record.
- `NeverOverwritten`: a record held is never replaced by another, with the same exception.
- `ActsStand`: every act of the estate's stream can be followed back to the first,
  wherever in a cut or a rebase the host died.
- `NoForkOnAGoodDisk`: with one writer and a disk that refused neither a record nor a
  kept row, nobody answers FORK.
- `NoneOutOfPlace`: until a sequence is signed twice no host meets a record out of place,
  but one that a start left behind where it was (history `back`).
- `CatchesUp` (its own run, with fairness): a follower ends where its peer is.

### `revocation` (`MCRevocation`)
Eight small estates: a root and a member; the same restarted twice under more records; with
records in any order; with a save that fails; two admins of a quorum of two, and the same
restarted; admins named and seconded by admins; a root that revokes an admin while k changes.
A restart puts the whole journal before the node again (`again`), as the code does.
- `QuorumBothWays`: asked of the history of votes, not of the entries: it takes k to
  revoke (`QuorumToRevoke`) and k to restore (`QuorumToRestore`), and after k withdrew
  counting starts again; at a node that has been through its journal again.
- `ConfirmedLeast`: the confirmed admins are the least set the rule allows, whatever
  the order of the table, so admins cannot second each other in a circle.
- `RevokedVotesNothing`: a revoked admin's votes in the table count for nothing.
- `HoldsLatest`: in journal order a node holds each other issuer's latest record. While a
  started node goes through its journal again this is asked of votes in force only, which
  never lapse; of undone ones once it has been through (section 7).
- `MemoHonest`: a remembered verdict is what verifying now would say.
- `AlwaysLoads`, `RestartKeepsLearned`: what was saved loads, and says the same.

### `admission` (`MCAdmission`)
Seven receivers: a memo of one slot between two senders; repeated expiring frames for a
window of one; senders no root anchors and pieces the reassembly refuses; a manifest with
room for one missing pair, and too small a revocation store; chains minted and delegated; a
chain store of one.
- `EntitledNow`: what passes, by memo or afresh, has a chain that verifies now.
- `AtMostOnce`: an expiring frame passes once, memo or not.
- `ToldAccounted`: what a manifest named is held, listed as missing, or the overflow
  is on record.
- `GateHolds`: nothing verified afresh passes while a named pair is missing.
- `DelegationSound`: what is minted or delegated verifies until it ends, and its end is
  the soonest of its hops'.

### `file_fetch` (`MCFileFetch`)
A file of 2 to 7 leaves, one to three peers; peers that answer, answer short, late,
wrongly or never; power cuts; a disk that refuses (the open, a write, the tree) or damages;
checks and removals.
- `SidecarHonest`: the bitmap never claims a leaf that was not proved and synced.
- `AskedOnce`: no leaf is asked of two peers at once, nor one that is here.
- `BooksAgree`: the transfer's assignments, the fetch's slots, the counts of both and
  the asks in flight say the same.
- `HonestKept`: a peer that answers truthfully and in time is never given up.
- `CheckedServes`: a file found intact serves proofs that verify (leaf and leaf-hash
  damage; see section 7 for the rest).
- `Arrives` (fairness): a wanted file is in the end whole, where nothing is damaged, removed
  or refused and no call ends on its bound of work (`files.c:1052`).

### Runs that end in a counterexample
`revoke_overtaken`, `revoke_own_row`, `admission_zero_deficit` and `file_check_tree`
each check one sentence of the repository's own comments that the code does not keep;
see section 7.

## 4. Bounds, and why they are enough

Every bound is a named constant or a field of an environment.

- *Clocks and counters.* `UMAX` is small, so that the top of the unsigned range is
  reached and saturation and wrap happen (`horizon_of`, `PlusOne`). Sequences in
  `JournalExchange` stay below `UMAX`, the wrap being `Journal`'s.
- *Two hosts* exchange one stream. Streams do not touch each other in `node/journal.c`,
  and a conversation has two ends; the third host a rebase consults is the set `others`.
- *Three records*: one below a base, one at it, one above. A cut, a rebase over a gap and
  a fork need no more. *Two bodies* at a sequence are a fork.
- *Crashes*: two on a good disk, so that a crash can hit the recovery from a crash. A
  refusing disk is combined with two crashes of the writer alone (`frail`), once for the
  estate's stream (`WorseDisk`) and once without a peer (`reach` is FALSE) and with three
  records (`Stale`), the least in which a row shed lay over a record of before a crash.
  The other environments with faults have one crash.
- *Revocations*: three to five records minted let a pair be revoked, restored, revoked and
  restored. Two targets at most, k at most 2, four admins where admins name admins: the
  smallest in which a circle of seconding exists. Two restarts over four records
  (`Reapplied`) let a node re-apply what an undone vote of its rows supersedes; the quorum is
  restarted with three (`QuorateAgain`), because with five the run is too long.
- *Files*: 7 leaves and spans of one where a peer must be out for two ranges; 5 leaves and
  spans of four where a range crosses a subtree; windows of 2; at most 3 peers; one power
  cut where the disk also refuses and damages.
- *One stale answer* at a time (`stale`) in `FileFetch`: a late answer matters by the
  slot it lands in, and slots are told apart.

Symmetry is used in `replay_window` only, where nonces are interchangeable.
Deadlock checking is on where the system never stops (window, reassembly, journal,
exchange) and off where bounded minting or bounded time really ends.

## 5. Fairness

- `JournalExchange!FairSpec`: weak fairness of beginning a round and of the flush, both of
  which `node/daemon.c` does at every tick; strong fairness of each kind of question being
  answered. A peer may be silent and an answer late any number of times; only that *no
  kind of question goes unanswered for ever* is assumed, and nothing about losses.
- `FileFetch!FairSpec`: weak fairness of the pump, of beginning and ending a fetch, which
  the event loop calls at every pass, and of each peer's ask being answered *or timing
  out* (`fzn_node_asks_expire`). No fairness makes a peer answer: `Arrives` assumes one
  peer, `honest`, that does.

Everything else is safety and is checked without fairness.

## 6. Proofs

TLAPS checks every step of two modules, for every value of the constants that meets
the named assumptions.

**`ReplayWindowProofs`** (assumes `WindowAssumption`: a capacity and a horizon that are
not zero, which `fzn_replay_init` refuses).
- `Typing`: `Spec => []TypeOK`, the bound of the array included. The step that appends
  needs the cardinality of a swept, finite set: `SweepShrinks`.
- `NoReplay`: `Spec => [](ReplayClosed /\ LiveFramesRemembered)`. `ReplayClosed` alone is not
  inductive: that no frame was executed twice says nothing of the window. The
  strengthening is `LiveFramesRemembered`: an executed frame whose expiry is ahead of the
  clock is still in the window. `fzn_freshness_check` and `fzn_replay_expire` draw the line
  at the same tick, so a repeated frame is found or has expired. The capacity plays no
  part, because a full window refuses.

**`JournalProofs`** (assumes `JournalAssumption`: the zero id is an id, the width is a
positive number).
- `AdmitMoves`, `ChainedMoves`, `AnchorMoves`, `ConfirmMoves`: what each call of
  `record/journal.c` may do to an entry, one lemma per call.
- `Typing`, `Chained` (`OneLine`), `Unwrapped` (`NoWrap`) and `Forward`
  (`NeverRewound`). The inductive invariant is `JournalInv`: the types, `Bounded`
  (applied at most received), and `LineHeld`: whatever chained admission took lies at or
  below the position, what lies *at* it is the head, and an entry at 0 has the zero id as
  its head. Without `LineHeld` the next record of a line could chain to a head that is not
  the record taken last; it is what `fzn_journal_anchor` must restore when it forgets
  the head.

All of the composed modules are model-checked only. Liveness is out of the prover's reach.

## 7. Where the code and its documentation part

Four sentences are checked by runs that find a counterexample:

| run | code | says | what happens |
|---|---|---|---|
| `revoke_overtaken` | `chain/revocation.c:1797` | `revocation.c:1740` "A revocation store errs revoked" | a reissue two steps ahead is passed over, the late withdrawal between restores the pair; cannot happen in journal order |
| `revoke_own_row` | `node/revoke.c:423` | `node/revoke.h:24` "the latest record is what a restart must re-establish" | a node's own older vote, kept as a learned row, is walked after its issued row and brings an undone vote back |
| `admission_zero_deficit` | `chain/revocation.c:1690` | `chain/manifest.h:32` a zero deficit means nothing named is missing | the receiver holds a withdrawal whose revocation it has not met and a manifest names a newer revocation; the delayed copy of the first drains the deficit. The drain is meant (`manifest.c:552`) for a host that is ahead of who sent the record; this one is behind who sent the manifest |
| `file_check_tree` | `node/files.c:1461` | `node/files.h:230` "when only the tree is wrong, it is rebuilt from the leaves" | damage above the tree's level 0 is answered intact, and the proofs served do not verify |

Met while modelling and kept in the models as the code has them, without a run:

- `chunk/reassembly.c:570`: a shorter repeat of the last piece that is a prefix of it is
  answered OK; `reassembly.h:74` calls a repeat that differs a conflict.
- `node/journal.c:631`: the base row may wait in RAM while the record file takes the cut it
  describes, and a crash then brings the old base back (`node/journal.h:267` "A base never
  moves down").
- `record/store_held.c:81`: rows shed from RAM leave holes below the received position
  (`node/journal.h:133` calls it an unbroken run). When a crash took a record the disk had
  refused, the writer signed that sequence again, and the new row waits in RAM over an older
  record the file still has behind the gap, shedding the row shows the older one
  (`held_get`): not "a hole a peer fills" (`record/store_held.h:13`) but a record of the other
  branch. It is the exception in `OneBranchHeld` and `NeverOverwritten`.
- `node/apply.h:30`: "applies everything again and changes nothing" holds once everything
  was applied. Meanwhile an older reissue meets the undone entry a row gave back and revokes
  again, until its withdrawal is reached; a vote in force never lapses.
- `node/journal.c:294`: a writer whose disk refused its record signs the sequence again
  after a crash, and a peer that took the first answers FORK, which
  `record/journal.h:76` explains as a key used in two places.
- `chain/revocation.c:1626`: a withdrawal that arrives before the vote it undoes keeps no
  line; `revocation.c:1636`: one that overtakes a reissue is refused as a mismatch.
- `node/revoke.c:200`: a reissue admitted and not saved cannot be undone after a restart.
- `chain/revocation.c:1800`: the epoch of a live vote advances without moving the
  generation the memo compares.
- `chain/revocation.c:1658`: a withdrawal drains no deficit (`manifest.h:677`), and
  `manifest.h` says withdrawn pairs are not in a manifest while `manifest_issue` puts them in.
- `admit/admit.c:174`: a memo hit is not held up by a missing pair; `GateHolds` is of
  chains verified afresh.
- `node/files.c:874`: a disk that refuses is charged to the peer whose reply was refused.
- `node/files.c:1484`: the tree is removed before the bitmap that forgets the damaged
  leaves is saved. A power cut between them, or damage to a leaf before the tree exists,
  leaves a complete bitmap whose tree never folds: the fetch finds nothing to ask, the
  check answers absent, until the file is removed.
- A power cut in the middle of a removal or a put leaves a `.len`, which is a want.

## 8. Abstractions

- Signatures, hashes and seals are perfect. A record's hash is the record, or its place in
  the sequence of records minted.
- A byte string is a model value, a small sequence of small numbers (`Reassembly`, where
  overlap is the question) or a set of leaves.
- `persist` rows are saved atomically (write, fsync, rename) or refused. Renames are durable
  in order. File data is durable after its fsync and may be lost before.
- Deadlines pass in any order: a wait that is over may be ended late. Times that the code
  only compares are small numbers.
- `Revocation` and `Admission` have one root. The root set of an estate enters the verdicts
  as a rigid set of members and of acts that no longer count. With several member roots
  the floor `judge_hop` raises in its loop depends on the order of the entries, which are a
  set here: `RootPass` is the pass of one root.
- `fzn_chain_open` never refuses in `Admission`: it opens what `fzn_chain_store_admit` packed.
- A generation number in `node/asks.c` only tells the occupants of a slot apart, so
  `FileFetch` reuses those no request carries.
- `FileFetch` has one file; the transfer of each file is its own in the code.
- The bound on the calls of one fetch (`4 * leaves + 1000`, `files.c:1052`) is reached at any
  call where the environment has `steps`, and never elsewhere: how many calls fall between
  two answers is a matter of real time.
- Each module's history variables (`executed`, `line`, `signed`, `told`, ...) are named as
  such where they are declared, and no guard reads them.

## 9. What is not modelled

`PROJECT.json` has the full list with reasons. In short: cryptographic primitives, codecs,
text formats, the command line and the views; transport sockets; the dispatch of
`node/daemon.c`. These are sequential code or I/O. The replicated state of the
estate beyond journal and revocations (settings, roster, roots, groups, notes, messages),
sessions with small devices, kept replies and the persisted rows' delta are protocols of
their own that have no module yet: they are the plan. As it stands the project covers the
receive path, the record journal and its exchange, revocation, and the file fetch; by
lines that is a small part of a large program.

## 10. The plan

In this order; each module is written without recursive operators, so that it can be
proved about.

1. `DeviceSession`: `device/device.c`, `node/sessions.c`, `wire/session_frame.c`. Ask, grant,
   confirm and spend over a network that loses, repeats and delays. A call is answered by
   the answer to that call; the live session is not replaced by a stale ask; a counter is
   never used twice under a key; a device that keeps trying is served. To prove: the receive
   window, as `ReplayWindow` is.
2. `Replies`: `node/replies.c` with the retry loop of `node/caller.c`. A handler runs once per
   request within the time and room the table has, and the bound beyond which it may not.
3. `PersistDelta`: `persist/delta.c`, an abstract map of rows as its specification and a
   refinement: as long as nothing is shed, the store with a delta *is* a store. The same for
   `persist/cache.c`. `JournalExchange` and `Revocation` then rest on it.
4. `StateCells` and `Roster`: `state/state.c`, `roster/roster.c`. Two hosts that applied the
   same records in different orders agree, and where a full table breaks it.
5. `Apply`: `node/apply.c`, `node/settings.c`, `node/stage.c`. Parking and taking up, and a
   staged change that reverts on every host or on none.
6. `Roots`: `chain/succession.c`, `chain/root_log.c`, `node/roots.c`. The root set that
   `RevocationJudge` takes as given.
7. `OpJournal` (`node/opjournal.c`), holds on files (`node/file_holds.c`), then groups, notes
   and messages by the shape they share with what is there.
8. Proofs: the disjointness behind `AskedOnce`;
   `SidecarHonest` over the disk paths of `Spool`; `OneBranchHeld` of `JournalExchange`;
   `QuorumToRevoke` from `RevocationJudge`; the refinement of 3.
