--------------------------- MODULE ReplayWindow ---------------------------
(* Command freshness and the replay window it bounds: frame/freshness.c.   *)
(*                                                                         *)
(* One receiver holds one window of Capacity slots.  Authenticated frames  *)
(* arrive in any order and any number of times: the network may repeat a   *)
(* frame for as long as it likes.  A frame is a nonce and an expiry, and   *)
(* the receiver's clock only moves forward.  The window lives in memory,   *)
(* so a restart empties it and starts the history again.                   *)
EXTENDS Naturals, FiniteSets

CONSTANTS
  Nonce,      \* the frame nonces
  UMAX,       \* UINT64_MAX
  Capacity,   \* window->capacity
  MaxAhead    \* window->max_ahead

(* fzn_replay_init refuses a window without slots or without a horizon.    *)
ASSUME WindowAssumption ==
  /\ UMAX \in Nat
  /\ Capacity \in Nat \ {0}
  /\ MaxAhead \in 1..UMAX

NO_EXPIRY == 0
Time == 0..UMAX
Frame == [nonce : Nonce, expires_at : Time]

VARIABLES
  now,        \* the receiver's clock
  entries,    \* the live slots of the window, entries[0 .. used)
  executed,   \* history: the expiring frames admitted since the last start
  replayed    \* history: those of them admitted a second time

vars == <<now, entries, executed, replayed>>

-----------------------------------------------------------------------------
(* Freshness.                                                              *)

(* horizon_of: now + max_ahead, held at the top of the range.              *)
horizon_of(t) == IF MaxAhead > UMAX - t THEN UMAX ELSE t + MaxAhead

(* fzn_freshness_check; "optional" is FZN_EXPIRY_OPTIONAL, the policy under *)
(* which a frame may name no expiry at all.                                *)
fzn_freshness_check(t, e, optional) ==
  CASE e = NO_EXPIRY -> IF optional THEN "OK" ELSE "NO_EXPIRY"
    [] e # NO_EXPIRY /\ e <= t -> "EXPIRED"
    [] e # NO_EXPIRY /\ e > t /\ e > horizon_of(t) -> "HORIZON"
    [] OTHER -> "OK"

-----------------------------------------------------------------------------
(* The window.                                                             *)

(* Mutant of fzn_replay_expire: a slot is reclaimed one tick too early. *)
Mut_EagerExpire(es, t) == {e \in es : e.expires_at > t + 1}

(* fzn_replay_expire: reclaim every slot whose frame has expired.          *)
fzn_replay_expire(es, t) == {e \in es : e.expires_at > t}

(* The scan of fzn_replay_admit for the frame's nonce.                     *)
Seen(es, f) == \E e \in es : e.nonce = f.nonce

(* Mutant of Verdict: the capacity check is off by one. *)
Mut_OneSlotTooMany(es, t, f, optional) ==
  LET fresh == fzn_freshness_check(t, f.expires_at, optional) IN
    IF fresh # "OK" \/ f.expires_at = NO_EXPIRY THEN fresh
    ELSE IF Seen(es, f) THEN "REPLAY"
    ELSE IF Cardinality(es) > Capacity THEN "WINDOW_FULL"
    ELSE "OK"

(* fzn_replay_admit's verdict on the swept window es.                      *)
Verdict(es, t, f, optional) ==
  LET fresh == fzn_freshness_check(t, f.expires_at, optional) IN
    IF fresh # "OK" \/ f.expires_at = NO_EXPIRY THEN fresh
    ELSE IF Seen(es, f) THEN "REPLAY"
    ELSE IF Cardinality(es) >= Capacity THEN "WINDOW_FULL"
    ELSE "OK"

(* The slots after the call: only an expiring frame that is admitted takes *)
(* one.                                                                    *)
Recorded(es, t, f, optional) ==
  IF Verdict(es, t, f, optional) = "OK" /\ f.expires_at # NO_EXPIRY
    THEN es \cup {f} ELSE es

-----------------------------------------------------------------------------
Init ==
  /\ now \in Time
  /\ entries = {}
  /\ executed = {}
  /\ replayed = {}

(* One call of fzn_replay_admit: sweep, judge, record.  The frame is       *)
(* executed exactly when the verdict is OK.                                *)
Admit(f, optional) ==
  LET swept == fzn_replay_expire(entries, now) IN
  /\ entries' = Recorded(swept, now, f, optional)
  /\ IF Verdict(swept, now, f, optional) = "OK" /\ f.expires_at # NO_EXPIRY
       THEN /\ executed' = executed \cup {f}
            /\ replayed' = replayed \cup (executed \cap {f})
       ELSE UNCHANGED <<executed, replayed>>
  /\ UNCHANGED now

(* fzn_replay_expire called on its own, by a quiet receiver.               *)
Sweep ==
  /\ entries' = fzn_replay_expire(entries, now)
  /\ UNCHANGED <<now, executed, replayed>>

Tick ==
  /\ \E t \in Time : t > now /\ now' = t
  /\ UNCHANGED <<entries, executed, replayed>>

(* The process is started again: fzn_replay_init empties the window.       *)
Restart ==
  /\ entries' = {}
  /\ executed' = {}
  /\ replayed' = {}
  /\ UNCHANGED now

Next ==
  \/ \E f \in Frame, optional \in BOOLEAN : Admit(f, optional)
  \/ Sweep
  \/ Tick
  \/ Restart

Spec == Init /\ [][Next]_vars

-----------------------------------------------------------------------------
(* Properties.                                                             *)

(* The types, and the bound of the array: used never passes capacity.      *)
TypeOK ==
  /\ now \in Time
  /\ entries \subseteq Frame
  /\ Cardinality(entries) <= Capacity
  /\ executed \subseteq Frame
  /\ replayed \subseteq Frame

(* Replay is closed: no expiring frame is executed twice between two       *)
(* starts, however often and however late the network repeats it.          *)
ReplayClosed == replayed = {}

(* What makes it so: a frame that was executed and could still pass the    *)
(* freshness check is remembered by the window.                            *)
LiveFramesRemembered ==
  \A f \in executed : f.expires_at > now => f \in entries

=============================================================================
