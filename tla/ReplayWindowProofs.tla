------------------------ MODULE ReplayWindowProofs ------------------------
(* Proofs about ReplayWindow, for every set of nonces, every width of the  *)
(* clock, every capacity and every horizon.                                *)
EXTENDS ReplayWindow, FiniteSetTheorems, TLAPS

(* The horizon is a time, never in the past of the clock, and never moves  *)
(* back: horizon_of saturates instead of wrapping.                         *)
LEMMA HorizonMonotone ==
  ASSUME NEW s \in Time, NEW t \in Time, s <= t
  PROVE  /\ horizon_of(s) \in Time
         /\ horizon_of(s) <= horizon_of(t)
BY WindowAssumption DEF Time, horizon_of

(* A frame with an expiry passes the freshness check only between the      *)
(* clock and the horizon.                                                  *)
LEMMA FreshBounds ==
  ASSUME NEW t \in Time, NEW e \in Time, NEW o \in BOOLEAN, e # NO_EXPIRY,
         fzn_freshness_check(t, e, o) = "OK"
  PROVE  e > t /\ e <= horizon_of(t)
<1>1. horizon_of(t) \in Time
  BY HorizonMonotone DEF Time
<1> QED
  BY <1>1 DEF fzn_freshness_check, Time

(* Sweeping leaves a finite set finite and no larger. *)
LEMMA SweepShrinks ==
  ASSUME NEW es, IsFiniteSet(es), NEW t
  PROVE  /\ IsFiniteSet(fzn_replay_expire(es, t))
         /\ Cardinality(fzn_replay_expire(es, t)) \in Nat
         /\ Cardinality(es) \in Nat
         /\ Cardinality(fzn_replay_expire(es, t)) <= Cardinality(es)
<1>1. fzn_replay_expire(es, t) \subseteq es
  BY DEF fzn_replay_expire
<1> QED
  BY <1>1, FS_Subset, FS_CardinalityType

(* Typing is inductive once the window is known to be finite. *)
TypeInv == TypeOK /\ IsFiniteSet(entries)

(* Every variable keeps its type and the window never outgrows its array:  *)
(* fzn_replay_admit appends only while used < capacity.                    *)
THEOREM Typing == Spec => []TypeOK
<1>1. Init => TypeInv
  BY FS_EmptySet, WindowAssumption DEF Init, TypeInv, TypeOK
<1>2. TypeInv /\ [Next]_vars => TypeInv'
  <2> SUFFICES ASSUME TypeInv, [Next]_vars PROVE TypeInv'
    OBVIOUS
  <2> USE DEF TypeInv
  <2>1. ASSUME NEW f \in Frame, NEW o \in BOOLEAN, Admit(f, o) PROVE TypeInv'
    <3> DEFINE swept == fzn_replay_expire(entries, now)
    <3>1. /\ IsFiniteSet(swept) /\ Cardinality(swept) \in Nat
          /\ Cardinality(swept) <= Capacity
      BY SweepShrinks, WindowAssumption DEF TypeOK
    <3>2. IsFiniteSet(entries') /\ Cardinality(entries') <= Capacity
      <4>1. CASE Verdict(swept, now, f, o) = "OK" /\ f.expires_at # NO_EXPIRY
        <5>1. entries' = swept \cup {f}
          BY <2>1, <4>1 DEF Admit, Recorded
        <5>2. Cardinality(swept) < Capacity
          BY <3>1, <4>1, WindowAssumption DEF Verdict
        <5>3. /\ IsFiniteSet(swept \cup {f})
              /\ Cardinality(swept \cup {f}) \in {Cardinality(swept), Cardinality(swept) + 1}
          <6> HIDE DEF swept
          <6> QED
            BY <3>1, FS_AddElement
        <5> QED
          BY <5>1, <5>2, <5>3, <3>1, WindowAssumption
      <4>2. CASE ~(Verdict(swept, now, f, o) = "OK" /\ f.expires_at # NO_EXPIRY)
        BY <2>1, <3>1, <4>2 DEF Admit, Recorded
      <4> QED
        BY <4>1, <4>2
    <3> QED
      BY <2>1, <3>2 DEF TypeOK, Admit, Recorded, fzn_replay_expire
  <2>2. CASE Sweep
    <3>1. IsFiniteSet(entries') /\ Cardinality(entries') <= Capacity
      BY <2>2, SweepShrinks, WindowAssumption DEF Sweep, TypeOK
    <3> QED
      BY <2>2, <3>1 DEF TypeOK, Sweep, fzn_replay_expire
  <2>3. CASE Tick
    BY <2>3 DEF TypeOK, Tick
  <2>4. CASE Restart
    BY <2>4, FS_EmptySet, WindowAssumption DEF TypeOK, Restart
  <2>5. CASE UNCHANGED vars
    BY <2>5 DEF TypeOK, vars
  <2> QED
    BY <2>1, <2>2, <2>3, <2>4, <2>5 DEF Next
<1>3. TypeInv => TypeOK
  BY DEF TypeInv
<1> QED
  BY <1>1, <1>2, <1>3, PTL DEF Spec

(* The inductive core of the replay argument, which needs only the types.  *)
FrameTypes ==
  /\ now \in Time
  /\ entries \subseteq Frame
  /\ executed \subseteq Frame
  /\ replayed \subseteq Frame
ReplayInv == FrameTypes /\ LiveFramesRemembered /\ ReplayClosed

(* Replay is closed: an expiring frame is executed at most once between    *)
(* two starts.  fzn_replay_expire and fzn_freshness_check draw the line at *)
(* the same tick, so a frame is either still in the window or refused as   *)
(* expired; nothing about the capacity is needed.                          *)
THEOREM NoReplay == Spec => [](ReplayClosed /\ LiveFramesRemembered)
<1>1. Init => ReplayInv
  BY DEF Init, ReplayInv, FrameTypes, LiveFramesRemembered, ReplayClosed
<1>2. ReplayInv /\ [Next]_vars => ReplayInv'
  <2> SUFFICES ASSUME ReplayInv, [Next]_vars PROVE ReplayInv'
    OBVIOUS
  <2> USE DEF ReplayInv
  <2>1. ASSUME NEW f \in Frame, NEW o \in BOOLEAN, Admit(f, o) PROVE ReplayInv'
    <3> DEFINE swept == fzn_replay_expire(entries, now)
    <3>1. now' = now /\ now \in Time /\ f.expires_at \in Time
      BY <2>1 DEF Admit, FrameTypes, Frame
    <3>2. entries' \subseteq Frame /\ executed' \subseteq Frame /\ replayed' \subseteq Frame
      BY <2>1 DEF Admit, FrameTypes, Recorded, fzn_replay_expire
    <3>3. swept \subseteq entries'
      BY <2>1 DEF Admit, Recorded
    <3>4. \A g \in executed : g.expires_at > now => g \in swept
      BY DEF LiveFramesRemembered, fzn_replay_expire, FrameTypes
    <3>5. CASE Verdict(swept, now, f, o) = "OK" /\ f.expires_at # NO_EXPIRY
      <4>1. fzn_freshness_check(now, f.expires_at, o) = "OK" /\ ~Seen(swept, f)
        BY <3>5 DEF Verdict
      <4>2. f.expires_at > now
        BY <4>1, <3>1, <3>5, FreshBounds
      <4>3. f \notin executed
        BY <4>1, <4>2, <3>4 DEF Seen
      <4>4. entries' = swept \cup {f}
        BY <2>1, <3>5 DEF Admit, Recorded
      <4>5. executed' = executed \cup {f} /\ replayed' = replayed \cup (executed \cap {f})
        BY <2>1, <3>5 DEF Admit
      <4>6. ReplayClosed'
        BY <4>3, <4>5 DEF ReplayClosed
      <4>7. LiveFramesRemembered'
        BY <4>4, <4>5, <3>1, <3>4 DEF LiveFramesRemembered
      <4> QED
        BY <4>6, <4>7, <3>1, <3>2 DEF FrameTypes
    <3>6. CASE ~(Verdict(swept, now, f, o) = "OK" /\ f.expires_at # NO_EXPIRY)
      <4>1. UNCHANGED <<executed, replayed>>
        BY <2>1, <3>6 DEF Admit
      <4> QED
        BY <4>1, <3>1, <3>2, <3>3, <3>4 DEF FrameTypes, ReplayClosed, LiveFramesRemembered
    <3> QED
      BY <3>5, <3>6
  <2>2. CASE Sweep
    BY <2>2 DEF Sweep, FrameTypes, ReplayClosed, LiveFramesRemembered, fzn_replay_expire
  <2>3. CASE Tick
    BY <2>3 DEF Tick, FrameTypes, ReplayClosed, LiveFramesRemembered, Time, Frame
  <2>4. CASE Restart
    BY <2>4 DEF Restart, FrameTypes, ReplayClosed, LiveFramesRemembered
  <2>5. CASE UNCHANGED vars
    BY <2>5 DEF vars, FrameTypes, ReplayClosed, LiveFramesRemembered
  <2> QED
    BY <2>1, <2>2, <2>3, <2>4, <2>5 DEF Next
<1>3. ReplayInv => ReplayClosed /\ LiveFramesRemembered
  BY DEF ReplayInv
<1> QED
  BY <1>1, <1>2, <1>3, PTL DEF Spec

=============================================================================
