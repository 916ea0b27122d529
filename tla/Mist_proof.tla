----------------------------- MODULE Mist_proof -----------------------------
(***************************************************************************)
(* Proofs about the MIST sequence, for every ACK_TIMEOUT and every set of  *)
(* direct modes.                                                           *)
(***************************************************************************)
EXTENDS Mist, TLAPS

\* The sequences that a gate can hold between two calls.
MistType ==
  [phase : Phases, since : {NotSet} \cup 0..ACK_TIMEOUT, needs_park : BOOLEAN]

LEMMA SinceType == 0 \in {NotSet} \cup 0..ACK_TIMEOUT /\ 0 # NotSet
BY MistAssumption DEF NotSet

LEMMA NewMistType == NewMist \in MistType
BY DEF NewMist, MistType, Phases

\* `enter' sets the phase, starts its clock and keeps needs_park.
LEMMA EnteredType ==
  ASSUME NEW m \in MistType, NEW phase \in Phases
  PROVE  /\ Entered(m, phase) \in MistType
         /\ Entered(m, phase).phase = phase
         /\ Entered(m, phase).since = 0
         /\ Entered(m, phase).needs_park = m.needs_park
<1>1. [m EXCEPT !.phase = phase] \in MistType
  BY DEF MistType
<1>2. Entered(m, phase) = [[m EXCEPT !.phase = phase] EXCEPT !.since = 0]
  BY DEF Entered, MistType
<1>3. Entered(m, phase) \in MistType
  BY <1>1, <1>2, SinceType DEF MistType
<1> QED BY <1>1, <1>2, <1>3 DEF MistType

LEMMA NeedsParkType ==
  ASSUME NEW m \in MistType, NEW needed \in BOOLEAN
  PROVE  /\ [m EXCEPT !.needs_park = needed] \in MistType
         /\ [m EXCEPT !.needs_park = needed].needs_park = needed
BY DEF MistType

\* `invalidate' never loses a cleanup, and enters no phase but Idle or Parking.
LEMMA InvalidatedKeepsPark ==
  ASSUME NEW m \in MistType
  PROVE  /\ Invalidated(m) \in MistType
         /\ Invalidated(m).needs_park = m.needs_park
         /\ Invalidated(m).phase = (IF m.needs_park THEN "Parking" ELSE "Idle")
<1>1. [m EXCEPT !.phase = "Parking", !.since = NotSet]
        = [[m EXCEPT !.phase = "Parking"] EXCEPT !.since = NotSet]
  BY DEF MistType
<1>2. [m EXCEPT !.phase = "Parking"] \in MistType
  BY DEF MistType, Phases
<1>3. [[m EXCEPT !.phase = "Parking"] EXCEPT !.since = NotSet] \in MistType
  BY <1>2 DEF MistType
<1>4. CASE m.needs_park /\ m.phase # "Parking"
  BY <1>1, <1>2, <1>3, <1>4 DEF Invalidated, MistType
<1>5. CASE m.needs_park /\ m.phase = "Parking"
  BY <1>5 DEF Invalidated
<1>6. CASE ~m.needs_park
  BY <1>6, NewMistType DEF Invalidated, NewMist, MistType
<1> QED BY <1>4, <1>5, <1>6 DEF MistType

\* What one frame makes of a sequence that is not ended by the command.
LEMMA SteppedCases ==
  ASSUME NEW m \in MistType, NEW request, NEW observed,
         m.needs_park <=> m.phase \in {"Starting", "Parking"},
         m.since = NotSet => m.phase \in {"Idle", "Parking"},
         request = MistRequest \/ (request = None /\ m.needs_park),
         NEW n, n = Stepped(Prepared(m, request), request, observed)
  PROVE  /\ n \in MistType
         /\ n.needs_park <=> n.phase \in {"Starting", "Parking"}
         /\ n.since # NotSet
         /\ n.phase = "Starting" =>
              m.phase \in {"Resetting", "Starting"} /\ request = MistRequest
         /\ n.phase \in {"Idle", "Resetting"} =>
              m.phase \in {"Idle", "Resetting"} \/ request # MistRequest
<1> DEFINE p == Prepared(m, request)
<1>1. /\ p \in MistType
      /\ p.needs_park = m.needs_park
      /\ p.phase = IF request # MistRequest THEN "Parking" ELSE m.phase
      /\ p.since = NotSet => p.phase = "Idle"
  <2>1. CASE request # MistRequest /\ m.phase # "Parking"
    <3>1. p = Entered(m, "Parking")
      BY <2>1 DEF Prepared
    <3> QED BY <2>1, <3>1, EnteredType, SinceType DEF Phases
  <2>2. CASE ~(request # MistRequest /\ m.phase # "Parking")
             /\ m.since = NotSet /\ m.needs_park
    <3>1. p = [m EXCEPT !.since = 0]
      BY <2>2 DEF Prepared
    <3> QED BY <2>2, <3>1, SinceType DEF MistType
  <2>3. CASE ~(request # MistRequest /\ m.phase # "Parking")
             /\ ~(m.since = NotSet /\ m.needs_park)
    <3>1. p = m
      BY <2>3 DEF Prepared
    <3> QED BY <2>3, <3>1
  <2> QED BY <2>1, <2>2, <2>3
<1>2. n = Stepped(p, request, observed)
  OBVIOUS
<1>3. /\ p.phase \in Phases
      /\ p.needs_park <=> p.phase \in {"Starting", "Parking"}
      /\ p.phase = "Parking" \/ (p.phase = m.phase /\ request = MistRequest)
  BY <1>1 DEF MistType
<1> HIDE DEF p
\* Whatever the phase, it either stays or one of five phases is entered.
<1>4. \/ n = p /\ p.phase # "Idle"
      \/ n = Entered(p, "Resetting") /\ p.phase = "Idle"
      \/ /\ n = Entered([p EXCEPT !.needs_park = TRUE], "Starting")
         /\ p.phase = "Resetting"
      \/ n = Entered(p, "Done") /\ p.phase = "Resetting"
      \/ n = Entered(p, "Parking") /\ p.phase = "Starting"
      \/ n = AfterParking(p, request) /\ p.phase = "Parking"
  BY <1>2 DEF Stepped
<1>5. CASE n = p /\ p.phase # "Idle"
  BY <1>1, <1>3, <1>5
<1>6. CASE n = Entered(p, "Resetting") /\ p.phase = "Idle"
  BY <1>1, <1>3, <1>6, EnteredType, SinceType DEF Phases
<1>7. CASE /\ n = Entered([p EXCEPT !.needs_park = TRUE], "Starting")
           /\ p.phase = "Resetting"
  <2> DEFINE q == [p EXCEPT !.needs_park = TRUE]
  <2>1. q \in MistType /\ q.needs_park = TRUE
    BY <1>1, NeedsParkType
  <2>2. n = Entered(q, "Starting") /\ "Starting" \in Phases
    BY <1>7 DEF Phases
  <2> HIDE DEF q
  <2>3. /\ n \in MistType /\ n.phase = "Starting" /\ n.since = 0
        /\ n.needs_park = TRUE
    BY <2>1, <2>2, EnteredType
  <2> QED BY <1>1, <1>3, <1>7, <2>3, SinceType
<1>8. CASE n = Entered(p, "Done") /\ p.phase = "Resetting"
  BY <1>1, <1>3, <1>8, EnteredType, SinceType DEF Phases
<1>9. CASE n = Entered(p, "Parking") /\ p.phase = "Starting"
  BY <1>1, <1>3, <1>9, EnteredType, SinceType DEF Phases
<1>10. CASE n = AfterParking(p, request) /\ p.phase = "Parking"
  <2> DEFINE next == IF request = MistRequest THEN "Done" ELSE "Idle"
  <2> DEFINE q == [p EXCEPT !.needs_park = FALSE]
  <2>1. q \in MistType /\ q.needs_park = FALSE
    BY <1>1, NeedsParkType
  <2>2. n = Entered(q, next) /\ next \in Phases
    BY <1>10 DEF AfterParking, Phases
  <2> HIDE DEF q
  <2>3. /\ n \in MistType /\ n.phase = next /\ n.since = 0
        /\ n.needs_park = FALSE
    BY <2>1, <2>2, EnteredType
  <2> QED BY <1>1, <2>3, SinceType
<1> QED BY <1>4, <1>5, <1>6, <1>7, <1>8, <1>9, <1>10

\* One frame keeps the invariant, and a sweep starts only from Resetting.
LEMMA FramePreserves ==
  ASSUME IInv, NEW observed \in Observations, Frame(observed)
  PROVE  IInv' /\ (SweepStarts => lastEvent # "sweep")
<1> USE MistAssumption
<1>1. mist \in MistType /\ desired \in Direct \cup {None, MistRequest}
  BY DEF IInv, TypeOK, MistType, Requests
<1>2. CASE desired \in Direct \/ (desired = None /\ ~mist.needs_park)
  <2>1. mist' = NewMist /\ mode' = desired
    BY <1>2 DEF Frame, Applied, Output
  <2>2. mode' # None => desired \in Direct
    BY <1>2, <2>1
  <2>3. /\ mist' \in MistType /\ mist'.phase = "Idle" /\ ~mist'.needs_park
    BY <2>1, NewMistType DEF NewMist
  <2>4. ~SweepStarts
    BY <2>3 DEF SweepStarts
  <2>5. UNCHANGED <<desired, lastEvent>>
    BY <2>4 DEF Frame
  <2>6. /\ mode' \in Direct \cup {None} /\ lastSweep' \in BOOLEAN
        /\ lastSweep' => mode' = None /\ lastSweep
    BY <1>2, <2>1, <2>2, <2>3 DEF Frame, IInv, TypeOK
  <2>7. TypeOK'
    BY <2>3, <2>5, <2>6 DEF IInv, TypeOK, MistType
  <2>8. ParkNeeded'
    BY <2>3 DEF ParkNeeded
  <2>9. SweepNeedsPark'
    BY <1>2, <2>1, <2>6 DEF IInv, SweepNeedsPark
  <2>10. NotSwept'
    BY <1>2, <2>5 DEF IInv, NotSwept
  <2> QED BY <2>4, <2>7, <2>8, <2>9, <2>10 DEF IInv
<1>3. CASE ~(desired \in Direct \/ (desired = None /\ ~mist.needs_park))
  <2>1. mist' = Stepped(Prepared(mist, desired), desired, observed)
    BY <1>3 DEF Frame, Applied
  <2>2. desired = MistRequest \/ (desired = None /\ mist.needs_park)
    BY <1>1, <1>3
  <2>3. /\ mist' \in MistType
        /\ mist'.needs_park <=> mist'.phase \in {"Starting", "Parking"}
        /\ mist'.since # NotSet
        /\ mist'.phase = "Starting" =>
             mist.phase \in {"Resetting", "Starting"} /\ desired = MistRequest
        /\ mist'.phase \in {"Idle", "Resetting"} =>
             mist.phase \in {"Idle", "Resetting"} \/ desired # MistRequest
    BY <1>1, <2>1, <2>2, SteppedCases DEF IInv, ParkNeeded
  <2>4. mist' # NewMist
    BY <2>3 DEF NewMist
  <2>5. mode' = IF mist'.phase = "Starting" THEN Low ELSE Off
    BY <2>4 DEF Frame, Output
  <2>6. mode' # None /\ mode' \in Direct
    BY <2>5
  <2>7. TypeOK'
    BY <2>3, <2>6 DEF IInv, TypeOK, MistType, Frame
  <2>8. ParkNeeded'
    BY <2>3 DEF ParkNeeded
  <2>9. SweepNeedsPark'
    <3>1. lastSweep' = (mist'.phase = "Starting")
      BY <2>6 DEF Frame
    <3> QED BY <2>3, <2>5, <3>1 DEF SweepNeedsPark
  <2>10. NotSwept' /\ (SweepStarts => lastEvent # "sweep")
    BY <2>3 DEF IInv, NotSwept, Frame, SweepStarts
  <2> QED BY <2>7, <2>8, <2>9, <2>10 DEF IInv
<1> QED BY <1>2, <1>3

\* Every step keeps the invariant.
LEMMA Preserved ==
  ASSUME IInv, [Next]_vars
  PROVE  IInv' /\ (SweepStarts => lastEvent # "sweep")
<1> USE MistAssumption
<1>1. mist \in MistType
  BY DEF IInv, TypeOK, MistType
<1>2. ASSUME NEW request \in Requests, Accept(request)
      PROVE  IInv' /\ ~SweepStarts
  BY <1>1, <1>2, InvalidatedKeepsPark
     DEF IInv, TypeOK, ParkNeeded, SweepNeedsPark, NotSwept, Accept, MistType,
         SweepStarts, Invalidated, NewMist, NotSet
<1>3. CASE Invalidate
  BY <1>1, <1>3, InvalidatedKeepsPark
     DEF IInv, TypeOK, ParkNeeded, SweepNeedsPark, NotSwept, Invalidate,
         MistType, SweepStarts, Invalidated, NewMist, NotSet, Requests
<1>4. CASE AnyFrame
  BY <1>4, FramePreserves DEF AnyFrame
<1>5. CASE Tick
  BY <1>1, <1>5
     DEF IInv, TypeOK, ParkNeeded, SweepNeedsPark, NotSwept, Tick, MistType,
         SweepStarts, NotSet
<1>6. CASE UNCHANGED vars
  BY <1>6 DEF vars, IInv, TypeOK, ParkNeeded, SweepNeedsPark, NotSwept,
              SweepStarts
<1> QED BY <1>2, <1>3, <1>4, <1>5, <1>6 DEF Next

\* The invariant holds throughout.
LEMMA Inductive == Spec => []IInv
<1>1. Init => IInv
  <2> SUFFICES ASSUME Init PROVE IInv
    OBVIOUS
  <2>1. mist \in MistType /\ mist.phase = "Idle" /\ mist.needs_park = FALSE
    BY NewMistType DEF Init, NewMist
  <2>2. TypeOK
    BY <2>1 DEF Init, TypeOK, MistType, Requests
  <2> QED BY <2>1, <2>2 DEF Init, IInv, ParkNeeded, SweepNeedsPark, NotSwept
<1>2. IInv /\ [Next]_vars => IInv'
  BY Preserved
<1> QED BY <1>1, <1>2, PTL DEF Spec

\* Every variable of the MIST sequence keeps its type (mist.rs).
THEOREM TypeCorrect == Spec => []TypeOK
<1>1. IInv => TypeOK
  BY DEF IInv
<1> QED BY <1>1, Inductive, PTL

\* No interruption leaves the wipers running on the LOW of a sweep: the gate
\* gives no frame without a wiper mode until it has given OFF or a direct mode.
THEOREM AlwaysParked == Spec => []SweepIsParked
<1>1. IInv => SweepIsParked
  BY MistAssumption DEF IInv, SweepNeedsPark, SweepIsParked
<1> QED BY <1>1, Inductive, PTL

\* MIST that stays selected never sweeps twice, for any telemetry and timing.
THEOREM NeverRepeats == Spec => SweepsOnce
<1>1. IInv /\ [Next]_vars => [SweepStarts => lastEvent # "sweep"]_vars
  BY Preserved
<1> QED BY <1>1, Inductive, PTL DEF Spec, SweepsOnce
=============================================================================
