-------------------------------- MODULE Mist --------------------------------
(***************************************************************************)
(* The MIST sequence of the DLL: one sweep of the wipers made out of OFF   *)
(* and continuous LOW, each phase kept until the wiper telemetry           *)
(* acknowledges it or ACK_TIMEOUT passes.                                  *)
(*                                                                         *)
(* The sequence is a record and its methods are operators on it; around it *)
(* stand the calls the InputGate makes: a command of the bridge accepted   *)
(* (`accept'), the gate invalidated (pause, reconnect, lapsed lease), one  *)
(* input frame (`outputs'), and time.  Only the wiper bits of a command    *)
(* matter here, and at most one of them is set (`valid_inputs').           *)
(***************************************************************************)
EXTENDS Integers

CONSTANTS
  None,           \* no wiper bit
  MistRequest,    \* the logical request for one sweep
  Off, Low,       \* two of the direct wiper modes
  Direct,         \* the direct wiper modes, each an input of the game
  Unknown,        \* wiper telemetry that has not arrived or was lost
  ACK_TIMEOUT     \* in ticks

ASSUME MistAssumption ==
  /\ {Off, Low} \subseteq Direct /\ Off # Low
  /\ None \notin Direct /\ MistRequest \notin Direct /\ None # MistRequest
  /\ Unknown \notin BOOLEAN
  /\ ACK_TIMEOUT \in Nat \ {0}

Requests == Direct \cup {None, MistRequest}

VARIABLES
  mist,      \* the sequence: phase, ticks since it was entered, needs_park
  desired,   \* wiper bits of the last accepted command
  mode,      \* wiper input of the last frame
  \* History, which no step of the program depends on:
  lastSweep, \* the last wiper input given was the LOW of a sweep
  lastEvent  \* the last sweep, non-MIST command or invalidation

vars == <<mist, desired, mode, lastSweep, lastEvent>>

-----------------------------------------------------------------------------
(* The methods of Mist *)

Phases == {"Idle", "Resetting", "Starting", "Parking", "Done"}

NotSet == -1      \* Option::None of `since'

NewMist == [phase |-> "Idle", since |-> NotSet, needs_park |-> FALSE]

\* Mutant of Invalidated: an interrupted sweep is forgotten at once.
InvalidatedAtOnce(m) == NewMist

\* Mutant of Invalidated: the cleanup under way gets a new deadline each time.
InvalidatedAgain(m) ==
  IF m.needs_park THEN [m EXCEPT !.phase = "Parking", !.since = NotSet]
                  ELSE NewMist

Invalidated(m) ==
  IF m.needs_park
  THEN IF m.phase = "Parking" THEN m
       ELSE [m EXCEPT !.phase = "Parking", !.since = NotSet]
  ELSE NewMist

\* Mutant of Entered: the clock of the last phase is counted on from.
EnteredLate(m, phase) == [m EXCEPT !.phase = phase, !.since = @ + 1]

Entered(m, phase) == [m EXCEPT !.phase = phase, !.since = 0]

\* What `apply' does before it looks at the phase.
Prepared(m, request) ==
  IF request # MistRequest /\ m.phase # "Parking" THEN Entered(m, "Parking")
  ELSE IF m.since = NotSet /\ m.needs_park THEN [m EXCEPT !.since = 0]
  ELSE m

\* Mutant of AfterParking: a sweep starts over while MIST stays selected.
AfterParkingAgain(m, request) ==
  Entered([m EXCEPT !.needs_park = FALSE], "Idle")

AfterParking(m, request) ==
  Entered([m EXCEPT !.needs_park = FALSE],
          IF request = MistRequest THEN "Done" ELSE "Idle")

\* The phase that follows one frame of a prepared sequence.
Stepped(m, request, observed) ==
  LET expired == m.since >= ACK_TIMEOUT IN
  CASE m.phase = "Idle" -> Entered(m, "Resetting")
    [] m.phase = "Resetting" /\ observed = FALSE ->
         Entered([m EXCEPT !.needs_park = TRUE], "Starting")
    [] m.phase = "Resetting" /\ observed # FALSE /\ expired ->
         Entered(m, "Done")
    [] m.phase = "Starting" /\ (observed = TRUE \/ expired) ->
         Entered(m, "Parking")
    [] m.phase = "Parking" /\ (observed = FALSE \/ expired) ->
         AfterParking(m, request)
    [] OTHER -> m

\* `apply': a direct mode, or nothing to do, ends the sequence; otherwise the
\* frame asserts LOW while the sweep starts and OFF in every other phase.
Applied(m, request, observed) ==
  IF request \in Direct \/ (request = None /\ ~m.needs_park) THEN NewMist
  ELSE Stepped(Prepared(m, request), request, observed)

Output(m, request) ==
  IF m = NewMist THEN request ELSE IF m.phase = "Starting" THEN Low ELSE Off

-----------------------------------------------------------------------------
(* The calls of the gate *)

Init ==
  /\ mist = NewMist /\ desired = None /\ mode = None
  /\ lastSweep = FALSE /\ lastEvent = "command"

\* InputGate::accept of a valid command, when the gate is ready.
Accept(request) ==
  /\ desired' = request
  /\ mist' = IF request = MistRequest THEN mist ELSE Invalidated(mist)
  /\ lastEvent' = IF request = MistRequest THEN lastEvent ELSE "command"
  /\ UNCHANGED <<mode, lastSweep>>

\* InputGate::invalidate.
Invalidate ==
  /\ desired' = None
  /\ mist' = Invalidated(mist)
  /\ lastEvent' = "invalidate"
  /\ UNCHANGED <<mode, lastSweep>>

SweepStarts == mist.phase # "Starting" /\ mist'.phase = "Starting"

\* InputGate::outputs.
Frame(observed) ==
  /\ mist' = Applied(mist, desired, observed)
  /\ mode' = Output(mist', desired)
  /\ lastSweep' = IF mode' = None THEN lastSweep ELSE mist'.phase = "Starting"
  /\ lastEvent' = IF SweepStarts THEN "sweep" ELSE lastEvent
  /\ UNCHANGED desired

\* Time passes; nothing distinguishes ages beyond ACK_TIMEOUT.
Tick ==
  /\ mist.since # NotSet /\ mist.since < ACK_TIMEOUT
  /\ mist' = [mist EXCEPT !.since = @ + 1]
  /\ UNCHANGED <<desired, mode, lastSweep, lastEvent>>

Observations == BOOLEAN \cup {Unknown}

AnyFrame == \E observed \in Observations : Frame(observed)

Next ==
  \/ \E request \in Requests : Accept(request)
  \/ Invalidate
  \/ AnyFrame
  \/ Tick

Spec == Init /\ [][Next]_vars

-----------------------------------------------------------------------------
(* Properties *)

\* Every variable keeps its type.
TypeOK ==
  /\ mist \in [phase : Phases, since : {NotSet} \cup 0..ACK_TIMEOUT,
               needs_park : BOOLEAN]
  /\ desired \in Requests
  /\ mode \in Direct \cup {None}
  /\ lastSweep \in BOOLEAN
  /\ lastEvent \in {"sweep", "command", "invalidate"}

\* However the sequence is interrupted (a pause, a lapsed lease, a reconnect, a
\* wheel that is moved), the frames after its LOW assert LOW, OFF or the mode
\* selected instead until an OFF was given: the wipers, whose mode the game
\* keeps, are never left running by a sweep that ended without one.
SweepIsParked == mode = None => ~lastSweep

\* Leaving the wheel in MIST does not repeat the sweep: between two sweeps a
\* command that is not MIST was accepted, or the gate was invalidated.
SweepsOnce == [][SweepStarts => lastEvent # "sweep"]_vars

\* A MIST command consumes one attempt.  docs/game-integration.md:56: "A new
\* observed non-MIST command re-arms it", so a MIST entered after such a
\* command is not taken for done by the cleanup of the sweep before it.
NonMistRearms ==
  [][ mist.phase = "Parking" /\ mist'.phase = "Done"
      => lastEvent # "command" ]_vars

\* The game calls for input every frame, and time passes.
FairSpec == Spec /\ WF_vars(AnyFrame) /\ WF_vars(Tick)

\* Each phase is bounded whatever the telemetry reports and however often the
\* gate is invalidated meanwhile: an attempt ends, and so does the cleanup.
AttemptEnds ==
  mist.phase \in {"Resetting", "Starting", "Parking"}
    ~> mist.phase \in {"Idle", "Done"}

-----------------------------------------------------------------------------
(* The inductive invariant behind SweepIsParked and SweepsOnce *)

\* needs_park marks the phases in which the sequence may have the wipers run.
ParkNeeded ==
  /\ mist.needs_park <=> mist.phase \in {"Starting", "Parking"}
  /\ mist.since = NotSet => mist.phase \in {"Idle", "Parking"}

SweepNeedsPark == lastSweep => mist.needs_park /\ mode = Low

NotSwept ==
  mist.phase \in {"Idle", "Resetting"} \/ desired # MistRequest
    => lastEvent # "sweep"

IInv == TypeOK /\ ParkNeeded /\ SweepNeedsPark /\ NotSwept
=============================================================================
