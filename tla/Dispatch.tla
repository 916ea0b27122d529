------------------------------ MODULE Dispatch ------------------------------
(***************************************************************************)
(* One frame of the plugin on its way to the game.  The game asks for the  *)
(* events of a frame one call at a time: Dispatch::begin lays them out     *)
(* (what is released first, what is asserted last), Dispatch::pop hands    *)
(* them over, and between two calls the worker goes on with the gate.      *)
(*                                                                         *)
(* The frames are those of Mist, so the inputs are the wiper modes, which  *)
(* exclude each other.  A frame may find the plugin's mutex taken, and the *)
(* game may begin the next one before it has read the last to its end (a   *)
(* device that is deactivated meanwhile).  The game keeps the last mode it *)
(* was given.                                                              *)
(***************************************************************************)
EXTENDS Mist

VARIABLES
  pending,   \* events of the frame not yet taken: inputs released, asserted
  given,     \* inputs the game has been told are on
  \* History, which no step of the program depends on:
  swept,     \* the last mode the game was given is the LOW of a sweep
  cut        \* a mode was not given since, its frame not read to the end

dispatchVars == <<pending, given, swept, cut>>
allVars == <<vars, dispatchVars>>

NoEvents == [release |-> {}, assert |-> {}]

\* Dispatch::begin: an event for every input.
Laid(inputs) == [release |-> Direct \ inputs, assert |-> inputs]

DispatchInit ==
  /\ Init
  /\ pending = NoEvents /\ given = {} /\ swept = FALSE /\ cut = FALSE

Begun(inputs) ==
  /\ pending' = Laid(inputs)
  /\ cut' = (cut \/ pending.assert # {})
  /\ UNCHANGED <<given, swept>>

\* input_callback, first call of a frame.
Begins(observed) == Frame(observed) /\ Begun({mode'} \ {None})

\* The same when the worker has the mutex.
BeginsContended == Begun({}) /\ UNCHANGED vars

\* Mutant of TakesAssertion: events are taken in the order of the inputs only.
TakesUnordered(input) ==
  /\ input \in pending.assert
  /\ pending' = [pending EXCEPT !.assert = @ \ {input}]
  /\ given' = given \cup {input}
  /\ swept' = lastSweep /\ cut' = FALSE
  /\ UNCHANGED vars

\* Dispatch::pop, while inputs are left to release.
TakesRelease(input) ==
  /\ input \in pending.release
  /\ pending' = [pending EXCEPT !.release = @ \ {input}]
  /\ given' = given \ {input}
  /\ UNCHANGED <<vars, swept, cut>>

\* Dispatch::pop, once they all are released.
TakesAssertion(input) ==
  /\ pending.release = {} /\ input \in pending.assert
  /\ pending' = [pending EXCEPT !.assert = @ \ {input}]
  /\ given' = given \cup {input}
  /\ swept' = lastSweep /\ cut' = FALSE
  /\ UNCHANGED vars

Takes == \E input \in Direct : TakesRelease(input) \/ TakesAssertion(input)

\* The worker's calls of the gate, in the middle of a frame or not.
WorkerCalls ==
  /\ (\E request \in Requests : Accept(request)) \/ Invalidate
  /\ UNCHANGED dispatchVars

TimePasses == Tick /\ UNCHANGED dispatchVars

AnyBegins == \E observed \in Observations : Begins(observed)

DispatchNext ==
  \/ AnyBegins \/ BeginsContended \/ Takes \/ WorkerCalls \/ TimePasses

DispatchSpec == DispatchInit /\ [][DispatchNext]_allVars

\* The game asks for frames, reads them, and time passes.
DispatchFairSpec ==
  /\ DispatchSpec
  /\ WF_allVars(AnyBegins) /\ WF_allVars(Takes) /\ WF_allVars(TimePasses)

-----------------------------------------------------------------------------
(* Properties *)

\* Every variable keeps its type, and no input is left both to be released and
\* to be asserted.
DispatchTypeOK ==
  /\ pending \in [release : SUBSET Direct, assert : SUBSET Direct]
  /\ pending.release \cap pending.assert = {}
  /\ given \subseteq Direct /\ swept \in BOOLEAN /\ cut \in BOOLEAN

\* The game never has two wiper modes on, at no event of a frame and however the
\* frame before it was cut off: what a frame does not assert is released before
\* anything is asserted.
NeverBoth == \A i, j \in given : i = j

\* The game, which keeps the last mode it was given, is not left with the LOW of
\* a sweep: once the sequence no longer knows that it must park, the event that
\* gives OFF, or another mode instead, was taken or waits to be, unless the game
\* cut the frame with it off.
GameParked == swept /\ ~cut => mist.needs_park \/ pending.assert # {}

-----------------------------------------------------------------------------
(* The inductive invariant behind NeverBoth and GameParked *)

OneAsserted == \A i, j \in pending.assert : i = j

\* Nothing but the frame's own mode is on when it comes to be asserted.
ReleasedFirst ==
  pending.assert # {} => given \subseteq pending.release \cup pending.assert

DispatchInv ==
  DispatchTypeOK /\ OneAsserted /\ ReleasedFirst /\ NeverBoth /\ GameParked
=============================================================================
