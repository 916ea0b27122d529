--------------------------- MODULE Dispatch_proof ---------------------------
(***************************************************************************)
(* Proofs about the events of a frame, for every set of wiper modes and    *)
(* every ACK_TIMEOUT.  Between the events of a frame the sequence takes    *)
(* the steps of Mist, so its invariant IInv is there to build on.          *)
(***************************************************************************)
EXTENDS Dispatch, Mist_proof

\* Delivery does not disturb the sequence: each step of the composition is a
\* step of Mist or leaves the sequence alone.
LEMMA StepIsMist ==
  ASSUME [DispatchNext]_allVars
  PROVE  [Next]_vars
BY DEF DispatchNext, allVars, AnyBegins, Begins, BeginsContended, Takes,
       TakesRelease, TakesAssertion, WorkerCalls, TimePasses, Next, AnyFrame

\* The composition of gate and delivery implements the sequence as Mist has it.
THEOREM DispatchIsMist == DispatchSpec => Spec
<1>1. DispatchInit => Init
  BY DEF DispatchInit
<1>2. [DispatchNext]_allVars => [Next]_vars
  BY StepIsMist
<1> QED BY <1>1, <1>2, PTL DEF DispatchSpec, Spec

\* What `begin' lays out: each mode is released or asserted, and one at most is
\* asserted.
LEMMA LaidOut ==
  ASSUME NEW input \in Direct \cup {None}
  PROVE  LET laid == Laid({input} \ {None}) IN
         /\ laid \in [release : SUBSET Direct, assert : SUBSET Direct]
         /\ laid.release \cup laid.assert = Direct
         /\ laid.release \cap laid.assert = {}
         /\ \A i, j \in laid.assert : i = j
         /\ input = None => laid.assert = {}
         /\ input # None => laid.assert # {}
BY MistAssumption DEF Laid

LEMMA NothingLaid ==
  /\ Laid({}) \in [release : SUBSET Direct, assert : SUBSET Direct]
  /\ Laid({}).assert = {}
BY DEF Laid

\* Taking an event of the frame.
LEMMA TakesPreserves ==
  ASSUME IInv, DispatchInv, Takes
  PROVE  DispatchInv'
<1>1. /\ pending \in [release : SUBSET Direct, assert : SUBSET Direct]
      /\ pending.release \cap pending.assert = {} /\ given \subseteq Direct
  BY DEF DispatchInv, DispatchTypeOK
<1>2. ASSUME NEW input \in Direct, TakesRelease(input)
      PROVE  DispatchInv'
  <2>1. /\ pending' \in [release : SUBSET Direct, assert : SUBSET Direct]
        /\ pending'.release = pending.release \ {input}
        /\ pending'.assert = pending.assert
    BY <1>1, <1>2 DEF TakesRelease
  <2>2. /\ given' = given \ {input} /\ UNCHANGED <<mist, swept, cut>>
    BY <1>2 DEF TakesRelease, vars
  <2>3. DispatchTypeOK'
    BY <1>1, <2>1, <2>2 DEF DispatchInv, DispatchTypeOK
  <2>4. OneAsserted' /\ ReleasedFirst' /\ NeverBoth' /\ GameParked'
    BY <1>1, <2>1, <2>2
       DEF DispatchInv, OneAsserted, ReleasedFirst, NeverBoth, GameParked
  <2> QED BY <2>3, <2>4 DEF DispatchInv
<1>3. ASSUME NEW input \in Direct, TakesAssertion(input)
      PROVE  DispatchInv'
  <2>1. /\ pending' \in [release : SUBSET Direct, assert : SUBSET Direct]
        /\ pending'.release = {}
        /\ pending'.assert = pending.assert \ {input}
    BY <1>1, <1>3 DEF TakesAssertion
  <2>2. /\ given' = given \cup {input} /\ mist' = mist
        /\ swept' = lastSweep /\ cut' = FALSE
    BY <1>3 DEF TakesAssertion, vars
  <2>3. DispatchTypeOK'
    BY <1>1, <2>1, <2>2 DEF IInv, TypeOK, DispatchTypeOK
  \* The inputs released, only the frame's own mode can be on.
  <2>4. /\ input \in pending.assert /\ given \subseteq pending.assert
        /\ \A i \in pending.assert : i = input
    BY <1>3 DEF TakesAssertion, DispatchInv, OneAsserted, ReleasedFirst
  <2>5. OneAsserted' /\ ReleasedFirst' /\ NeverBoth'
    BY <2>1, <2>2, <2>4 DEF OneAsserted, ReleasedFirst, NeverBoth
  <2>6. GameParked'
    BY <2>2 DEF IInv, SweepNeedsPark, GameParked
  <2> QED BY <2>3, <2>5, <2>6 DEF DispatchInv
<1> QED BY <1>2, <1>3 DEF Takes

\* Beginning a frame.  One without a mode comes from a sequence that has none to
\* park: if the mode of the frame before was still to be taken, it is cut off.
LEMMA BeginsPreserves ==
  ASSUME IInv, DispatchInv, NEW observed \in Observations, Begins(observed)
  PROVE  DispatchInv'
<1>1. IInv'
  BY FramePreserves DEF Begins
<1>2. mode' \in Direct \cup {None}
  BY <1>1 DEF IInv, TypeOK
<1>3. /\ pending' = Laid({mode'} \ {None})
      /\ cut' = (cut \/ pending.assert # {})
      /\ given' = given /\ swept' = swept
  BY DEF Begins, Begun
<1>4. /\ pending' \in [release : SUBSET Direct, assert : SUBSET Direct]
      /\ pending'.release \cup pending'.assert = Direct
      /\ pending'.release \cap pending'.assert = {}
      /\ \A i, j \in pending'.assert : i = j
      /\ mode' # None => pending'.assert # {}
  BY <1>2, <1>3, LaidOut
<1>5. DispatchTypeOK' /\ OneAsserted' /\ ReleasedFirst' /\ NeverBoth'
  BY <1>3, <1>4
     DEF DispatchInv, DispatchTypeOK, OneAsserted, ReleasedFirst, NeverBoth
<1>6. GameParked'
  <2> SUFFICES ASSUME mode' = None, swept, ~cut, pending.assert = {}
               PROVE  FALSE
    BY <1>3, <1>4 DEF GameParked
  <2>1. mist.needs_park
    BY DEF DispatchInv, GameParked
  <2>2. desired = None /\ desired \notin Direct /\ mist' = NewMist
    BY MistAssumption DEF Begins, Frame, Output, IInv, TypeOK, Requests
  <2>3. mist' = Stepped(Prepared(mist, desired), desired, observed)
    BY <2>1, <2>2 DEF Begins, Frame, Applied
  <2>4. mist'.since # NotSet
    BY <2>1, <2>2, <2>3, SteppedCases
       DEF IInv, TypeOK, ParkNeeded, MistType
  <2> QED BY <2>2, <2>4 DEF NewMist
<1> QED BY <1>5, <1>6 DEF DispatchInv

\* Every step keeps the invariant.
LEMMA DispatchPreserved ==
  ASSUME IInv, DispatchInv, [DispatchNext]_allVars
  PROVE  DispatchInv'
<1>1. mist \in MistType
  BY DEF IInv, TypeOK, MistType
<1>2. CASE AnyBegins
  BY <1>2, BeginsPreserves DEF AnyBegins
<1>3. CASE BeginsContended
  <2>1. /\ pending' = Laid({}) /\ cut' = (cut \/ pending.assert # {})
        /\ UNCHANGED <<given, swept, mist>>
    BY <1>3 DEF BeginsContended, Begun, vars
  <2>2. pending' \in [release : SUBSET Direct, assert : SUBSET Direct]
        /\ pending'.assert = {}
    BY <2>1, NothingLaid
  <2> QED BY <2>1, <2>2 DEF DispatchInv, DispatchTypeOK, OneAsserted,
                            ReleasedFirst, NeverBoth, GameParked
<1>4. CASE Takes
  BY <1>4, TakesPreserves
\* Between two events the sequence may change, but not whether it must park.
<1>5. ASSUME mist'.needs_park = mist.needs_park, UNCHANGED dispatchVars
      PROVE  DispatchInv'
  BY <1>5 DEF dispatchVars, DispatchInv, DispatchTypeOK, OneAsserted,
              ReleasedFirst, NeverBoth, GameParked
<1>6. CASE WorkerCalls
  <2>1. mist' \in {mist, Invalidated(mist)}
    BY <1>6 DEF WorkerCalls, Accept, Invalidate
  <2> QED BY <1>1, <1>5, <1>6, <2>1, InvalidatedKeepsPark DEF WorkerCalls
<1>7. CASE TimePasses
  <2>1. mist'.needs_park = mist.needs_park
    BY <1>1, <1>7 DEF TimePasses, Tick, MistType
  <2> QED BY <1>5, <1>7, <2>1 DEF TimePasses
<1>8. CASE UNCHANGED allVars
  BY <1>5, <1>8 DEF allVars, vars, dispatchVars
<1> QED BY <1>2, <1>3, <1>4, <1>6, <1>7, <1>8 DEF DispatchNext

LEMMA DispatchInductive == DispatchSpec => []DispatchInv
<1>1. DispatchInit => DispatchInv
  <2> SUFFICES ASSUME DispatchInit PROVE DispatchInv
    OBVIOUS
  <2>1. /\ pending.release = {} /\ pending.assert = {}
        /\ pending \in [release : SUBSET Direct, assert : SUBSET Direct]
    BY DEF DispatchInit, NoEvents
  <2>2. given = {} /\ swept = FALSE /\ cut = FALSE
    BY DEF DispatchInit
  <2> QED BY <2>1, <2>2 DEF DispatchInv, DispatchTypeOK, OneAsserted,
                            ReleasedFirst, NeverBoth, GameParked
<1>2. IInv /\ DispatchInv /\ [DispatchNext]_allVars => DispatchInv'
  BY DispatchPreserved
<1>3. DispatchSpec => []IInv
  BY DispatchIsMist, Inductive, PTL
<1> QED BY <1>1, <1>2, <1>3, PTL DEF DispatchSpec

\* Every variable of a frame's delivery keeps its type.
THEOREM DispatchTypeCorrect == DispatchSpec => []DispatchTypeOK
<1>1. DispatchInv => DispatchTypeOK
  BY DEF DispatchInv
<1> QED BY <1>1, DispatchInductive, PTL

\* The game never has two of the modes on, however it cuts its frames short
\* (Dispatch::pop gives releases before assertions).
THEOREM ModesExclusive == DispatchSpec => []NeverBoth
<1>1. DispatchInv => NeverBoth
  BY DEF DispatchInv
<1> QED BY <1>1, DispatchInductive, PTL

\* A sweep's LOW is not the last mode that the game gets, unless it cut off the
\* frame that would have told it.
THEOREM GameIsParked == DispatchSpec => []GameParked
<1>1. DispatchInv => GameParked
  BY DEF DispatchInv
<1> QED BY <1>1, DispatchInductive, PTL
=============================================================================
