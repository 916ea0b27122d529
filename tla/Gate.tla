-------------------------------- MODULE Gate --------------------------------
(***************************************************************************)
(* The admission rules of the plugin's InputGate: which command the DLL    *)
(* takes from the bridge, and when it forgets the one it holds.            *)
(*                                                                         *)
(* A gate is a record, and each method of the Rust type is an operator     *)
(* from gates to gates.  What a command asks for is an opaque value: the   *)
(* rules below never look inside it except to compare it with None, the    *)
(* empty mask.  The lease is a parameter `lapsed' of Expire: the caller    *)
(* says whether LEASE has passed since the last accepted command.          *)
(***************************************************************************)
EXTENDS Integers

CONSTANT None          \* the command mask with no bit set

NoSession  == 0        \* session 0 is never given to a connection
NoSequence == -1       \* Option::None of the gate's sequence

NewGate ==
  [session |-> NoSession, epoch |-> 1, ready |-> FALSE,
   sequence |-> NoSequence, received |-> FALSE, desired |-> None]

\* u64 wrapping of the epoch is out of reach: an invalidation every
\* millisecond would need 5 * 10^8 years.
Invalidate(g) ==
  [session |-> g.session, epoch |-> g.epoch + 1, ready |-> g.ready,
   sequence |-> NoSequence, received |-> FALSE, desired |-> None]

\* Mutant of Connect: the commands of the last connection are kept.
ConnectKeepingDesired(g, session) == [g EXCEPT !.session = session]

Connect(g, session) == Invalidate([g EXCEPT !.session = session])

\* Mutant of Disconnect: the sentinel of another field.
DisconnectToNoSequence(g) == Connect(g, NoSequence)

Disconnect(g) == Connect(g, NoSession)

SetReady(g, ready) ==
  IF g.ready = ready THEN g ELSE Invalidate([g EXCEPT !.ready = ready])

Expire(g, lapsed) == IF g.received /\ lapsed THEN Invalidate(g) ELSE g

\* Mutant of Admits: a delayed answer of an earlier epoch is taken.
AdmitsAnyEpoch(g, command) ==
  /\ command.session # NoSession
  /\ command.session = g.session
  /\ command.sequence > g.sequence

\* The checks of `accept' on a command, after the lease was checked.
Admits(g, command) ==
  /\ command.session # NoSession
  /\ command.session = g.session
  /\ command.epoch = g.epoch
  /\ command.sequence > g.sequence

Accept(g, command) ==
  IF Admits(g, command)
  THEN [g EXCEPT !.sequence = command.sequence,
                 !.received = TRUE,
                 !.desired  = IF g.ready THEN command.value ELSE None]
  ELSE g

\* The held inputs of one frame, after the lease was checked.  Pulses and the
\* MIST sequence, which the gate derives from the same mask, are in the
\* modules of their own.
Held(g) == IF g.ready /\ g.session # NoSession THEN g.desired ELSE None
=============================================================================
