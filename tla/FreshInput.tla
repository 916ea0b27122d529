----------------------------- MODULE FreshInput -----------------------------
(***************************************************************************)
(* What the link between stalk and game promises, without its threads,     *)
(* packets, leases and failures: the game lives in eras, none of which     *)
(* ever returns, and a movement of the stalk is held, and given to the     *)
(* game, in the era it was made in or not at all.                          *)
(*                                                                         *)
(* An era is a connection and what happened in it: a session, an epoch of  *)
(* the session, and a state of the game.  The game's state changes before  *)
(* the plugin sees that it has; until then nothing is given.               *)
(***************************************************************************)
EXTENDS Integers

CONSTANTS
  Controls,     \* positions of the stalk
  None          \* no movement

VARIABLES
  now,          \* the state of the game, counted from its start
  seen,         \* the one the plugin last saw
  session,      \* the connection, 0 when there is none
  epoch,        \* of the session
  last,         \* the last session there was
  held,         \* the movement that the plugin holds
  given         \* the movement that the game was last given

vars == <<now, seen, session, epoch, last, held, given>>

Init ==
  /\ now = 1 /\ seen = 0
  /\ session = 0 /\ epoch = 1 /\ last = 0
  /\ held = None /\ given = None

GameChanges ==
  now' = now + 1 /\ UNCHANGED <<seen, session, epoch, last, held, given>>

\* The era ends with a later epoch, the end of the session or a new one.
Later ==
  \/ session' = session /\ epoch' > epoch /\ last' = last
  \/ session' = 0 /\ last' = last
  \/ session' = last' /\ last' > last

\* With the era goes what is held.  It may end unseen by the game, or in a frame
\* that then has nothing.
EraEnds ==
  /\ Later /\ seen' \in {seen, now} /\ held' = None
  /\ given' \in {given, None}
  /\ UNCHANGED now

\* A movement of the era is held, made before or after the plugin last saw the
\* game's state.
Holds ==
  /\ session # 0
  /\ \E control \in Controls, generation \in seen..now :
       held' = [control |-> control,
                made |-> [session |-> session, epoch |-> epoch,
                          generation |-> generation]]
  /\ UNCHANGED <<now, seen, session, epoch, last, given>>

Drops == held' = None /\ UNCHANGED <<now, seen, session, epoch, last, given>>

\* The game is given what is held, once the plugin has seen the game's state.
Gives ==
  /\ seen = now /\ given' = held
  /\ UNCHANGED <<now, seen, session, epoch, last, held>>

Withholds ==
  given' = None /\ UNCHANGED <<now, seen, session, epoch, last, held>>

\* Another run of the game, which starts to count anew, but not the sessions.
GameRestarts ==
  /\ now' = 1 /\ seen' = 0
  /\ session' = 0 /\ epoch' = 1
  /\ held' = None /\ given' = None
  /\ UNCHANGED last

Next ==
  GameChanges \/ EraEnds \/ Holds \/ Drops \/ Gives \/ Withholds \/ GameRestarts

Spec == Init /\ [][Next]_vars
=============================================================================
