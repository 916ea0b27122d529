-------------------------------- MODULE Stalk --------------------------------
(***************************************************************************)
(* The bridge's view of the stalk: five decoders fed by the HID reader,    *)
(* their resets, and the command that a reply would carry.                 *)
(*                                                                         *)
(* The device is external.  It has latched controls, which report a new    *)
(* position as a pulse of some 150 ms and nothing else, and held controls, *)
(* which report for as long as they are held (hardware-observations.md).   *)
(* A report is the set of what is active in it, as pairs of a control and  *)
(* a position or "held"; HID delivers each change while the handle is      *)
(* good.  While the device is unplugged its controls move unseen.          *)
(***************************************************************************)
EXTENDS FiniteSets, Integers

CONSTANTS
  Drivers,       \* what a driver uses: latched and held controls
  HID_LEASE,     \* in ticks
  MaxBinding     \* bound: sessions and epochs of the plugin

Rings   == {"indicator", "light", "wiper"}
Latched == Rings \cup {"selector", "rear"}
Beams   == {"flash", "high_beam"}
Cruise  == {"pull", "up", "down"}          \* one lever
AuxiliaryHolds ==
  {"horn", "parking", "rear_spring", "toggle", "automatic"} \cup Cruise
Holds == Beams \cup AuxiliaryHolds

Positions ==
  [indicator |-> {"left", "centre", "right"},
   light     |-> {"off", "parking", "low_beam"},
   wiper     |-> {"mist", "off", "intermittent", "low", "high"},
   selector  |-> {"drive", "neutral", "reverse", "park"},
   rear      |-> {"off", "upper"}]

Unknown == "unknown"
NoTime  == -1
NoBinding == 0

ASSUME StalkAssumption ==
  /\ Drivers \subseteq [moves : SUBSET Latched, holds : SUBSET Holds]
  /\ \A d \in Drivers : "parking" \in d.holds => "selector" \in d.moves
  /\ HID_LEASE \in Nat \ {0}
  /\ MaxBinding \in Nat \ {0}

VARIABLES
  driver,      \* which of Drivers it is; never changes
  device,      \* where the controls are, which of them pulse, which are held
  usb,         \* the reader's handle: "open", "stale" or "closed"
  bridge,      \* the bridge's BridgeState
  plugin,      \* the session and epoch the plugin is in, as one number
  \* History, which no step of the program depends on:
  silent,      \* ticks since the last report was read
  released     \* held controls found released since `plugin' last changed

vars == <<driver, device, usb, bridge, plugin, silent, released>>

-----------------------------------------------------------------------------
(* Reports *)

Held(controls) == {<<h, "held">> : h \in controls}

\* The beam lever pulses when it is let go after a flash.
Bits(d) ==
  {<<c, d.at[c]>> : c \in d.pulse \cap Latched} \cup Held(d.held)
    \cup (IF "beam" \in d.pulse THEN {<<"beam", "released">>} ELSE {})

Reported(bits, c) == {p \in Positions[c] : <<c, p>> \in bits}
The(s) == CHOOSE x \in s : TRUE

\* Mutant of Conflicting: the cruise lever's directions are not compared.
ConflictingButCruise(bits) ==
  \/ \E c \in Latched : Cardinality(Reported(bits, c)) > 1
  \/ Cardinality(bits \cap (Held(Beams) \cup {<<"beam", "released">>})) > 1

\* What makes a decoder refuse a report.  A report of another length, refused
\* by all of them, has the same effect.
Conflicting(bits) ==
  \/ \E c \in Latched : Cardinality(Reported(bits, c)) > 1
  \/ Cardinality(bits \cap (Held(Beams) \cup {<<"beam", "released">>})) > 1
  \/ Cardinality(bits \cap Held(Cruise)) > 1

-----------------------------------------------------------------------------
(* The decoders *)

NewDecoders ==
  [rings |-> [c \in Rings |-> [position |-> Unknown, previous_pulse |-> {}]],
   beams |-> [armed |-> FALSE, held |-> {}],
   auxiliary |-> [selector |-> Unknown, held |-> {}, hazard |-> FALSE,
                  armed |-> {}, rear_off |-> Unknown, rear_held |-> FALSE]]

\* `feed' of the indicator, light and wiper decoders.
RingFed(ring, c, bits) ==
  LET pulse == Reported(bits, c) IN
  [position |-> IF pulse # {} /\ pulse # ring.previous_pulse
                THEN The(pulse) ELSE ring.position,
   previous_pulse |-> pulse]

BeamsFed(beams, bits) ==
  LET held == {h \in Beams : <<h, "held">> \in bits} IN
  IF held = {} THEN [armed |-> TRUE, held |-> {}]
  ELSE IF beams.armed THEN [beams EXCEPT !.held = held] ELSE beams

\* Mutant of HazardFed: an unknown position of the ring is taken for OFF.
HazardFedUnknown(auxiliary, pressed, held) ==
  /\ "rear_spring" \in pressed
  /\ \/ auxiliary.hazard
     \/ /\ ~auxiliary.rear_held /\ "rear_spring" \in held
        /\ auxiliary.rear_off # "upper"

\* The context is captured at the onset of the spring action.
HazardFed(auxiliary, pressed, held) ==
  /\ "rear_spring" \in pressed
  /\ \/ auxiliary.hazard
     \/ /\ ~auxiliary.rear_held /\ "rear_spring" \in held
        /\ auxiliary.rear_off = "off"

Latest(bits, c, before) ==
  IF Reported(bits, c) = {} THEN before ELSE The(Reported(bits, c))

AuxiliaryFed(auxiliary, bits) ==
  LET pressed == {h \in AuxiliaryHolds : <<h, "held">> \in bits}
      armed == auxiliary.armed \cup (AuxiliaryHolds \ pressed)
      held == pressed \cap armed
  IN  [selector  |-> Latest(bits, "selector", auxiliary.selector),
       held      |-> held \ {"rear_spring"},
       hazard    |-> HazardFed(auxiliary, pressed, held),
       armed     |-> armed,
       rear_off  |-> Latest(bits, "rear", auxiliary.rear_off),
       rear_held |-> "rear_spring" \in pressed]

DecodersFed(decoders, bits) ==
  [rings |-> [c \in Rings |-> RingFed(decoders.rings[c], c, bits)],
   beams |-> BeamsFed(decoders.beams, bits),
   auxiliary |-> AuxiliaryFed(decoders.auxiliary, bits)]

-----------------------------------------------------------------------------
(* BridgeState *)

NewBridge ==
  [decoders |-> NewDecoders, last_report |-> NoTime, binding |-> NoBinding]

Reset(b) == [b EXCEPT !.decoders = NewDecoders, !.last_report = NoTime]

Disconnected(b) == [Reset(b) EXCEPT !.binding = NoBinding]

Lapsed(b) == b.last_report >= HID_LEASE

\* One report: `feed', and the reader's reset if a decoder refuses it.
Fed(b, bits) ==
  LET before == IF Lapsed(b) THEN Reset(b) ELSE b IN
  IF Conflicting(bits) THEN Reset(b)
  ELSE [before EXCEPT !.decoders = DecodersFed(@, bits), !.last_report = 0]

\* Mutant of Replied: the binding runs ahead of the status.
RepliedAhead(b, binding) ==
  [(IF b.binding # binding \/ Lapsed(b) THEN Reset(b) ELSE b)
     EXCEPT !.binding = binding + 1]

\* Mutant of Replied: a new session or epoch keeps what is held.
RepliedWithoutReset(b, binding) ==
  [(IF Lapsed(b) THEN Reset(b) ELSE b) EXCEPT !.binding = binding]

\* What `reply' to a status of a session and epoch makes of the bridge.
Replied(b, binding) ==
  [(IF b.binding # binding \/ Lapsed(b) THEN Reset(b) ELSE b)
     EXCEPT !.binding = binding]

\* The command's mask, from the decoders' positions.
Inputs(decoders) ==
  LET ring(c) == decoders.rings[c].position IN
  {<<c, ring(c)>> : c \in {r \in Rings : ring(r) \notin {Unknown, "centre"}}}
    \cup Held(decoders.beams.held) \cup Held(decoders.auxiliary.held)
    \cup (IF decoders.auxiliary.selector = Unknown THEN {}
          ELSE {<<"selector", decoders.auxiliary.selector>>})
    \cup (IF decoders.auxiliary.hazard THEN {<<"hazard", "held">>} ELSE {})

\* What a reply to a ready status would ask for at this moment.
Answer == Inputs(Replied(bridge, plugin).decoders)

\* The groups of which the plugin's validator takes one input at most.
Groups ==
  {{c} \X Positions[c] : c \in Rings \cup {"selector"}}
    \cup {Held({"up", "down"}), Held({"toggle", "pull"}), Held(Beams)}

valid_inputs(mask) == \A group \in Groups : Cardinality(mask \cap group) <= 1

-----------------------------------------------------------------------------
(* The device, and the reader thread's handler for the report it makes.  The  *)
(* handle delivers while it is open, and not after the device went away.      *)

Sees(d) ==
  /\ device' = d
  /\ released' = released \cup (driver.holds \ d.held)
  /\ bridge' = IF usb = "open" THEN Fed(bridge, Bits(d)) ELSE bridge
  /\ silent' = IF usb = "open" THEN 0 ELSE silent
  /\ UNCHANGED <<driver, usb, plugin>>

\* A control is moved to another position.  Neither the selector nor the rear
\* ring can be moved while its spring is pressed.
Move(c, p) ==
  /\ device.at[c] # p
  /\ c = "selector" => "parking" \notin device.held
  /\ c = "rear" => "rear_spring" \notin device.held
  /\ Sees([device EXCEPT !.at[c] = p, !.pulse = @ \cup {c}])

PulseEnds(c) ==
  /\ c \in device.pulse
  /\ Sees([device EXCEPT !.pulse = @ \ {c}])

\* What is part of the same lever.
Exclusive(h) ==
  IF h \in Beams THEN Beams ELSE IF h \in Cruise THEN Cruise ELSE {h}

\* The control whose position pulse a press ends and a release starts.
Spring(h) ==
  CASE h = "parking" -> "selector" [] h = "rear_spring" -> "rear"
    [] h \in Beams -> "beam" [] OTHER -> h

Press(h) ==
  /\ device.held \cap Exclusive(h) = {}
  /\ h = "parking" => device.at["selector"] = "drive"
  /\ Sees([device EXCEPT !.held = @ \cup {h}, !.pulse = @ \ {Spring(h)}])

Release(h) ==
  /\ h \in device.held
  /\ Sees([device EXCEPT
       !.held = @ \ {h},
       !.pulse = IF h \in {"parking", "rear_spring", "flash"}
                 THEN @ \cup {Spring(h)} ELSE @])

\* The device repeats its last report some times a second.
Repeats == usb = "open" /\ Sees(device)

\* A report with what no control can be in at once.
Garblings ==
  {{c} \X Positions[c] : c \in driver.moves} \cup {Held(Beams), Held(Cruise)}

Garbled(bits) ==
  /\ usb = "open"
  /\ bridge' = Fed(bridge, bits)
  /\ silent' = 0
  /\ UNCHANGED <<driver, device, usb, plugin, released>>

Unplug ==
  /\ usb = "open" /\ usb' = "stale"
  /\ UNCHANGED <<driver, device, bridge, plugin, silent, released>>

-----------------------------------------------------------------------------
(* The reader thread, when there is no report *)

ReadFails ==
  /\ usb # "closed" /\ usb' = "closed"
  /\ bridge' = Reset(bridge)
  /\ UNCHANGED <<driver, device, plugin, silent, released>>

Reopens ==
  /\ usb = "closed" /\ usb' = "open"
  /\ UNCHANGED <<driver, device, bridge, plugin, silent, released>>

-----------------------------------------------------------------------------
(* The server *)

\* A status that may have been sent before the plugin's state last changed.
Reply(binding) ==
  /\ bridge.binding <= binding /\ binding <= plugin
  /\ bridge' = Replied(bridge, binding)
  /\ UNCHANGED <<driver, device, usb, plugin, silent, released>>

ConnectionEnds ==
  /\ bridge.binding # NoBinding
  /\ bridge' = Disconnected(bridge)
  /\ UNCHANGED <<driver, device, usb, plugin, silent, released>>

\* The plugin is paused, resumed, restarted or connects again.
PluginMoves ==
  /\ plugin < MaxBinding /\ plugin' = plugin + 1
  /\ released' = driver.holds \ device.held
  /\ UNCHANGED <<driver, device, usb, bridge, silent>>

Tick ==
  /\ silent <= HID_LEASE /\ silent' = silent + 1
  /\ bridge' = [bridge EXCEPT !.last_report =
                  IF @ \in {NoTime, HID_LEASE} THEN @ ELSE @ + 1]
  /\ UNCHANGED <<driver, device, usb, plugin, released>>

-----------------------------------------------------------------------------

Init ==
  /\ driver \in Drivers
  /\ device \in [at : {a \in [Latched -> UNION {Positions[c] : c \in Latched}] :
                         \A c \in Latched :
                           IF c \in driver.moves THEN a[c] \in Positions[c]
                           ELSE a[c] = The(Positions[c])},
                 pulse : {{}}, held : {{}}]
  /\ usb = "open" /\ bridge = NewBridge /\ plugin = 1
  /\ silent = 0 /\ released = driver.holds

Next ==
  \/ \E c \in driver.moves : \E p \in Positions[c] : Move(c, p)
  \/ \E c \in Latched \cup {"beam"} : PulseEnds(c)
  \/ \E h \in driver.holds : Press(h) \/ Release(h)
  \/ Repeats \/ \E bits \in Garblings : Garbled(bits)
  \/ Unplug \/ ReadFails \/ Reopens
  \/ \E binding \in 1..MaxBinding : Reply(binding)
  \/ ConnectionEnds \/ PluginMoves \/ Tick

Spec == Init /\ [][Next]_vars

-----------------------------------------------------------------------------
(* Properties *)

\* Every variable keeps its type.
TypeOK ==
  /\ \A c \in Latched : device.at[c] \in Positions[c]
  /\ device.pulse \in SUBSET (Latched \cup {"beam"})
  /\ device.held \in SUBSET driver.holds
  /\ usb \in {"open", "stale", "closed"}
  /\ \A c \in Rings :
       /\ bridge.decoders.rings[c].position \in Positions[c] \cup {Unknown}
       /\ bridge.decoders.rings[c].previous_pulse \in SUBSET Positions[c]
  /\ bridge.decoders.beams \in [armed : BOOLEAN, held : SUBSET Beams]
  /\ bridge.decoders.auxiliary \in
       [selector : Positions["selector"] \cup {Unknown},
        held : SUBSET AuxiliaryHolds, hazard : BOOLEAN,
        armed : SUBSET AuxiliaryHolds,
        rear_off : Positions["rear"] \cup {Unknown}, rear_held : BOOLEAN]
  /\ bridge.last_report \in {NoTime} \cup 0..HID_LEASE
  /\ bridge.binding \in 0..plugin /\ plugin \in 1..MaxBinding
  /\ silent \in 0..HID_LEASE + 1
  /\ released \in SUBSET driver.holds

\* Whether an input asked for is what the driver does at this moment: the
\* control is in that position, is held, or its lower spring is.
Actual(input) ==
  LET control == input[1] IN
  IF control \in Latched THEN device.at[control] = input[2]
  ELSE IF control = "hazard"
  THEN "rear_spring" \in device.held /\ device.at["rear"] = "off"
  ELSE control \in device.held

\* What the bridge asks for is what the driver's hands are doing, except for at
\* most the HID lease after the device went away: no reset, garbled report,
\* read failure or reconnect leaves a position or a hold behind, and the upper
\* spring action of the rear ring is never taken for hazard lights.
AnswerIsActual ==
  \A input \in Answer :
    Actual(input) \/ (usb = "stale" /\ silent < HID_LEASE)

\* A control that was held through a pause, a reconnect or a restart asks for
\* nothing until it has been released.  docs/hardware-observations.md:80, 136.
HoldsAreFresh ==
  \A input \in Answer :
    /\ input[1] \in driver.holds => input[1] \in released
    /\ input[1] = "hazard" => "rear_spring" \in released

\* The decoders' own checks leave the plugin's validator one thing to refuse.
OnlyCruiseConflicts ==
  valid_inputs(Answer) \/ Held({"toggle", "pull"}) \subseteq Answer

\* The bridge never builds a command that the plugin refuses.
\* docs/game-integration.md:51-52 gives ON/OFF and the pull one press each; a
\* refused command presses nothing and ends the connection.
AnswerIsValid == valid_inputs(Answer)
=============================================================================
