---------------------------- MODULE Stalk_proof ----------------------------
(***************************************************************************)
(* Proofs about the bridge's view of the stalk, for every driver, every    *)
(* length of the HID lease and any number of pauses and reconnects.        *)
(***************************************************************************)
EXTENDS Stalk, TLAPS, FiniteSetTheorems

\* Every position of a latched control.
Spots == UNION {Positions[c] : c \in Latched}

DeviceSet ==
  [at : [Latched -> Spots], pulse : SUBSET (Latched \cup {"beam"}),
   held : SUBSET Holds]

\* A control is in one of its own positions.
Placed(at) == \A c \in Latched : at[c] \in Positions[c]

RingSet ==
  [position : Spots \cup {Unknown}, previous_pulse : SUBSET Spots]

BeamSet == [armed : BOOLEAN, held : SUBSET Beams]

AuxiliarySet ==
  [selector : Positions["selector"] \cup {Unknown},
   held : SUBSET AuxiliaryHolds, hazard : BOOLEAN,
   armed : SUBSET AuxiliaryHolds,
   rear_off : Positions["rear"] \cup {Unknown}, rear_held : BOOLEAN]

DecoderSet ==
  [rings : [Rings -> RingSet], beams : BeamSet, auxiliary : AuxiliarySet]

\* A ring's decoder knows positions of its own ring.
RingsOwn(decoders) ==
  \A c \in Rings :
    /\ decoders.rings[c].position \in Positions[c] \cup {Unknown}
    /\ decoders.rings[c].previous_pulse \subseteq Positions[c]

BridgeSet ==
  [decoders : DecoderSet, last_report : {NoTime} \cup 0..HID_LEASE,
   binding : 0..MaxBinding]

\* What TypeOK leaves to be read off Init: the records have no other fields.
Typed ==
  /\ driver \in [moves : SUBSET Latched, holds : SUBSET Holds]
  /\ device \in DeviceSet /\ Placed(device.at)
  /\ device.held \subseteq driver.holds
  /\ usb \in {"open", "stale", "closed"}
  /\ bridge \in BridgeSet /\ RingsOwn(bridge.decoders)
  /\ bridge.binding <= plugin /\ plugin \in 1..MaxBinding
  /\ silent \in 0..HID_LEASE + 1
  /\ released \subseteq driver.holds

-----------------------------------------------------------------------------
(* The controls *)

LEMMA ControlsAre ==
  /\ Rings \subseteq Latched /\ Beams \subseteq Holds
  /\ AuxiliaryHolds \subseteq Holds /\ Cruise \subseteq AuxiliaryHolds
  /\ Beams \cap AuxiliaryHolds = {} /\ Latched \cap Holds = {}
  /\ "rear_spring" \in AuxiliaryHolds /\ "hazard" \notin Latched \cup Holds
  /\ "beam" \notin Latched \cup Holds
  /\ {"selector", "rear"} \subseteq Latched \ Rings
BY DEF Rings, Latched, Beams, Cruise, AuxiliaryHolds, Holds

LEMMA TheIs ==
  ASSUME NEW s, s # {}
  PROVE  The(s) \in s
BY DEF The

LEMMA PositionsAre ==
  ASSUME NEW c \in Latched
  PROVE  Positions[c] # {} /\ Positions[c] \subseteq Spots
<1>1. Positions[c] # {}
  BY DEF Positions, Latched, Rings
<1> QED BY <1>1 DEF Spots

LEMMA ReportedOwn ==
  ASSUME NEW bits, NEW c
  PROVE  Reported(bits, c) \subseteq Positions[c]
BY DEF Reported

-----------------------------------------------------------------------------
(* Types *)

LEMMA NewTyped ==
  /\ NewDecoders \in DecoderSet /\ RingsOwn(NewDecoders)
  /\ NewBridge \in BridgeSet /\ NewBridge.decoders = NewDecoders
<1>1. [position |-> Unknown, previous_pulse |-> {}] \in RingSet
  BY DEF RingSet
<1>2. NewDecoders \in DecoderSet
  BY <1>1 DEF NewDecoders, DecoderSet, BeamSet, AuxiliarySet
<1>3. RingsOwn(NewDecoders)
  BY DEF NewDecoders, RingsOwn
<1> QED BY <1>2, <1>3, StalkAssumption
        DEF NewBridge, BridgeSet, NoTime, NoBinding

LEMMA RingFedTyped ==
  ASSUME NEW ring \in RingSet, NEW c \in Rings, NEW bits,
         ring.position \in Positions[c] \cup {Unknown}
  PROVE  LET fed == RingFed(ring, c, bits) IN
         /\ fed \in RingSet
         /\ fed.position \in Positions[c] \cup {Unknown}
         /\ fed.previous_pulse = Reported(bits, c)
         /\ fed.previous_pulse \subseteq Positions[c]
<1> DEFINE pulse == Reported(bits, c)
<1>1. pulse \subseteq Positions[c] /\ Positions[c] \subseteq Spots
  BY ReportedOwn, PositionsAre, ControlsAre
<1>2. pulse # {} => The(pulse) \in Positions[c]
  BY <1>1, TheIs
<1> HIDE DEF pulse
<1>3. RingFed(ring, c, bits) =
        [position |-> IF pulse # {} /\ pulse # ring.previous_pulse
                      THEN The(pulse) ELSE ring.position,
         previous_pulse |-> pulse]
  BY DEF RingFed, pulse
<1> QED BY <1>1, <1>2, <1>3 DEF RingSet, pulse

LEMMA BeamsFedTyped ==
  ASSUME NEW beams \in BeamSet, NEW bits
  PROVE  BeamsFed(beams, bits) \in BeamSet
BY DEF BeamsFed, BeamSet

LEMMA LatestIs ==
  ASSUME NEW bits, NEW c, NEW before \in Positions[c] \cup {Unknown}
  PROVE  Latest(bits, c, before) \in Positions[c] \cup {Unknown}
BY ReportedOwn, TheIs DEF Latest

LEMMA AuxiliaryFedTyped ==
  ASSUME NEW auxiliary \in AuxiliarySet, NEW bits
  PROVE  AuxiliaryFed(auxiliary, bits) \in AuxiliarySet
<1> DEFINE pressed == {h \in AuxiliaryHolds : <<h, "held">> \in bits}
           armed == auxiliary.armed \cup (AuxiliaryHolds \ pressed)
           held == pressed \cap armed
<1>1. /\ Latest(bits, "selector", auxiliary.selector)
           \in Positions["selector"] \cup {Unknown}
      /\ Latest(bits, "rear", auxiliary.rear_off)
           \in Positions["rear"] \cup {Unknown}
  BY LatestIs DEF AuxiliarySet
<1>2. /\ armed \subseteq AuxiliaryHolds
      /\ held \ {"rear_spring"} \subseteq AuxiliaryHolds
  BY DEF AuxiliarySet
<1>3. HazardFed(auxiliary, pressed, held) \in BOOLEAN
  BY DEF HazardFed
<1>4. AuxiliaryFed(auxiliary, bits) =
        [selector  |-> Latest(bits, "selector", auxiliary.selector),
         held      |-> held \ {"rear_spring"},
         hazard    |-> HazardFed(auxiliary, pressed, held),
         armed     |-> armed,
         rear_off  |-> Latest(bits, "rear", auxiliary.rear_off),
         rear_held |-> "rear_spring" \in pressed]
  BY DEF AuxiliaryFed
<1> HIDE DEF pressed, armed, held
<1> QED BY <1>1, <1>2, <1>3, <1>4 DEF AuxiliarySet

LEMMA DecodersFedTyped ==
  ASSUME NEW decoders \in DecoderSet, RingsOwn(decoders), NEW bits
  PROVE  /\ DecodersFed(decoders, bits) \in DecoderSet
         /\ RingsOwn(DecodersFed(decoders, bits))
<1> DEFINE fed == [c \in Rings |-> RingFed(decoders.rings[c], c, bits)]
<1>1. /\ decoders.rings \in [Rings -> RingSet]
      /\ decoders.beams \in BeamSet /\ decoders.auxiliary \in AuxiliarySet
  BY DEF DecoderSet
<1>2. \A c \in Rings :
        /\ fed[c] \in RingSet
        /\ fed[c].position \in Positions[c] \cup {Unknown}
        /\ fed[c].previous_pulse \subseteq Positions[c]
  BY <1>1, RingFedTyped DEF RingsOwn
<1>3. fed \in [Rings -> RingSet]
  BY <1>2
<1>4. DecodersFed(decoders, bits) =
        [rings |-> fed, beams |-> BeamsFed(decoders.beams, bits),
         auxiliary |-> AuxiliaryFed(decoders.auxiliary, bits)]
  BY DEF DecodersFed
<1> HIDE DEF fed
<1> QED BY <1>1, <1>2, <1>3, <1>4, BeamsFedTyped, AuxiliaryFedTyped
        DEF DecoderSet, RingsOwn

\* A reset forgets everything but the binding.
LEMMA ResetIs ==
  ASSUME NEW b \in BridgeSet
  PROVE  /\ Reset(b) \in BridgeSet /\ Reset(b).decoders = NewDecoders
         /\ Reset(b).last_report = NoTime /\ Reset(b).binding = b.binding
BY NewTyped DEF Reset, BridgeSet

LEMMA SetAfterReport ==
  ASSUME NEW b \in BridgeSet, NEW decoders \in DecoderSet
  PROVE  LET fed == [b EXCEPT !.decoders = decoders, !.last_report = 0] IN
         /\ fed \in BridgeSet /\ fed.decoders = decoders
         /\ fed.last_report = 0 /\ fed.binding = b.binding
<1>1. 0 \in {NoTime} \cup 0..HID_LEASE
  BY StalkAssumption
<1> QED BY <1>1 DEF BridgeSet

\* What a report makes of the bridge: it is reset, or its decoders, new or not,
\* are fed.
LEMMA FedIs ==
  ASSUME NEW b \in BridgeSet, RingsOwn(b.decoders), NEW bits
  PROVE  LET fed == Fed(b, bits) IN
         /\ fed \in BridgeSet /\ RingsOwn(fed.decoders)
         /\ fed.binding = b.binding
         /\ Conflicting(bits) =>
              fed.decoders = NewDecoders /\ fed.last_report = NoTime
         /\ ~Conflicting(bits) =>
              /\ fed.last_report = 0
              /\ \E before \in {b.decoders, NewDecoders} :
                   fed.decoders = DecodersFed(before, bits)
<1> DEFINE before == IF Lapsed(b) THEN Reset(b) ELSE b
           after == DecodersFed(before.decoders, bits)
<1>1. /\ before \in BridgeSet /\ RingsOwn(before.decoders)
      /\ before.decoders \in {b.decoders, NewDecoders}
      /\ before.binding = b.binding
  BY ResetIs, NewTyped
<1>2. Fed(b, bits) = IF Conflicting(bits) THEN Reset(b)
                     ELSE [before EXCEPT !.decoders = DecodersFed(@, bits),
                                         !.last_report = 0]
  BY DEF Fed
<1> HIDE DEF before
<1>3. after \in DecoderSet /\ RingsOwn(after)
  BY <1>1, DecodersFedTyped DEF BridgeSet
<1>4. ~Conflicting(bits) =>
        Fed(b, bits) = [before EXCEPT !.decoders = after, !.last_report = 0]
  BY <1>2
<1>5. CASE Conflicting(bits)
  <2>1. Fed(b, bits) = Reset(b)
    BY <1>2, <1>5
  <2> QED BY <1>5, <2>1, ResetIs, NewTyped
<1>6. CASE ~Conflicting(bits)
  <2>1. after = DecodersFed(before.decoders, bits)
    OBVIOUS
  <2> DEFINE fed == [before EXCEPT !.decoders = after, !.last_report = 0]
  <2> HIDE DEF after
  <2>2. /\ fed \in BridgeSet /\ fed.decoders = after
        /\ fed.last_report = 0 /\ fed.binding = before.binding
    BY <1>1, <1>3, SetAfterReport
  <2>3. Fed(b, bits) = fed
    BY <1>4, <1>6
  <2> HIDE DEF fed
  <2> QED BY <1>1, <1>3, <1>6, <2>1, <2>2, <2>3
<1> QED BY <1>5, <1>6

\* What a status makes of the bridge.
LEMMA RepliedIs ==
  ASSUME NEW b \in BridgeSet, NEW binding \in 0..MaxBinding
  PROVE  LET replied == Replied(b, binding) IN
         /\ replied \in BridgeSet /\ replied.binding = binding
         /\ b.binding # binding \/ Lapsed(b) =>
              replied.decoders = NewDecoders /\ replied.last_report = NoTime
         /\ ~(b.binding # binding \/ Lapsed(b)) =>
              /\ replied.decoders = b.decoders
              /\ replied.last_report = b.last_report
BY ResetIs DEF Replied, BridgeSet

-----------------------------------------------------------------------------
(* What the device does *)

\* A state the device may be in next: a control that has moved pulses, and the
\* rear ring does not move while its spring is pressed.
Follows(d) ==
  /\ d \in DeviceSet /\ Placed(d.at) /\ d.held \subseteq driver.holds
  /\ \A c \in Latched : d.at[c] # device.at[c] => c \in d.pulse
  /\ d.at["rear"] # device.at["rear"] => "rear_spring" \notin d.held

LEMMA MoveFollows ==
  ASSUME Typed, NEW c \in driver.moves, NEW p \in Positions[c], Move(c, p)
  PROVE  \E d : Follows(d) /\ Sees(d)
<1> DEFINE d == [device EXCEPT !.at[c] = p, !.pulse = @ \cup {c}]
<1>1. c \in Latched /\ p \in Spots
  BY PositionsAre DEF Typed
<1>2. d \in DeviceSet /\ d.held = device.held /\ d.pulse = device.pulse \cup {c}
  BY <1>1 DEF Typed, DeviceSet
<1>3. \A x \in Latched : d.at[x] = IF x = c THEN p ELSE device.at[x]
  BY <1>1 DEF Typed, DeviceSet
<1>4. Sees(d) /\ (c = "rear" => "rear_spring" \notin device.held)
  BY DEF Move
<1>5. "rear" \in Latched
  BY ControlsAre
<1> HIDE DEF d
<1>6. Follows(d)
  BY <1>1, <1>2, <1>3, <1>4, <1>5 DEF Follows, Placed, Typed
<1> QED BY <1>4, <1>6

\* Whatever leaves the controls where they are.
LEMMA StaysFollows ==
  ASSUME Typed, NEW d \in DeviceSet, d.at = device.at,
         d.held \subseteq driver.holds
  PROVE  Follows(d)
BY DEF Follows, Typed

LEMMA DeviceFollows ==
  ASSUME Typed,
         \/ \E c \in driver.moves : \E p \in Positions[c] : Move(c, p)
         \/ \E c \in Latched \cup {"beam"} : PulseEnds(c)
         \/ \E h \in driver.holds : Press(h) \/ Release(h)
         \/ Repeats
  PROVE  \E d : Follows(d) /\ Sees(d)
<1>1. CASE \E c \in driver.moves : \E p \in Positions[c] : Move(c, p)
  BY <1>1, MoveFollows
<1>2. ASSUME NEW c \in Latched \cup {"beam"}, PulseEnds(c)
      PROVE  \E d : Follows(d) /\ Sees(d)
  <2> DEFINE d == [device EXCEPT !.pulse = @ \ {c}]
  <2>1. d \in DeviceSet /\ d.at = device.at /\ d.held = device.held
    BY DEF Typed, DeviceSet
  <2>2. Sees(d)
    BY <1>2 DEF PulseEnds
  <2> HIDE DEF d
  <2> QED BY <2>1, <2>2, StaysFollows DEF Typed
<1>3. ASSUME NEW h \in driver.holds, Press(h)
      PROVE  \E d : Follows(d) /\ Sees(d)
  <2> DEFINE d == [device EXCEPT !.held = @ \cup {h}, !.pulse = @ \ {Spring(h)}]
  <2>1. /\ d \in DeviceSet /\ d.at = device.at
        /\ d.held = device.held \cup {h}
    BY DEF Typed, DeviceSet
  <2>2. Sees(d)
    BY <1>3 DEF Press
  <2> HIDE DEF d
  <2> QED BY <2>1, <2>2, StaysFollows DEF Typed
<1>4. ASSUME NEW h \in driver.holds, Release(h)
      PROVE  \E d : Follows(d) /\ Sees(d)
  <2> DEFINE pulse == IF h \in {"parking", "rear_spring", "flash"}
                      THEN device.pulse \cup {Spring(h)} ELSE device.pulse
             d == [device EXCEPT !.held = @ \ {h}, !.pulse = pulse]
  <2>1. pulse \subseteq Latched \cup {"beam"}
    BY DEF Typed, DeviceSet, Spring, Beams, Latched, Rings
  <2>2. Sees(d)
    BY <1>4 DEF Release
  <2> HIDE DEF pulse
  <2>3. d \in DeviceSet /\ d.at = device.at /\ d.held = device.held \ {h}
    BY <2>1 DEF Typed, DeviceSet
  <2> HIDE DEF d
  <2> QED BY <2>2, <2>3, StaysFollows DEF Typed
<1>5. CASE Repeats
  BY <1>5, StaysFollows DEF Repeats, Typed
<1> QED BY <1>1, <1>2, <1>3, <1>4, <1>5

-----------------------------------------------------------------------------
(* Types are kept *)

LEMMA InitTyped == Init => Typed
<1> SUFFICES ASSUME Init PROVE Typed
  OBVIOUS
<1>1. driver \in [moves : SUBSET Latched, holds : SUBSET Holds]
  BY StalkAssumption DEF Init
<1>2. /\ device \in DeviceSet /\ device.held = {}
      /\ \A c \in Latched :
           device.at[c] \in Positions[c] \/ device.at[c] = The(Positions[c])
  BY DEF Init, DeviceSet, Spots
<1>3. Placed(device.at)
  BY <1>2, PositionsAre, TheIs DEF Placed
<1>4. /\ usb = "open" /\ bridge = NewBridge /\ plugin = 1 /\ silent = 0
      /\ released = driver.holds
  BY DEF Init
<1>5. bridge.binding = 0
  BY <1>4 DEF NewBridge, NoBinding
<1>6. bridge \in BridgeSet /\ RingsOwn(bridge.decoders)
  BY <1>4, NewTyped
<1>7. plugin \in 1..MaxBinding /\ silent \in 0..HID_LEASE + 1
      /\ bridge.binding <= plugin
  BY <1>4, <1>5, StalkAssumption
<1> QED BY <1>1, <1>2, <1>3, <1>4, <1>6, <1>7 DEF Typed

LEMMA SeesTyped ==
  ASSUME Typed, NEW d, Follows(d), Sees(d)
  PROVE  Typed'
<1>1. /\ device' = d /\ UNCHANGED <<driver, usb, plugin>>
      /\ released' = released \cup (driver.holds \ d.held)
      /\ bridge' \in {bridge, Fed(bridge, Bits(d))} /\ silent' \in {silent, 0}
  BY DEF Sees
<1>2. /\ bridge' \in BridgeSet /\ RingsOwn(bridge'.decoders)
      /\ bridge'.binding = bridge.binding
  BY <1>1, FedIs DEF Typed
<1>3. silent' \in 0..HID_LEASE + 1
  BY <1>1, StalkAssumption DEF Typed
<1> QED BY <1>1, <1>2, <1>3 DEF Typed, Follows

LEMMA GarbledTyped ==
  ASSUME Typed, NEW bits, Garbled(bits)
  PROVE  Typed'
<1>1. /\ bridge' = Fed(bridge, bits) /\ silent' = 0
      /\ UNCHANGED <<driver, device, usb, plugin, released>>
  BY DEF Garbled
<1>2. /\ bridge' \in BridgeSet /\ RingsOwn(bridge'.decoders)
      /\ bridge'.binding = bridge.binding
  BY <1>1, FedIs DEF Typed
<1>3. silent' \in 0..HID_LEASE + 1
  BY <1>1, StalkAssumption
<1> QED BY <1>1, <1>2, <1>3 DEF Typed

LEMMA ReplyTyped ==
  ASSUME Typed, NEW binding \in 1..MaxBinding, Reply(binding)
  PROVE  Typed'
<1>1. /\ binding <= plugin /\ bridge' = Replied(bridge, binding)
      /\ UNCHANGED <<driver, device, usb, plugin, silent, released>>
  BY DEF Reply
<1>2. binding \in 0..MaxBinding
  BY StalkAssumption
<1>3. /\ bridge' \in BridgeSet /\ bridge'.binding = binding
      /\ bridge'.decoders \in {bridge.decoders, NewDecoders}
  BY <1>1, <1>2, RepliedIs DEF Typed
<1> QED BY <1>1, <1>3, NewTyped DEF Typed

LEMMA DisconnectedIs ==
  ASSUME NEW b \in BridgeSet
  PROVE  /\ Disconnected(b) \in BridgeSet
         /\ Disconnected(b).decoders = NewDecoders
         /\ Disconnected(b).last_report = NoTime
         /\ Disconnected(b).binding = NoBinding
<1>1. NoBinding \in 0..MaxBinding
  BY StalkAssumption DEF NoBinding
<1> DEFINE r == Reset(b)
<1>2. /\ r \in BridgeSet /\ r.decoders = NewDecoders /\ r.last_report = NoTime
  BY ResetIs
<1>3. Disconnected(b) = [r EXCEPT !.binding = NoBinding]
  BY DEF Disconnected
<1> HIDE DEF r
<1> QED BY <1>1, <1>2, <1>3 DEF BridgeSet

LEMMA TickIs ==
  ASSUME Typed, Tick
  PROVE  /\ bridge' \in BridgeSet /\ bridge'.decoders = bridge.decoders
         /\ bridge'.binding = bridge.binding
         /\ bridge'.last_report =
              IF bridge.last_report \in {NoTime, HID_LEASE}
              THEN bridge.last_report ELSE bridge.last_report + 1
<1> DEFINE next == IF bridge.last_report \in {NoTime, HID_LEASE}
                   THEN bridge.last_report ELSE bridge.last_report + 1
<1>1. bridge.last_report \in {NoTime} \cup 0..HID_LEASE
  BY DEF Typed, BridgeSet
<1>2. next \in {NoTime} \cup 0..HID_LEASE
  BY <1>1, StalkAssumption
<1>3. bridge' = [bridge EXCEPT !.last_report = next]
  BY DEF Tick
<1> HIDE DEF next
<1>4. /\ bridge' \in BridgeSet /\ bridge'.decoders = bridge.decoders
      /\ bridge'.binding = bridge.binding /\ bridge'.last_report = next
  BY <1>2, <1>3 DEF Typed, BridgeSet
<1> QED BY <1>4 DEF next

LEMMA NextTyped == Typed /\ [Next]_vars => Typed'
<1> SUFFICES ASSUME Typed, [Next]_vars PROVE Typed'
  OBVIOUS
<1>1. CASE \/ \E c \in driver.moves : \E p \in Positions[c] : Move(c, p)
           \/ \E c \in Latched \cup {"beam"} : PulseEnds(c)
           \/ \E h \in driver.holds : Press(h) \/ Release(h)
           \/ Repeats
  BY <1>1, DeviceFollows, SeesTyped
<1>2. CASE \E bits \in Garblings : Garbled(bits)
  BY <1>2, GarbledTyped
<1>3. CASE Unplug
  BY <1>3 DEF Unplug, Typed
<1>4. CASE ReadFails
  BY <1>4, ResetIs, NewTyped DEF ReadFails, Typed
<1>5. CASE Reopens
  BY <1>5 DEF Reopens, Typed
<1>6. CASE \E binding \in 1..MaxBinding : Reply(binding)
  BY <1>6, ReplyTyped
<1>7. CASE ConnectionEnds
  <2>1. NoBinding <= plugin
    BY DEF Typed, NoBinding
  <2> QED BY <1>7, <2>1, DisconnectedIs, NewTyped DEF ConnectionEnds, Typed
<1>8. CASE PluginMoves
  <2>1. /\ plugin < MaxBinding /\ plugin' = plugin + 1
        /\ released' = driver.holds \ device.held
        /\ UNCHANGED <<driver, device, usb, bridge, silent>>
    BY <1>8 DEF PluginMoves
  <2>2. bridge.binding <= plugin' /\ plugin' \in 1..MaxBinding
    <3>1. plugin \in Nat /\ bridge.binding \in Nat /\ MaxBinding \in Nat
      BY StalkAssumption DEF Typed, BridgeSet
    <3> QED BY <2>1, <3>1 DEF Typed
  <2> QED BY <2>1, <2>2 DEF Typed
<1>9. CASE Tick
  <2>1. /\ silent <= HID_LEASE /\ silent' = silent + 1
        /\ UNCHANGED <<driver, device, usb, plugin, released>>
    BY <1>9 DEF Tick
  <2>2. silent' \in 0..HID_LEASE + 1
    BY <2>1, StalkAssumption DEF Typed
  <2> QED BY <1>9, <2>1, <2>2, TickIs DEF Typed
<1>10. CASE UNCHANGED vars
  BY <1>10 DEF vars, Typed
<1> QED BY <1>1, <1>2, <1>3, <1>4, <1>5, <1>6, <1>7, <1>8, <1>9, <1>10
        DEF Next

LEMMA TypedIsTypeOK == Typed => TypeOK
<1> SUFFICES ASSUME Typed PROVE TypeOK
  OBVIOUS
<1>1. /\ bridge.decoders \in DecoderSet
      /\ bridge.last_report \in {NoTime} \cup 0..HID_LEASE
      /\ bridge.binding \in 0..MaxBinding
  BY DEF Typed, BridgeSet
<1>2. /\ bridge.decoders.beams \in BeamSet
      /\ bridge.decoders.auxiliary \in AuxiliarySet
  BY <1>1 DEF DecoderSet
<1>3. bridge.binding \in 0..plugin
  BY <1>1, StalkAssumption DEF Typed
<1> QED BY <1>1, <1>2, <1>3
        DEF Typed, TypeOK, Placed, DeviceSet, RingsOwn, BeamSet, AuxiliarySet

\* The decoders, the bridge's state, its binding and the device keep their
\* types; the bridge is never bound to a session or epoch the plugin has not
\* been in.
THEOREM TypeCorrect == Spec => []TypeOK
<1>1. Spec => []Typed
  BY InitTyped, NextTyped, PTL DEF Spec
<1> QED BY <1>1, TypedIsTypeOK, PTL

-----------------------------------------------------------------------------
(* One at a time *)

Single(s) == \A x, y \in s : x = y

LEMMA SingleIs ==
  ASSUME NEW s, IsFiniteSet(s), ~(Cardinality(s) > 1)
  PROVE  Single(s)
<1> SUFFICES ASSUME NEW x \in s, NEW y \in s, x # y PROVE FALSE
  BY DEF Single
<1>1. /\ IsFiniteSet({x}) /\ Cardinality({x}) = 1
  BY FS_Singleton
<1>2. IsFiniteSet({x} \cup {y}) /\ Cardinality({x} \cup {y}) = 2
  <2> DEFINE t == {x}
  <2>1. IsFiniteSet(t) /\ Cardinality(t) = 1 /\ y \notin t
    BY <1>1
  <2> HIDE DEF t
  <2>2. IsFiniteSet(t \cup {y}) /\ Cardinality(t \cup {y}) = 2
    BY <2>1, FS_AddElement
  <2> QED BY <2>2 DEF t
<1>3. Cardinality({x} \cup {y}) <= Cardinality(s)
  BY FS_Subset
<1>4. Cardinality(s) \in Nat
  BY FS_CardinalityType
<1> QED BY <1>2, <1>3, <1>4

LEMMA SingleCounts ==
  ASSUME NEW s, Single(s)
  PROVE  Cardinality(s) <= 1
<1>1. CASE s = {}
  BY <1>1, FS_EmptySet
<1>2. CASE s # {}
  <2>1. PICK x : s = {x}
    BY <1>2 DEF Single
  <2> QED BY <2>1, FS_Singleton
<1> QED BY <1>1, <1>2

\* The decoders remember at most one hold of a lever, none that they had not
\* seen released, and hazard lights only from a spring they had seen released.
Orderly(decoders) ==
  /\ decoders.beams.armed \/ decoders.beams.held = {}
  /\ Single(decoders.beams.held)
  /\ decoders.auxiliary.held \subseteq decoders.auxiliary.armed
  /\ Single(decoders.auxiliary.held \cap Cruise)
  /\ decoders.auxiliary.hazard => "rear_spring" \in decoders.auxiliary.armed

LEMMA NewOrderly == Orderly(NewDecoders)
BY DEF Orderly, NewDecoders, Single

\* What a report that is not refused holds of a lever.
LEMMA OneOfALever ==
  ASSUME NEW bits, ~Conflicting(bits)
  PROVE  /\ Single({h \in Beams : <<h, "held">> \in bits})
         /\ Single({h \in Cruise : <<h, "held">> \in bits})
<1> DEFINE beams == bits \cap (Held(Beams) \cup {<<"beam", "released">>})
           cruise == bits \cap Held(Cruise)
<1>1. Held(Beams) \cup {<<"beam", "released">>} =
        {<<"flash", "held">>} \cup {<<"high_beam", "held">>}
          \cup {<<"beam", "released">>}
  BY DEF Held, Beams
<1>2. Held(Cruise) = {<<"pull", "held">>} \cup {<<"up", "held">>}
                       \cup {<<"down", "held">>}
  BY DEF Held, Cruise
<1>3. \A x, y, z : IsFiniteSet({x} \cup {y} \cup {z})
  BY FS_Singleton, FS_Union
<1>4. IsFiniteSet(beams) /\ IsFiniteSet(cruise)
  <2>1. /\ IsFiniteSet(Held(Beams) \cup {<<"beam", "released">>})
        /\ IsFiniteSet(Held(Cruise))
    <3>1. /\ IsFiniteSet({<<"flash", "held">>} \cup {<<"high_beam", "held">>}
                           \cup {<<"beam", "released">>})
          /\ IsFiniteSet({<<"pull", "held">>} \cup {<<"up", "held">>}
                           \cup {<<"down", "held">>})
      BY <1>3
    <3> QED BY <1>1, <1>2, <3>1, Zenon
  <2> QED BY <2>1, FS_Intersection
<1>5. Single(beams) /\ Single(cruise)
  BY <1>4, SingleIs DEF Conflicting
<1>6. /\ \A h \in Beams : <<h, "held">> \in bits => <<h, "held">> \in beams
      /\ \A h \in Cruise : <<h, "held">> \in bits => <<h, "held">> \in cruise
  BY DEF Held
<1>7. \A x, y : <<x, "held">> = <<y, "held">> => x = y
  OBVIOUS
<1> HIDE DEF beams, cruise
<1> QED BY <1>5, <1>6, <1>7 DEF Single

LEMMA OrderlyFed ==
  ASSUME NEW decoders \in DecoderSet, Orderly(decoders), NEW bits,
         ~Conflicting(bits)
  PROVE  Orderly(DecodersFed(decoders, bits))
<1> DEFINE beams == decoders.beams
           auxiliary == decoders.auxiliary
           fedBeams == BeamsFed(beams, bits)
           fedAuxiliary == AuxiliaryFed(auxiliary, bits)
           pressed == {h \in AuxiliaryHolds : <<h, "held">> \in bits}
           armed == auxiliary.armed \cup (AuxiliaryHolds \ pressed)
           held == pressed \cap armed
<1>1. beams \in BeamSet /\ auxiliary \in AuxiliarySet
  BY DEF DecoderSet
<1>2. /\ DecodersFed(decoders, bits).beams = fedBeams
      /\ DecodersFed(decoders, bits).auxiliary = fedAuxiliary
  BY DEF DecodersFed
<1>3. /\ fedBeams.armed \/ fedBeams.held = {}
      /\ Single(fedBeams.held)
  <2> DEFINE now == {h \in Beams : <<h, "held">> \in bits}
  <2>1. Single(now) /\ Single(beams.held)
        /\ (beams.armed \/ beams.held = {})
    BY OneOfALever DEF Orderly
  <2>2. BeamsFed(beams, bits) =
          IF now = {} THEN [armed |-> TRUE, held |-> {}]
          ELSE IF beams.armed THEN [beams EXCEPT !.held = now] ELSE beams
    BY DEF BeamsFed
  <2> HIDE DEF now
  <2>3. Single({})
    BY DEF Single
  <2> QED BY <1>1, <2>1, <2>2, <2>3 DEF BeamSet
<1>4. /\ fedAuxiliary.held = held \ {"rear_spring"}
      /\ fedAuxiliary.hazard = HazardFed(auxiliary, pressed, held)
      /\ fedAuxiliary.armed = armed
  BY DEF AuxiliaryFed
<1>5. Single(fedAuxiliary.held \cap Cruise)
  <2>1. fedAuxiliary.held \cap Cruise
          \subseteq {h \in Cruise : <<h, "held">> \in bits}
    BY <1>4
  <2> QED BY <2>1, OneOfALever DEF Single
<1>6. HazardFed(auxiliary, pressed, held) => "rear_spring" \in armed
  BY DEF HazardFed, Orderly
<1>7. fedAuxiliary.held \subseteq fedAuxiliary.armed
  BY <1>4
<1> QED BY <1>2, <1>3, <1>4, <1>5, <1>6, <1>7 DEF Orderly

-----------------------------------------------------------------------------
(* What a report of the device says *)

LEMMA PressedIs ==
  ASSUME NEW d \in DeviceSet, NEW h \in Holds
  PROVE  <<h, "held">> \in Bits(d) <=> h \in d.held
<1>1. /\ h \notin Latched /\ h # "beam"
  BY ControlsAre
<1>2. <<h, "held">> \notin {<<c, d.at[c]>> : c \in d.pulse \cap Latched}
  BY <1>1
<1>3. <<h, "held">> \notin
        (IF "beam" \in d.pulse THEN {<<"beam", "released">>} ELSE {})
  BY <1>1
<1>4. <<h, "held">> \in Held(d.held) <=> h \in d.held
  BY DEF Held
<1> QED BY <1>2, <1>3, <1>4 DEF Bits

LEMMA ReportedIs ==
  ASSUME NEW d \in DeviceSet, Placed(d.at), NEW c \in Latched
  PROVE  Reported(Bits(d), c) = IF c \in d.pulse THEN {d.at[c]} ELSE {}
<1>1. /\ c \notin Holds /\ c # "beam" /\ d.held \subseteq Holds
  BY ControlsAre DEF DeviceSet
<1>2. ASSUME NEW p
      PROVE  <<c, p>> \in Bits(d) <=> c \in d.pulse /\ p = d.at[c]
  <2>1. <<c, p>> \notin Held(d.held)
    BY <1>1 DEF Held
  <2>2. <<c, p>> \notin
          (IF "beam" \in d.pulse THEN {<<"beam", "released">>} ELSE {})
    BY <1>1
  <2>3. <<c, p>> \in {<<x, d.at[x]>> : x \in d.pulse \cap Latched}
          <=> c \in d.pulse /\ p = d.at[c]
    OBVIOUS
  <2> QED BY <2>1, <2>2, <2>3 DEF Bits
<1>3. d.at[c] \in Positions[c]
  BY DEF Placed
<1> QED BY <1>2, <1>3 DEF Reported

\* What the decoders know of a device that they have seen every change of.
Matches(d, decoders) ==
  /\ \A c \in Rings :
       /\ decoders.rings[c].position \in {Unknown, d.at[c]}
       /\ decoders.rings[c].previous_pulse \subseteq {d.at[c]}
  /\ decoders.auxiliary.selector \in {Unknown, d.at["selector"]}
  /\ decoders.auxiliary.rear_off \in {Unknown, d.at["rear"]}
  /\ decoders.beams.held \subseteq d.held
  /\ decoders.auxiliary.held \subseteq d.held
  /\ decoders.auxiliary.hazard =>
       "rear_spring" \in d.held /\ d.at["rear"] = "off"

LEMMA NewMatches ==
  ASSUME NEW d
  PROVE  Matches(d, NewDecoders)
BY DEF Matches, NewDecoders

LEMMA RingMatches ==
  ASSUME Typed, NEW d, Follows(d), NEW c \in Rings, NEW ring \in RingSet,
         ring.position \in {Unknown, device.at[c]},
         ring.previous_pulse \subseteq {device.at[c]}
  PROVE  LET fed == RingFed(ring, c, Bits(d)) IN
         /\ fed.position \in {Unknown, d.at[c]}
         /\ fed.previous_pulse \subseteq {d.at[c]}
<1> DEFINE pulse == Reported(Bits(d), c)
<1>1. c \in Latched
  BY ControlsAre
<1>2. pulse = IF c \in d.pulse THEN {d.at[c]} ELSE {}
  BY <1>1, ReportedIs DEF Follows
<1>3. d.at[c] # device.at[c] => c \in d.pulse
  BY <1>1 DEF Follows
<1>4. The({d.at[c]}) = d.at[c]
  BY TheIs
<1> HIDE DEF pulse
<1>5. RingFed(ring, c, Bits(d)) =
        [position |-> IF pulse # {} /\ pulse # ring.previous_pulse
                      THEN The(pulse) ELSE ring.position,
         previous_pulse |-> pulse]
  BY DEF RingFed, pulse
<1>6. CASE d.at[c] = device.at[c]
  BY <1>2, <1>4, <1>5, <1>6
<1>7. CASE d.at[c] # device.at[c]
  <2>1. pulse = {d.at[c]} /\ pulse # ring.previous_pulse
    BY <1>2, <1>3, <1>7
  <2> QED BY <1>4, <1>5, <2>1
<1> QED BY <1>6, <1>7

LEMMA LatestMatches ==
  ASSUME NEW d, Follows(d), NEW c \in Latched,
         NEW before \in {Unknown, device.at[c]}
  PROVE  Latest(Bits(d), c, before) \in {Unknown, d.at[c]}
<1>1. Reported(Bits(d), c) = IF c \in d.pulse THEN {d.at[c]} ELSE {}
  BY ReportedIs DEF Follows
<1>2. d.at[c] # device.at[c] => c \in d.pulse
  BY DEF Follows
<1>3. The({d.at[c]}) = d.at[c]
  BY TheIs
<1> QED BY <1>1, <1>2, <1>3 DEF Latest

\* A decoder that knows the device as it was knows it as it is after its report.
LEMMA MatchesFed ==
  ASSUME Typed, NEW d, Follows(d), NEW decoders \in DecoderSet,
         Orderly(decoders), Matches(device, decoders)
  PROVE  Matches(d, DecodersFed(decoders, Bits(d)))
<1> DEFINE bits == Bits(d)
           beams == decoders.beams
           auxiliary == decoders.auxiliary
           fed == DecodersFed(decoders, bits)
           pressed == {h \in AuxiliaryHolds : <<h, "held">> \in bits}
           armed == auxiliary.armed \cup (AuxiliaryHolds \ pressed)
           held == pressed \cap armed
<1>1. /\ decoders.rings \in [Rings -> RingSet]
      /\ beams \in BeamSet /\ auxiliary \in AuxiliarySet
  BY DEF DecoderSet
<1>2. /\ \A c \in Rings : fed.rings[c] = RingFed(decoders.rings[c], c, bits)
      /\ fed.beams = BeamsFed(beams, bits)
      /\ fed.auxiliary = AuxiliaryFed(auxiliary, bits)
  BY DEF DecodersFed
<1>3. /\ fed.auxiliary.selector = Latest(bits, "selector", auxiliary.selector)
      /\ fed.auxiliary.rear_off = Latest(bits, "rear", auxiliary.rear_off)
      /\ fed.auxiliary.held = held \ {"rear_spring"}
      /\ fed.auxiliary.hazard = HazardFed(auxiliary, pressed, held)
  BY <1>2 DEF AuxiliaryFed
<1>4. ASSUME NEW h \in Holds PROVE <<h, "held">> \in bits <=> h \in d.held
  BY PressedIs DEF Follows
<1>5. pressed = AuxiliaryHolds \cap d.held
  BY <1>4, ControlsAre
<1>6. \A c \in Rings :
        /\ fed.rings[c].position \in {Unknown, d.at[c]}
        /\ fed.rings[c].previous_pulse \subseteq {d.at[c]}
  BY <1>1, <1>2, RingMatches DEF Matches
<1>7. /\ fed.auxiliary.selector \in {Unknown, d.at["selector"]}
      /\ fed.auxiliary.rear_off \in {Unknown, d.at["rear"]}
  BY <1>3, LatestMatches, ControlsAre DEF Matches
<1>8. fed.beams.held \subseteq d.held
  <2> DEFINE now == {h \in Beams : <<h, "held">> \in bits}
  <2>1. now \subseteq d.held
    BY <1>4, ControlsAre
  <2>2. BeamsFed(beams, bits) =
          IF now = {} THEN [armed |-> TRUE, held |-> {}]
          ELSE IF beams.armed THEN [beams EXCEPT !.held = now] ELSE beams
    BY DEF BeamsFed
  <2> HIDE DEF now
  <2> QED BY <1>1, <1>2, <2>1, <2>2 DEF Orderly, BeamSet
<1>9. fed.auxiliary.held \subseteq d.held
  BY <1>3, <1>5
<1>10. ASSUME fed.auxiliary.hazard
       PROVE  "rear_spring" \in d.held /\ d.at["rear"] = "off"
  <2>1. /\ "rear_spring" \in pressed
        /\ auxiliary.hazard \/ auxiliary.rear_off = "off"
    BY <1>3, <1>10 DEF HazardFed
  <2>2. "rear_spring" \in d.held
    BY <1>5, <2>1
  <2>3. d.at["rear"] = device.at["rear"]
    BY <2>2 DEF Follows
  <2> QED BY <2>1, <2>2, <2>3 DEF Matches, Unknown
<1> HIDE DEF fed
<1>11. Matches(d, fed)
  BY <1>6, <1>7, <1>8, <1>9, <1>10 DEF Matches
<1> QED BY <1>11 DEF fed

-----------------------------------------------------------------------------
(* What has been seen released *)

\* Whatever a decoder takes for released since the plugin's state last changed
\* has been.
Fresh(decoders, holds, seen) ==
  /\ decoders.beams.armed => Beams \cap holds \subseteq seen
  /\ decoders.auxiliary.armed \cap holds \subseteq seen
  /\ decoders.beams.held \cup decoders.auxiliary.held \subseteq holds
  /\ decoders.auxiliary.hazard => "rear_spring" \in holds

LEMMA NewFresh ==
  ASSUME NEW holds, NEW seen
  PROVE  Fresh(NewDecoders, holds, seen)
BY DEF Fresh, NewDecoders

LEMMA FreshFed ==
  ASSUME Typed, NEW d, Follows(d), NEW decoders \in DecoderSet,
         Orderly(decoders), Fresh(decoders, driver.holds, released)
  PROVE  Fresh(DecodersFed(decoders, Bits(d)), driver.holds,
               released \cup (driver.holds \ d.held))
<1> DEFINE bits == Bits(d)
           beams == decoders.beams
           auxiliary == decoders.auxiliary
           fed == DecodersFed(decoders, bits)
           now == {h \in Beams : <<h, "held">> \in bits}
           pressed == {h \in AuxiliaryHolds : <<h, "held">> \in bits}
           armed == auxiliary.armed \cup (AuxiliaryHolds \ pressed)
           held == pressed \cap armed
           seen == released \cup (driver.holds \ d.held)
<1>1. beams \in BeamSet /\ auxiliary \in AuxiliarySet
  BY DEF DecoderSet
<1>2. /\ fed.beams = BeamsFed(beams, bits)
      /\ fed.auxiliary = AuxiliaryFed(auxiliary, bits)
  BY DEF DecodersFed
<1>3. /\ fed.auxiliary.held = held \ {"rear_spring"}
      /\ fed.auxiliary.hazard = HazardFed(auxiliary, pressed, held)
      /\ fed.auxiliary.armed = armed
  BY <1>2 DEF AuxiliaryFed
<1>4. ASSUME NEW h \in Holds PROVE <<h, "held">> \in bits <=> h \in d.held
  BY PressedIs DEF Follows
<1>5. /\ pressed = AuxiliaryHolds \cap d.held /\ now = Beams \cap d.held
      /\ d.held \subseteq driver.holds
  BY <1>4, ControlsAre DEF Follows
<1>6. /\ fed.beams.armed => beams.armed \/ now = {}
      /\ fed.beams.held \subseteq now \cup beams.held
  <2>1. BeamsFed(beams, bits) =
          IF now = {} THEN [armed |-> TRUE, held |-> {}]
          ELSE IF beams.armed THEN [beams EXCEPT !.held = now] ELSE beams
    BY DEF BeamsFed
  <2> HIDE DEF now
  <2> QED BY <1>1, <1>2, <2>1 DEF BeamSet
<1>7. fed.beams.armed => Beams \cap driver.holds \subseteq seen
  BY <1>5, <1>6 DEF Fresh
<1>8. fed.auxiliary.armed \cap driver.holds \subseteq seen
  BY <1>3, <1>5 DEF Fresh
<1>9. fed.beams.held \cup fed.auxiliary.held \subseteq driver.holds
  BY <1>3, <1>5, <1>6 DEF Fresh
<1>10. fed.auxiliary.hazard => "rear_spring" \in driver.holds
  BY <1>3, <1>5 DEF HazardFed
<1> HIDE DEF fed, seen
<1>11. Fresh(fed, driver.holds, seen)
  BY <1>7, <1>8, <1>9, <1>10 DEF Fresh
<1> QED BY <1>11 DEF fed, seen

-----------------------------------------------------------------------------
(* The inductive invariant *)

\* What the bridge remembers has been seen since the handle was opened, under
\* the plugin's present binding or to be forgotten, and is as old as its clock
\* says.
Remembered ==
  /\ Orderly(bridge.decoders)
  /\ bridge.last_report = NoTime => bridge.decoders = NewDecoders
  /\ bridge.last_report # NoTime => bridge.last_report \in {silent, HID_LEASE}
  /\ usb = "closed" => bridge.decoders = NewDecoders
  /\ usb = "open" => Matches(device, bridge.decoders)
  /\ bridge.binding = plugin =>
       Fresh(bridge.decoders, driver.holds, released)

IInv == Typed /\ Remembered

\* Decoders without a memory are always right.
LEMMA NewRemembered ==
  ASSUME bridge.decoders = NewDecoders, bridge.last_report = NoTime
  PROVE  Remembered
BY NewOrderly, NewMatches, NewFresh DEF Remembered

LEMMA InitRemembered == Init => Remembered
<1> SUFFICES ASSUME Init PROVE Remembered
  OBVIOUS
<1>1. bridge.decoders = NewDecoders /\ bridge.last_report = NoTime
  BY DEF Init, NewBridge
<1> QED BY <1>1, NewRemembered

LEMMA NewRememberedNext ==
  ASSUME bridge'.decoders = NewDecoders, bridge'.last_report = NoTime
  PROVE  Remembered'
<1>1. /\ Orderly(NewDecoders) /\ Matches(device', NewDecoders)
      /\ Fresh(NewDecoders, driver'.holds, released')
  BY NewOrderly, NewMatches, NewFresh
<1>2. /\ Orderly(bridge'.decoders) /\ Matches(device', bridge'.decoders)
      /\ Fresh(bridge'.decoders, driver'.holds, released')
  BY <1>1
<1> QED BY <1>2 DEF Remembered

LEMMA SeesRemembered ==
  ASSUME IInv, NEW d, Follows(d), Sees(d)
  PROVE  Remembered'
<1> USE DEF IInv
<1>1. /\ device' = d /\ UNCHANGED <<driver, usb, plugin>>
      /\ released' = released \cup (driver.holds \ d.held)
      /\ bridge' = IF usb = "open" THEN Fed(bridge, Bits(d)) ELSE bridge
      /\ silent' = IF usb = "open" THEN 0 ELSE silent
  BY DEF Sees
<1>2. bridge \in BridgeSet /\ RingsOwn(bridge.decoders)
  BY DEF Typed
<1>3. CASE usb # "open"
  <2>1. bridge' = bridge /\ silent' = silent /\ usb' # "open"
    BY <1>1, <1>3
  <2>2. Fresh(bridge.decoders, driver.holds, released) =>
          Fresh(bridge.decoders, driver.holds, released')
    BY <1>1 DEF Fresh
  <2> QED BY <1>1, <1>3, <2>1, <2>2 DEF Remembered
<1>4. CASE usb = "open" /\ Conflicting(Bits(d))
  <2>1. bridge'.decoders = NewDecoders /\ bridge'.last_report = NoTime
    BY <1>1, <1>2, <1>4, FedIs
  <2> QED BY <2>1, NewRememberedNext
<1>5. CASE usb = "open" /\ ~Conflicting(Bits(d))
  <2>1. PICK before \in {bridge.decoders, NewDecoders} :
          /\ bridge'.decoders = DecodersFed(before, Bits(d))
          /\ bridge'.last_report = 0 /\ bridge'.binding = bridge.binding
    BY <1>1, <1>2, <1>5, FedIs
  <2>2. /\ before \in DecoderSet /\ Orderly(before)
        /\ Matches(device, before)
        /\ bridge.binding = plugin =>
             Fresh(before, driver.holds, released)
    BY <1>2, <1>5, NewTyped, NewOrderly, NewMatches, NewFresh
       DEF Remembered, BridgeSet
  <2>3. Orderly(bridge'.decoders)
    BY <1>5, <2>1, <2>2, OrderlyFed
  <2>4. Matches(device', bridge'.decoders)
    BY <1>1, <2>1, <2>2, MatchesFed
  <2>5. bridge'.binding = plugin' =>
          Fresh(bridge'.decoders, driver'.holds, released')
    BY <1>1, <2>1, <2>2, FreshFed
  <2>6. silent' = 0 /\ usb' = "open" /\ bridge'.last_report # NoTime
    BY <1>1, <1>5, <2>1 DEF NoTime
  <2> QED BY <2>1, <2>3, <2>4, <2>5, <2>6 DEF Remembered
<1> QED BY <1>3, <1>4, <1>5

LEMMA FiveFinite ==
  ASSUME NEW t, NEW u, NEW v, NEW w, NEW x
  PROVE  IsFiniteSet({t, u, v, w, x})
<1>1. IsFiniteSet({t} \cup {u})
  BY FS_Singleton, FS_AddElement
<1>2. IsFiniteSet(({t} \cup {u}) \cup {v})
  BY <1>1, FS_AddElement
<1>3. IsFiniteSet((({t} \cup {u}) \cup {v}) \cup {w})
  BY <1>2, FS_AddElement
<1>4. IsFiniteSet(((({t} \cup {u}) \cup {v}) \cup {w}) \cup {x})
  BY <1>3, FS_AddElement
<1>5. {t, u, v, w, x} = ((({t} \cup {u}) \cup {v}) \cup {w}) \cup {x}
  OBVIOUS
<1> QED BY <1>4, <1>5, Zenon

LEMMA PositionsFinite ==
  ASSUME NEW c \in Latched
  PROVE  IsFiniteSet(Positions[c])
<1> DEFINE wiper == {"mist", "off", "intermittent", "low", "high"}
           indicator == {"left", "centre", "right", "right", "right"}
           light == {"off", "parking", "low_beam", "off", "off"}
           selector == {"drive", "neutral", "reverse", "park", "park"}
           rear == {"off", "upper", "off", "off", "off"}
<1>1. /\ IsFiniteSet(wiper) /\ IsFiniteSet(indicator) /\ IsFiniteSet(light)
      /\ IsFiniteSet(selector) /\ IsFiniteSet(rear)
  BY FiveFinite
<1>2. /\ Positions["wiper"] = wiper /\ Positions["indicator"] = indicator
      /\ Positions["light"] = light /\ Positions["selector"] = selector
      /\ Positions["rear"] = rear
  BY DEF Positions
<1> HIDE DEF wiper, indicator, light, selector, rear
<1>3. c \in {"indicator", "light", "wiper", "selector", "rear"}
  BY DEF Latched, Rings
<1> QED BY <1>1, <1>2, <1>3

LEMMA GarblingsConflict ==
  ASSUME Typed, NEW bits \in Garblings
  PROVE  Conflicting(bits)
<1>1. ASSUME NEW s, NEW x \in s, NEW y \in s, x # y, IsFiniteSet(s)
      PROVE  Cardinality(s) > 1
  <2>1. Cardinality(s) \in Nat /\ ~Single(s)
    BY <1>1, FS_CardinalityType DEF Single
  <2> QED BY <1>1, <2>1, SingleIs
<1>2. \A a, b, c : IsFiniteSet({a} \cup {b} \cup {c})
  BY FS_Singleton, FS_Union
<1>3. ASSUME NEW c \in driver.moves, bits = {c} \X Positions[c]
      PROVE  Conflicting(bits)
  <2>1. c \in Latched
    BY DEF Typed
  <2>2. Reported(bits, c) = Positions[c]
    BY <1>3 DEF Reported
  <2>3. IsFiniteSet(Positions[c])
    BY <2>1, PositionsFinite
  <2>4. \E x, y \in Positions[c] : x # y
    BY <2>1 DEF Latched, Rings, Positions
  <2> QED BY <1>1, <2>1, <2>2, <2>3, <2>4 DEF Conflicting
<1>4. CASE bits = Held(Beams)
  <2> DEFINE s == bits \cap (Held(Beams) \cup {<<"beam", "released">>})
  <2>1. s = {<<"flash", "held">>} \cup {<<"high_beam", "held">>}
              \cup {<<"flash", "held">>}
    BY <1>4 DEF Held, Beams
  <2>2. IsFiniteSet({<<"flash", "held">>} \cup {<<"high_beam", "held">>}
              \cup {<<"flash", "held">>})
    BY <1>2
  <2>3. IsFiniteSet(s)
    BY <2>1, <2>2, Zenon
  <2>4. <<"flash", "held">> \in s /\ <<"high_beam", "held">> \in s
    BY <2>1
  <2> HIDE DEF s
  <2>5. Cardinality(s) > 1
    BY <1>1, <2>3, <2>4
  <2> QED BY <2>5 DEF Conflicting, s
<1>5. CASE bits = Held(Cruise)
  <2> DEFINE s == bits \cap Held(Cruise)
  <2>1. s = {<<"pull", "held">>} \cup {<<"up", "held">>}
              \cup {<<"down", "held">>}
    BY <1>5 DEF Held, Cruise
  <2>2. IsFiniteSet({<<"pull", "held">>} \cup {<<"up", "held">>}
              \cup {<<"down", "held">>})
    BY <1>2
  <2>3. IsFiniteSet(s)
    BY <2>1, <2>2, Zenon
  <2>4. <<"pull", "held">> \in s /\ <<"up", "held">> \in s
    BY <2>1
  <2> HIDE DEF s
  <2>5. Cardinality(s) > 1
    BY <1>1, <2>3, <2>4
  <2> QED BY <2>5 DEF Conflicting, s
<1> QED BY <1>3, <1>4, <1>5 DEF Garblings

LEMMA GarbledRemembered ==
  ASSUME IInv, NEW bits \in Garblings, Garbled(bits)
  PROVE  Remembered'
<1>1. bridge' = Fed(bridge, bits)
  BY DEF Garbled
<1>2. bridge'.decoders = NewDecoders /\ bridge'.last_report = NoTime
  BY <1>1, GarblingsConflict, FedIs DEF IInv, Typed
<1> QED BY <1>2, NewRememberedNext

LEMMA ReplyRemembered ==
  ASSUME IInv, NEW binding \in 1..MaxBinding, Reply(binding)
  PROVE  Remembered'
<1>1. /\ bridge' = Replied(bridge, binding) /\ binding \in 0..MaxBinding
      /\ UNCHANGED <<driver, device, usb, plugin, silent, released>>
  BY StalkAssumption DEF Reply
<1>2. CASE bridge.binding # binding \/ Lapsed(bridge)
  <2>1. bridge'.decoders = NewDecoders /\ bridge'.last_report = NoTime
    BY <1>1, <1>2, RepliedIs DEF IInv, Typed
  <2> QED BY <2>1, NewRememberedNext
<1>3. CASE ~(bridge.binding # binding \/ Lapsed(bridge))
  <2>1. /\ bridge'.decoders = bridge.decoders
        /\ bridge'.last_report = bridge.last_report
        /\ bridge'.binding = bridge.binding
    BY <1>1, <1>3, RepliedIs DEF IInv, Typed
  <2> QED BY <1>1, <2>1 DEF IInv, Remembered
<1> QED BY <1>2, <1>3

\* A change of the plugin's state leaves the bridge bound to an earlier one.
LEMMA PluginMovesRemembered ==
  ASSUME IInv, PluginMoves
  PROVE  Remembered'
<1>1. plugin' = plugin + 1 /\ UNCHANGED <<driver, device, usb, bridge, silent>>
  BY DEF PluginMoves
<1>2. bridge.binding \in Nat /\ plugin \in Nat /\ bridge.binding <= plugin
  BY StalkAssumption DEF IInv, Typed, BridgeSet
<1>3. bridge'.binding # plugin'
  BY <1>1, <1>2
<1> QED BY <1>1, <1>3 DEF IInv, Remembered

LEMMA TickRemembered ==
  ASSUME IInv, Tick
  PROVE  Remembered'
<1>1. /\ silent' = silent + 1
      /\ UNCHANGED <<driver, device, usb, plugin, released>>
  BY DEF Tick
<1>2. /\ bridge'.decoders = bridge.decoders
      /\ bridge'.binding = bridge.binding
      /\ bridge'.last_report =
           IF bridge.last_report \in {NoTime, HID_LEASE}
           THEN bridge.last_report ELSE bridge.last_report + 1
  BY TickIs DEF IInv
<1>3. bridge.last_report \in {NoTime} \cup 0..HID_LEASE
  BY DEF IInv, Typed, BridgeSet
<1>4. bridge'.last_report = NoTime => bridge.last_report = NoTime
  BY <1>2, <1>3, StalkAssumption DEF NoTime
<1>5. bridge'.last_report # NoTime =>
        bridge'.last_report \in {silent', HID_LEASE}
  BY <1>1, <1>2 DEF IInv, Remembered
<1> QED BY <1>1, <1>2, <1>4, <1>5 DEF IInv, Remembered

LEMMA NextRemembered == IInv /\ [Next]_vars => Remembered'
<1> SUFFICES ASSUME IInv, [Next]_vars PROVE Remembered'
  OBVIOUS
<1>1. CASE \/ \E c \in driver.moves : \E p \in Positions[c] : Move(c, p)
           \/ \E c \in Latched \cup {"beam"} : PulseEnds(c)
           \/ \E h \in driver.holds : Press(h) \/ Release(h)
           \/ Repeats
  BY <1>1, DeviceFollows, SeesRemembered DEF IInv
<1>2. CASE \E bits \in Garblings : Garbled(bits)
  BY <1>2, GarbledRemembered
<1>3. CASE Unplug
  BY <1>3 DEF Unplug, IInv, Remembered
<1>4. CASE ReadFails
  <2>1. bridge'.decoders = NewDecoders /\ bridge'.last_report = NoTime
    BY <1>4, ResetIs DEF ReadFails, IInv, Typed
  <2> QED BY <2>1, NewRememberedNext
<1>5. CASE Reopens
  <2>1. Matches(device, NewDecoders)
    BY NewMatches
  <2> QED BY <1>5, <2>1 DEF Reopens, IInv, Remembered
<1>6. CASE \E binding \in 1..MaxBinding : Reply(binding)
  BY <1>6, ReplyRemembered
<1>7. CASE ConnectionEnds
  <2>1. bridge'.decoders = NewDecoders /\ bridge'.last_report = NoTime
    BY <1>7, DisconnectedIs DEF ConnectionEnds, IInv, Typed
  <2> QED BY <2>1, NewRememberedNext
<1>8. CASE PluginMoves
  BY <1>8, PluginMovesRemembered
<1>9. CASE Tick
  BY <1>9, TickRemembered
<1>10. CASE UNCHANGED vars
  BY <1>10 DEF vars, IInv, Remembered
<1> QED BY <1>1, <1>2, <1>3, <1>4, <1>5, <1>6, <1>7, <1>8, <1>9, <1>10
        DEF Next

LEMMA Inductive == Spec => []IInv
<1>1. Init => IInv
  BY InitTyped, InitRemembered DEF IInv
<1>2. IInv /\ [Next]_vars => IInv'
  BY NextTyped, NextRemembered DEF IInv
<1> QED BY <1>1, <1>2, PTL DEF Spec

-----------------------------------------------------------------------------
(* What a reply asks for *)

LEMMA InputsAre ==
  ASSUME NEW decoders, NEW input
  PROVE  input \in Inputs(decoders) <=>
           \/ \E c \in Rings :
                /\ decoders.rings[c].position \notin {Unknown, "centre"}
                /\ input = <<c, decoders.rings[c].position>>
           \/ \E h \in decoders.beams.held \cup decoders.auxiliary.held :
                input = <<h, "held">>
           \/ /\ decoders.auxiliary.selector # Unknown
              /\ input = <<"selector", decoders.auxiliary.selector>>
           \/ decoders.auxiliary.hazard /\ input = <<"hazard", "held">>
BY DEF Inputs, Held

LEMMA NewAsksNothing == Inputs(NewDecoders) = {}
BY DEF Inputs, Held, NewDecoders

\* A reply under another binding, or to a bridge whose last report is too old,
\* asks for nothing.
LEMMA AnswerIs ==
  ASSUME Typed
  PROVE  /\ bridge.binding = plugin /\ ~Lapsed(bridge) =>
              Answer = Inputs(bridge.decoders)
         /\ bridge.binding # plugin \/ Lapsed(bridge) => Answer = {}
<1>1. plugin \in 0..MaxBinding /\ bridge \in BridgeSet
  BY StalkAssumption DEF Typed
<1>2. CASE bridge.binding # plugin \/ Lapsed(bridge)
  <2>1. Replied(bridge, plugin).decoders = NewDecoders
    BY <1>1, <1>2, RepliedIs
  <2> QED BY <1>2, <2>1, NewAsksNothing DEF Answer
<1>3. CASE ~(bridge.binding # plugin \/ Lapsed(bridge))
  <2>1. Replied(bridge, plugin).decoders = bridge.decoders
    BY <1>1, <1>3, RepliedIs
  <2> QED BY <1>3, <2>1 DEF Answer
<1> QED BY <1>2, <1>3

LEMMA InputsFresh ==
  ASSUME IInv
  PROVE  HoldsAreFresh
<1> SUFFICES ASSUME NEW input \in Answer
             PROVE  /\ input[1] \in driver.holds => input[1] \in released
                    /\ input[1] = "hazard" => "rear_spring" \in released
  BY DEF HoldsAreFresh
<1> DEFINE decoders == bridge.decoders
<1>1. bridge.binding = plugin /\ input \in Inputs(decoders)
  BY AnswerIs DEF IInv
<1>2. Orderly(decoders) /\ Fresh(decoders, driver.holds, released)
  BY <1>1 DEF IInv, Remembered
<1>3. /\ decoders.beams.held \subseteq Beams
      /\ decoders.auxiliary.held \subseteq AuxiliaryHolds
      /\ driver.holds \subseteq Holds
  BY DEF IInv, Typed, BridgeSet, DecoderSet, BeamSet, AuxiliarySet
<1>4. CASE \E c \in Rings : input = <<c, decoders.rings[c].position>>
  BY <1>3, <1>4, ControlsAre
<1>5. CASE \E h \in decoders.beams.held : input = <<h, "held">>
  BY <1>2, <1>3, <1>5, ControlsAre DEF Orderly, Fresh
<1>6. CASE \E h \in decoders.auxiliary.held : input = <<h, "held">>
  BY <1>2, <1>3, <1>6, ControlsAre DEF Orderly, Fresh
<1>7. CASE input = <<"selector", decoders.auxiliary.selector>>
  BY <1>3, <1>7, ControlsAre
<1>8. CASE decoders.auxiliary.hazard /\ input = <<"hazard", "held">>
  BY <1>2, <1>3, <1>8, ControlsAre DEF Orderly, Fresh
<1> QED BY <1>1, <1>4, <1>5, <1>6, <1>7, <1>8, InputsAre

LEMMA InputsActual ==
  ASSUME IInv
  PROVE  AnswerIsActual
<1> SUFFICES ASSUME NEW input \in Answer
             PROVE  Actual(input) \/ (usb = "stale" /\ silent < HID_LEASE)
  BY DEF AnswerIsActual
<1> DEFINE decoders == bridge.decoders
<1>1. ~Lapsed(bridge) /\ input \in Inputs(decoders)
  BY AnswerIs DEF IInv
<1>2. decoders # NewDecoders
  BY <1>1, NewAsksNothing
<1>3. /\ usb \in {"open", "stale"} /\ bridge.last_report # NoTime
      /\ bridge.last_report \in {silent, HID_LEASE}
  BY <1>2 DEF IInv, Remembered, Typed
<1>4. CASE usb = "stale"
  <2>1. HID_LEASE \in Nat /\ silent \in Nat
    BY StalkAssumption DEF IInv, Typed
  <2>2. ~(bridge.last_report >= HID_LEASE)
    BY <1>1 DEF Lapsed
  <2> QED BY <1>3, <1>4, <2>1, <2>2
<1>5. CASE usb = "open"
  <2>1. Matches(device, decoders)
    BY <1>5 DEF IInv, Remembered
  <2>2. /\ decoders.beams.held \subseteq Beams
        /\ decoders.auxiliary.held \subseteq AuxiliaryHolds
    BY DEF IInv, Typed, BridgeSet, DecoderSet, BeamSet, AuxiliarySet
  <2>3. ASSUME NEW c \in Rings,
               decoders.rings[c].position \notin {Unknown, "centre"},
               input = <<c, decoders.rings[c].position>>
        PROVE  Actual(input)
    <3>1. decoders.rings[c].position = device.at[c]
      BY <2>1, <2>3 DEF Matches
    <3> QED BY <2>3, <3>1, ControlsAre DEF Actual
  <2>4. ASSUME NEW h \in decoders.beams.held \cup decoders.auxiliary.held,
               input = <<h, "held">>
        PROVE  Actual(input)
    <3>1. h \in device.held
      BY <2>1 DEF Matches
    <3>2. h \notin Latched /\ h # "hazard"
      BY <2>2, ControlsAre
    <3> QED BY <2>4, <3>1, <3>2 DEF Actual
  <2>5. CASE /\ decoders.auxiliary.selector # Unknown
             /\ input = <<"selector", decoders.auxiliary.selector>>
    <3>1. decoders.auxiliary.selector = device.at["selector"]
      BY <2>1, <2>5 DEF Matches
    <3> QED BY <2>5, <3>1, ControlsAre DEF Actual
  <2>6. CASE decoders.auxiliary.hazard /\ input = <<"hazard", "held">>
    <3>1. "rear_spring" \in device.held /\ device.at["rear"] = "off"
      BY <2>1, <2>6 DEF Matches
    <3>2. "hazard" \notin Latched
      BY ControlsAre
    <3> QED BY <2>6, <3>1, <3>2 DEF Actual
  <2> QED BY <1>1, <2>3, <2>4, <2>5, <2>6, InputsAre
<1> QED BY <1>3, <1>4, <1>5

LEMMA InputsOneOfAGroup ==
  ASSUME IInv
  PROVE  OnlyCruiseConflicts
<1> SUFFICES ASSUME ~(Held({"toggle", "pull"}) \subseteq Answer)
             PROVE  \A group \in Groups : Single(Answer \cap group)
  BY SingleCounts DEF OnlyCruiseConflicts, valid_inputs
<1>1. CASE Answer = {}
  BY <1>1 DEF Single
<1>2. CASE Answer # {}
  <2> DEFINE decoders == bridge.decoders
  <2>1. Answer = Inputs(decoders)
    BY <1>2, AnswerIs DEF IInv
  <2>2. /\ Single(decoders.beams.held)
        /\ Single(decoders.auxiliary.held \cap Cruise)
    BY DEF IInv, Remembered, Orderly
  <2>3. /\ decoders.beams.held \subseteq Beams
        /\ decoders.auxiliary.held \subseteq AuxiliaryHolds
    BY DEF IInv, Typed, BridgeSet, DecoderSet, BeamSet, AuxiliarySet
  <2>4. ASSUME NEW h \in Holds
        PROVE  <<h, "held">> \in Answer <=>
                 h \in decoders.beams.held \cup decoders.auxiliary.held
    BY <2>1, InputsAre, ControlsAre
  <2>5. ASSUME NEW c \in Rings \cup {"selector"}
        PROVE  Single(Answer \cap ({c} \X Positions[c]))
    <3>1. c \notin Holds /\ c # "hazard"
      BY ControlsAre
    <3>2. \E q : \A p : <<c, p>> \in Answer => p = q
      <4>1. CASE c \in Rings
        BY <2>1, <2>3, <3>1, <4>1, InputsAre, ControlsAre
      <4>2. CASE c = "selector"
        BY <2>1, <2>3, <3>1, <4>2, InputsAre, ControlsAre
      <4> QED BY <4>1, <4>2
    <3> QED BY <3>2 DEF Single
  <2>6. ASSUME NEW s \in SUBSET Holds, \A h, k \in s :
                 <<h, "held">> \in Answer /\ <<k, "held">> \in Answer => h = k
        PROVE  Single(Answer \cap Held(s))
    BY <2>6 DEF Single, Held
  <2>7. Single(Answer \cap Held(Beams))
    <3>1. \A h \in Beams : h \in Holds /\ h \notin AuxiliaryHolds
      BY ControlsAre
    <3> QED BY <2>2, <2>3, <2>4, <2>6, <3>1 DEF Single
  <2>8. Single(Answer \cap Held({"up", "down"}))
    <3>1. {"up", "down"} \subseteq Cruise /\ Cruise \subseteq Holds \ Beams
      BY ControlsAre DEF Cruise
    <3>2. \A h \in Cruise : <<h, "held">> \in Answer
                              => h \in decoders.auxiliary.held \cap Cruise
      BY <2>3, <2>4, <3>1
    <3> QED BY <2>2, <2>6, <3>1, <3>2 DEF Single
  <2>9. Single(Answer \cap Held({"toggle", "pull"}))
    <3>1. {"toggle", "pull"} \subseteq Holds
      BY DEF Holds, AuxiliaryHolds, Cruise
    <3>2. <<"toggle", "held">> \notin Answer \/ <<"pull", "held">> \notin Answer
      BY DEF Held
    <3> QED BY <2>6, <3>1, <3>2
  <2> QED BY <2>5, <2>7, <2>8, <2>9 DEF Groups
<1> QED BY <1>1, <1>2

\* What a reply asks for is what the driver's hands are doing, whatever he
\* does, however often the device is unplugged and whatever the link is
\* through; but for the time up to the HID lease after it was unplugged.
THEOREM AsksWhatIsDone == Spec => []AnswerIsActual
BY Inductive, InputsActual, PTL

\* A control held through a pause, a reconnect or a restart of the plugin asks
\* for nothing until it has been released.
THEOREM HoldsMustBeReleased == Spec => []HoldsAreFresh
BY Inductive, InputsFresh, PTL

\* Of the groups of which the plugin takes one input, the bridge keeps to all
\* but that of the cruise lever's pull and the ON/OFF button.
THEOREM OneOfEachGroup == Spec => []OnlyCruiseConflicts
BY Inductive, InputsOneOfAGroup, PTL
=============================================================================
