------------------------------ MODULE MCStalk ------------------------------
(* TLC instances of Stalk: which controls the driver uses. *)
EXTENDS Stalk

\* Two of the left stalk's rings and its beam lever.
Left == [moves |-> {"indicator", "light"}, holds |-> {"flash", "high_beam"}]

\* The right stalk: the selector and both movements away from its detents.
Right == [moves |-> {"selector"}, holds |-> {"parking", "horn"}]

\* The rear ring with its springs, and the cruise stalk.
Rear == [moves |-> {"rear"}, holds |-> {"rear_spring", "toggle", "pull", "up"}]

\* The thumbwheel and the small spring switch.
Wheel == [moves |-> {"wiper"}, holds |-> {"automatic"}]

AllDrivers == {Left, Right, Rear, Wheel}
RearOnly   == {Rear}
=============================================================================
