----------------------------- MODULE MCSelector -----------------------------
(* TLC instance of Selector.  D and R are alike in it, so that one stands for *)
(* both.                                                                      *)
EXTENDS Selector

MCGears == {"P", "N", "D"}
=============================================================================
