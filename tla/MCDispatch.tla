----------------------------- MODULE MCDispatch -----------------------------
EXTENDS Dispatch

CONSTANT High

MCDirect == {Off, Low, High}
=============================================================================
