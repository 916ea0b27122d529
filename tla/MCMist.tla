------------------------------- MODULE MCMist -------------------------------
EXTENDS Mist

MCDirect == {Off, Low}
=============================================================================
