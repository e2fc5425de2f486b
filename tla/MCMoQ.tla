------------------------------- MODULE MCMoQ -------------------------------
EXTENDS MoQ

CONSTANTS c1, c2
=============================================================================
