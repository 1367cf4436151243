------------------------------ MODULE MCRouter ------------------------------
EXTENDS Router, TLC

CONSTANTS w1, w2, c1, c2
=============================================================================
