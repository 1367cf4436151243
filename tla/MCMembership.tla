---------------------------- MODULE MCMembership ----------------------------
EXTENDS Membership, TLC

CONSTANTS u1, u2, u3

Symmetry == Permutations({u2, u3})
=============================================================================
