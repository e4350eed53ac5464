---------------------------- MODULE MC_PointWalk ----------------------------
EXTENDS PointWalk
=============================================================================
