---------------------------- MODULE MCSchedGroup ----------------------------
EXTENDS SchedGroup
=============================================================================
