---------------------------- MODULE MCOrderDesks ----------------------------
EXTENDS OrderDesks
=============================================================================
