----------------------------- MODULE MCOrderLog -----------------------------
EXTENDS OrderLog
=============================================================================
