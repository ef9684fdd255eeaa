-------------------------- MODULE MCApprovalStall --------------------------
EXTENDS ApprovalStall, TLC
=============================================================================
