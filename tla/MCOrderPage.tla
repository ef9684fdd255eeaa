----------------------------- MODULE MCOrderPage -----------------------------
EXTENDS OrderPage
=============================================================================
