--------------------------- MODULE MCOrderListPage ---------------------------
EXTENDS OrderListPage
=============================================================================
