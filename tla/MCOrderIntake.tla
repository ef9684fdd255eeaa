---------------------------- MODULE MCOrderIntake ----------------------------
EXTENDS OrderIntake, TLC

CONSTANTS ring, band, cart1

\* One cart, of two items.
MCContent == cart1 :> <<ring, band>>

\* The number of its first row is one the sequence may have handed out already, or
\* may be about to.
MCSheets == {<<2, 1>>}
=============================================================================
