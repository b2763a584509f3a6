--------------------------- MODULE MCLedgerSerial ---------------------------
EXTENDS LedgerSerial

MCAmounts == {0, 1, 2}
MCTotals == {0, 2, 3}
=============================================================================
