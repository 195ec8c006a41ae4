---------------------------- MODULE MCLedgerBatch ----------------------------
(* LedgerBatch for TLC: three invoices of 10.10, on which 8.25 percent are   *)
(* 83.325 cents and 45 percent are 454.5, which may round either way.        *)
EXTENDS LedgerRoutes

MCRates == {<<0, 1>>, <<825, 10000>>}
MCCrazyRates == {<<45, 100>>}
MCTotalShifts == {-8000, 500}
==============================================================================
