----------------------------- MODULE LedgerRoutes -----------------------------
(***************************************************************************)
(* GET /ledger and GET /findings (api/routes.py) as the ledger tab of      *)
(* ui/app.py calls them, one after the other, while the jobs of            *)
(* LedgerBatch write the file they read.  The tab shows the head of the    *)
(* ledger, then the details of the flagged rows; a job may have replaced   *)
(* the ledger in between.  Without a ledger, or with one being written,    *)
(* /ledger answers 503 or 500, which changes nothing.                      *)
(***************************************************************************)
EXTENDS LedgerBatch

CONSTANT limit      \* rows the tab asks for

ASSUME LimitAssumption == limit \in Nat

VARIABLE
    shown       \* the flagged files in the table of the tab, None without one

Readable == ledger \notin {None, Torn}

WithFindings(rs) == {rs[i].file : i \in {k \in DOMAIN rs : rs[k].findings # {}}}

GetLedger ==
    /\ shown = None /\ Readable
    /\ shown' = WithFindings(SubSeq(ledger, 1, IF limit < Len(ledger) THEN limit ELSE Len(ledger)))
    /\ UNCHANGED vars

(* The details that /findings gives, none when it fails, end the page. *)
GetFindings ==
    /\ shown # None
    /\ shown' = None
    /\ UNCHANGED vars

ServedNext ==
    \/ Next /\ UNCHANGED shown
    \/ GetLedger \/ GetFindings

ServedInit == Init /\ shown = None

ServedSpec == ServedInit /\ [][ServedNext]_<<vars, shown>>

(* Every file the tab counts as flagged has its findings in the reply to    *)
(* /findings, whichever ledgers were written between the two requests: a    *)
(* later ledger reads the same files first and flags them alike.            *)
TableIsDetailed == shown # None /\ Readable => shown \subseteq WithFindings(ledger)
==============================================================================
