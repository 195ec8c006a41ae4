----------------------------- MODULE LedgerBatch -----------------------------
(***************************************************************************)
(* The batch side of the system, three programs run by hand that share     *)
(* only files:                                                             *)
(*                                                                         *)
(*   corpus/generate.py     writes invoice PDFs and their ground truth,    *)
(*   extraction/pipeline.py reads the PDFs, validates, writes the ledger,  *)
(*   extraction/evaluate.py reads both and scores the findings.            *)
(*                                                                         *)
(* Either job may run before, during and after the generation, any number  *)
(* of times, one job at a time; it and the generator may be killed between *)
(* any two steps.  The ledger is written in place: the file is unreadable  *)
(* from its opening to its closing.                                        *)
(***************************************************************************)
EXTENDS ValidationRules, FieldExtraction, FiniteSets

CONSTANTS
    n_invoices,
    Subtotals,      \* sums of item rows, in cents
    Rates,          \* the vendors' tax rates, as fractions <<num, den>>
    Terms,          \* payment terms, in days
    TotalShifts,    \* what bad_total adds, in cents
    SubtotalShifts, \* what bad_subtotal adds, in cents
    CrazyRates,     \* the rates of crazy_tax, as fractions
    Torn            \* the content of a ledger being written

Fractions == Nat \X (Nat \ {0})

(* Subtotals from 8.00 on, rates up to 20 percent and from 45 to 80.        *)
ASSUME CorpusAssumption ==
    /\ n_invoices \in Nat
    /\ Subtotals \subseteq {s \in Nat : s >= 800}
    /\ Rates \subseteq {r \in Fractions : 5 * r[1] <= r[2]}
    /\ Terms \subseteq 0..60
    /\ TotalShifts \subseteq {d \in Int : d <= -500 \/ d >= 500}
    /\ SubtotalShifts \subseteq {d \in Nat : d >= 300}
    /\ CrazyRates \subseteq {r \in Fractions : 9 * r[2] <= 20 * r[1] /\ 5 * r[1] <= 4 * r[2]}

(* The thresholds of configs/config.yaml, with some room around them. *)
ASSUME ConfigAssumption ==
    /\ amount_tolerance \in 0..299
    /\ max_tax_rate \in 21..44
    /\ due_days_max \in 60..399

VARIABLES
    printed,    \* the invoice each PDF prints, in file order
    truths,     \* the ground truth of each PDF
    job,        \* what runs: "idle", "pipeline", "evaluate" or "saving"
    listed,     \* the files the job found when it started
    seen,       \* number -> file it was first read in, in the running job
    rows,       \* what the job found so far, file by file
    tally,      \* the counters of evaluate
    ledger      \* None, Torn, or the rows of one pipeline job

corpusVars == <<printed, truths>>
jobVars == <<job, listed, seen, rows, tally>>
vars == <<corpusVars, jobVars, ledger>>

Files == 1..n_invoices
NothingSeen == [n \in Files |-> None]

(* A missing value is neither a name nor a dictionary. *)
ASSUME AbsentAssumption ==
    None # "vendor" /\ None \notin [Files -> Files \cup {None}]

FIELDS == {"invoice_no", "vendor", "invoice_date", "due_date", "subtotal", "tax", "total"}
NoTally == [error_total |-> 0, error_caught |-> 0, clean_total |-> 0, clean_flagged |-> 0,
            hits |-> [field \in FIELDS |-> 0]]

Init ==
    /\ printed = <<>>
    /\ truths = <<>>
    /\ job = "idle"
    /\ listed = 0
    /\ seen = NothingSeen
    /\ rows = <<>>
    /\ tally = NoTally
    /\ ledger = None

-----------------------------------------------------------------------------
(* Generation.                                                              *)

(* round(x, 2) of n/d cents: a nearest cent, and either one when two are,    *)
(* for the product of floats may lie on either side of the half.            *)
Rounded(n, d) ==
    {c \in {n \div d, n \div d + 1} : 2 * Distance(c * d, n) <= d}

Clean(i, lines, tax, term) == [
    invoice_no |-> i, lines |-> lines, subtotal |-> lines, tax |-> tax,
    total |-> lines + tax, term |-> term, errors |-> {}]

(* _make_invoice(i): the number is made of the index of the invoice. *)
_make_invoice(i) ==
    UNION {{Clean(i, lines, tax, term) : tax \in Rounded(lines * rate[1], rate[2])} :
             lines \in Subtotals, rate \in Rates, term \in Terms}

WithTotal(inv, subtotal, tax, kind) ==
    [inv EXCEPT !.subtotal = subtotal, !.tax = tax, !.total = subtotal + tax,
                !.errors = {kind}]

bad_total(inv) ==
    {[inv EXCEPT !.total = @ + d, !.errors = {"bad_total"}] : d \in TotalShifts}

bad_subtotal(inv) ==
    {WithTotal(inv, inv.subtotal + d, inv.tax, "bad_subtotal") : d \in SubtotalShifts}

crazy_tax(inv) ==
    UNION {{WithTotal(inv, inv.subtotal, tax, "crazy_tax") :
              tax \in Rounded(inv.subtotal * rate[1], rate[2])} : rate \in CrazyRates}

(* The number of an earlier invoice; the error is recorded even when there  *)
(* is none to take.                                                         *)
duplicate_no(inv) ==
    IF printed = <<>>
    THEN {[inv EXCEPT !.errors = {"duplicate_no"}]}
    ELSE {[inv EXCEPT !.invoice_no = printed[k].invoice_no,
                      !.errors = {"duplicate_no"}] : k \in DOMAIN printed}

overdue_terms(inv) == {[inv EXCEPT !.term = 400, !.errors = {"overdue_terms"}]}

_inject_error(inv) ==
    bad_total(inv) \cup bad_subtotal(inv) \cup crazy_tax(inv)
        \cup duplicate_no(inv) \cup overdue_terms(inv)

Printable(i) ==
    LET made == _make_invoice(i) IN made \cup UNION {_inject_error(inv) : inv \in made}

(* render_pdf, of an invoice made and possibly spoilt *)
RenderPdf_all_first ==
    /\ Len(printed) < n_invoices
    /\ \E inv \in Printable(Len(printed) + 1) : printed' = Append(printed, inv)
    /\ UNCHANGED <<truths, jobVars, ledger>>

RenderPdf ==
    /\ Len(printed) < n_invoices
    /\ Len(truths) = Len(printed)
    /\ \E inv \in Printable(Len(printed) + 1) : printed' = Append(printed, inv)
    /\ UNCHANGED <<truths, jobVars, ledger>>

WriteTruth ==
    /\ Len(truths) < Len(printed)
    /\ truths' = Append(truths, printed[Len(printed)])
    /\ UNCHANGED <<printed, jobVars, ledger>>

-----------------------------------------------------------------------------
(* What the two jobs do with one file.                                      *)

(* The page render_pdf draws.  Its amounts are never exactly at a limit.     *)
Page(inv) == [
    ties         |-> {},
    n_lines      |-> 1,
    invoice_no   |-> inv.invoice_no,
    vendor       |-> "vendor",
    invoice_date |-> 0,
    due_date     |-> inv.term,
    rows         |-> {inv.lines},
    lines_sum    |-> inv.lines,
    amounts      |-> << [label |-> "Subtotal",  value |-> inv.subtotal],
                        [label |-> "Tax",       value |-> inv.tax],
                        [label |-> "Total Due", value |-> inv.total] >>]

extract_pdf(f) == extract_fields(Page(printed[f]))

Row(f, fields, findings) == [
    file |-> f, invoice_no |-> fields.invoice_no.value, findings |-> findings,
    max_severity |-> max_severity(findings), review |-> review_fields(fields)]

Start(kind, files) ==
    /\ job = "idle"
    /\ files > 0
    /\ job' = kind
    /\ listed' = files
    /\ UNCHANGED <<corpusVars, seen, rows, tally, ledger>>

StartPipeline == Start("pipeline", Len(printed))
StartEvaluation == Start("evaluate", Len(truths))

(* Amounts are compared to within a cent, the others as strings. *)
_match(field, f, fields) ==
    LET truth == Page(truths[f])
    IN  fields[field].value =
            IF field \in {"subtotal", "tax", "total"} THEN truths[f][field] ELSE truth[field]

(* The counters of evaluate.main after one more file. *)
Scored(f, fields, findings) ==
    LET wrong == truths[f].errors # {}
        flagged == findings \cap Errors # {}
        One(p) == IF p THEN 1 ELSE 0
    IN  [hits          |-> [x \in FIELDS |-> tally.hits[x] + One(_match(x, f, fields))],
         error_total   |-> tally.error_total + One(wrong),
         error_caught  |-> tally.error_caught + One(wrong /\ flagged),
         clean_total   |-> tally.clean_total + One(~wrong),
         clean_flagged |-> tally.clean_flagged + One(~wrong /\ flagged)]

ValidateNext ==
    LET f == Len(rows) + 1
        fields == extract_pdf(f)
        inv == Extracted(f, {}, fields)
        findings == validate_invoice(inv, seen)
    IN  /\ job \in {"pipeline", "evaluate"}
        /\ f <= listed
        /\ rows' = Append(rows, Row(f, fields, findings))
        /\ seen' = Remember(inv, seen)
        /\ tally' = IF job = "evaluate" THEN Scored(f, fields, findings) ELSE tally
        /\ UNCHANGED <<corpusVars, job, listed, ledger>>

(* The process ends, and its variables with it. *)
Exit ==
    /\ job' = "idle"
    /\ listed' = 0
    /\ seen' = NothingSeen
    /\ rows' = <<>>
    /\ tally' = NoTally

FinishEvaluation ==
    /\ job = "evaluate"
    /\ Len(rows) = listed
    /\ Exit
    /\ UNCHANGED <<corpusVars, ledger>>

(* df.to_parquet: truncate, then write. *)
OpenLedger_early ==
    /\ job = "pipeline"
    /\ job' = "saving"
    /\ ledger' = Torn
    /\ UNCHANGED <<corpusVars, listed, seen, rows, tally>>

OpenLedger ==
    /\ job = "pipeline"
    /\ Len(rows) = listed
    /\ job' = "saving"
    /\ ledger' = Torn
    /\ UNCHANGED <<corpusVars, listed, seen, rows, tally>>

CloseLedger ==
    /\ job = "saving"
    /\ Exit
    /\ ledger' = rows
    /\ UNCHANGED corpusVars

Killed ==
    /\ job # "idle"
    /\ Exit
    /\ UNCHANGED <<corpusVars, ledger>>

Next ==
    \/ RenderPdf \/ WriteTruth
    \/ StartPipeline \/ StartEvaluation \/ ValidateNext
    \/ FinishEvaluation \/ OpenLedger \/ CloseLedger \/ Killed

Spec == Init /\ [][Next]_vars

-----------------------------------------------------------------------------
(***************************************************************************)
(* Properties.                                                             *)
(***************************************************************************)

Flagged(row) == row.findings \cap Errors # {}
IsDuplicate(row) == "duplicate_invoice_no" \in row.findings

(* An injected error that changes nothing the rules can see: a duplicate    *)
(* with no earlier number to repeat, or a negative total, read off the      *)
(* subtotal instead, on an invoice without tax.                             *)
Invisible(f) ==
    \/ printed[f].errors = {"duplicate_no"} /\ printed[f].invoice_no = f
    \/ printed[f].total < 0 /\ printed[f].tax <= amount_tolerance

(* Every variable has its type, a job has read no more files than it found, *)
(* and the ground truth is never ahead of the PDFs nor two files behind.    *)
TypeOK ==
    /\ Len(printed) \in 0..n_invoices
    /\ \A f \in DOMAIN printed : printed[f].invoice_no \in 1..f
    /\ Len(printed) - Len(truths) \in {0, 1}
    /\ truths = SubSeq(printed, 1, Len(truths))
    /\ job \in {"idle", "pipeline", "evaluate", "saving"}
    /\ listed \in 0..Len(printed)
    /\ seen \in [Files -> Files \cup {None}]
    /\ Len(rows) \in 0..listed
    /\ \A f \in DOMAIN rows :
          rows[f].file = f /\ rows[f].findings \subseteq RULE_IDS
    /\ ledger \in {None, Torn} \/ Len(ledger) \in 1..Len(printed)

(* A number is a duplicate in every file but the first one it occurs in, in *)
(* file order, whatever was killed or run before: seen starts empty in each *)
(* job and keeps the first file.                                            *)
DuplicatesAreLater ==
    \A f \in DOMAIN rows :
        IsDuplicate(rows[f])
            <=> \E g \in 1..(f - 1) : rows[g].invoice_no = rows[f].invoice_no

(* A ledger that can be read pays every number once: exactly one row of     *)
(* each number is not flagged as a duplicate, and no file is left out.      *)
LedgerPaysOnce ==
    ledger \notin {None, Torn} =>
        \A f \in DOMAIN ledger :
            /\ ledger[f].file = f
            /\ Cardinality({g \in DOMAIN ledger :
                    /\ ledger[g].invoice_no = ledger[f].invoice_no
                    /\ ~IsDuplicate(ledger[g])}) = 1

(* No invoice without an injected error gets an error finding, from its     *)
(* rounding, its terms, or a later duplicate of its number.                 *)
NoFalseAlarm ==
    \A f \in DOMAIN rows : printed[f].errors = {} => ~Flagged(rows[f])

(* Every injected error is flagged, in the pipeline as in the evaluation,   *)
(* except those that are invisible on the page.                             *)
OnlyInvisibleEscapes ==
    \A f \in DOMAIN rows :
        printed[f].errors # {} => (Flagged(rows[f]) <=> ~Invisible(f))

(* What evaluate reports as missed is the number of the invisible errors    *)
(* among the files it scored, and it reports no false alarm.                *)
RecallMissesInvisible ==
    job = "evaluate" =>
        /\ tally.clean_flagged = 0
        /\ tally.error_total - tally.error_caught =
             Cardinality({f \in DOMAIN rows : printed[f].errors # {} /\ Invisible(f)})

(* Every field of every invoice is read as it was generated, except a total *)
(* below zero: the evaluation reports no other loss of accuracy, whatever   *)
(* errors were injected.                                                    *)
OnlyNegativeTotalsAreMissed ==
    job = "evaluate" =>
        \A field \in FIELDS :
            Len(rows) - tally.hits[field] =
                IF field # "total" THEN 0
                ELSE Cardinality({f \in DOMAIN rows : printed[f].total < 0})

(* A ledger is replaced by the rows of a job that read every file it found, *)
(* or torn by the opening of one: a killed job, a generation and an         *)
(* evaluation leave the file as it was.                                     *)
LedgerOnlyFromFullRun ==
    [][ledger' # ledger =>
         /\ job \in {"pipeline", "saving"} /\ Len(rows) = listed
         /\ ledger' \in {Torn, rows}]_vars

(***************************************************************************)
(* What the documentation says, and the programs do not do.                *)
(***************************************************************************)

(* README: fields carry a confidence so that low-confidence reads route to  *)
(* human review.  A total that is not readable at its label is one.         *)
UnreadTotalGoesToReview ==
    \A f \in DOMAIN rows : printed[f].total < 0 => "total" \in rows[f].review
==============================================================================
