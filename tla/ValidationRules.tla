--------------------------- MODULE ValidationRules ---------------------------
(***************************************************************************)
(* validation/rules.py: the checks an extracted invoice goes through.      *)
(*                                                                         *)
(* Amounts are whole cents and dates are days, None when missing or not    *)
(* parseable.  A finding is its rule: no rule fires twice on an invoice.   *)
(* The code computes in binary floating point, which can push a difference *)
(* that is exactly at a limit over it (1.02 - 1.0 > 0.02, but not          *)
(* 100.02 - 100.0): inv.ties holds the rules whose comparison it pushes.   *)
(***************************************************************************)
EXTENDS Python

CONSTANTS
    amount_tolerance,   \* cents
    max_tax_rate,       \* percent of the subtotal
    due_days_approval,  \* longer terms need approval
    due_days_max        \* longer terms are never acceptable

ASSUME RulesAssumption ==
    /\ {amount_tolerance, max_tax_rate, due_days_approval, due_days_max} \subseteq Nat
    /\ due_days_approval <= due_days_max

RULE_IDS == {
    "missing_fields", "lines_vs_subtotal", "subtotal_plus_tax",
    "tax_rate_implausible", "dates_unparseable", "due_before_issue",
    "terms_unacceptable", "terms_unusual", "duplicate_invoice_no"}

Warnings == {"dates_unparseable", "terms_unusual"}
Errors == RULE_IDS \ Warnings

Distance(a, b) == IF a >= b THEN a - b ELSE b - a

Exceeds(inv, rule, amount, limit) ==
    amount > limit \/ (amount = limit /\ rule \in inv.ties)

LinesDiffer(inv) ==
    /\ None \notin {inv.subtotal, inv.lines_sum}
    /\ Exceeds(inv, "lines_vs_subtotal",
               Distance(inv.subtotal, inv.lines_sum), amount_tolerance)

TotalDiffers(inv) ==
    /\ None \notin {inv.subtotal, inv.tax, inv.total}
    /\ Exceeds(inv, "subtotal_plus_tax",
               Distance(inv.subtotal + inv.tax, inv.total), amount_tolerance)

check_arithmetic(inv) ==
    {r \in {"lines_vs_subtotal"} : LinesDiffer(inv)}
        \cup {r \in {"subtotal_plus_tax"} : TotalDiffers(inv)}

check_tax_plausibility(inv) ==
    {r \in {"tax_rate_implausible"} :
        /\ None \notin {inv.subtotal, inv.tax}
        /\ inv.subtotal > 0
        /\ Exceeds(inv, r, 100 * inv.tax, max_tax_rate * inv.subtotal)}

Term(inv) == inv.due_date - inv.invoice_date

check_dates_only_warns(inv) ==
    IF None \in {inv.invoice_date, inv.due_date} THEN {"dates_unparseable"}
    ELSE IF Term(inv) < 0 THEN {"due_before_issue"}
    ELSE {r \in {"terms_unusual"} : Term(inv) > due_days_max}

check_dates(inv) ==
    IF None \in {inv.invoice_date, inv.due_date} THEN {"dates_unparseable"}
    ELSE IF Term(inv) < 0 THEN {"due_before_issue"}
    ELSE IF Term(inv) > due_days_max THEN {"terms_unacceptable"}
    ELSE {r \in {"terms_unusual"} : Term(inv) > due_days_approval}

check_required_fields(inv) ==
    {r \in {"missing_fields"} : None \in {inv.invoice_no, inv.vendor, inv.total}}

FieldFindings(inv) ==
    check_required_fields(inv) \cup check_arithmetic(inv)
        \cup check_tax_plausibility(inv) \cup check_dates(inv)

(***************************************************************************)
(* seen maps each number to the file it was first read in, or None.        *)
(***************************************************************************)
check_duplicates_same_file(inv, seen) ==
    {r \in {"duplicate_invoice_no"} :
        /\ inv.invoice_no # None
        /\ seen[inv.invoice_no] = inv.file}

check_duplicates(inv, seen) ==
    {r \in {"duplicate_invoice_no"} :
        /\ inv.invoice_no # None
        /\ seen[inv.invoice_no] \notin {None, inv.file}}

(* seen_numbers.setdefault(number, inv.file) *)
Remember_nothing(inv, seen) == seen

Remember(inv, seen) ==
    IF inv.invoice_no = None \/ seen[inv.invoice_no] # None
    THEN seen
    ELSE [seen EXCEPT ![inv.invoice_no] = inv.file]

(* Without seen numbers, duplicates are not looked for. *)
validate_invoice(inv, seen) ==
    FieldFindings(inv) \cup IF seen = None THEN {} ELSE check_duplicates(inv, seen)

(***************************************************************************)
(* max(f.severity for f in findings, default=""): the largest STRING, and  *)
(* "warning" > "error".                                                    *)
(***************************************************************************)
max_severity(findings) ==
    IF findings \cap Warnings # {} THEN "warning"
    ELSE IF findings # {} THEN "error" ELSE ""
==============================================================================
