--------------------------- MODULE FieldExtraction ---------------------------
(***************************************************************************)
(* extraction/extract.py: reading the fields of an invoice off its text.   *)
(*                                                                         *)
(* A page is the sequence of its labelled amounts in reading order, the    *)
(* prices in its item rows, their count and their sum (None for no rows),  *)
(* the number, vendor and dates as they read, None where nothing matches,  *)
(* and the ties of ValidationRules.  An anchor is searched without a word  *)
(* boundary and ignoring case, so it also finds a label that merely ends   *)
(* with it: "Total" finds "Subtotal".  The money pattern has no sign, so a *)
(* negative amount is not read after its label.                            *)
(***************************************************************************)
EXTENDS Python, Sequences

CONSTANT min_confidence_flag   \* percent; fields below it go to a person

(* <<anchor, label>>: the pairs of those in use where the label ends with   *)
(* the anchor.                                                              *)
Found == {
    <<"Subtotal", "Subtotal">>, <<"Tax", "Tax">>, <<"Total Due", "Total Due">>,
    <<"Total", "Total">>, <<"Total", "Subtotal">>}

SubtotalAnchors == <<"Subtotal", "Sub-total", "Net">>
TaxAnchors == <<"Tax", "VAT", "GST", "Sales Tax">>
TotalAnchors_shortest_first == <<"Total", "Total Due", "Total Amount", "Amount Due">>
TotalAnchors == <<"Total Due", "Total Amount", "Amount Due", "Total">>

Least(S) == CHOOSE x \in S : \A y \in S : x <= y
Greatest(S) == CHOOSE x \in S : \A y \in S : x >= y

(* re.search(anchor, then an amount): where it matches on the page *)
Matches(page, anchor) ==
    {i \in DOMAIN page.amounts :
        <<anchor, page.amounts[i].label>> \in Found /\ page.amounts[i].value >= 0}

(* The first anchor that matches, at its leftmost match. *)
_anchored(page, anchors) ==
    LET matching == {k \in DOMAIN anchors : Matches(page, anchors[k]) # {}}
    IN  IF matching = {} THEN None
        ELSE page.amounts[Least(Matches(page, anchors[Least(matching)]))].value

(* re.findall(MONEY, text): every amount of the page, without its sign. *)
Magnitude(v) == IF v >= 0 THEN v ELSE -v
Candidates(page) ==
    {Magnitude(page.amounts[i].value) : i \in DOMAIN page.amounts}
        \cup page.rows

(* Confidences are percentages. *)
Read(value, confidence) == [value |-> value, confidence |-> confidence]

ReadAmount(page, anchors) ==
    LET value == _anchored(page, anchors)
    IN  Read(value, IF value = None THEN 0 ELSE 90)

(* The total falls back to the largest amount on the page. *)
ReadTotal(page) ==
    IF _anchored(page, TotalAnchors) = None /\ Candidates(page) # {}
    THEN Read(Greatest(Candidates(page)), 45)
    ELSE ReadAmount(page, TotalAnchors)

IfPresent(value, confidence) == Read(value, IF value = None THEN 0 ELSE confidence)

extract_fields(page) == [
    invoice_no   |-> IfPresent(page.invoice_no, 95),
    invoice_date |-> IfPresent(page.invoice_date, 90),
    due_date     |-> IfPresent(page.due_date, 90),
    subtotal     |-> ReadAmount(page, SubtotalAnchors),
    tax          |-> ReadAmount(page, TaxAnchors),
    total        |-> ReadTotal(page),
    vendor       |-> IfPresent(page.vendor, 70),
    n_lines      |-> Read(page.n_lines, IF page.n_lines = 0 THEN 30 ELSE 80),
    lines_sum    |-> IfPresent(page.lines_sum, 80)]

(* What the rules read, through inv.get(). *)
Extracted(f, ties, fields) == [
    file |-> f, ties |-> ties,
    invoice_no |-> fields.invoice_no.value, vendor |-> fields.vendor.value,
    invoice_date |-> fields.invoice_date.value, due_date |-> fields.due_date.value,
    subtotal |-> fields.subtotal.value, tax |-> fields.tax.value,
    total |-> fields.total.value, lines_sum |-> fields.lines_sum.value]

(* The fields a person still has to look at. *)
review_fields(fields) ==
    {name \in DOMAIN fields : fields[name].confidence < min_confidence_flag}
==============================================================================
