--------------------------- MODULE LedgerBatchProofs ---------------------------
(***************************************************************************)
(* Proofs about LedgerBatch, and LedgerRoutes beside it, for any number of *)
(* invoices, any amounts, rates and terms that the generator may draw and  *)
(* any limits that keep the injected errors apart from them.               *)
(*                                                                         *)
(* CorpusInv says what the printed invoices are like, SeenInv what a batch *)
(* remembers after the files it has read, JobInv that its rows are those   *)
(* of the files, LedgerInv that the ledger file is such a table or torn.   *)
(* A row is a function of the files up to its own (RowOf), which is what   *)
(* makes ledgers of different runs comparable.                             *)
(***************************************************************************)
EXTENDS LedgerRoutes, SequenceTheorems, FiniteSetTheorems, TLAPS

Kinds == {"bad_total", "bad_subtotal", "crazy_tax", "duplicate_no", "overdue_terms"}

Invoices == [invoice_no : Files, lines : Int, subtotal : Int, tax : Int,
             total : Int, term : Int, errors : SUBSET Kinds]

(* What an invoice in the i-th file is like, by its injected error *)
Generated(inv, i) ==
    /\ inv \in Invoices
    /\ \A k, l \in inv.errors : k = l
    /\ inv.lines >= 800
    /\ inv.tax >= 0
    /\ IF "bad_subtotal" \in inv.errors
       THEN inv.subtotal >= inv.lines + 300 ELSE inv.subtotal = inv.lines
    /\ IF "bad_total" \in inv.errors
       THEN Distance(inv.subtotal + inv.tax, inv.total) >= 500
       ELSE inv.total = inv.subtotal + inv.tax
    /\ IF "crazy_tax" \in inv.errors
       THEN 100 * inv.tax >= 45 * inv.lines - 50
       ELSE 100 * inv.tax <= 20 * inv.lines + 50
    /\ IF "overdue_terms" \in inv.errors THEN inv.term = 400 ELSE inv.term \in 0..60
    /\ "duplicate_no" \notin inv.errors => inv.invoice_no = i

-----------------------------------------------------------------------------
(* A tax rounded to cents is within half a cent of its rate: up to 20       *)
(* percent of the lines it stays below that share of them, and from 45       *)
(* percent on above that one.                                               *)
LEMMA TaxIsRounded ==
    ASSUME NEW lines \in Int, lines >= 800, NEW num \in Nat, NEW den \in Nat \ {0},
           NEW tax \in Rounded(lines * num, den)
    PROVE  /\ tax \in Int /\ tax >= 0
           /\ 5 * num <= den => 100 * tax <= 20 * lines + 50
           /\ 9 * den <= 20 * num => 100 * tax >= 45 * lines - 50
<1> DEFINE n == lines * num
           q == n \div den
<1>1. n \in Int /\ n >= 0
    BY SMT
<1>2. q \in Int /\ q >= 0
    BY <1>1, SMT
<1>3. tax \in {q, q + 1} /\ 2 * Distance(tax * den, n) <= den
    BY DEF Rounded
<1>4. tax \in Int /\ tax >= 0
    BY <1>2, <1>3, SMT
<1>5. /\ tax * den \in Int
      /\ 2 * (tax * den) - 2 * n <= den /\ 2 * n - 2 * (tax * den) <= den
    <2> HIDE DEF n, q
    <2>1. \A a, b \in Int : a * b \in Int
        OBVIOUS
    <2>2. tax * den \in Int
        BY <1>4, <2>1
    <2> QED  BY <1>1, <1>3, <2>2, SMT DEF Distance
<1>6. \A a, b, c \in Int : c >= 0 /\ a <= b => c * a <= c * b
    BY SMT
<1>7. ASSUME 5 * num <= den  PROVE  100 * tax <= 20 * lines + 50
    <2>1. lines * (5 * num) <= lines * den
        BY <1>6, <1>7, SMT
    <2>2. lines * (5 * num) = 5 * n
        BY SMT
    <2>3. lines * den \in Int
        OBVIOUS
    <2> DEFINE k == 10 * tax - 2 * lines - 5
    <2>4. k \in Int
        BY <1>4
    <2>5. k * den = 10 * (tax * den) - 2 * (lines * den) - 5 * den
        BY <1>4, SMT
    <2>6. k * den <= 0
        <3> HIDE DEF k, n
        <3> QED  BY <1>1, <1>5, <2>1, <2>2, <2>3, <2>5, SMT
    <2>7. k <= 0
        <3> HIDE DEF k
        <3>1. k >= 1 => k * den >= 1
            BY <2>4, SMT
        <3> QED  BY <2>4, <2>6, <3>1, SMT
    <2> HIDE DEF n, q
    <2> QED  BY <1>4, <2>7, SMT
<1>8. ASSUME 9 * den <= 20 * num  PROVE  100 * tax >= 45 * lines - 50
    <2>1. lines * (9 * den) <= lines * (20 * num)
        BY <1>6, <1>8, SMT
    <2>2. lines * (20 * num) = 20 * n /\ lines * (9 * den) = 9 * (lines * den)
        BY SMT
    <2>3. lines * den \in Int
        OBVIOUS
    <2> DEFINE k == 20 * tax - 9 * lines + 10
    <2>4. k \in Int
        BY <1>4
    <2>5. k * den = 20 * (tax * den) - 9 * (lines * den) + 10 * den
        BY <1>4, SMT
    <2>6. k * den >= 0
        <3> HIDE DEF k, n
        <3> QED  BY <1>1, <1>5, <2>1, <2>2, <2>3, <2>5, SMT
    <2>7. k >= 0
        <3> HIDE DEF k
        <3>1. k <= -1 => k * den <= -1
            BY <2>4, SMT
        <3> QED  BY <2>4, <2>6, <3>1, SMT
    <2> HIDE DEF n, q
    <2> QED  BY <1>4, <2>7, SMT
<1> QED  BY <1>4, <1>7, <1>8

(* What the generator makes and spoils is as Generated says. *)
LEMMA CleanIsGenerated ==
    ASSUME NEW i \in Files, NEW inv \in _make_invoice(i)
    PROVE  Generated(inv, i) /\ inv.errors = {}
<1>1. PICK lines \in Subtotals, rate \in Rates, term \in Terms :
        \E tax \in Rounded(lines * rate[1], rate[2]) : inv = Clean(i, lines, tax, term)
    BY DEF _make_invoice
<1>2. PICK tax \in Rounded(lines * rate[1], rate[2]) : inv = Clean(i, lines, tax, term)
    BY <1>1
<1>3. /\ lines \in Int /\ lines >= 800 /\ term \in 0..60
      /\ rate[1] \in Nat /\ rate[2] \in Nat \ {0} /\ 5 * rate[1] <= rate[2]
    BY CorpusAssumption DEF Fractions
<1>4. tax \in Int /\ tax >= 0 /\ 100 * tax <= 20 * lines + 50
    BY <1>3, TaxIsRounded
<1> QED  BY <1>2, <1>3, <1>4, SMT DEF Clean, Generated, Invoices, Files, Kinds

(* An error is injected into an invoice that is otherwise clean. *)
LEMMA SpoiltIsGenerated ==
    ASSUME NEW i \in Files, NEW clean \in _make_invoice(i), NEW inv \in _inject_error(clean),
           printed \in Seq(Invoices)
    PROVE  /\ Generated(inv, i)
           /\ "duplicate_no" \in inv.errors => \/ inv.invoice_no = i
                                               \/ \E k \in DOMAIN printed :
                                                     inv.invoice_no = printed[k].invoice_no
<1> DEFINE Goal == /\ Generated(inv, i)
                   /\ "duplicate_no" \in inv.errors =>
                        \/ inv.invoice_no = i
                        \/ \E k \in DOMAIN printed : inv.invoice_no = printed[k].invoice_no
           Changed(number, subtotal, tax, total, term, kind) ==
                inv = [k \in DOMAIN clean |->
                    IF k = "invoice_no" THEN number
                    ELSE IF k = "subtotal" THEN subtotal ELSE IF k = "tax" THEN tax
                    ELSE IF k = "total" THEN total ELSE IF k = "term" THEN term
                    ELSE IF k = "errors" THEN {kind} ELSE clean[k]]
           Fields(number, subtotal, tax, total, term, kind) ==
                /\ inv \in Invoices
                /\ inv.lines = clean.lines /\ inv.invoice_no = number /\ inv.subtotal = subtotal
                /\ inv.tax = tax /\ inv.total = total /\ inv.term = term /\ inv.errors = {kind}
<1>1. /\ clean \in Invoices
      /\ clean.invoice_no = i /\ clean.lines >= 800 /\ clean.subtotal = clean.lines
      /\ clean.tax >= 0 /\ 100 * clean.tax <= 20 * clean.lines + 50
      /\ clean.total = clean.subtotal + clean.tax /\ clean.term \in 0..60
    <2>1. Generated(clean, i) /\ clean.errors = {}
        BY CleanIsGenerated
    <2> QED  BY <2>1, SMT DEF Generated
<1>2. /\ clean.invoice_no \in Files
      /\ clean.lines \in Int /\ clean.subtotal \in Int /\ clean.tax \in Int
      /\ clean.total \in Int /\ clean.term \in Int
    BY <1>1 DEF Invoices
<1>3. ASSUME NEW d \in TotalShifts,
             inv = [clean EXCEPT !.total = clean.total + d, !.errors = {"bad_total"}]
      PROVE  Goal
    <2>1. d \in Int /\ (d <= -500 \/ d >= 500)
        BY CorpusAssumption
    <2>2. Changed(clean.invoice_no, clean.subtotal, clean.tax, clean.total + d, clean.term,
                  "bad_total")
        BY <1>1, <1>3 DEF Invoices
    <2>3. clean.total + d \in Int /\ "bad_total" \in Kinds
        BY <1>2, <2>1 DEF Kinds
    <2>5. Fields(clean.invoice_no, clean.subtotal, clean.tax, clean.total + d, clean.term,
                "bad_total")
        BY <1>1, <1>2, <2>1, <2>2, <2>3 DEF Invoices
    <2> QED  BY <1>1, <1>2, <2>1, <2>3, <2>5, SMT DEF Generated, Distance
<1>4. ASSUME NEW d \in SubtotalShifts,
             inv = WithTotal(clean, clean.subtotal + d, clean.tax, "bad_subtotal")
      PROVE  Goal
    <2>1. d \in Int /\ d >= 300
        BY CorpusAssumption
    <2>2. Changed(clean.invoice_no, clean.subtotal + d, clean.tax, clean.subtotal + d + clean.tax,
                  clean.term, "bad_subtotal")
        BY <1>1, <1>4 DEF Invoices, WithTotal
    <2>3. clean.subtotal + d \in Int /\ clean.subtotal + d + clean.tax \in Int /\ "bad_subtotal" \in Kinds
        BY <1>2, <2>1 DEF Kinds
    <2>5. Fields(clean.invoice_no, clean.subtotal + d, clean.tax, clean.subtotal + d + clean.tax, clean.term,
                "bad_subtotal")
        BY <1>1, <1>2, <2>1, <2>2, <2>3 DEF Invoices
    <2> QED  BY <1>1, <1>2, <2>1, <2>3, <2>5, SMT DEF Generated
<1>5. ASSUME NEW rate \in CrazyRates, NEW tax \in Rounded(clean.subtotal * rate[1], rate[2]),
             inv = WithTotal(clean, clean.subtotal, tax, "crazy_tax")
      PROVE  Goal
    <2>1. rate[1] \in Nat /\ rate[2] \in Nat \ {0} /\ 9 * rate[2] <= 20 * rate[1]
        BY CorpusAssumption DEF Fractions
    <2>2. tax \in Int /\ tax >= 0 /\ 100 * tax >= 45 * clean.subtotal - 50
        BY <1>1, <1>2, <2>1, TaxIsRounded
    <2>3. Changed(clean.invoice_no, clean.subtotal, tax, clean.subtotal + tax, clean.term, "crazy_tax")
        BY <1>1, <1>5 DEF Invoices, WithTotal
    <2>4. clean.subtotal + tax \in Int /\ "crazy_tax" \in Kinds
        BY <1>2, <2>2 DEF Kinds
    <2>5. Fields(clean.invoice_no, clean.subtotal, tax, clean.subtotal + tax, clean.term,
                "crazy_tax")
        BY <1>1, <1>2, <2>2, <2>3, <2>4 DEF Invoices
    <2> QED  BY <1>1, <1>2, <2>2, <2>4, <2>5, SMT DEF Generated
<1>6. ASSUME NEW number \in Files,
             inv = [clean EXCEPT !.invoice_no = number, !.errors = {"duplicate_no"}],
             number = i \/ \E k \in DOMAIN printed : number = printed[k].invoice_no
      PROVE  Goal
    <2>1. Changed(number, clean.subtotal, clean.tax, clean.total, clean.term, "duplicate_no")
        BY <1>1, <1>6 DEF Invoices
    <2>2. "duplicate_no" \in Kinds
        BY DEF Kinds
    <2>5. Fields(number, clean.subtotal, clean.tax, clean.total, clean.term,
                "duplicate_no")
        BY <1>1, <1>2, <1>6, <2>1, <2>2 DEF Invoices
    <2> QED  BY <1>1, <1>2, <1>6, <2>2, <2>5, SMT DEF Generated
<1>7. CASE inv \in overdue_terms(clean)
    <2>1. Changed(clean.invoice_no, clean.subtotal, clean.tax, clean.total, 400, "overdue_terms")
        BY <1>1, <1>7 DEF Invoices, overdue_terms
    <2>2. "overdue_terms" \in Kinds
        BY DEF Kinds
    <2>5. Fields(clean.invoice_no, clean.subtotal, clean.tax, clean.total, 400,
                "overdue_terms")
        BY <1>1, <1>2, <2>1, <2>2 DEF Invoices
    <2> QED  BY <1>1, <1>2, <2>2, <2>5, SMT DEF Generated
<1>8. CASE inv \in duplicate_no(clean)
    <2>1. CASE inv = [clean EXCEPT !.errors = {"duplicate_no"}]
        <3>1. inv = [clean EXCEPT !.invoice_no = i, !.errors = {"duplicate_no"}]
            BY <1>1, <2>1 DEF Invoices
        <3> QED  BY <1>6, <3>1
    <2>2. CASE \E k \in DOMAIN printed :
                  inv = [clean EXCEPT !.invoice_no = printed[k].invoice_no,
                                      !.errors = {"duplicate_no"}]
        <3>1. PICK k \in DOMAIN printed :
                inv = [clean EXCEPT !.invoice_no = printed[k].invoice_no,
                                    !.errors = {"duplicate_no"}]
            BY <2>2
        <3>2. printed[k] \in Invoices
            OBVIOUS
        <3>3. printed[k].invoice_no \in Files
            BY <3>2 DEF Invoices
        <3> QED  BY <1>6, <3>1, <3>3
    <2> QED  BY <1>8, <2>1, <2>2 DEF duplicate_no
<1> QED
    BY <1>3, <1>4, <1>5, <1>7, <1>8 DEF _inject_error, bad_total, bad_subtotal, crazy_tax

(* An invoice that the generator may print has at most one error, and what  *)
(* that error says.                                                         *)
LEMMA PrintableIsGenerated ==
    ASSUME NEW i \in Files, NEW inv \in Printable(i), printed \in Seq(Invoices)
    PROVE  /\ Generated(inv, i)
           /\ "duplicate_no" \in inv.errors => \/ inv.invoice_no = i
                                               \/ \E k \in DOMAIN printed :
                                                     inv.invoice_no = printed[k].invoice_no
<1>1. inv \in _make_invoice(i) \/ \E clean \in _make_invoice(i) : inv \in _inject_error(clean)
    BY DEF Printable
<1> QED  BY <1>1, CleanIsGenerated, SpoiltIsGenerated

-----------------------------------------------------------------------------
(* The least member of a set of integers is its only one that is below all. *)
LEMMA LeastIs ==
    ASSUME NEW S \in SUBSET Int, NEW m \in S, \A y \in S : m <= y
    PROVE  Least(S) = m
<1>1. \A x \in S : (\A y \in S : x <= y) => x = m
    BY SMT
<1> QED  BY <1>1 DEF Least

(* Where the anchors in use match on a page that render_pdf drew *)
LEMMA AnchorsOfPage ==
    ASSUME NEW inv, inv.subtotal \in Int, inv.subtotal >= 0, inv.tax \in Int, inv.tax >= 0,
           inv.total \in Int
    PROVE  /\ Matches(Page(inv), "Subtotal") = {1}
           /\ Matches(Page(inv), "Tax") = {2}
           /\ Matches(Page(inv), "Total Due") = IF inv.total >= 0 THEN {3} ELSE {}
           /\ Matches(Page(inv), "Total Amount") = {}
           /\ Matches(Page(inv), "Amount Due") = {}
           /\ Matches(Page(inv), "Total") = {1}
<1>0. PICK amounts : amounts = Page(inv).amounts
    OBVIOUS
<1>10. amounts = << [label |-> "Subtotal",  value |-> inv.subtotal],
                   [label |-> "Tax",       value |-> inv.tax],
                   [label |-> "Total Due", value |-> inv.total] >>
    BY <1>0 DEF Page
<1>1. /\ DOMAIN amounts = 1..3
      /\ amounts[1].label = "Subtotal" /\ amounts[1].value = inv.subtotal
      /\ amounts[2].label = "Tax" /\ amounts[2].value = inv.tax
      /\ amounts[3].label = "Total Due" /\ amounts[3].value = inv.total
    <2>1. DOMAIN amounts = 1..3
        <3>1. \A a, b, c : DOMAIN <<a, b, c>> = 1..3
            OBVIOUS
        <3> QED  BY <1>10, <3>1, Zenon
    <2>2. amounts[1].label = "Subtotal" /\ amounts[1].value = inv.subtotal
        BY <1>10
    <2>3. amounts[2].label = "Tax" /\ amounts[2].value = inv.tax
        BY <1>10
    <2>4. amounts[3].label = "Total Due" /\ amounts[3].value = inv.total
        BY <1>10
    <2> QED  BY <2>1, <2>2, <2>3, <2>4
<1>2. ASSUME NEW anchor
      PROVE  Matches(Page(inv), anchor) =
                {i \in 1..3 : <<anchor, amounts[i].label>> \in Found /\ amounts[i].value >= 0}
    BY <1>0, <1>1 DEF Matches
<1>3. ASSUME NEW anchor
      PROVE  \A i \in Matches(Page(inv), anchor) :
                \/ i = 1 /\ <<anchor, "Subtotal">> \in Found
                \/ i = 2 /\ <<anchor, "Tax">> \in Found
                \/ i = 3 /\ <<anchor, "Total Due">> \in Found /\ inv.total >= 0
    <2>1. TAKE i \in Matches(Page(inv), anchor)
    <2>2. i \in 1..3 /\ <<anchor, amounts[i].label>> \in Found /\ amounts[i].value >= 0
        BY <1>2
    <2>3. i = 1 \/ i = 2 \/ i = 3
        BY <2>2
    <2> QED  BY <1>1, <2>2, <2>3
<1>4. ASSUME NEW anchor
      PROVE  /\ <<anchor, "Subtotal">> \in Found => 1 \in Matches(Page(inv), anchor)
             /\ <<anchor, "Tax">> \in Found => 2 \in Matches(Page(inv), anchor)
             /\ <<anchor, "Total Due">> \in Found /\ inv.total >= 0
                  => 3 \in Matches(Page(inv), anchor)
    <2>1. 1 \in 1..3 /\ 2 \in 1..3 /\ 3 \in 1..3
        OBVIOUS
    <2> QED  BY <1>1, <1>2, <2>1
<1>5. /\ <<"Subtotal", "Subtotal">> \in Found
      /\ <<"Subtotal", "Tax">> \notin Found /\ <<"Subtotal", "Total Due">> \notin Found
    BY DEF Found
<1>6. /\ <<"Tax", "Tax">> \in Found
      /\ <<"Tax", "Subtotal">> \notin Found /\ <<"Tax", "Total Due">> \notin Found
    BY DEF Found
<1>7. /\ <<"Total Due", "Total Due">> \in Found
      /\ <<"Total Due", "Subtotal">> \notin Found /\ <<"Total Due", "Tax">> \notin Found
    BY DEF Found
<1>8. /\ <<"Total", "Subtotal">> \in Found
      /\ <<"Total", "Tax">> \notin Found /\ <<"Total", "Total Due">> \notin Found
    BY DEF Found
<1>9. \A label \in {"Subtotal", "Tax", "Total Due"} :
        <<"Total Amount", label>> \notin Found /\ <<"Amount Due", label>> \notin Found
    BY DEF Found
<1> QED  BY <1>3, <1>4, <1>5, <1>6, <1>7, <1>8, <1>9

(* The amounts that extraction reads off such a page: those it prints, but  *)
(* for a total below zero, which comes out as the subtotal.                 *)
TotalRead(inv) == IF inv.total >= 0 THEN inv.total ELSE inv.subtotal

(* The k-th anchor is the first one that matches. *)
IsFirst(page, anchors, k) ==
    /\ DOMAIN anchors \subseteq Int
    /\ k \in DOMAIN anchors /\ Matches(page, anchors[k]) # {}
    /\ \A j \in DOMAIN anchors : Matches(page, anchors[j]) # {} => k <= j

(* The first anchor that matches decides what is read. *)
LEMMA FirstAnchor ==
    ASSUME NEW page, NEW anchors, NEW k, IsFirst(page, anchors, k)
    PROVE  _anchored(page, anchors) = page.amounts[Least(Matches(page, anchors[k]))].value
<1> DEFINE matching == {j \in DOMAIN anchors : Matches(page, anchors[j]) # {}}
<1>1. matching \in SUBSET Int /\ k \in matching /\ \A j \in matching : k <= j
    BY DEF IsFirst
<1> HIDE DEF matching
<1>2. Least(matching) = k
    BY <1>1, LeastIs
<1>3. matching # {}
    BY <1>1
<1> QED  BY <1>2, <1>3, Zenon DEF _anchored, matching

(* The amounts of a page are read as printed, but for a total below zero. *)
LEMMA AmountsRead ==
    ASSUME NEW inv, inv.subtotal \in Int, inv.subtotal >= 0, inv.tax \in Int, inv.tax >= 0,
           inv.total \in Int
    PROVE  /\ _anchored(Page(inv), SubtotalAnchors) = inv.subtotal
           /\ _anchored(Page(inv), TaxAnchors) = inv.tax
           /\ _anchored(Page(inv), TotalAnchors) = TotalRead(inv)
<1>1. /\ Page(inv).amounts[1].value = inv.subtotal
      /\ Page(inv).amounts[2].value = inv.tax
      /\ Page(inv).amounts[3].value = inv.total
    BY DEF Page
<1>2. /\ DOMAIN SubtotalAnchors = 1..3 /\ SubtotalAnchors[1] = "Subtotal"
      /\ DOMAIN TaxAnchors = 1..4 /\ TaxAnchors[1] = "Tax"
      /\ DOMAIN TotalAnchors = 1..4 /\ TotalAnchors[1] = "Total Due"
      /\ TotalAnchors[2] = "Total Amount" /\ TotalAnchors[3] = "Amount Due"
      /\ TotalAnchors[4] = "Total"
    BY DEF SubtotalAnchors, TaxAnchors, TotalAnchors
<1>3. Least({1}) = 1 /\ Least({2}) = 2 /\ Least({3}) = 3
    <2>1. ASSUME NEW i \in Int PROVE Least({i}) = i
        <3>1. {i} \in SUBSET Int /\ i \in {i} /\ \A y \in {i} : i <= y
            OBVIOUS
        <3> QED  BY <3>1, LeastIs, Zenon
    <2> QED  BY <2>1
<1>4. _anchored(Page(inv), SubtotalAnchors) = inv.subtotal
    <2>1. Matches(Page(inv), SubtotalAnchors[1]) = {1}
        BY <1>2, AnchorsOfPage
    <2>2. IsFirst(Page(inv), SubtotalAnchors, 1)
        <3>1. DOMAIN SubtotalAnchors = 1..3
            BY <1>2
        <3>2. Matches(Page(inv), SubtotalAnchors[1]) # {}
            BY <2>1
        <3>3. 1..3 \subseteq Int /\ 1 \in 1..3 /\ \A j \in 1..3 : 1 <= j
            OBVIOUS
        <3> QED  BY <3>1, <3>2, <3>3, Zenon DEF IsFirst
    <2> QED  BY <1>1, <1>3, <2>1, <2>2, FirstAnchor
<1>5. _anchored(Page(inv), TaxAnchors) = inv.tax
    <2>1. Matches(Page(inv), TaxAnchors[1]) = {2}
        BY <1>2, AnchorsOfPage
    <2>2. IsFirst(Page(inv), TaxAnchors, 1)
        <3>1. DOMAIN TaxAnchors = 1..4
            BY <1>2
        <3>2. Matches(Page(inv), TaxAnchors[1]) # {}
            BY <2>1
        <3>3. 1..4 \subseteq Int /\ 1 \in 1..4 /\ \A j \in 1..4 : 1 <= j
            OBVIOUS
        <3> QED  BY <3>1, <3>2, <3>3, Zenon DEF IsFirst
    <2> QED  BY <1>1, <1>3, <2>1, <2>2, FirstAnchor
<1>6. CASE inv.total >= 0
    <2>1. Matches(Page(inv), TotalAnchors[1]) = {3}
        BY <1>2, <1>6, AnchorsOfPage
    <2>2. IsFirst(Page(inv), TotalAnchors, 1)
        <3>1. DOMAIN TotalAnchors = 1..4
            BY <1>2
        <3>2. Matches(Page(inv), TotalAnchors[1]) # {}
            BY <2>1
        <3>3. 1..4 \subseteq Int /\ 1 \in 1..4 /\ \A j \in 1..4 : 1 <= j
            OBVIOUS
        <3> QED  BY <3>1, <3>2, <3>3, Zenon DEF IsFirst
    <2>3. _anchored(Page(inv), TotalAnchors) = inv.total
        BY <1>1, <1>3, <2>1, <2>2, FirstAnchor
    <2> QED  BY <1>4, <1>5, <1>6, <2>3, Zenon DEF TotalRead
<1>7. CASE ~(inv.total >= 0)
    <2>1. Matches(Page(inv), TotalAnchors[4]) = {1}
        BY <1>2, AnchorsOfPage
    <2>2. /\ Matches(Page(inv), TotalAnchors[1]) = {}
          /\ Matches(Page(inv), TotalAnchors[2]) = {}
          /\ Matches(Page(inv), TotalAnchors[3]) = {}
        BY <1>2, <1>7, AnchorsOfPage
    <2>3. \A j \in 1..4 : j = 1 \/ j = 2 \/ j = 3 \/ j = 4
        OBVIOUS
    <2>4. IsFirst(Page(inv), TotalAnchors, 4)
        <3>1. DOMAIN TotalAnchors = 1..4
            BY <1>2
        <3>2. Matches(Page(inv), TotalAnchors[4]) # {}
            BY <2>1
        <3>3. \A j \in 1..4 : Matches(Page(inv), TotalAnchors[j]) # {} => j = 4
            BY <2>2, <2>3, Zenon
        <3>4. 1..4 \subseteq Int /\ 4 \in 1..4 /\ 4 <= 4
            OBVIOUS
        <3> QED  BY <3>1, <3>2, <3>3, <3>4, Zenon DEF IsFirst
    <2>5. _anchored(Page(inv), TotalAnchors) = inv.subtotal
        BY <1>1, <1>3, <2>1, <2>4, FirstAnchor
    <2> QED  BY <1>4, <1>5, <1>7, <2>5, Zenon DEF TotalRead
<1> QED  BY <1>6, <1>7

-----------------------------------------------------------------------------
(* What the rules find on a generated invoice.                              *)

ReadOff(f) == Extracted(f, {}, extract_pdf(f))

(* What the rules get to see of the f-th invoice *)
LEMMA ReadOffPage ==
    ASSUME NEW f, NEW i, Generated(printed[f], i)
    PROVE  /\ ReadOff(f).ties = {} /\ ReadOff(f).file = f
           /\ ReadOff(f).invoice_no = printed[f].invoice_no
           /\ ReadOff(f).vendor = "vendor"
           /\ ReadOff(f).invoice_date = 0 /\ ReadOff(f).due_date = printed[f].term
           /\ ReadOff(f).lines_sum = printed[f].lines
           /\ ReadOff(f).subtotal = printed[f].subtotal
           /\ ReadOff(f).tax = printed[f].tax
           /\ ReadOff(f).total = TotalRead(printed[f])
<1> DEFINE inv == printed[f]
           page == Page(inv)
           fields == extract_fields(page)
<1>1. /\ inv.subtotal \in Int /\ inv.subtotal >= 0 /\ inv.tax \in Int /\ inv.tax >= 0
      /\ inv.total \in Int
    <2>1. inv \in Invoices
        BY DEF Generated
    <2>2. inv.lines \in Int /\ inv.subtotal \in Int /\ inv.tax \in Int /\ inv.total \in Int
        BY <2>1 DEF Invoices
    <2> QED  BY <2>2, SMT DEF Generated
<1>2. /\ fields.subtotal.value = inv.subtotal /\ fields.tax.value = inv.tax
    BY <1>1, AmountsRead DEF extract_fields, ReadAmount, Read
<1>3. fields.total.value = TotalRead(inv)
    <2>1. TotalRead(inv) # None
        BY <1>1, NoneAssumption DEF TotalRead
    <2> QED  BY <1>1, <2>1, AmountsRead DEF extract_fields, ReadTotal, ReadAmount, Read
<1>4. /\ page.invoice_no = inv.invoice_no /\ page.vendor = "vendor" /\ page.invoice_date = 0
      /\ page.due_date = inv.term /\ page.lines_sum = inv.lines
    BY DEF Page
<1>5. /\ fields.invoice_no.value = inv.invoice_no /\ fields.vendor.value = "vendor"
      /\ fields.invoice_date.value = 0 /\ fields.due_date.value = inv.term
      /\ fields.lines_sum.value = inv.lines
    BY <1>4 DEF extract_fields, IfPresent, Read
<1> HIDE DEF fields, page
<1> QED  BY <1>2, <1>3, <1>5 DEF ReadOff, Extracted, extract_pdf, fields, page

(* Which rules of errors fire on what is read off a generated invoice, by   *)
(* its injected error                                                       *)
LEMMA FieldErrors ==
    ASSUME NEW f, NEW i, Generated(printed[f], i)
    PROVE  LET findings == FieldFindings(ReadOff(f))
               errors == printed[f].errors
           IN  /\ findings \subseteq RULE_IDS
               /\ {"missing_fields", "due_before_issue", "duplicate_invoice_no"}
                     \cap findings = {}
               /\ "lines_vs_subtotal" \in findings <=> "bad_subtotal" \in errors
               /\ "subtotal_plus_tax" \in findings
                    <=> /\ "bad_total" \in errors
                        /\ ~(printed[f].total < 0 /\ printed[f].tax <= amount_tolerance)
               /\ "crazy_tax" \in errors => "tax_rate_implausible" \in findings
               /\ "tax_rate_implausible" \in findings => "crazy_tax" \in errors
               /\ "terms_unacceptable" \in findings <=> "overdue_terms" \in errors
<1> DEFINE inv == printed[f]
           read == ReadOff(f)
<1>1. /\ read.ties = {} /\ read.invoice_no = inv.invoice_no /\ read.vendor = "vendor"
      /\ read.invoice_date = 0 /\ read.due_date = inv.term /\ read.lines_sum = inv.lines
      /\ read.subtotal = inv.subtotal /\ read.tax = inv.tax /\ read.total = TotalRead(inv)
    BY ReadOffPage
<1>2. /\ inv.invoice_no \in Int /\ inv.lines \in Int /\ inv.subtotal \in Int
      /\ inv.tax \in Int /\ inv.total \in Int /\ inv.term \in Int
      /\ inv.errors \subseteq Kinds
      /\ \A k, l \in inv.errors : k = l
    BY DEF Generated, Invoices, Files
<1>3. /\ inv.lines >= 800 /\ inv.subtotal >= 800 /\ inv.tax >= 0 /\ inv.term >= 0
      /\ TotalRead(inv) \in Int
    BY <1>2, SMT DEF Generated, TotalRead
<1>4. /\ amount_tolerance \in Nat /\ amount_tolerance < 300
      /\ max_tax_rate \in Nat /\ max_tax_rate >= 21 /\ max_tax_rate <= 44
      /\ due_days_max \in Nat /\ due_days_max >= 60 /\ due_days_max < 400
    BY ConfigAssumption
<1> HIDE DEF inv, read
<1>5. \A x \in Int : x # None
    BY NoneAssumption
<1>6. "vendor" # None
    BY AbsentAssumption
<1>7. check_required_fields(read) = {}
    BY <1>1, <1>2, <1>3, <1>5, <1>6 DEF check_required_fields
<1>8. LinesDiffer(read) <=> "bad_subtotal" \in inv.errors
    <2>1. LinesDiffer(read) <=> Distance(inv.subtotal, inv.lines) > amount_tolerance
        BY <1>1, <1>2, <1>5 DEF LinesDiffer, Exceeds
    <2>2. CASE "bad_subtotal" \in inv.errors
        <3>1. inv.subtotal >= inv.lines + 300
            BY <2>2 DEF Generated, inv
        <3> QED  BY <2>1, <2>2, <3>1, <1>2, <1>4, SMT DEF Distance
    <2>3. CASE "bad_subtotal" \notin inv.errors
        <3>1. inv.subtotal = inv.lines
            BY <2>3 DEF Generated, inv
        <3> QED  BY <2>1, <2>3, <3>1, <1>2, <1>4, SMT DEF Distance
    <2> QED  BY <2>2, <2>3
<1>9. TotalDiffers(read) <=> /\ "bad_total" \in inv.errors
                             /\ ~(inv.total < 0 /\ inv.tax <= amount_tolerance)
    <2>1. TotalDiffers(read)
            <=> Distance(inv.subtotal + inv.tax, TotalRead(inv)) > amount_tolerance
        BY <1>1, <1>2, <1>3, <1>5 DEF TotalDiffers, Exceeds
    <2>2. CASE "bad_total" \in inv.errors
        <3>1. Distance(inv.subtotal + inv.tax, inv.total) >= 500
            BY <2>2 DEF Generated, inv
        <3> QED  BY <2>1, <2>2, <3>1, <1>2, <1>3, <1>4, SMT DEF Distance, TotalRead
    <2>3. CASE "bad_total" \notin inv.errors
        <3>1. inv.total = inv.subtotal + inv.tax
            BY <2>3 DEF Generated, inv
        <3> QED  BY <2>1, <2>3, <3>1, <1>2, <1>3, <1>4, SMT DEF Distance, TotalRead
    <2> QED  BY <2>2, <2>3
<1>10. "tax_rate_implausible" \in check_tax_plausibility(read)
         <=> 100 * inv.tax > max_tax_rate * inv.subtotal
    <2>1. None \notin {read.subtotal, read.tax} /\ read.subtotal > 0
        BY <1>1, <1>2, <1>3, <1>5
    <2> QED  BY <1>1, <2>1 DEF check_tax_plausibility, Exceeds
<1>11. "tax_rate_implausible" \in check_tax_plausibility(read) <=> "crazy_tax" \in inv.errors
    <2>1. CASE "crazy_tax" \in inv.errors
        <3>1. 100 * inv.tax >= 45 * inv.lines - 50 /\ inv.subtotal = inv.lines
            <4>1. "bad_subtotal" \notin inv.errors
                BY <1>2, <2>1
            <4> QED  BY <2>1, <4>1 DEF Generated, inv
        <3>2. max_tax_rate * inv.subtotal <= 44 * inv.subtotal
            BY <1>2, <1>3, <1>4, SMT
        <3>3. max_tax_rate * inv.subtotal \in Int
            BY <1>2, <1>4
        <3> QED  BY <1>2, <1>3, <1>10, <2>1, <3>1, <3>2, <3>3, SMT
    <2>2. CASE "crazy_tax" \notin inv.errors
        <3>1. 100 * inv.tax <= 20 * inv.lines + 50 /\ inv.subtotal >= inv.lines
            BY <1>2, <2>2, SMT DEF Generated, inv
        <3>2. max_tax_rate * inv.subtotal >= 21 * inv.subtotal
            BY <1>2, <1>3, <1>4, SMT
        <3>3. max_tax_rate * inv.subtotal \in Int
            BY <1>2, <1>4
        <3> QED  BY <1>2, <1>3, <1>10, <2>2, <3>1, <3>2, <3>3, SMT
    <2> QED  BY <2>1, <2>2
<1>12. /\ "due_before_issue" \notin check_dates(read)
       /\ "terms_unacceptable" \in check_dates(read) <=> "overdue_terms" \in inv.errors
       /\ check_dates(read) \subseteq {"terms_unacceptable", "terms_unusual"}
    <2>1. None \notin {read.invoice_date, read.due_date} /\ Term(read) = inv.term
        BY <1>1, <1>2, <1>5 DEF Term
    <2>2. inv.term > due_days_max <=> "overdue_terms" \in inv.errors
        <3>1. CASE "overdue_terms" \in inv.errors
            <4>1. inv.term = 400
                BY <3>1 DEF Generated, inv
            <4> QED  BY <3>1, <4>1, <1>4
        <3>2. CASE "overdue_terms" \notin inv.errors
            <4>1. inv.term \in 0..60
                BY <3>2 DEF Generated, inv
            <4> QED  BY <3>2, <4>1, <1>4
        <3> QED  BY <3>1, <3>2
    <2>3. CASE inv.term > due_days_max
        <3>1. check_dates(read) = {"terms_unacceptable"}
            BY <1>2, <1>3, <2>1, <2>3 DEF check_dates
        <3> QED  BY <2>2, <2>3, <3>1
    <2>4. CASE ~(inv.term > due_days_max)
        <3>1. check_dates(read) \subseteq {"terms_unusual"}
            BY <1>2, <1>3, <2>1, <2>4 DEF check_dates
        <3> QED  BY <2>2, <2>4, <3>1
    <2> QED  BY <2>3, <2>4
<1>13. check_tax_plausibility(read) \subseteq {"tax_rate_implausible"}
    BY DEF check_tax_plausibility
<1>14. \A r : r \in FieldFindings(read)
         <=> \/ r = "lines_vs_subtotal" /\ LinesDiffer(read)
             \/ r = "subtotal_plus_tax" /\ TotalDiffers(read)
             \/ r \in check_tax_plausibility(read)
             \/ r \in check_dates(read)
    BY <1>7 DEF FieldFindings, check_arithmetic
<1>15. FieldFindings(read) \subseteq RULE_IDS
    BY <1>12, <1>13, <1>14 DEF RULE_IDS
<1>16. \A r \in {"missing_fields", "due_before_issue", "duplicate_invoice_no"} :
            r \notin FieldFindings(read)
    BY <1>12, <1>13, <1>14
<1>17. /\ "lines_vs_subtotal" \in FieldFindings(read) <=> LinesDiffer(read)
       /\ "subtotal_plus_tax" \in FieldFindings(read) <=> TotalDiffers(read)
       /\ "tax_rate_implausible" \in FieldFindings(read)
            <=> "tax_rate_implausible" \in check_tax_plausibility(read)
       /\ "terms_unacceptable" \in FieldFindings(read)
            <=> "terms_unacceptable" \in check_dates(read)
    BY <1>12, <1>13, <1>14
<1>18. {"missing_fields", "due_before_issue", "duplicate_invoice_no"}
            \cap FieldFindings(read) = {}
    BY <1>16
<1> QED
    BY <1>8, <1>9, <1>11, <1>12, <1>15, <1>17, <1>18, Zenon DEF inv, read

-----------------------------------------------------------------------------
(* The rows of a job are a function of the corpus: the findings of a file   *)
(* are those of its own fields, and of the numbers before it.               *)
Repeats(ps, f) == \E g \in 1..(f - 1) : ps[g].invoice_no = ps[f].invoice_no

FindingsOf(f) ==
    FieldFindings(ReadOff(f)) \cup {r \in {"duplicate_invoice_no"} : Repeats(printed, f)}

RowOf(f) == Row(f, extract_pdf(f), FindingsOf(f))

IsTable(rs) ==
    /\ Len(rs) \in 0..Len(printed)
    /\ rs = [f \in 1..Len(rs) |-> RowOf(f)]

(* The number of a file is its own index or one that an earlier file was    *)
(* made with.                                                               *)
Numbered(ps, f) ==
    /\ ps[f].invoice_no \in 1..f
    /\ ps[ps[f].invoice_no].invoice_no = ps[f].invoice_no

(***************************************************************************)
(* The inductive invariant, part by part.                                  *)
(***************************************************************************)
CorpusInv ==
    /\ printed \in Seq(Invoices) /\ truths \in Seq(Invoices)
    /\ Len(printed) <= n_invoices
    /\ Len(printed) - Len(truths) \in {0, 1}
    /\ \A f \in 1..Len(truths) : truths[f] = printed[f]
    /\ \A f \in 1..Len(printed) : Generated(printed[f], f) /\ Numbered(printed, f)

(* Each number a job has read is remembered with a file it stands in. *)
SeenInv ==
    /\ seen \in [Files -> Files \cup {None}]
    /\ \A n \in Files :
          /\ seen[n] # None =>
                seen[n] \in 1..Len(rows) /\ printed[seen[n]].invoice_no = n
          /\ seen[n] = None => \A g \in 1..Len(rows) : printed[g].invoice_no # n

JobInv ==
    /\ job \in {"idle", "pipeline", "evaluate", "saving"}
    /\ listed \in 0..Len(printed)
    /\ IsTable(rows) /\ Len(rows) <= listed
    /\ job = "evaluate" => listed <= Len(truths)
    /\ job \in {"pipeline", "saving"} => listed > 0
    /\ job = "saving" => Len(rows) = listed
    /\ job = "idle" => rows = <<>> /\ tally = NoTally

LedgerInv ==
    ledger \in {None, Torn} \/ (IsTable(ledger) /\ Len(ledger) > 0)

IInv == CorpusInv /\ SeenInv /\ JobInv /\ LedgerInv

(* What evaluate counts: the errors among the first k files that no rule    *)
(* can see, and the totals among them that are read as something else.      *)
Missed(k) == {f \in 1..k : printed[f].errors # {} /\ Invisible(f)}
Misread(field, k) == {f \in 1..k : field = "total" /\ printed[f].total < 0}

TallyInv ==
    /\ tally \in [error_total : Int, error_caught : Int, clean_total : Int,
                  clean_flagged : {0}, hits : [FIELDS -> Int]]
    /\ job = "evaluate" =>
          /\ tally.error_total - tally.error_caught = Cardinality(Missed(Len(rows)))
          /\ \A field \in FIELDS :
                Len(rows) - tally.hits[field] = Cardinality(Misread(field, Len(rows)))

-----------------------------------------------------------------------------
(* A table is a sequence of the rows of the files 1, 2, ... *)
LEMMA TableIsSeq ==
    ASSUME NEW rs, IsTable(rs)
    PROVE  /\ rs \in Seq({RowOf(f) : f \in 1..Len(rs)})
           /\ Len(rs) \in Nat /\ DOMAIN rs = 1..Len(rs)
           /\ \A f \in 1..Len(rs) : rs[f] = RowOf(f)
<1> DEFINE S == {RowOf(f) : f \in 1..Len(rs)}
<1>1. Len(rs) \in Nat
    BY DEF IsTable
<1>2. rs = [f \in 1..Len(rs) |-> RowOf(f)]
    BY DEF IsTable
<1>3. DOMAIN rs = 1..Len(rs) /\ \A f \in 1..Len(rs) : rs[f] = RowOf(f)
    BY <1>2, Zenon
<1>4. rs \in [1..Len(rs) -> S]
    BY <1>2, Zenon
<1> HIDE DEF S
<1>5. rs \in Seq(S)
    BY <1>1, <1>4, SMT
<1> QED  BY <1>1, <1>3, <1>5 DEF S

(* Appending the row of the next file to a table leaves a table. *)
LEMMA AppendedIsTable ==
    ASSUME NEW rs, IsTable(rs), Len(rs) + 1 <= Len(printed), Len(printed) \in Nat
    PROVE  LET longer == Append(rs, RowOf(Len(rs) + 1))
           IN  IsTable(longer) /\ Len(longer) = Len(rs) + 1
<1> DEFINE n == Len(rs)
           longer == Append(rs, RowOf(n + 1))
           S == {RowOf(f) : f \in 1..n} \cup {RowOf(n + 1)}
<1>1. n \in Nat /\ n + 1 <= Len(printed) /\ rs \in Seq(S) /\ RowOf(n + 1) \in S
      /\ \A f \in 1..n : rs[f] = RowOf(f)
    <2>1. n \in Nat /\ \A f \in 1..n : rs[f] = RowOf(f)
        BY TableIsSeq
    <2>2. rs \in [1..n -> S]
        <3>1. rs = [f \in 1..n |-> RowOf(f)]
            BY DEF IsTable
        <3> QED  BY <3>1, Zenon
    <2>3. RowOf(n + 1) \in S
        OBVIOUS
    <2> HIDE DEF S
    <2>4. rs \in Seq(S)
        BY <2>1, <2>2, SMT
    <2> QED  BY <2>1, <2>3, <2>4
<1> HIDE DEF n, S
<1>2. /\ longer \in Seq(S) /\ Len(longer) = n + 1
      /\ \A f \in 1..n : longer[f] = RowOf(f)
      /\ longer[n + 1] = RowOf(n + 1)
    BY <1>1, AppendProperties DEF n
<1> HIDE DEF longer
<1>3. \A f \in 1..(n + 1) : longer[f] = RowOf(f)
    BY <1>1, <1>2
<1>4. longer = [f \in 1..(n + 1) |-> RowOf(f)]
    BY <1>1, <1>2, <1>3
<1>5. Len(longer) \in 0..Len(printed)
    BY <1>1, <1>2
<1>6. IsTable(longer)
    BY <1>2, <1>4, <1>5, Zenon DEF IsTable
<1> QED  BY <1>2, <1>6 DEF longer, n

(* What is fixed by the files already printed stays fixed when more are. *)
Kept ==
    /\ Len(printed) \in Nat /\ Len(printed)' \in Nat /\ Len(printed) <= Len(printed)'
    /\ \A f \in 1..Len(printed) : printed'[f] = printed[f]

(* A row depends on the files up to its own only. *)
LEMMA RowStays ==
    ASSUME Kept, NEW f \in 1..Len(printed)
    PROVE  RowOf(f)' = RowOf(f)
<1>1. printed'[f] = printed[f] /\ \A g \in 1..(f - 1) : printed'[g] = printed[g]
    BY SMT DEF Kept
<1>2. extract_pdf(f)' = extract_pdf(f) /\ ReadOff(f)' = ReadOff(f)
    BY <1>1 DEF extract_pdf, ReadOff
<1>3. Repeats(printed', f) <=> Repeats(printed, f)
    BY <1>1 DEF Repeats
<1>4. FindingsOf(f)' = FindingsOf(f)
    BY <1>2, <1>3 DEF FindingsOf
<1> QED  BY <1>2, <1>4 DEF RowOf

(* A table stays one, whatever more is printed. *)
LEMMA TableStays ==
    ASSUME NEW rs, IsTable(rs), Kept
    PROVE  /\ Len(rs) \in 0..Len(printed)'
           /\ rs = [f \in 1..Len(rs) |-> RowOf(f)']
<1>1. Len(rs) \in 0..Len(printed) /\ rs = [f \in 1..Len(rs) |-> RowOf(f)]
    BY DEF IsTable
<1>2. \A f \in 1..Len(rs) : f \in 1..Len(printed)
    BY <1>1 DEF Kept
<1>3. \A f \in 1..Len(rs) : RowOf(f)' = RowOf(f)
    BY <1>2, RowStays
<1>4. Len(rs) \in 0..Len(printed)'
    BY <1>1 DEF Kept
<1> QED  BY <1>1, <1>3, <1>4

(* Every invoice is Generated, its number is its own or that of an earlier  *)
(* one, and the ground truth follows the PDFs.                              *)
LEMMA CorpusSteps ==
    ASSUME CorpusInv, [Next]_vars
    PROVE  CorpusInv' /\ Kept
<1> USE DEF CorpusInv
<1>0. /\ Len(printed) \in Nat /\ Len(truths) \in Nat /\ n_invoices \in Nat
      /\ Len(truths) <= Len(printed)
    BY CorpusAssumption
<1>1. CASE RenderPdf
    <2> DEFINE n == Len(printed)
    <2>1. PICK inv \in Printable(n + 1) : printed' = Append(printed, inv)
        BY <1>1 DEF RenderPdf
    <2>2. n + 1 \in Files /\ truths' = truths /\ Len(truths) = n
        BY <1>0, <1>1 DEF RenderPdf, Files
    <2>3. /\ Generated(inv, n + 1)
          /\ "duplicate_no" \in inv.errors =>
                \/ inv.invoice_no = n + 1
                \/ \E k \in DOMAIN printed : inv.invoice_no = printed[k].invoice_no
        BY <2>2, PrintableIsGenerated
    <2>4. \/ inv.invoice_no = n + 1
          \/ inv.invoice_no \in 1..n /\ printed[inv.invoice_no].invoice_no = inv.invoice_no
        <3>1. CASE inv.invoice_no = n + 1
            BY <3>1
        <3>2. CASE \E k \in DOMAIN printed : inv.invoice_no = printed[k].invoice_no
            <4>1. PICK k \in 1..n : inv.invoice_no = printed[k].invoice_no
                BY <3>2
            <4>2. Numbered(printed, k)
                BY <4>1
            <4> QED  BY <1>0, <4>1, <4>2 DEF Numbered
        <3> QED  BY <2>3, <3>1, <3>2 DEF Generated
    <2>5. inv \in Invoices
        BY <2>3 DEF Generated
    <2>6. /\ printed' \in Seq(Invoices) /\ Len(printed') = n + 1
          /\ \A f \in 1..n : printed'[f] = printed[f]
          /\ printed'[n + 1] = inv
        BY <2>1, <2>5, AppendProperties
    <2>7. ASSUME NEW f \in 1..n
          PROVE  Generated(printed'[f], f) /\ Numbered(printed', f)
        <3>1. Generated(printed[f], f) /\ Numbered(printed, f)
            OBVIOUS
        <3>2. printed[f].invoice_no \in 1..n
            BY <1>0, <3>1 DEF Numbered
        <3> QED  BY <2>6, <3>1, <3>2 DEF Numbered
    <2>8. Generated(printed'[n + 1], n + 1) /\ Numbered(printed', n + 1)
        BY <1>0, <2>3, <2>4, <2>6 DEF Numbered
    <2>9. \A f \in 1..(n + 1) : f \in 1..n \/ f = n + 1
        BY <1>0
    <2>10. \A f \in 1..Len(printed') : Generated(printed'[f], f) /\ Numbered(printed', f)
        BY <2>6, <2>7, <2>8, <2>9
    <2>11. \A f \in 1..Len(truths') : truths'[f] = printed'[f]
        BY <2>2, <2>6
    <2> QED  BY <1>0, <2>2, <2>6, <2>10, <2>11 DEF Kept, Files
<1>2. CASE WriteTruth
    <2>1. /\ Len(truths) < Len(printed) /\ printed' = printed
          /\ truths' = Append(truths, printed[Len(printed)])
        BY <1>2 DEF WriteTruth
    <2>2. Len(printed) = Len(truths) + 1 /\ printed[Len(printed)] \in Invoices
        BY <1>0, <2>1
    <2>3. /\ truths' \in Seq(Invoices) /\ Len(truths') = Len(truths) + 1
          /\ \A f \in 1..Len(truths) : truths'[f] = truths[f]
          /\ truths'[Len(truths) + 1] = printed[Len(printed)]
        BY <2>1, <2>2, AppendProperties
    <2>4. \A f \in 1..Len(truths') : truths'[f] = printed[f]
        BY <1>0, <2>2, <2>3
    <2>5. Kept
        BY <1>0, <2>1 DEF Kept
    <2> QED  BY <1>0, <2>1, <2>2, <2>3, <2>4, <2>5
<1>3. CASE UNCHANGED corpusVars
    BY <1>0, <1>3 DEF corpusVars, Kept
<1>4. [Next]_vars => RenderPdf \/ WriteTruth \/ UNCHANGED corpusVars
    BY DEF Next, vars, Start, StartPipeline, StartEvaluation, ValidateNext, FinishEvaluation,
           OpenLedger, CloseLedger, Killed
<1> QED  BY <1>1, <1>2, <1>3, <1>4

(* Looking a number up in seen finds the repeats among the files read. *)
LEMMA DuplicatesFound ==
    ASSUME CorpusInv, SeenInv, Len(rows) \in Nat, Len(rows) + 1 <= Len(printed),
           NEW f, f = Len(rows) + 1
    PROVE  validate_invoice(ReadOff(f), seen) = FindingsOf(f)
<1> DEFINE no == printed[f].invoice_no
<1>1. /\ Generated(printed[f], f) /\ no \in Files
      /\ \A g \in 1..Len(rows) : printed[g].invoice_no \in Files
    <2>1. Len(printed) \in Nat /\ printed \in Seq(Invoices)
        BY DEF CorpusInv
    <2>2. f \in 1..Len(printed) /\ 1..Len(rows) \subseteq 1..Len(printed)
        BY <2>1
    <2>3. \A g \in 1..Len(printed) : printed[g] \in Invoices
        BY <2>1
    <2>4. \A g \in 1..Len(printed) : printed[g].invoice_no \in Files
        BY <2>3 DEF Invoices
    <2> QED  BY <2>2, <2>4 DEF CorpusInv
<1>2. ReadOff(f).invoice_no = no /\ ReadOff(f).file = f
    BY <1>1, ReadOffPage
<1>3. no # None /\ seen # None
    BY <1>1, NoneAssumption, AbsentAssumption DEF SeenInv, Files
<1>4. seen[no] \notin {None, f} <=> Repeats(printed, f)
    <2>1. CASE seen[no] = None
        BY <1>1, <2>1 DEF SeenInv, Repeats
    <2>2. CASE seen[no] # None
        <3>1. seen[no] \in 1..Len(rows) /\ printed[seen[no]].invoice_no = no
            BY <1>1, <2>2 DEF SeenInv
        <3> QED  BY <2>2, <3>1 DEF Repeats
    <2> QED  BY <2>1, <2>2
<1>5. check_duplicates(ReadOff(f), seen) = {r \in {"duplicate_invoice_no"} : Repeats(printed, f)}
    BY <1>2, <1>3, <1>4 DEF check_duplicates
<1> QED  BY <1>3, <1>5 DEF validate_invoice, FindingsOf

(* Remembering a number keeps what seen means, for one more file. *)
LEMMA Remembered ==
    ASSUME CorpusInv, SeenInv, Len(rows) \in Nat, Len(rows) + 1 <= Len(printed),
           NEW f, f = Len(rows) + 1,
           seen' = Remember(ReadOff(f), seen), Len(rows)' = f, UNCHANGED printed
    PROVE  SeenInv'
<1> DEFINE no == printed[f].invoice_no
<1>1. Generated(printed[f], f) /\ no \in Files /\ f \in Files
    <2>1. Len(printed) \in Nat /\ printed \in Seq(Invoices) /\ Len(printed) <= n_invoices
        BY DEF CorpusInv
    <2>2. f \in 1..Len(printed)
        BY <2>1
    <2>3. printed[f] \in Invoices
        BY <2>1, <2>2
    <2>4. no \in Files
        BY <2>3 DEF Invoices
    <2>5. f \in Files
        BY <2>1, <2>2, CorpusAssumption DEF Files
    <2> QED  BY <2>2, <2>4, <2>5 DEF CorpusInv
<1>2. ReadOff(f).invoice_no = no /\ ReadOff(f).file = f
    BY <1>1, ReadOffPage
<1>3. no # None /\ f # None
    BY <1>1, NoneAssumption DEF Files
<1>4. \A g \in 1..f : g \in 1..Len(rows) \/ g = f
    OBVIOUS
<1>5. CASE seen[no] # None
    <2>1. seen' = seen
        BY <1>2, <1>5 DEF Remember
    <2>2. seen \in [Files -> Files \cup {None}]
        BY DEF SeenInv
    <2>3. ASSUME NEW n \in Files
          PROVE  /\ seen[n] # None => seen[n] \in 1..f /\ printed[seen[n]].invoice_no = n
                 /\ seen[n] = None => \A g \in 1..f : printed[g].invoice_no # n
        <3>1. seen[n] # None => seen[n] \in 1..Len(rows) /\ printed[seen[n]].invoice_no = n
            BY DEF SeenInv
        <3>2. seen[n] = None => n # no /\ \A g \in 1..Len(rows) : printed[g].invoice_no # n
            BY <1>5 DEF SeenInv
        <3> QED  BY <1>4, <3>1, <3>2
    <2> QED  BY <2>1, <2>2, <2>3 DEF SeenInv
<1>6. CASE seen[no] = None
    <2>1. seen' = [seen EXCEPT ![no] = f]
        BY <1>2, <1>3, <1>6 DEF Remember
    <2>2. seen \in [Files -> Files \cup {None}]
        BY DEF SeenInv
    <2>3. /\ seen' \in [Files -> Files \cup {None}] /\ seen'[no] = f
          /\ \A n \in Files : n # no => seen'[n] = seen[n]
        BY <1>1, <2>1, <2>2
    <2>4. ASSUME NEW n \in Files
          PROVE  /\ seen'[n] # None => seen'[n] \in 1..f /\ printed[seen'[n]].invoice_no = n
                 /\ seen'[n] = None => \A g \in 1..f : printed[g].invoice_no # n
        <3>1. CASE n = no
            <4>1. f \in 1..f
                OBVIOUS
            <4> QED  BY <1>3, <2>3, <3>1, <4>1
        <3>2. CASE n # no
            <4>1. seen'[n] = seen[n]
                BY <2>3, <3>2
            <4>2. seen[n] # None => seen[n] \in 1..Len(rows) /\ printed[seen[n]].invoice_no = n
                BY DEF SeenInv
            <4>3. seen[n] = None => \A g \in 1..Len(rows) : printed[g].invoice_no # n
                BY DEF SeenInv
            <4> QED  BY <1>4, <3>2, <4>1, <4>2, <4>3
        <3> QED  BY <3>1, <3>2
    <2> QED  BY <2>3, <2>4 DEF SeenInv
<1> QED  BY <1>5, <1>6

-----------------------------------------------------------------------------
(* One more file of a job *)
LEMMA ValidateSteps ==
    ASSUME IInv, ValidateNext
    PROVE  /\ IsTable(rows)' /\ Len(rows)' = Len(rows) + 1 /\ Len(rows)' <= listed
           /\ SeenInv'
           /\ rows' = Append(rows, RowOf(Len(rows) + 1))
<1>1. PICK f : f = Len(rows) + 1
    OBVIOUS
<1>2. /\ f <= listed /\ listed <= Len(printed) /\ Len(rows) \in Nat /\ Len(printed) \in Nat
      /\ IsTable(rows) /\ CorpusInv /\ SeenInv
    <2>1. Len(rows) \in Nat
        BY TableIsSeq DEF IInv, JobInv
    <2>2. Len(printed) \in Nat
        BY DEF IInv, CorpusInv
    <2> QED  BY <1>1, <2>1, <2>2 DEF IInv, JobInv, ValidateNext
<1>3. f <= Len(printed)
    BY <1>1, <1>2 DEF IInv, JobInv
<1>4. /\ rows' = Append(rows, Row(f, extract_pdf(f), validate_invoice(ReadOff(f), seen)))
      /\ seen' = Remember(ReadOff(f), seen) /\ printed' = printed
    BY <1>1 DEF ValidateNext, ReadOff, corpusVars
<1>5. validate_invoice(ReadOff(f), seen) = FindingsOf(f)
    BY <1>1, <1>2, <1>3, DuplicatesFound
<1>6. rows' = Append(rows, RowOf(f))
    BY <1>4, <1>5 DEF RowOf
<1>7. IsTable(Append(rows, RowOf(f))) /\ Len(Append(rows, RowOf(f))) = Len(rows) + 1
    BY <1>1, <1>2, <1>3, AppendedIsTable
<1>8. Len(rows)' = Len(rows) + 1
    BY <1>6, <1>7
<1>9. IsTable(rows)'
    <2>1. Kept
        BY <1>2, <1>4 DEF Kept
    <2> QED  BY <1>6, <1>7, <2>1, TableStays DEF IsTable
<1>10. SeenInv'
    BY <1>1, <1>2, <1>3, <1>4, <1>8, Remembered
<1> QED  BY <1>1, <1>2, <1>6, <1>8, <1>9, <1>10

(* A job that ends, or has not begun *)
Idle ==
    rows = <<>> /\ seen = NothingSeen /\ tally = NoTally /\ listed = 0 /\ job = "idle"

(* Nothing has been seen, and no job is under way, in a state at rest. *)
LEMMA IdleInv == CorpusInv /\ Idle => SeenInv /\ JobInv
<1> SUFFICES ASSUME CorpusInv, Idle PROVE SeenInv /\ JobInv
    OBVIOUS
<1> USE DEF Idle
<1>1. Len(rows) = 0 /\ Len(printed) \in Nat
    BY DEF CorpusInv
<1>2. rows = [f \in 1..Len(rows) |-> RowOf(f)]
    BY <1>1
<1>3. IsTable(rows)
    <2>1. Len(rows) \in 0..Len(printed)
        BY <1>1
    <2> QED  BY <1>2, <2>1, Zenon DEF IsTable
<1>4. SeenInv
    BY <1>1 DEF SeenInv, NothingSeen
<1> QED  BY <1>1, <1>3, <1>4 DEF JobInv

(* The corpus directory starts with the invariant. *)
LEMMA InitInv == Init => IInv
<1> SUFFICES ASSUME Init PROVE IInv
    OBVIOUS
<1>1. CorpusInv
    BY CorpusAssumption DEF Init, CorpusInv
<1> QED  BY <1>1, IdleInv DEF Init, Idle, IInv, LedgerInv

(* Every step of the generator, the batch and the evaluation keeps it. *)
LEMMA StepInv == IInv /\ [Next]_vars => IInv'
<1> SUFFICES ASSUME IInv, [Next]_vars PROVE IInv'
    OBVIOUS
<1>1. CorpusInv' /\ Kept
    BY CorpusSteps DEF IInv
<1>2. Len(rows) \in Nat /\ listed \in Nat /\ Len(printed) \in Nat
    BY <1>1, TableIsSeq DEF IInv, JobInv, Kept
<1>3. rows' = rows => IsTable(rows)'
    BY <1>1, TableStays DEF IInv, JobInv, IsTable
<1>4. ledger' = ledger => LedgerInv'
    BY <1>1, TableStays DEF IInv, LedgerInv, IsTable
<1>5. UNCHANGED <<seen, rows>> => SeenInv'
    <2> SUFFICES ASSUME UNCHANGED <<seen, rows>> PROVE SeenInv'
        OBVIOUS
    <2>1. SeenInv /\ \A g \in 1..Len(rows) : printed'[g] = printed[g]
        BY <1>1, <1>2 DEF Kept, IInv, JobInv
    <2> QED  BY <2>1 DEF SeenInv
<1>6. CASE Exit
    <2>1. SeenInv' /\ JobInv'
        <3>1. Idle'
            BY <1>6 DEF Exit, Idle
        <3>2. (CorpusInv /\ Idle => SeenInv /\ JobInv)'
            BY IdleInv, PTL
        <3> QED  BY <1>1, <3>1, <3>2
    <2>2. CASE ledger' = ledger
        BY <1>1, <1>4, <2>1, <2>2 DEF IInv
    <2>3. CASE CloseLedger
        <3>1. ledger' = rows /\ Len(rows) > 0
            BY <1>2, <2>3 DEF CloseLedger, IInv, JobInv
        <3>2. IsTable(rows)
            BY DEF IInv, JobInv
        <3>3. LedgerInv'
            BY <1>1, <3>1, <3>2, TableStays DEF LedgerInv, IsTable
        <3> QED  BY <1>1, <2>1, <3>3 DEF IInv
    <2>4. CASE ledger' # ledger /\ ~CloseLedger
        BY <1>6, <2>4 DEF Next, vars, RenderPdf, WriteTruth, StartPipeline, StartEvaluation, Start,
                    ValidateNext, OpenLedger, FinishEvaluation, Killed, Exit
    <2> QED  BY <2>2, <2>3, <2>4
<1>7. CASE RenderPdf \/ WriteTruth \/ UNCHANGED vars
    <2>1. UNCHANGED <<jobVars, ledger>>
        BY <1>7 DEF RenderPdf, WriteTruth, vars
    <2>2. IsTable(rows)' /\ SeenInv' /\ LedgerInv'
        BY <1>3, <1>4, <1>5, <2>1 DEF jobVars
    <2>3. Len(truths) <= Len(truths)'
        <3>1. Len(truths) \in Nat
            BY DEF IInv, CorpusInv
        <3>2. UNCHANGED truths \/ WriteTruth
            BY <1>7 DEF RenderPdf, vars, corpusVars
        <3>3. CASE WriteTruth
            <4>1. printed[Len(printed)] \in Invoices /\ truths \in Seq(Invoices)
                BY <1>2, <3>3 DEF IInv, CorpusInv, WriteTruth
            <4>2. Len(truths') = Len(truths) + 1
                BY <3>3, <4>1, AppendProperties DEF WriteTruth
            <4> QED  BY <3>1, <4>2
        <3> QED  BY <3>1, <3>2, <3>3
    <2>4. Len(printed) <= Len(printed)' /\ Len(printed)' \in Nat
        BY <1>1 DEF Kept
    <2>5. JobInv'
        <3>1. JobInv /\ Len(truths) \in Nat /\ Len(truths)' \in Nat
            BY <1>1 DEF IInv, CorpusInv
        <3> QED  BY <2>1, <2>2, <2>3, <2>4, <3>1 DEF JobInv, jobVars
    <2> QED  BY <1>1, <2>2, <2>5 DEF IInv
<1>8. CASE StartPipeline \/ StartEvaluation
    <2>1. /\ UNCHANGED <<corpusVars, seen, rows, tally, ledger>> /\ job = "idle"
          /\ \/ job' = "pipeline" /\ listed' = Len(printed) /\ Len(printed) > 0
             \/ job' = "evaluate" /\ listed' = Len(truths)
        BY <1>8 DEF StartPipeline, StartEvaluation, Start
    <2>2. Len(truths) \in 0..Len(printed) /\ Len(rows) = 0
        <3>1. Len(truths) \in Nat /\ rows = <<>> /\ Len(printed) - Len(truths) \in {0, 1}
            BY <2>1 DEF IInv, JobInv, CorpusInv
        <3> QED  BY <1>2, <3>1
    <2>3. JobInv'
        BY <1>2, <1>3, <2>1, <2>2 DEF IInv, JobInv, corpusVars
    <2> QED  BY <1>1, <1>4, <1>5, <2>1, <2>3 DEF IInv
<1>9. CASE ValidateNext
    <2>1. /\ IsTable(rows)' /\ Len(rows)' = Len(rows) + 1 /\ Len(rows)' <= listed
          /\ SeenInv'
        BY <1>9, ValidateSteps
    <2>2. UNCHANGED <<printed, truths, job, listed, ledger>> /\ job \in {"pipeline", "evaluate"}
        BY <1>9 DEF ValidateNext, corpusVars
    <2>3. JobInv'
        BY <2>1, <2>2 DEF IInv, JobInv
    <2> QED  BY <1>1, <1>4, <2>1, <2>2, <2>3 DEF IInv
<1>10. CASE OpenLedger
    <2>1. /\ job = "pipeline" /\ Len(rows) = listed /\ job' = "saving" /\ ledger' = Torn
          /\ UNCHANGED <<printed, truths, listed, seen, rows, tally>>
        BY <1>10 DEF OpenLedger, corpusVars
    <2>2. JobInv'
        BY <1>3, <2>1 DEF IInv, JobInv
    <2> QED  BY <1>1, <1>5, <2>1, <2>2 DEF IInv, LedgerInv
<1> QED
    BY <1>6, <1>7, <1>8, <1>9, <1>10 DEF Next, FinishEvaluation, CloseLedger, Killed

(* The invariant holds in every reachable state. *)
THEOREM Invariance == Spec => []IInv
BY InitInv, StepInv, PTL DEF Spec

-----------------------------------------------------------------------------
(* What a table says of a file.  A number repeats an earlier one exactly    *)
(* when it is not the file's own.                                           *)
LEMMA RowFacts ==
    ASSUME CorpusInv, NEW rs, IsTable(rs), NEW f \in 1..Len(rs)
    PROVE  /\ f \in 1..Len(printed)
           /\ Generated(printed[f], f) /\ Numbered(printed, f)
           /\ rs[f].file = f
           /\ rs[f].invoice_no = printed[f].invoice_no
           /\ rs[f].findings = FindingsOf(f)
           /\ FindingsOf(f) \subseteq RULE_IDS
           /\ "duplicate_invoice_no" \in FindingsOf(f) <=> Repeats(printed, f)
           /\ Repeats(printed, f) <=> printed[f].invoice_no # f
<1>1. /\ Len(printed) \in Nat /\ Len(rs) \in 0..Len(printed)
      /\ f \in Nat /\ f \in 1..Len(printed)
      /\ \A g \in 1..Len(printed) : Numbered(printed, g)
      /\ Generated(printed[f], f) /\ rs[f] = RowOf(f)
    BY TableIsSeq DEF CorpusInv, IsTable
<1>2. ReadOff(f).invoice_no = printed[f].invoice_no
    BY <1>1, ReadOffPage
<1>3. /\ rs[f].file = f /\ rs[f].findings = FindingsOf(f)
      /\ rs[f].invoice_no = printed[f].invoice_no
    BY <1>1, <1>2 DEF RowOf, Row, ReadOff, Extracted
<1>4. /\ FieldFindings(ReadOff(f)) \subseteq RULE_IDS
      /\ "duplicate_invoice_no" \notin FieldFindings(ReadOff(f))
    BY <1>1, FieldErrors
<1>5. /\ FindingsOf(f) \subseteq RULE_IDS
      /\ "duplicate_invoice_no" \in FindingsOf(f) <=> Repeats(printed, f)
    BY <1>4 DEF FindingsOf, RULE_IDS
<1>6. Repeats(printed, f) <=> printed[f].invoice_no # f
    <2>1. printed[f].invoice_no \in 1..f
        BY <1>1 DEF Numbered
    <2>2. ASSUME printed[f].invoice_no # f PROVE Repeats(printed, f)
        <3>1. printed[f].invoice_no \in 1..(f - 1)
            BY <1>1, <2>1, <2>2
        <3> QED  BY <1>1, <3>1 DEF Repeats, Numbered
    <2>3. ASSUME Repeats(printed, f) PROVE printed[f].invoice_no # f
        <3>1. PICK g \in 1..(f - 1) : printed[g].invoice_no = printed[f].invoice_no
            BY <2>3 DEF Repeats
        <3>2. printed[g].invoice_no \in 1..g
            BY <1>1, <3>1 DEF Numbered
        <3> QED  BY <1>1, <3>1, <3>2
    <2> QED  BY <2>2, <2>3
<1> QED  BY <1>1, <1>3, <1>5, <1>6

(* A row is flagged exactly when an error was injected that can be seen. *)
LEMMA FlaggedRows ==
    ASSUME CorpusInv, NEW rs, IsTable(rs), NEW f \in 1..Len(rs)
    PROVE  Flagged(rs[f]) <=> printed[f].errors # {} /\ ~Invisible(f)
<1> DEFINE inv == printed[f]
           found == FieldFindings(ReadOff(f))
<1>1. /\ Generated(inv, f) /\ Numbered(printed, f)
      /\ rs[f].findings = FindingsOf(f)
      /\ FindingsOf(f) \subseteq RULE_IDS
      /\ "duplicate_invoice_no" \in FindingsOf(f) <=> inv.invoice_no # f
    BY RowFacts
<1>2. /\ {"missing_fields", "due_before_issue", "duplicate_invoice_no"} \cap found = {}
      /\ "lines_vs_subtotal" \in found <=> "bad_subtotal" \in inv.errors
      /\ "subtotal_plus_tax" \in found
            <=> "bad_total" \in inv.errors /\ ~(inv.total < 0 /\ inv.tax <= amount_tolerance)
      /\ "tax_rate_implausible" \in found <=> "crazy_tax" \in inv.errors
      /\ "terms_unacceptable" \in found <=> "overdue_terms" \in inv.errors
    BY <1>1, FieldErrors
<1> HIDE DEF found
<1>3. inv.errors \subseteq Kinds /\ \A k, l \in inv.errors : k = l
    BY <1>1 DEF Generated, Invoices
<1>4. "duplicate_no" \notin inv.errors => inv.invoice_no = f
    BY <1>1 DEF Generated
<1>5. inv.total < 0 => "bad_total" \in inv.errors
    <2>1. inv.subtotal \in Int /\ inv.tax \in Int /\ inv.lines \in Int
        BY <1>1 DEF Generated, Invoices
    <2> QED  BY <1>1, <2>1, SMT DEF Generated
<1>6. inv.errors = {"duplicate_no"} <=> "duplicate_no" \in inv.errors
    BY <1>3
<1>7. Flagged(rs[f]) <=> \/ "missing_fields" \in FindingsOf(f)
                         \/ "lines_vs_subtotal" \in FindingsOf(f)
                         \/ "subtotal_plus_tax" \in FindingsOf(f)
                         \/ "tax_rate_implausible" \in FindingsOf(f)
                         \/ "due_before_issue" \in FindingsOf(f)
                         \/ "terms_unacceptable" \in FindingsOf(f)
                         \/ "duplicate_invoice_no" \in FindingsOf(f)
    BY <1>1 DEF Flagged, Errors, Warnings, RULE_IDS
<1>8. \A r : r \in FindingsOf(f) <=> r \in found \/ (r = "duplicate_invoice_no" /\ Repeats(printed, f))
    BY DEF FindingsOf, found
<1>9. Flagged(rs[f]) <=> \/ "bad_subtotal" \in inv.errors \/ "crazy_tax" \in inv.errors
                         \/ "overdue_terms" \in inv.errors
                         \/ "bad_total" \in inv.errors
                              /\ ~(inv.total < 0 /\ inv.tax <= amount_tolerance)
                         \/ inv.invoice_no # f
    BY <1>1, <1>2, <1>7, <1>8
<1>10. Invisible(f) <=> \/ "duplicate_no" \in inv.errors /\ inv.invoice_no = f
                        \/ inv.total < 0 /\ inv.tax <= amount_tolerance
    BY <1>6 DEF Invisible
<1>11. inv.errors # {} => \/ "bad_total" \in inv.errors \/ "bad_subtotal" \in inv.errors
                          \/ "crazy_tax" \in inv.errors \/ "duplicate_no" \in inv.errors
                          \/ "overdue_terms" \in inv.errors
    BY <1>3 DEF Kinds
<1> HIDE DEF inv
<1>12. \A k, l \in Kinds : k # l => ~(k \in inv.errors /\ l \in inv.errors)
    BY <1>3
<1>13. CASE "bad_total" \in inv.errors
    <2>1. /\ "bad_subtotal" \notin inv.errors /\ "crazy_tax" \notin inv.errors
          /\ "overdue_terms" \notin inv.errors /\ "duplicate_no" \notin inv.errors
        BY <1>12, <1>13 DEF Kinds
    <2> QED  BY <1>4, <1>9, <1>10, <1>13, <2>1, Zenon DEF inv
<1>14. CASE "bad_total" \notin inv.errors
    <2>1. CASE "duplicate_no" \in inv.errors
        <3>1. /\ "bad_subtotal" \notin inv.errors /\ "crazy_tax" \notin inv.errors
              /\ "overdue_terms" \notin inv.errors
            BY <1>12, <2>1 DEF Kinds
        <3> QED  BY <1>5, <1>9, <1>10, <1>14, <2>1, <3>1, Zenon DEF inv
    <2>2. CASE "duplicate_no" \notin inv.errors
        BY <1>4, <1>5, <1>9, <1>10, <1>11, <1>14, <2>2, Zenon DEF inv
    <2> QED  BY <2>1, <2>2
<1> QED  BY <1>13, <1>14

-----------------------------------------------------------------------------
(* The properties of LedgerBatch, for every corpus and every configuration. *)

(* Every variable keeps its type, wherever a job is killed. *)
THEOREM Typed == Spec => []TypeOK
<1>1. IInv => TypeOK
    <2> SUFFICES ASSUME IInv PROVE TypeOK
        OBVIOUS
    <2> USE DEF IInv
    <2>1. /\ Len(printed) \in 0..n_invoices
          /\ Len(printed) - Len(truths) \in {0, 1}
          /\ Len(truths) \in 0..Len(printed)
        BY CorpusAssumption DEF CorpusInv
    <2>2. \A f \in DOMAIN printed : printed[f].invoice_no \in 1..f
        BY DEF CorpusInv, Numbered
    <2>3. truths = SubSeq(printed, 1, Len(truths))
        <3>1. /\ printed \in Seq(Invoices) /\ truths \in Seq(Invoices)
              /\ \A f \in 1..Len(truths) : truths[f] = printed[f]
            BY DEF CorpusInv
        <3>2. /\ SubSeq(printed, 1, Len(truths)) \in Seq(Invoices)
              /\ Len(SubSeq(printed, 1, Len(truths))) = Len(truths)
              /\ \A f \in 1..Len(truths) : SubSeq(printed, 1, Len(truths))[f] = printed[f]
            BY <2>1, <3>1
        <3> QED  BY <3>1, <3>2, SeqEqual
    <2>4. /\ DOMAIN rows = 1..Len(rows)
          /\ \A f \in DOMAIN rows : rows[f].file = f /\ rows[f].findings \subseteq RULE_IDS
        <3>1. IsTable(rows) /\ CorpusInv
            BY DEF JobInv
        <3> QED  BY <3>1, TableIsSeq, RowFacts
    <2>5. listed \in 0..Len(printed) /\ Len(rows) \in 0..listed
        BY <2>1, TableIsSeq DEF JobInv
    <2>6. ledger \in {None, Torn} \/ Len(ledger) \in 1..Len(printed)
        BY <2>1, TableIsSeq DEF LedgerInv, IsTable
    <2> QED
        BY <2>1, <2>2, <2>3, <2>4, <2>5, <2>6 DEF TypeOK, JobInv, SeenInv
<1> QED  BY <1>1, Invariance, PTL

(* Duplicates are flagged in every file but the first, in file order. *)
THEOREM DuplicatesFollow == Spec => []DuplicatesAreLater
<1>1. IInv => DuplicatesAreLater
    <2> SUFFICES ASSUME IInv, NEW f \in DOMAIN rows
                 PROVE  IsDuplicate(rows[f])
                          <=> \E g \in 1..(f - 1) : rows[g].invoice_no = rows[f].invoice_no
        BY DEF DuplicatesAreLater
    <2>1. /\ CorpusInv /\ IsTable(rows) /\ f \in 1..Len(rows) /\ Len(rows) \in Nat
          /\ 1..(f - 1) \subseteq 1..Len(rows)
        BY TableIsSeq DEF IInv, JobInv
    <2>2. \A g \in 1..Len(rows) : rows[g].invoice_no = printed[g].invoice_no
        BY <2>1, RowFacts
    <2>3. IsDuplicate(rows[f]) <=> Repeats(printed, f)
        BY <2>1, RowFacts DEF IsDuplicate
    <2> QED  BY <2>1, <2>2, <2>3 DEF Repeats
<1> QED  BY <1>1, Invariance, PTL

(* Of the rows of one number in a ledger, exactly one is not a duplicate:   *)
(* that of the file the number was made for.                                *)
THEOREM PaidOnce == Spec => []LedgerPaysOnce
<1>1. IInv => LedgerPaysOnce
    <2> SUFFICES ASSUME IInv, ledger \notin {None, Torn}, NEW f \in DOMAIN ledger
                 PROVE  /\ ledger[f].file = f
                        /\ Cardinality({g \in DOMAIN ledger :
                                /\ ledger[g].invoice_no = ledger[f].invoice_no
                                /\ ~IsDuplicate(ledger[g])}) = 1
        BY DEF LedgerPaysOnce
    <2> DEFINE no == printed[f].invoice_no
    <2>1. /\ CorpusInv /\ IsTable(ledger) /\ DOMAIN ledger = 1..Len(ledger)
          /\ Len(ledger) \in Nat
        BY TableIsSeq DEF IInv, LedgerInv
    <2>2. \A g \in 1..Len(ledger) :
            /\ ledger[g].file = g
            /\ ledger[g].invoice_no = printed[g].invoice_no
            /\ IsDuplicate(ledger[g]) <=> printed[g].invoice_no # g
        BY <2>1, RowFacts DEF IsDuplicate
    <2>3. no \in 1..Len(ledger) /\ printed[no].invoice_no = no
        <3>1. Numbered(printed, f)
            BY <2>1, RowFacts
        <3> QED  BY <2>1, <3>1 DEF Numbered
    <2>4. {g \in DOMAIN ledger : /\ ledger[g].invoice_no = ledger[f].invoice_no
                                 /\ ~IsDuplicate(ledger[g])} = {no}
        BY <2>1, <2>2, <2>3
    <2> QED  BY <2>1, <2>2, <2>4, FS_Singleton
<1> QED  BY <1>1, Invariance, PTL

(* An invoice without an injected error gets no error finding. *)
THEOREM CleanInvoicesPass == Spec => []NoFalseAlarm
<1>1. IInv => NoFalseAlarm
    BY TableIsSeq, FlaggedRows DEF NoFalseAlarm, IInv, JobInv
<1> QED  BY <1>1, Invariance, PTL

(* An injected error is flagged unless it cannot be seen on the page. *)
THEOREM ErrorsAreFlagged == Spec => []OnlyInvisibleEscapes
<1>1. IInv => OnlyInvisibleEscapes
    BY TableIsSeq, FlaggedRows DEF OnlyInvisibleEscapes, IInv, JobInv
<1> QED  BY <1>1, Invariance, PTL

(* The ledger changes only when a job has read every file it found, and     *)
(* then to its rows, or is torn by it.                                      *)
THEOREM LedgerChanges == Spec => LedgerOnlyFromFullRun
<1> DEFINE Change == ledger' # ledger =>
                        /\ job \in {"pipeline", "saving"} /\ Len(rows) = listed
                        /\ ledger' \in {Torn, rows}
<1>1. IInv /\ [Next]_vars => [Change]_vars
    <2> SUFFICES ASSUME IInv, Next, ledger' # ledger
                 PROVE  /\ job \in {"pipeline", "saving"} /\ Len(rows) = listed
                        /\ ledger' \in {Torn, rows}
        OBVIOUS
    <2>1. OpenLedger \/ CloseLedger
        BY DEF Next, RenderPdf, WriteTruth, StartPipeline, StartEvaluation, Start, ValidateNext,
               FinishEvaluation, Killed
    <2> QED  BY <2>1 DEF OpenLedger, CloseLedger, IInv, JobInv
<1> QED  BY <1>1, Invariance, PTL DEF Spec, LedgerOnlyFromFullRun

-----------------------------------------------------------------------------
(* What evaluate counts.                                                    *)

(* A set of files, counted file by file *)
LEMMA OneMore ==
    ASSUME NEW k \in Nat, NEW S, NEW T, S \subseteq 1..(k + 1), S \cap (1..k) = T
    PROVE  /\ Cardinality(T) \in Nat
           /\ k + 1 \in S => Cardinality(S) = Cardinality(T) + 1
           /\ k + 1 \notin S => Cardinality(S) = Cardinality(T)
<1>1. IsFiniteSet(T) /\ k + 1 \notin T /\ T \subseteq S
    <2>1. IsFiniteSet(1..k) /\ T \subseteq 1..k
        BY FS_Interval
    <2> QED  BY <2>1, FS_Subset
<1>2. \A x \in S : x \in T \/ x = k + 1
    <2>1. \A x \in 1..(k + 1) : x \in 1..k \/ x = k + 1
        OBVIOUS
    <2> QED  BY <2>1
<1>3. k + 1 \in S => S = T \cup {k + 1}
    BY <1>1, <1>2, Zenon
<1>4. k + 1 \notin S => S = T
    BY <1>1, <1>2, Zenon
<1>5. Cardinality(T) \in Nat /\ Cardinality(T \cup {k + 1}) = Cardinality(T) + 1
    BY <1>1, FS_AddElement, FS_CardinalityType
<1> QED  BY <1>3, <1>4, <1>5, Zenon

(* A field is read as it was generated, but for a total below zero. *)
LEMMA FieldsMatch ==
    ASSUME NEW f, NEW i, Generated(printed[f], i), truths[f] = printed[f], NEW x \in FIELDS
    PROVE  _match(x, f, extract_pdf(f)) <=> ~(x = "total" /\ printed[f].total < 0)
<1> DEFINE fields == extract_pdf(f)
           inv == printed[f]
           page == Page(truths[f])
<1>1. /\ fields.invoice_no.value = inv.invoice_no /\ fields.vendor.value = "vendor"
      /\ fields.invoice_date.value = 0 /\ fields.due_date.value = inv.term
      /\ fields.subtotal.value = inv.subtotal /\ fields.tax.value = inv.tax
      /\ fields.total.value = TotalRead(inv)
    BY ReadOffPage DEF ReadOff, Extracted
<1>2. /\ page.invoice_no = inv.invoice_no /\ page.vendor = "vendor"
      /\ page.invoice_date = 0 /\ page.due_date = inv.term
    BY DEF Page
<1>3. TotalRead(inv) = inv.total <=> ~(inv.total < 0)
    <2>1. inv.total \in Int /\ inv.subtotal \in Int /\ inv.lines \in Int
        BY DEF Generated, Invoices
    <2>2. inv.subtotal >= 800
        BY <2>1, SMT DEF Generated
    <2> QED  BY <2>1, <2>2 DEF TotalRead
<1> HIDE DEF fields, page
<1>4. _match(x, f, fields) <=>
        fields[x].value = IF x \in {"subtotal", "tax", "total"} THEN inv[x] ELSE page[x]
    BY DEF _match, page
<1>5. \/ x = "invoice_no" \/ x = "vendor" \/ x = "invoice_date" \/ x = "due_date"
      \/ x = "subtotal" \/ x = "tax" \/ x = "total"
    BY DEF FIELDS
<1>6. CASE x = "total"
    BY <1>1, <1>3, <1>4, <1>6 DEF fields
<1>7. CASE x = "subtotal" \/ x = "tax"
    BY <1>1, <1>4, <1>7 DEF fields
<1>8. CASE x \in {"invoice_no", "vendor", "invoice_date", "due_date"}
    BY <1>1, <1>2, <1>4, <1>8 DEF fields
<1> QED  BY <1>5, <1>6, <1>7, <1>8

(* The sets that are counted grow file by file, and with no other file. *)
LEMMA CountsGrow ==
    ASSUME NEW k \in Nat
    PROVE  /\ Missed(k + 1) \in SUBSET (1..(k + 1)) /\ Missed(k + 1) \cap (1..k) = Missed(k)
           /\ k + 1 \in Missed(k + 1) <=> printed[k + 1].errors # {} /\ Invisible(k + 1)
           /\ \A x : /\ Misread(x, k + 1) \in SUBSET (1..(k + 1))
                     /\ Misread(x, k + 1) \cap (1..k) = Misread(x, k)
                     /\ k + 1 \in Misread(x, k + 1) <=> x = "total" /\ printed[k + 1].total < 0
<1>1. 1..k \subseteq 1..(k + 1) /\ k + 1 \in 1..(k + 1)
    OBVIOUS
<1>2. /\ Missed(k + 1) \in SUBSET (1..(k + 1)) /\ Missed(k + 1) \cap (1..k) = Missed(k)
      /\ k + 1 \in Missed(k + 1) <=> printed[k + 1].errors # {} /\ Invisible(k + 1)
    BY <1>1 DEF Missed
<1>3. ASSUME NEW x
      PROVE  /\ Misread(x, k + 1) \in SUBSET (1..(k + 1))
             /\ Misread(x, k + 1) \cap (1..k) = Misread(x, k)
             /\ k + 1 \in Misread(x, k + 1) <=> x = "total" /\ printed[k + 1].total < 0
    BY <1>1 DEF Misread
<1> QED  BY <1>2, <1>3

(* The counters after one more file *)
LEMMA ScoreSteps ==
    ASSUME IInv, TallyInv, ValidateNext, job = "evaluate"
    PROVE  TallyInv'
<1> DEFINE k == Len(rows)
           f == Len(rows) + 1
           wrong == printed[f].errors # {}
           missed == printed[f].errors # {} /\ Invisible(f)
           One(p) == IF p THEN 1 ELSE 0
<1>1. /\ k \in Nat /\ f <= Len(truths) /\ Len(printed) \in Nat /\ f \in 1..Len(printed)
      /\ truths[f] = printed[f] /\ Generated(printed[f], f)
      /\ CorpusInv /\ SeenInv /\ IsTable(rows)
    <2>1. k \in Nat /\ IsTable(rows) /\ CorpusInv /\ SeenInv
        BY TableIsSeq DEF IInv, JobInv
    <2>2. f <= listed /\ listed <= Len(truths) /\ listed \in 0..Len(printed)
        BY DEF IInv, JobInv, ValidateNext
    <2>3. Len(printed) \in Nat /\ Len(truths) \in Nat
        BY <2>1 DEF CorpusInv
    <2>4. f \in 1..Len(truths) /\ f \in 1..Len(printed)
        BY <2>1, <2>2, <2>3
    <2> QED  BY <2>1, <2>3, <2>4 DEF CorpusInv
<1>2. FindingsOf(f) \cap Errors # {} <=> wrong /\ ~Invisible(f)
    <2>1. IsTable(Append(rows, RowOf(f))) /\ Len(Append(rows, RowOf(f))) = f
        BY <1>1, AppendedIsTable
    <2>2. f \in 1..f
        BY <1>1
    <2> DEFINE rs == Append(rows, RowOf(f))
    <2>3. Flagged(rs[f]) <=> wrong /\ ~Invisible(f)
        BY <1>1, <2>1, <2>2, FlaggedRows
    <2>4. rs[f].findings = FindingsOf(f)
        BY <1>1, <2>1, <2>2, RowFacts
    <2> QED  BY <2>3, <2>4 DEF Flagged
<1>3. tally' = Scored(f, extract_pdf(f), FindingsOf(f)) /\ job' = job /\ printed' = printed
    BY <1>1, DuplicatesFound DEF ValidateNext, ReadOff, corpusVars
<1>4. tally' = [hits          |-> [x \in FIELDS |-> tally.hits[x] + One(_match(x, f, extract_pdf(f)))],
                error_total   |-> tally.error_total + One(wrong),
                error_caught  |-> tally.error_caught + One(wrong /\ ~missed),
                clean_total   |-> tally.clean_total + One(~wrong),
                clean_flagged |-> tally.clean_flagged + 0]
    BY <1>1, <1>2, <1>3 DEF Scored
<1>5. /\ tally.error_total \in Int /\ tally.error_caught \in Int /\ tally.clean_total \in Int
      /\ tally.clean_flagged = 0 /\ tally.hits \in [FIELDS -> Int]
    BY DEF TallyInv
<1>6. Len(rows)' = k + 1
    BY ValidateSteps
<1>7. /\ tally'.error_total = tally.error_total + One(wrong)
      /\ tally'.error_caught = tally.error_caught + One(wrong /\ ~missed)
      /\ \A x \in FIELDS : tally'.hits[x] = tally.hits[x] + One(_match(x, f, extract_pdf(f)))
    BY <1>4
<1>8. tally' \in [error_total : Int, error_caught : Int, clean_total : Int,
                  clean_flagged : {0}, hits : [FIELDS -> Int]]
    <2>1. [x \in FIELDS |-> tally.hits[x] + One(_match(x, f, extract_pdf(f)))] \in [FIELDS -> Int]
        BY <1>5
    <2> QED  BY <1>4, <1>5, <2>1
<1>9. tally'.error_total - tally'.error_caught = Cardinality(Missed(k + 1))
    <2>1. tally.error_total - tally.error_caught = Cardinality(Missed(k))
        BY DEF TallyInv
    <2>2. Cardinality(Missed(k + 1)) = Cardinality(Missed(k)) + One(missed)
          /\ Cardinality(Missed(k)) \in Nat
        <3>1. /\ Missed(k + 1) \in SUBSET (1..(k + 1)) /\ Missed(k + 1) \cap (1..k) = Missed(k)
              /\ k + 1 \in Missed(k + 1) <=> missed
            BY <1>1, CountsGrow
        <3>2. /\ Cardinality(Missed(k)) \in Nat
              /\ missed => Cardinality(Missed(k + 1)) = Cardinality(Missed(k)) + 1
              /\ ~missed => Cardinality(Missed(k + 1)) = Cardinality(Missed(k))
            BY <1>1, <3>1, OneMore, Zenon
        <3> QED  BY <3>2
    <2> QED  BY <1>5, <1>7, <2>1, <2>2
<1>10. ASSUME NEW x \in FIELDS
       PROVE  (k + 1) - tally'.hits[x] = Cardinality(Misread(x, k + 1))
    <2>1. k - tally.hits[x] = Cardinality(Misread(x, k))
        BY DEF TallyInv
    <2>2. Cardinality(Misread(x, k + 1)) = Cardinality(Misread(x, k))
                        + One(x = "total" /\ printed[f].total < 0)
          /\ Cardinality(Misread(x, k)) \in Nat
        <3>1. /\ Misread(x, k + 1) \in SUBSET (1..(k + 1))
              /\ Misread(x, k + 1) \cap (1..k) = Misread(x, k)
              /\ k + 1 \in Misread(x, k + 1) <=> x = "total" /\ printed[f].total < 0
            BY <1>1, CountsGrow
        <3>2. /\ Cardinality(Misread(x, k)) \in Nat
              /\ k + 1 \in Misread(x, k + 1)
                    => Cardinality(Misread(x, k + 1)) = Cardinality(Misread(x, k)) + 1
              /\ k + 1 \notin Misread(x, k + 1)
                    => Cardinality(Misread(x, k + 1)) = Cardinality(Misread(x, k))
            BY <1>1, <3>1, OneMore, Zenon
        <3> QED  BY <3>1, <3>2
    <2>3. _match(x, f, extract_pdf(f)) <=> ~(x = "total" /\ printed[f].total < 0)
        BY <1>1, FieldsMatch
    <2>4. tally.hits[x] \in Int
        BY <1>5
    <2> QED  BY <1>1, <1>7, <2>1, <2>2, <2>3, <2>4
<1>11. Missed(Len(rows))' = Missed(k + 1)
    BY <1>3, <1>6 DEF Missed, Invisible
<1>12. ASSUME NEW x PROVE Misread(x, Len(rows))' = Misread(x, k + 1)
    BY <1>3, <1>6 DEF Misread
<1>13. tally'.error_total - tally'.error_caught = Cardinality(Missed(Len(rows)))'
    BY <1>9, <1>11
<1>14. \A x \in FIELDS : Len(rows)' - tally'.hits[x] = Cardinality(Misread(x, Len(rows)))'
    BY <1>6, <1>10, <1>12
<1> QED  BY <1>8, <1>13, <1>14 DEF TallyInv

(* Without an evaluation there is nothing to count. *)
LEMMA NothingCounted == Idle => TallyInv
<1> SUFFICES ASSUME Idle PROVE TallyInv
    OBVIOUS
<1>1. tally \in [error_total : Int, error_caught : Int, clean_total : Int,
                 clean_flagged : {0}, hits : [FIELDS -> Int]]
    BY DEF Idle, NoTally
<1> QED  BY <1>1 DEF TallyInv, Idle

(* Every step keeps the tallies right. *)
LEMMA TallySteps == IInv /\ TallyInv /\ [Next]_vars => TallyInv'
<1> SUFFICES ASSUME IInv, TallyInv, [Next]_vars PROVE TallyInv'
    OBVIOUS
<1>1. Kept /\ Len(rows) \in Nat /\ Len(rows) <= Len(printed)
    <2>1. Kept /\ IsTable(rows)
        BY CorpusSteps DEF IInv, JobInv
    <2> QED  BY <2>1, TableIsSeq DEF IsTable
<1>2. CASE Exit
    <2>1. Idle'
        BY <1>2 DEF Exit, Idle
    <2>2. (Idle => TallyInv)'
        BY NothingCounted, PTL
    <2> QED  BY <2>1, <2>2
<1>3. CASE StartPipeline \/ StartEvaluation
    <2>1. job = "idle" /\ UNCHANGED <<rows, tally>>
        BY <1>3 DEF StartPipeline, StartEvaluation, Start
    <2>2. rows = <<>> /\ tally = NoTally
        BY <2>1 DEF IInv, JobInv
    <2>3. Missed(Len(rows))' = {} /\ \A x : Misread(x, Len(rows))' = {}
        BY <2>1, <2>2 DEF Missed, Misread
    <2>4. Cardinality({}) = 0
        BY FS_EmptySet
    <2>5. /\ tally.error_total = 0 /\ tally.error_caught = 0
          /\ \A x \in FIELDS : tally.hits[x] = 0
        BY <2>2 DEF NoTally
    <2>6. tally'.error_total - tally'.error_caught = Cardinality(Missed(Len(rows)))'
        BY <2>1, <2>3, <2>4, <2>5
    <2>7. ASSUME NEW x \in FIELDS
          PROVE  Len(rows)' - tally'.hits[x] = Cardinality(Misread(x, Len(rows)))'
        <3>1. Len(rows)' = 0 /\ tally'.hits[x] = 0
            BY <2>1, <2>2, <2>5
        <3>2. Cardinality(Misread(x, Len(rows)))' = 0
            BY <2>3, <2>4, Zenon
        <3> QED  BY <3>1, <3>2
    <2> QED  BY <2>1, <2>6, <2>7 DEF TallyInv
<1>4. CASE ValidateNext
    <2>1. CASE job = "evaluate"
        BY <1>4, <2>1, ScoreSteps
    <2>2. CASE job # "evaluate"
        BY <1>4, <2>2 DEF ValidateNext, TallyInv
    <2> QED  BY <2>1, <2>2
<1>5. CASE OpenLedger
    BY <1>5 DEF OpenLedger, TallyInv
<1>6. CASE RenderPdf \/ WriteTruth \/ UNCHANGED vars
    <2>1. UNCHANGED <<job, rows, tally>>
        BY <1>6 DEF RenderPdf, WriteTruth, vars, jobVars
    <2>2. \A f \in 1..Len(rows) : printed'[f] = printed[f]
        BY <1>1 DEF Kept
    <2>3. Missed(Len(rows))' = Missed(Len(rows))
        BY <2>1, <2>2 DEF Missed, Invisible
    <2>4. ASSUME NEW x PROVE Misread(x, Len(rows))' = Misread(x, Len(rows))
        BY <2>1, <2>2 DEF Misread
    <2> QED  BY <2>1, <2>3, <2>4 DEF TallyInv
<1> QED
    BY <1>2, <1>3, <1>4, <1>5, <1>6 DEF Next, FinishEvaluation, CloseLedger, Killed

(* So they are right in every reachable state. *)
LEMMA TallyInvariance == Spec => []TallyInv
<1>1. Init => TallyInv
    BY NothingCounted DEF Init, Idle
<1> QED  BY <1>1, TallySteps, Invariance, PTL DEF Spec

(* What evaluate reports as missed is the number of invisible errors, and   *)
(* it never reports a false alarm.                                          *)
THEOREM RecallIsRight == Spec => []RecallMissesInvisible
<1>1. IInv /\ TallyInv => RecallMissesInvisible
    <2> SUFFICES ASSUME IInv, TallyInv, job = "evaluate"
                 PROVE  /\ tally.clean_flagged = 0
                        /\ tally.error_total - tally.error_caught =
                             Cardinality({f \in DOMAIN rows : printed[f].errors # {} /\ Invisible(f)})
        BY DEF RecallMissesInvisible
    <2>1. DOMAIN rows = 1..Len(rows)
        BY TableIsSeq DEF IInv, JobInv
    <2>2. {f \in DOMAIN rows : printed[f].errors # {} /\ Invisible(f)} = Missed(Len(rows))
        BY <2>1 DEF Missed
    <2> QED  BY <2>2 DEF TallyInv
<1> QED  BY <1>1, Invariance, TallyInvariance, PTL

(* The only field that is read wrong is a total below zero. *)
THEOREM AccuracyIsRight == Spec => []OnlyNegativeTotalsAreMissed
<1>1. IInv /\ TallyInv => OnlyNegativeTotalsAreMissed
    <2> SUFFICES ASSUME IInv, TallyInv, job = "evaluate", NEW x \in FIELDS
                 PROVE  Len(rows) - tally.hits[x] =
                            IF x # "total" THEN 0
                            ELSE Cardinality({f \in DOMAIN rows : printed[f].total < 0})
        BY DEF OnlyNegativeTotalsAreMissed
    <2>1. DOMAIN rows = 1..Len(rows)
        BY TableIsSeq DEF IInv, JobInv
    <2>2. Len(rows) - tally.hits[x] = Cardinality(Misread(x, Len(rows)))
        BY DEF TallyInv
    <2>3. CASE x = "total"
        <3>1. Misread(x, Len(rows)) = {f \in DOMAIN rows : printed[f].total < 0}
            BY <2>1, <2>3 DEF Misread
        <3> QED  BY <2>2, <2>3, <3>1
    <2>4. CASE x # "total"
        <3>1. Misread(x, Len(rows)) = {}
            BY <2>4 DEF Misread
        <3> QED  BY <2>2, <2>4, <3>1, FS_EmptySet
    <2> QED  BY <2>3, <2>4
<1> QED  BY <1>1, Invariance, TallyInvariance, PTL

-----------------------------------------------------------------------------
(* LedgerRoutes: what the tab shows as flagged is detailed by the ledger it *)
(* finds next, whichever jobs ran in between.                               *)

(* The files of the corpus that any job finds something in *)
Noted == {f \in 1..Len(printed) : RowOf(f).findings # {}}

(* A table shows files with findings, all of them among the files of the    *)
(* ledger that can be read and of the one being computed.  A pipeline lists *)
(* at least the files of the ledger it replaces.                            *)
ShownInv ==
    /\ Readable /\ job \in {"pipeline", "saving"} => Len(ledger) <= listed
    /\ shown # None =>
          /\ shown \subseteq Noted
          /\ Readable => shown \subseteq 1..Len(ledger)
          /\ job \in {"pipeline", "saving"} => shown \subseteq 1..listed

(* The reads change nothing that the jobs see. *)
LEMMA ServedStepIsStep == [ServedNext]_<<vars, shown>> => [Next]_vars
BY DEF ServedNext, GetLedger, GetFindings

(* The two routes only read: to the jobs, the served ledger is the batch's. *)
THEOREM ServedIsLedgerBatch == ServedSpec => Spec
<1>1. ServedInit => Init
    BY DEF ServedInit
<1> QED  BY <1>1, ServedStepIsStep, PTL DEF ServedSpec, Spec

(* The table that GET /ledger gives *)
LEMMA ShownRows ==
    ASSUME IInv, Readable, NEW n \in 0..Len(ledger)
    PROVE  /\ WithFindings(SubSeq(ledger, 1, n)) = {f \in 1..n : RowOf(f).findings # {}}
           /\ Len(ledger) \in Nat /\ Len(ledger) <= Len(printed) /\ Len(printed) \in Nat
<1>1. /\ CorpusInv /\ IsTable(ledger)
      /\ ledger \in Seq({RowOf(f) : f \in 1..Len(ledger)})
      /\ Len(ledger) \in Nat
      /\ \A f \in 1..Len(ledger) : ledger[f] = RowOf(f) /\ ledger[f].file = f
    <2>1. CorpusInv /\ IsTable(ledger)
        BY DEF IInv, LedgerInv, Readable
    <2> QED  BY <2>1, TableIsSeq, RowFacts
<1>2. Len(ledger) <= Len(printed) /\ Len(printed) \in Nat
    BY <1>1 DEF IsTable, CorpusInv
<1> DEFINE head == SubSeq(ledger, 1, n)
<1>3. /\ DOMAIN head = 1..n
      /\ \A f \in 1..n : head[f] = RowOf(f) /\ head[f].file = f
    <2>1. \A S : \A s \in Seq(S) : n \in 0..Len(s) =>
             DOMAIN SubSeq(s, 1, n) = 1..n /\ \A f \in 1..n : SubSeq(s, 1, n)[f] = s[f]
        OBVIOUS
    <2>2. DOMAIN head = 1..n /\ \A f \in 1..n : head[f] = ledger[f]
        BY <1>1, <2>1
    <2>3. 1..n \subseteq 1..Len(ledger)
        BY <1>1
    <2> QED  BY <1>1, <2>2, <2>3
<1> HIDE DEF head
<1>4. WithFindings(head) = {f \in 1..n : RowOf(f).findings # {}}
    BY <1>3 DEF WithFindings
<1> QED  BY <1>1, <1>2, <1>4 DEF head

(* What the tab has on display stays detailed through every job. *)
LEMMA ShownSteps == IInv /\ ShownInv /\ [ServedNext]_<<vars, shown>> => ShownInv'
<1> SUFFICES ASSUME IInv, ShownInv, [ServedNext]_<<vars, shown>> PROVE ShownInv'
    OBVIOUS
<1>1. [Next]_vars /\ Kept
    BY ServedStepIsStep, CorpusSteps DEF IInv
<1>2. /\ Len(printed) \in Nat /\ Len(printed)' \in Nat /\ Len(printed) <= Len(printed)'
      /\ listed \in 0..Len(printed)
    BY <1>1 DEF Kept, IInv, JobInv
<1>3. Noted \subseteq 1..Len(printed) /\ Noted \subseteq Noted'
    <2>1. \A f \in 1..Len(printed) : RowOf(f)' = RowOf(f) /\ f \in 1..Len(printed)'
        BY <1>1, <1>2, RowStays
    <2> QED  BY <2>1 DEF Noted
<1>4. CASE GetFindings
    BY <1>4 DEF GetFindings, ShownInv, vars, jobVars, Readable
<1>5. CASE GetLedger
    <2>1. PICK n : n = IF limit < Len(ledger) THEN limit ELSE Len(ledger)
        OBVIOUS
    <2>2. Readable /\ shown' = WithFindings(SubSeq(ledger, 1, n)) /\ UNCHANGED vars
        BY <1>5, <2>1 DEF GetLedger
    <2>3. Len(ledger) \in Nat
        BY <2>2, ShownRows, TableIsSeq DEF IInv, LedgerInv, Readable
    <2>4. n \in 0..Len(ledger)
        BY <2>1, <2>3, LimitAssumption
    <2>5. /\ shown' = {f \in 1..n : RowOf(f).findings # {}}
          /\ Len(ledger) <= Len(printed)
        BY <2>2, <2>4, ShownRows
    <2>6. shown' \subseteq Noted /\ shown' \subseteq 1..Len(ledger)
        BY <1>2, <2>3, <2>4, <2>5 DEF Noted
    <2>7. UNCHANGED <<printed, job, listed, ledger>> /\ Noted' = Noted
        <3>1. UNCHANGED <<printed, job, listed, ledger>>
            BY <2>2 DEF vars, corpusVars, jobVars
        <3>2. \A f \in 1..Len(printed) : RowOf(f)' = RowOf(f)
            BY <1>1, RowStays
        <3> QED  BY <3>1, <3>2 DEF Noted
    <2>8. job \in {"pipeline", "saving"} => shown' \subseteq 1..listed
        BY <1>2, <2>2, <2>3, <2>6 DEF ShownInv
    <2> QED  BY <2>6, <2>7, <2>8 DEF ShownInv, Readable
<1>6. CASE UNCHANGED shown /\ UNCHANGED <<job, listed, ledger>>
    BY <1>3, <1>6 DEF ShownInv, Readable
<1>7. CASE UNCHANGED shown /\ (StartPipeline \/ StartEvaluation)
    <2>1. \/ job' = "evaluate"
          \/ job' = "pipeline" /\ listed' = Len(printed)
        BY <1>7 DEF StartPipeline, StartEvaluation, Start
    <2>2. ledger' = ledger
        BY <1>7 DEF StartPipeline, StartEvaluation, Start
    <2>3. Readable => Len(ledger) <= Len(printed)
        BY <1>2 DEF Readable, IInv, LedgerInv, IsTable
    <2> QED  BY <1>3, <1>7, <2>1, <2>2, <2>3 DEF ShownInv, Readable
<1>8. CASE UNCHANGED shown /\ OpenLedger
    BY <1>3, <1>8 DEF OpenLedger, ShownInv, Readable
<1>9. CASE UNCHANGED shown /\ CloseLedger
    <2>1. job = "saving" /\ job' = "idle" /\ ledger' = rows /\ Len(rows) = listed
        BY <1>9 DEF CloseLedger, Exit, IInv, JobInv
    <2> QED  BY <1>3, <1>9, <2>1 DEF ShownInv
<1>10. CASE UNCHANGED shown /\ Exit /\ UNCHANGED ledger
    BY <1>3, <1>10 DEF Exit, ShownInv, Readable
<1>11. UNCHANGED shown => \/ UNCHANGED <<job, listed, ledger>>
                          \/ StartPipeline \/ StartEvaluation \/ OpenLedger \/ CloseLedger
                          \/ Exit /\ UNCHANGED ledger
    BY <1>1 DEF Next, vars, jobVars, RenderPdf, WriteTruth, ValidateNext, FinishEvaluation, Killed
<1>12. UNCHANGED shown \/ GetLedger \/ GetFindings
    BY DEF ServedNext
<1> QED
    BY <1>4, <1>5, <1>6, <1>7, <1>8, <1>9, <1>10, <1>11, <1>12

(* Every file counted as flagged has its findings in the ledger that is     *)
(* read next, whichever ledgers were written in between.                    *)
THEOREM DetailsAreThere == ServedSpec => []TableIsDetailed
<1>1. ServedInit => ShownInv
    BY DEF ServedInit, Init, ShownInv, Readable
<1>2. IInv /\ ShownInv => TableIsDetailed
    <2> SUFFICES ASSUME IInv, ShownInv, shown # None, Readable, NEW f \in shown
                 PROVE  f \in WithFindings(ledger)
        BY DEF TableIsDetailed
    <2>1. f \in 1..Len(ledger) /\ RowOf(f).findings # {}
        BY DEF ShownInv, Noted
    <2>2. CorpusInv /\ IsTable(ledger)
        BY DEF IInv, LedgerInv, Readable
    <2>3. f \in DOMAIN ledger /\ ledger[f] = RowOf(f) /\ ledger[f].file = f
        BY <2>1, <2>2, TableIsSeq, RowFacts
    <2> QED  BY <2>1, <2>3 DEF WithFindings
<1> QED
    BY <1>1, <1>2, ShownSteps, ServedIsLedgerBatch, Invariance, PTL DEF ServedSpec
================================================================================
