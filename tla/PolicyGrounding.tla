--------------------------- MODULE PolicyGrounding ---------------------------
(***************************************************************************)
(* gateway/grounding.py on the clauses of rag/policies.py: which clause a  *)
(* finding may be tied to.                                                 *)
(*                                                                         *)
(* A query is the set of its words, and only how many of them a clause     *)
(* contains matters.  Which clause of the index comes first depends on the *)
(* embedding model, so any may.                                            *)
(***************************************************************************)
EXTENDS ValidationRules

Clauses == {"approval", "terms", "duplicates", "rates", "zero_rated",
            "onboarding", "dispute", "capitalization"}

(* Distinct words of the query of each rule; the other rules have none. *)
POLICY_QUERIES == [
    lines_vs_subtotal |-> 9, subtotal_plus_tax |-> 7, tax_rate_implausible |-> 8,
    terms_unusual |-> 8, terms_unacceptable |-> 8, due_before_issue |-> 7,
    duplicate_invoice_no |-> 7]

(* How many of these words each clause contains, where it contains any. *)
Words == {
    <<"lines_vs_subtotal", "dispute", 8>>, <<"lines_vs_subtotal", "zero_rated", 1>>,
    <<"subtotal_plus_tax", "dispute", 5>>, <<"subtotal_plus_tax", "onboarding", 1>>,
    <<"tax_rate_implausible", "rates", 6>>, <<"tax_rate_implausible", "approval", 1>>,
    <<"tax_rate_implausible", "zero_rated", 1>>,
    <<"terms_unusual", "terms", 8>>, <<"terms_unusual", "approval", 1>>,
    <<"terms_unusual", "onboarding", 1>>, <<"terms_unusual", "dispute", 1>>,
    <<"terms_unacceptable", "terms", 8>>, <<"terms_unacceptable", "onboarding", 1>>,
    <<"terms_unacceptable", "dispute", 1>>,
    <<"due_before_issue", "terms", 5>>, <<"due_before_issue", "rates", 1>>,
    <<"due_before_issue", "onboarding", 1>>,
    <<"duplicate_invoice_no", "duplicates", 7>>, <<"duplicate_invoice_no", "rates", 1>>,
    <<"duplicate_invoice_no", "dispute", 2>>}

(* The lexical gate asks for one common word. *)
passes_gate_lexical(rule, top) == \E n \in 1..9 : <<rule, top, n>> \in Words

(* The coverage gate asks for half of the query's words. *)
passes_gate(rule, top) ==
    \E n \in 1..9 : <<rule, top, n>> \in Words /\ 2 * n >= POLICY_QUERIES[rule]

Outcomes == {"cited", "gated", "unmapped", "no_docs"}

(* ground_finding, given the first hit, None without documents *)
ground_finding(rule, top) ==
    IF rule \notin DOMAIN POLICY_QUERIES THEN "unmapped"
    ELSE IF top = None THEN "no_docs"
    ELSE IF passes_gate(rule, top) THEN "cited" ELSE "gated"

(* The clause that does govern each rule (scripts/grounding_eval.py). *)
EXPECTED == [
    lines_vs_subtotal |-> "dispute", subtotal_plus_tax |-> "dispute",
    tax_rate_implausible |-> "rates", terms_unusual |-> "terms",
    terms_unacceptable |-> "terms", due_before_issue |-> "terms",
    duplicate_invoice_no |-> "duplicates"]
==============================================================================
