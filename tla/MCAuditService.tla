--------------------------- MODULE MCAuditService ---------------------------
(* AuditService for TLC: an invoice at the tolerance with long terms, and   *)
(* one that can hardly be read, over the whole policy, the policy without a *)
(* clause, and none.                                                        *)
EXTENDS AuditService

Amounts(subtotal, tax, total) ==
    << [label |-> "Subtotal", value |-> subtotal], [label |-> "Tax", value |-> tax],
       [label |-> "Total Due", value |-> total] >>

(* 1.00 + 0.00 and 1.02: in floating point more than 0.02 apart. *)
AtTolerance == [
    ties |-> {"subtotal_plus_tax"}, invoice_no |-> 1, vendor |-> "vendor",
    invoice_date |-> 0, due_date |-> 90, n_lines |-> 1, rows |-> {100},
    lines_sum |-> 100, amounts |-> Amounts(100, 0, 102)]

HardlyRead == [
    ties |-> {}, invoice_no |-> None, vendor |-> "vendor", invoice_date |-> None,
    due_date |-> None, n_lines |-> 0, rows |-> {}, lines_sum |-> None,
    amounts |-> <<[label |-> "Subtotal", value |-> 100]>>]

MCPages == {AtTolerance, HardlyRead}
(* The last is what a first query finds while the documents are being written. *)
MCIndexes == {{}, Clauses, Clauses \ {"dispute"}, {"capitalization"}}
==============================================================================
