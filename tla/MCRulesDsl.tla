----------------------------- MODULE MCRulesDsl -----------------------------
(* RulesDsl for TLC: small trees over two fields and the number zero.       *)
EXTENDS RulesDsl

subtotal == FieldRef("subtotal")
tax == FieldRef("tax")
zero == Literal(Float(0, 1))

Difference == BinaryOp("-", subtotal, tax)
Quotients == {BinaryOp("/", tax, b) : b \in {subtotal, zero}}
Sizes == {UnaryOp("abs", Difference), BinaryOp("+", Difference, IsNotNull("tax"))}

(* Quotients by zero and by a field that may be missing or zero, alone,     *)
(* compared with a field, and negated.                                      *)
Compared ==
    {BinaryOp(op, q, tax) : op \in {"<", "abs_diff_lte"}, q \in Quotients}
        \cup {BinaryOp("!=", IsNotNull("tax"), q) : q \in Quotients}
        \cup {BinaryOp("==", s, subtotal) : s \in Sizes}

(* Operators that the interpreter does not know, behind a missing field and *)
(* where a condition is decided before it reaches them.                     *)
Unknown == {
    BinaryOp("%", subtotal, tax),
    UnaryOp("sqrt", Difference),
    ConditionNode("or", <<BinaryOp(">=", tax, zero),
                          ConditionNode("not", <<IsNotNull("tax")>>)>>)}

MCTrees ==
    Quotients \cup Sizes \cup Compared \cup Unknown
        \cup {BinaryOp("/", zero, Difference), BinaryOp("/", tax, Difference)}
        \cup {UnaryOp("not", c) : c \in {d \in Compared : d.op # "<"}}
        \cup {BinaryOp("*", Difference, q) : q \in Quotients}
        \cup {ConditionNode("implies", <<IsNotNull("tax"), q>>) : q \in Quotients}
        \cup {ConditionNode("is_null", <<q>>) : q \in Quotients}

(* The other two fields matter to the engine's own rules only.              *)
TwoFields == program # rules => context.total = None /\ context.lines_sum = None

(* The nodes of a tree, and what they read.                                 *)
RECURSIVE NodesOf(_)
NodesOf(n) == {n} \cup UNION {NodesOf(n.operands[i]) : i \in DOMAIN n.operands}

RECURSIVE FieldsOf(_)
FieldsOf(n) ==
    CASE n.node = "FieldRef" -> {n.name}
      [] n.node \in {"UnaryOp", "BinaryOp"} ->
            UNION {FieldsOf(n.operands[i]) : i \in DOMAIN n.operands}
      [] OTHER -> {}

MCReads ==
    [n \in UNION {NodesOf(t) : t \in MCTrees \cup {rules[i].condition : i \in DOMAIN rules}}
        |-> FieldsOf(n)]
=============================================================================
