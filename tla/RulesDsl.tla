------------------------------- MODULE RulesDsl -------------------------------
(***************************************************************************)
(* rules_engine/: rules as syntax trees, and the interpreter that walks    *)
(* them.  One behavior is one evaluate() on one invoice: of the engine's   *)
(* three rules, which are meant to give the same verdicts as the Python    *)
(* validators of ValidationRules, or of the rule of an author.             *)
(*                                                                         *)
(* eval() is recursive: here its calls are frames of a stack, with what    *)
(* the operands of each node have returned so far.                         *)
(*                                                                         *)
(* Numbers are fractions and arithmetic is exact.  Where floating point is *)
(* not, on a difference exactly at the tolerance, both engines evaluate    *)
(* the same floating-point expression, so inv.ties is empty here.          *)
(***************************************************************************)
EXTENDS ValidationRules, Sequences

CONSTANTS
    NaN,        \* math.nan
    Values,     \* cents a field may hold
    Trees,      \* conditions an author may write
    Reads       \* of each node: the fields it reads, but for a condition's

VARIABLES
    context,    \* the fields of the invoice
    program,    \* the rules to evaluate
    current,    \* the rule under way
    stack,      \* the calls of eval() under way, the innermost last
    findings,   \* the rules that did not pass
    returned    \* <<node, value>>: history of what eval() returned

vars == <<context, program, current, stack, findings, returned>>

Fields == {"subtotal", "tax", "total", "lines_sum"}

(* What eval() returns: None, NaN or a number, of which a bool is one.      *)
Number(num, den, type) == [num |-> num, den |-> den, type |-> type]
Float(num, den) == Number(num, den, "float")
Truth(b) == Number(IF b THEN 1 ELSE 0, 1, "bool")
True == Truth(TRUE)

Fractions == [num : Int, den : Nat \ {0}, type : {"float", "int", "bool"}]
Numbers == {NaN} \cup Fractions

(* The nodes of the tree *)
Literal(value) == [node |-> "Literal", value |-> value, operands |-> <<>>]
FieldRef(name) == [node |-> "FieldRef", name |-> name, operands |-> <<>>]
UnaryOp(op, expr) == [node |-> "UnaryOp", op |-> op, operands |-> <<expr>>]
BinaryOp(op, left, right) ==
    [node |-> "BinaryOp", op |-> op, operands |-> <<left, right>>]
ConditionNode(op, operands) ==
    [node |-> "ConditionNode", op |-> op, operands |-> operands]

Nodes == DOMAIN Reads

-----------------------------------------------------------------------------
(* One operator of the interpreter, on what its operands returned.          *)

IsFloat(v) == v = NaN \/ v.type = "float"

Type(l, r) == IF "float" \in {l.type, r.type} THEN "float" ELSE "int"

Plus(l, r) == Number(l.num * r.den + r.num * l.den, l.den * r.den, Type(l, r))
Minus(l, r) == Number(l.num * r.den - r.num * l.den, l.den * r.den, Type(l, r))
Times(l, r) == Number(l.num * r.num, l.den * r.den, Type(l, r))
Over_signed(l, r) ==
    IF r.num = 0 THEN NaN ELSE Float(l.num * r.den, l.den * r.num)

Over(l, r) ==
    IF r.num = 0 THEN NaN
    ELSE IF r.num > 0 THEN Float(l.num * r.den, l.den * r.num)
    ELSE Float(-(l.num * r.den), l.den * (-r.num))
Absolute(l) == Number(Distance(l.num, 0), l.den, Type(l, l))
AtMost(l, r) == l.num * r.den <= r.num * l.den

tolerance == Float(amount_tolerance, 100)

abs_diff_lte_strictly(l, r) == ~AtMost(tolerance, Absolute(Minus(l, r)))

abs_diff_lte(l, r) == AtMost(Absolute(Minus(l, r)), tolerance)

(* == has a tolerance when its left operand is a float.                     *)
Equal(l, r) ==
    IF IsFloat(l) THEN abs_diff_lte(l, r) ELSE AtMost(l, r) /\ AtMost(r, l)

Comparisons == {"==", "!=", "<", "<=", ">", ">=", "abs_diff_lte"}

Compare(op, l, r) ==
    CASE op = "==" -> Equal(l, r)
      [] op = "!=" -> ~Equal(l, r)
      [] op = "<"  -> ~AtMost(r, l)
      [] op = "<=" -> AtMost(l, r)
      [] op = ">"  -> ~AtMost(l, r)
      [] op = ">=" -> AtMost(r, l)
      [] op = "abs_diff_lte" -> abs_diff_lte(l, r)

Arithmetic == {"+", "-", "*", "/"}

Compute(op, l, r) ==
    CASE op = "+" -> Plus(l, r)
      [] op = "-" -> Minus(l, r)
      [] op = "*" -> Times(l, r)
      [] op = "/" -> Over(l, r)

(* A comparison with NaN is false, but for != without a tolerance.          *)
OnNaN(op, l) == IF op \in Arithmetic THEN NaN ELSE Truth(op = "!=" /\ ~IsFloat(l))

Binary_null_is_zero(op, l, r) ==
    LET Zero(v) == IF v = None THEN Float(0, 1) ELSE v
    IN  IF NaN \in {l, r} THEN OnNaN(op, Zero(l))
        ELSE IF op \in Arithmetic THEN Compute(op, Zero(l), Zero(r))
        ELSE Truth(Compare(op, Zero(l), Zero(r)))

Binary(op, l, r) ==
    IF None \in {l, r} THEN None
    ELSE IF NaN \in {l, r} THEN OnNaN(op, l)
    ELSE IF op \in Arithmetic THEN Compute(op, l, r)
    ELSE Truth(Compare(op, l, r))

(* bool(value) in Python *)
IsTruthy(v) == v # None /\ (v = NaN \/ v.num # 0)

Unary(op, v) ==
    IF v = None THEN None
    ELSE IF op = "not" THEN Truth(~IsTruthy(v))
    ELSE IF v = NaN THEN NaN ELSE Absolute(v)

Connectives == {"is_not_null", "is_null", "and", "or", "implies"}

Condition(op, args) ==
    CASE op = "is_not_null" -> args[1] # None
      [] op = "is_null"     -> args[1] = None
      [] op = "and"         -> \A i \in DOMAIN args : args[i] = True
      [] op = "or"          -> \E i \in DOMAIN args : args[i] = True
      [] op = "implies"     -> IsTruthy(args[1]) => IsTruthy(args[2])

Result(node, args, ctx) ==
    CASE node.node = "Literal" -> node.value
      [] node.node = "FieldRef" ->
            IF ctx[node.name] = None THEN None ELSE Float(ctx[node.name], 100)
      [] node.node = "UnaryOp" -> Unary(node.op, args[1])
      [] node.node = "BinaryOp" -> Binary(node.op, args[1], args[2])
      [] node.node = "ConditionNode" -> Truth(Condition(node.op, args))

(* The operand that decides a condition is the last it evaluates.           *)
Decided(op, value) ==
    \/ op = "and" /\ value # True
    \/ op = "or" /\ value = True
    \/ op = "implies" /\ ~IsTruthy(value)

Finished(node, args) ==
    \/ Len(args) = Len(node.operands)
    \/ node.node = "ConditionNode" /\ args # <<>> /\ Decided(node.op, args[Len(args)])

(* An operator the interpreter does not know is an EvaluationError; "not"   *)
(* as a condition is one.  None comes first.                                *)
Raises(node, args) ==
    \/ node.node = "ConditionNode" /\ node.op \notin Connectives
    \/ /\ Len(args) = Len(node.operands)
       /\ \A i \in DOMAIN args : args[i] # None
       /\ \/ node.node = "UnaryOp" /\ node.op \notin {"abs", "not"}
          \/ node.node = "BinaryOp" /\ node.op \notin Arithmetic \cup Comparisons

-----------------------------------------------------------------------------
(* The engine's rules.                                                      *)

IsNotNull(name) == ConditionNode("is_not_null", <<FieldRef(name)>>)

rule_lines_subtotal ==
    ConditionNode("implies", <<
        ConditionNode("and", <<IsNotNull("subtotal"), IsNotNull("lines_sum")>>),
        BinaryOp("abs_diff_lte", FieldRef("lines_sum"), FieldRef("subtotal")) >>)

rule_subtotal_tax ==
    ConditionNode("implies", <<
        ConditionNode("and", <<IsNotNull("subtotal"), IsNotNull("tax"), IsNotNull("total")>>),
        BinaryOp("abs_diff_lte", BinaryOp("+", FieldRef("subtotal"), FieldRef("tax")),
                                 FieldRef("total")) >>)

rule_tax_rate ==
    ConditionNode("implies", <<
        ConditionNode("and", <<IsNotNull("subtotal"), IsNotNull("tax"),
                               BinaryOp(">", FieldRef("subtotal"), Literal(Float(0, 1)))>>),
        BinaryOp("<=", BinaryOp("/", FieldRef("tax"), FieldRef("subtotal")),
                       Literal(Float(max_tax_rate, 100))) >>)

RuleNode(rule_id, condition) == [rule_id |-> rule_id, condition |-> condition]

rules == <<
    RuleNode("lines_vs_subtotal", rule_lines_subtotal),
    RuleNode("subtotal_plus_tax", rule_subtotal_tax),
    RuleNode("tax_rate_implausible", rule_tax_rate)>>

(* The nodes are those of the rules and of the trees, with the operands     *)
(* their operators take.                                                    *)
ReadsOf(n) ==
    CASE n.node = "FieldRef" -> {n.name}
      [] n.node \in {"UnaryOp", "BinaryOp"} ->
            UNION {Reads[n.operands[i]] : i \in DOMAIN n.operands}
      [] OTHER -> {}

IsNode(n) ==
    CASE n.node = "Literal"  -> n.value \in Numbers /\ Len(n.operands) = 0
      [] n.node = "FieldRef" -> n.name \in Fields /\ Len(n.operands) = 0
      [] n.node = "UnaryOp"  -> Len(n.operands) = 1
      [] n.node = "BinaryOp" -> Len(n.operands) = 2
      [] n.node = "ConditionNode" ->
            /\ n.op \in {"is_null", "is_not_null"} => Len(n.operands) = 1
            /\ n.op = "implies" => Len(n.operands) = 2
      [] OTHER -> FALSE

ASSUME TreesAssumption ==
    /\ None \notin Numbers
    /\ NaN \notin Fractions
    /\ Values \subseteq Int
    /\ Trees \subseteq Nodes
    /\ {rule_lines_subtotal, rule_subtotal_tax, rule_tax_rate} \subseteq Nodes
    /\ \A n \in Nodes :
          n.operands \in Seq(Nodes) /\ IsNode(n) /\ Reads[n] = ReadsOf(n)

-----------------------------------------------------------------------------
(* evaluate(): rule after rule, each from the call of its condition.        *)

Programs == {rules} \cup {<<RuleNode("author", t)>> : t \in Trees}

Frame(node) == [node |-> node, args |-> <<>>]

Init ==
    /\ context \in [Fields -> Values \cup {None}]
    /\ program \in Programs
    /\ current = 1
    /\ stack = <<Frame(program[1].condition)>>
    /\ findings = {}
    /\ returned = {}

Top == stack[Len(stack)]
Value == Result(Top.node, Top.args, context)

Call ==
    /\ stack # <<>>
    /\ ~Raises(Top.node, Top.args)
    /\ ~Finished(Top.node, Top.args)
    /\ stack' = Append(stack, Frame(Top.node.operands[Len(Top.args) + 1]))
    /\ UNCHANGED <<context, program, current, findings, returned>>

Returns ==
    /\ stack # <<>>
    /\ ~Raises(Top.node, Top.args)
    /\ Finished(Top.node, Top.args)
    /\ returned' = returned \cup {<<Top.node, Value>>}
    /\ UNCHANGED <<context, program>>

Return ==
    /\ Returns
    /\ Len(stack) > 1
    /\ LET caller == Len(stack) - 1
       IN  stack' = [i \in 1..caller |->
                        IF i = caller THEN [node |-> stack[i].node,
                                            args |-> Append(stack[i].args, Value)]
                        ELSE stack[i]]
    /\ UNCHANGED <<current, findings>>

(* evaluate_rule: a rule passes on True and on None.                        *)
evaluate_rule ==
    /\ Returns
    /\ Len(stack) = 1
    /\ findings' = IF Value \in {True, None} THEN findings
                   ELSE findings \cup {program[current].rule_id}
    /\ current' = current + 1
    /\ stack' = IF current < Len(program) THEN <<Frame(program[current + 1].condition)>>
                ELSE <<>>

(* No rule after it is evaluated, and what was found is lost.               *)
EvaluationError ==
    /\ stack # <<>>
    /\ Raises(Top.node, Top.args)
    /\ stack' = <<>>
    /\ findings' = {}
    /\ UNCHANGED <<context, program, current, returned>>

Next == Call \/ Return \/ evaluate_rule \/ EvaluationError

Spec == Init /\ [][Next]_vars

-----------------------------------------------------------------------------
(***************************************************************************)
(* Properties.                                                             *)
(***************************************************************************)

(* Numbers stay fractions with a positive denominator, calls are of nodes   *)
(* of the trees, and findings are of rules that have been evaluated.        *)
TypeOK ==
    /\ context \in [Fields -> Int \cup {None}]
    /\ program \in Programs
    /\ current \in 1..(Len(program) + 1)
    /\ findings \subseteq {program[i].rule_id : i \in 1..(current - 1)}
    /\ returned \subseteq Nodes \X (Numbers \cup {None})
    /\ stack \in Seq([node : Nodes, args : Seq(Numbers \cup {None})])

Invoice == [f \in Fields \cup {"ties"} |-> IF f = "ties" THEN {} ELSE context[f]]

(* README: a test holds the two engines to the same verdicts on the same    *)
(* invoices.  evaluate() never raises on the engine's rules, and at its end *)
(* they agree with the validators on every combination of missing and read  *)
(* fields, at the tolerance and at the maximal rate, and on a zero subtotal.*)
EnginesAgree ==
    (program = rules /\ stack = <<>>) =>
        /\ current > Len(rules)
        /\ findings = check_arithmetic(Invoice) \cup check_tax_plausibility(Invoice)

(* README: evaluation is null-safe, any None operand short-circuits.  A     *)
(* node that eval() returned from gave None exactly when it reads a missing *)
(* field outside a condition, whatever the rest of it divides by; so a rule *)
(* made of an expression never fails for a missing field.                   *)
NoneShortCircuits ==
    \A r \in returned :
        r[2] = None <=> \E f \in Reads[r[1]] : context[f] = None
==============================================================================
