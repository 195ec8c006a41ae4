---------------------------- MODULE RulesDslProofs ----------------------------
(***************************************************************************)
(* Proofs about RulesDsl for any trees, any amounts in cents, any tolerance *)
(* and any maximal rate.                                                   *)
(*                                                                         *)
(* The walk is recursive and the trees are not bounded, so nothing is said *)
(* of what a tree means as a whole.  The invariant says instead that what  *)
(* eval() returned from a node is justified, one operator at a time, by    *)
(* what it returned from the operands it needed.  That is enough to follow *)
(* None up a tree, and to unfold the three trees of the engine.            *)
(***************************************************************************)
EXTENDS RulesDsl, SequenceTheorems, TLAPS

Results == Numbers \cup {None}

(* args are values that eval() returned from the first operands of node.    *)
Given(node, args, past) ==
    /\ args \in Seq(Results)
    /\ Len(args) <= Len(node.operands)
    /\ \A k \in 1..Len(args) : <<node.operands[k], args[k]>> \in past

Justified(node, value, past, ctx) ==
    \E args \in Seq(Results) :
        /\ Given(node, args, past)
        /\ Finished(node, args) /\ ~Raises(node, args)
        /\ value = Result(node, args, ctx)

(* What eval() returned in an evaluation of ctx, if past is that.           *)
History(past, ctx) ==
    /\ past \subseteq Nodes \X Results
    /\ \A r \in past : Justified(r[1], r[2], past, ctx)

(* Each call is for the operand its caller needs next.                      *)
StackInv ==
    /\ \A i \in 1..Len(stack) :
          /\ Given(stack[i].node, stack[i].args, returned)
          /\ i > 1 => LET caller == stack[i - 1]
                      IN  /\ Len(caller.args) < Len(caller.node.operands)
                          /\ stack[i].node = caller.node.operands[Len(caller.args) + 1]
    /\ stack # <<>> => /\ current <= Len(program)
                       /\ stack[1].node = program[current].condition

(* A rule evaluated is a finding unless its condition returned True or None. *)
VerdictInv ==
    stack # <<>> \/ current > Len(program) =>
        \A i \in 1..(current - 1) : \E r \in returned :
            /\ r[1] = program[i].condition
            /\ program[i].rule_id \in findings <=> r[2] \notin {True, None}

(* The nodes of the engine's rules, whose operators are all known.          *)
RuleNodes ==
    {FieldRef(f) : f \in Fields} \cup {IsNotNull(f) : f \in Fields}
        \cup {Literal(Float(0, 1)), Literal(Float(max_tax_rate, 100)),
              BinaryOp("+", FieldRef("subtotal"), FieldRef("tax")),
              BinaryOp("/", FieldRef("tax"), FieldRef("subtotal")),
              BinaryOp(">", FieldRef("subtotal"), Literal(Float(0, 1)))}
        \cup {rule_lines_subtotal, rule_subtotal_tax, rule_tax_rate}
        \cup {rule_lines_subtotal.operands[i] : i \in 1..2}
        \cup {rule_subtotal_tax.operands[i] : i \in 1..2}
        \cup {rule_tax_rate.operands[i] : i \in 1..2}

KnownInv ==
    program = rules =>
        /\ \A i \in 1..Len(stack) : stack[i].node \in RuleNodes
        /\ stack = <<>> => current > Len(program)

IInv ==
    /\ TypeOK
    /\ StackInv
    /\ History(returned, context)
    /\ NoneShortCircuits
    /\ VerdictInv
    /\ KnownInv

-----------------------------------------------------------------------------
(* One operator.                                                            *)

(* What TreesAssumption says of a node, as the provers need it              *)
LEMMA NodeFacts ==
    ASSUME NEW n \in Nodes
    PROVE  /\ n.operands \in Seq(Nodes) /\ Len(n.operands) \in Nat
           /\ \A k \in 1..Len(n.operands) : n.operands[k] \in Nodes
           /\ DOMAIN n.operands = 1..Len(n.operands)
           /\ IsNode(n) /\ Reads[n] = ReadsOf(n)
<1>1. n.operands \in Seq(Nodes) /\ IsNode(n) /\ Reads[n] = ReadsOf(n)
    BY TreesAssumption
<1> QED  BY <1>1, ElementOfSeq, LenProperties

(* A bool is a number, is not None, and is true when it is True.            *)
LEMMA TruthIsNumber ==
    ASSUME NEW b \in BOOLEAN
    PROVE  Truth(b) \in Fractions /\ Truth(b) \in Numbers
           /\ Truth(b) # None /\ (Truth(b) = True <=> b) /\ (IsTruthy(Truth(b)) <=> b)
<1>1. Truth(b) \in Fractions
    BY DEF Truth, Number, Fractions
<1>2. Truth(b) \in Numbers /\ Truth(b) # None /\ Truth(b) # NaN
    BY <1>1, TreesAssumption DEF Numbers
<1>3. Truth(b).num = IF b THEN 1 ELSE 0
    BY DEF Truth, Number
<1>4. True.num = 1
    BY DEF True, Truth, Number
<1>5. Truth(b) = True <=> b
    <2>1. CASE b = TRUE
        BY <2>1 DEF True
    <2>2. CASE b = FALSE
        BY <2>2, <1>3, <1>4
    <2> QED  BY <2>1, <2>2
<1> QED  BY <1>1, <1>2, <1>3, <1>5 DEF IsTruthy

(* Sums, products and quotients of fractions are fractions, or NaN.         *)
LEMMA ComputeType ==
    ASSUME NEW op \in Arithmetic, NEW l \in Fractions, NEW r \in Fractions
    PROVE  Compute(op, l, r) \in Numbers
<1> DEFINE ln == l.num  ld == l.den  rn == r.num  rd == r.den
<1>1. ln \in Int /\ ld \in Nat \ {0} /\ rn \in Int /\ rd \in Nat \ {0}
    BY DEF Fractions
<1>2. ld * rd \in Nat \ {0} /\ ln * rd \in Int /\ rn * ld \in Int /\ ln * rn \in Int
    <2>1. \A a, b \in Nat \ {0} : a * b \in Nat \ {0}
        OBVIOUS
    <2>2. \A a, b \in Int : a * b \in Int
        OBVIOUS
    <2> QED  BY <1>1, <2>1, <2>2
<1>3. Type(l, r) \in {"float", "int", "bool"}
    BY DEF Type
<1>4. CASE op = "/"
    <2>1. CASE rn = 0
        BY <1>4, <2>1 DEF Compute, Over, Numbers
    <2>2. CASE rn > 0
        <3>1. ld * rn \in Nat \ {0}
            <4>1. \A a, b \in Nat \ {0} : a * b \in Nat \ {0}
                OBVIOUS
            <4> QED  BY <1>1, <2>2, <4>1
        <3>2. Compute(op, l, r) = Float(ln * rd, ld * rn)
            BY <1>4, <1>1, <2>2 DEF Compute, Over
        <3> QED  BY <1>2, <3>1, <3>2 DEF Float, Number, Numbers, Fractions
    <2>3. CASE rn < 0
        <3>1. ld * (-rn) \in Nat \ {0}
            <4>1. \A a, b \in Nat \ {0} : a * b \in Nat \ {0}
                OBVIOUS
            <4>2. -rn \in Nat \ {0}
                BY <1>1, <2>3
            <4> QED  BY <1>1, <4>1, <4>2
        <3>2. Compute(op, l, r) = Float(-(ln * rd), ld * (-rn))
            BY <1>4, <1>1, <2>3 DEF Compute, Over
        <3>3. -(ln * rd) \in Int
            BY <1>2
        <3> QED  BY <3>1, <3>2, <3>3 DEF Float, Number, Numbers, Fractions
    <2> QED  BY <1>1, <2>1, <2>2, <2>3
<1>5. CASE op = "+"
    BY <1>2, <1>3, <1>5 DEF Compute, Plus, Number, Numbers, Fractions
<1>6. CASE op = "-"
    BY <1>2, <1>3, <1>6 DEF Compute, Minus, Number, Numbers, Fractions
<1>7. CASE op = "*"
    BY <1>2, <1>3, <1>7 DEF Compute, Times, Number, Numbers, Fractions
<1> QED  BY <1>4, <1>5, <1>6, <1>7 DEF Arithmetic

(* A comparison is a Boolean. *)
LEMMA CompareType ==
    ASSUME NEW op \in Comparisons, NEW l, NEW r
    PROVE  Compare(op, l, r) \in BOOLEAN
<1>1. \A x, y : AtMost(x, y) \in BOOLEAN
    BY DEF AtMost
<1>2. abs_diff_lte(l, r) \in BOOLEAN
    BY <1>1 DEF abs_diff_lte
<1>3. Equal(l, r) \in BOOLEAN
    BY <1>1, <1>2 DEF Equal
<1>4. CASE op \in {"==", "!=", "abs_diff_lte"}
    BY <1>2, <1>3, <1>4 DEF Compare
<1>5. CASE op \in {"<", "<=", ">", ">="}
    BY <1>1, <1>5 DEF Compare
<1> QED  BY <1>4, <1>5 DEF Comparisons

(* None in, None out: the operators of expressions. *)
LEMMA BinaryNone ==
    ASSUME NEW op, NEW l \in Results, NEW r \in Results,
           None \in {l, r} \/ op \in Arithmetic \cup Comparisons
    PROVE  /\ Binary(op, l, r) \in Results
           /\ Binary(op, l, r) = None <=> None \in {l, r}
<1>1. CASE None \in {l, r}
    BY <1>1 DEF Binary, Results
<1>2. CASE None \notin {l, r}
    <2>1. op \in Arithmetic \cup Comparisons /\ l \in Numbers /\ r \in Numbers
        BY <1>2 DEF Results
    <2>2. Binary(op, l, r) \in Numbers
        <3>1. CASE NaN \in {l, r}
            <4>1. Binary(op, l, r) = OnNaN(op, l)
                BY <1>2, <3>1 DEF Binary
            <4> QED  BY <4>1, TruthIsNumber DEF OnNaN, Numbers, IsFloat
        <3>2. CASE NaN \notin {l, r} /\ op \in Arithmetic
            BY <1>2, <2>1, <3>2, ComputeType DEF Binary, Numbers
        <3>3. CASE NaN \notin {l, r} /\ op \notin Arithmetic
            <4>1. Compare(op, l, r) \in BOOLEAN
                BY <2>1, <3>3, CompareType
            <4> QED  BY <1>2, <3>3, <4>1, TruthIsNumber DEF Binary
        <3> QED  BY <3>1, <3>2, <3>3
    <2> QED  BY <1>2, <2>2, TreesAssumption DEF Results
<1> QED  BY <1>1, <1>2

(* None in, None out, of abs and not                                        *)
LEMMA UnaryNone ==
    ASSUME NEW op, NEW v \in Results
    PROVE  Unary(op, v) \in Results /\ (Unary(op, v) = None <=> v = None)
<1>1. CASE v = None
    BY <1>1 DEF Unary, Results
<1>2. CASE v # None
    <2>1. v \in Numbers
        BY <1>2 DEF Results
    <2>2. Unary(op, v) \in Numbers
        <3>1. CASE op = "not"
            BY <1>2, <3>1, TruthIsNumber DEF Unary, IsTruthy
        <3>2. CASE op # "not" /\ v = NaN
            BY <1>2, <3>2 DEF Unary, Numbers
        <3>3. CASE op # "not" /\ v # NaN
            <4>1. v \in Fractions
                BY <2>1, <3>3 DEF Numbers
            <4>2. Absolute(v) \in Fractions
                BY <4>1 DEF Absolute, Number, Fractions, Distance, Type
            <4> QED  BY <1>2, <3>3, <4>2 DEF Unary, Numbers
        <3> QED  BY <3>1, <3>2, <3>3
    <2> QED  BY <1>2, <2>2, TreesAssumption DEF Results
<1> QED  BY <1>1, <1>2

Contexts == [Fields -> Int \cup {None}]

(* What a node returns, from what its operands returned: never anything but *)
(* a number or None, and None only from a missing field or an operand.      *)
LEMMA ResultNone ==
    ASSUME NEW n \in Nodes, NEW args \in Seq(Results), NEW ctx \in Contexts,
           Finished(n, args), ~Raises(n, args)
    PROVE  /\ Result(n, args, ctx) \in Results
           /\ Result(n, args, ctx) = None <=>
                \/ n.node = "FieldRef" /\ ctx[n.name] = None
                \/ n.node \in {"UnaryOp", "BinaryOp"} /\ \E k \in 1..Len(args) : args[k] = None
<1>1. IsNode(n) /\ DOMAIN args = 1..Len(args) /\ Len(args) \in Nat
      /\ \A k \in 1..Len(args) : args[k] \in Results
    BY NodeFacts, ElementOfSeq, LenProperties
<1>2. CASE n.node = "Literal"
    <2>1. Result(n, args, ctx) \in Numbers
        BY <1>1, <1>2 DEF IsNode, Result
    <2> QED  BY <1>2, <2>1, TreesAssumption DEF Results
<1>3. CASE n.node = "FieldRef"
    <2>1. ctx[n.name] \in Int \cup {None}
        BY <1>1, <1>3 DEF IsNode, Contexts
    <2>2. \A c \in Int : Float(c, 100) \in Fractions
        BY DEF Float, Number, Fractions
    <2>3. Result(n, args, ctx) = IF ctx[n.name] = None THEN None ELSE Float(ctx[n.name], 100)
        BY <1>3 DEF Result
    <2> QED  BY <1>3, <2>1, <2>2, <2>3, TreesAssumption DEF Results, Numbers
<1>4. CASE n.node = "UnaryOp"
    <2>1. Len(args) = 1
        BY <1>1, <1>4 DEF IsNode, Finished
    <2>2. Result(n, args, ctx) = Unary(n.op, args[1]) /\ args[1] \in Results
        BY <1>1, <1>4, <2>1 DEF Result
    <2> QED  BY <1>4, <2>1, <2>2, UnaryNone
<1>5. CASE n.node = "BinaryOp"
    <2>1. Len(args) = 2 /\ Len(n.operands) = 2
        BY <1>1, <1>5 DEF IsNode, Finished
    <2>2. /\ Result(n, args, ctx) = Binary(n.op, args[1], args[2])
          /\ args[1] \in Results /\ args[2] \in Results
        BY <1>1, <1>5, <2>1 DEF Result
    <2>3. None \in {args[1], args[2]} \/ n.op \in Arithmetic \cup Comparisons
        <3>1. \A k \in 1..2 : k \in {1, 2}
            OBVIOUS
        <3> QED  BY <1>1, <1>5, <2>1, <3>1 DEF Raises
    <2>4. /\ Binary(n.op, args[1], args[2]) \in Results
          /\ Binary(n.op, args[1], args[2]) = None <=> None \in {args[1], args[2]}
        BY <2>2, <2>3, BinaryNone
    <2>5. (\E k \in 1..2 : args[k] = None) <=> None \in {args[1], args[2]}
        OBVIOUS
    <2> QED  BY <1>5, <2>1, <2>2, <2>4, <2>5
<1>6. CASE n.node = "ConditionNode"
    <2>1. n.op \in Connectives
        BY <1>6 DEF Raises
    <2>2. Condition(n.op, args) \in BOOLEAN
        BY <2>1 DEF Condition, Connectives
    <2>3. Result(n, args, ctx) = Truth(Condition(n.op, args))
        BY <1>6 DEF Result
    <2> QED  BY <1>6, <2>2, <2>3, TruthIsNumber DEF Results
<1> QED  BY <1>1, <1>2, <1>3, <1>4, <1>5, <1>6 DEF IsNode

-----------------------------------------------------------------------------
(* The history grows by justified values.                                   *)

NoneRight(past, ctx) ==
    \A r \in past : r[2] = None <=> \E f \in Reads[r[1]] : ctx[f] = None

(* A value right of the operands, by None, is right of the node.            *)
LEMMA NoneFollows ==
    ASSUME NEW past, NEW ctx \in Contexts, NoneRight(past, ctx),
           NEW n \in Nodes, NEW args \in Seq(Results), Given(n, args, past),
           Finished(n, args), ~Raises(n, args)
    PROVE  Result(n, args, ctx) = None <=> \E f \in Reads[n] : ctx[f] = None
<1>1. /\ IsNode(n) /\ Reads[n] = ReadsOf(n)
      /\ DOMAIN n.operands = 1..Len(n.operands)
    BY NodeFacts
<1>2. /\ Result(n, args, ctx) = None <=>
           \/ n.node = "FieldRef" /\ ctx[n.name] = None
           \/ n.node \in {"UnaryOp", "BinaryOp"} /\ \E k \in 1..Len(args) : args[k] = None
    BY ResultNone
<1>3. \A k \in 1..Len(args) :
        args[k] = None <=> \E f \in Reads[n.operands[k]] : ctx[f] = None
    <2> TAKE k \in 1..Len(args)
    <2>1. <<n.operands[k], args[k]>> \in past
        BY DEF Given
    <2> DEFINE r == <<n.operands[k], args[k]>>
    <2>2. r[1] = n.operands[k] /\ r[2] = args[k]
        OBVIOUS
    <2>3. r[2] = None <=> \E f \in Reads[r[1]] : ctx[f] = None
        BY <2>1 DEF NoneRight
    <2> QED  BY <2>2, <2>3
<1>4. CASE n.node = "FieldRef"
    BY <1>1, <1>2, <1>4 DEF ReadsOf
<1>5. CASE n.node \in {"UnaryOp", "BinaryOp"}
    <2>1. Len(args) = Len(n.operands)
        BY <1>5 DEF Finished
    <2>2. Reads[n] = UNION {Reads[n.operands[k]] : k \in 1..Len(args)}
        BY <1>1, <1>5, <2>1 DEF ReadsOf
    <2>3. (\E f \in Reads[n] : ctx[f] = None)
            <=> \E k \in 1..Len(args) : \E f \in Reads[n.operands[k]] : ctx[f] = None
        BY <2>2
    <2> QED  BY <1>2, <1>3, <1>5, <2>3
<1>6. CASE n.node \in {"Literal", "ConditionNode"}
    <2>1. Reads[n] = {}
        BY <1>1, <1>6 DEF ReadsOf
    <2> QED  BY <1>2, <1>6, <2>1
<1> QED  BY <1>1, <1>4, <1>5, <1>6 DEF IsNode

(* Arguments stay justified as the history grows.                           *)
LEMMA GivenStays ==
    ASSUME NEW past, NEW more, past \subseteq more, NEW n, NEW args, Given(n, args, past)
    PROVE  Given(n, args, more)
BY DEF Given

(* A justified value, added to a history, makes a history.                  *)
LEMMA HistoryGrows ==
    ASSUME NEW past, NEW ctx \in Contexts, History(past, ctx),
           NEW n \in Nodes, NEW args \in Seq(Results), Given(n, args, past),
           Finished(n, args), ~Raises(n, args)
    PROVE  History(past \cup {<<n, Result(n, args, ctx)>>}, ctx)
<1> DEFINE v == Result(n, args, ctx)
           more == past \cup {<<n, v>>}
<1>1. v \in Results
    BY ResultNone
<1>2. more \subseteq Nodes \X Results
    BY <1>1 DEF History
<1>3. ASSUME NEW r \in past PROVE Justified(r[1], r[2], more, ctx)
    <2>1. PICK a \in Seq(Results) :
            /\ Given(r[1], a, past)
            /\ Finished(r[1], a) /\ ~Raises(r[1], a)
            /\ r[2] = Result(r[1], a, ctx)
        BY DEF History, Justified
    <2>2. Given(r[1], a, more)
        BY <2>1, GivenStays
    <2> QED  BY <2>1, <2>2 DEF Justified
<1>4. Justified(n, v, more, ctx)
    <2>1. Given(n, args, more)
        BY GivenStays
    <2> QED  BY <2>1 DEF Justified
<1>5. \A r \in more : Justified(r[1], r[2], more, ctx)
    <2> TAKE r \in more
    <2>1. CASE r \in past
        BY <2>1, <1>3
    <2>2. CASE r = <<n, v>>
        <3>1. r[1] = n /\ r[2] = v
            BY <2>2
        <3> HIDE DEF v, more
        <3> QED  BY <3>1, <1>4
    <2> QED  BY <2>1, <2>2
<1> HIDE DEF v
<1> QED  BY <1>2, <1>5 DEF History, v

-----------------------------------------------------------------------------
(* The walk.                                                                *)

Frames == [node : Nodes, args : Seq(Results)]

(* A program has rules, of nodes of the trees, with names of their own.     *)
LEMMA ProgramFacts ==
    ASSUME NEW p \in Programs
    PROVE  /\ Len(p) \in Nat \ {0}
           /\ \A i \in 1..Len(p) : p[i].condition \in Nodes
           /\ \A i, j \in 1..Len(p) : p[i].rule_id = p[j].rule_id => i = j
<1>1. CASE p = rules
    <2>1. Len(p) = 3
        BY <1>1 DEF rules
    <2>2. /\ p[1].condition = rule_lines_subtotal
          /\ p[2].condition = rule_subtotal_tax
          /\ p[3].condition = rule_tax_rate
          /\ p[1].rule_id = "lines_vs_subtotal"
          /\ p[2].rule_id = "subtotal_plus_tax"
          /\ p[3].rule_id = "tax_rate_implausible"
        BY <1>1 DEF rules, RuleNode
    <2>3. \A i \in 1..3 : i \in {1, 2, 3}
        OBVIOUS
    <2> QED  BY <2>1, <2>2, <2>3, TreesAssumption
<1>2. CASE p # rules
    <2>1. PICK t \in Trees : p = <<RuleNode("author", t)>>
        BY <1>2 DEF Programs
    <2>2. Len(p) = 1 /\ p[1].condition = t
        BY <2>1 DEF RuleNode
    <2>3. \A i \in 1..1 : i = 1
        OBVIOUS
    <2> QED  BY <2>2, <2>3, TreesAssumption
<1> QED  BY <1>1, <1>2

(* The innermost call is of a node, with arguments that were returned.      *)
LEMMA StackFacts ==
    ASSUME TypeOK, StackInv, stack # <<>>
    PROVE  /\ Len(stack) \in Nat \ {0} /\ DOMAIN stack = 1..Len(stack)
           /\ stack \in Seq(Frames)
           /\ \A i \in 1..Len(stack) : stack[i] \in Frames
           /\ Top \in Frames /\ Given(Top.node, Top.args, returned)
           /\ Top.node \in Nodes /\ Top.args \in Seq(Results)
           /\ context \in Contexts
<1>1. stack \in Seq(Frames)
    BY DEF TypeOK, Frames, Results
<1>2. /\ Len(stack) \in Nat \ {0} /\ DOMAIN stack = 1..Len(stack)
      /\ \A i \in 1..Len(stack) : stack[i] \in Frames
    BY <1>1, ElementOfSeq, LenProperties, EmptySeq
<1>3. Len(stack) \in 1..Len(stack)
    BY <1>2
<1>4. Top \in Frames /\ Given(Top.node, Top.args, returned)
    BY <1>2, <1>3 DEF Top, StackInv
<1> QED  BY <1>1, <1>2, <1>4 DEF Frames, TypeOK, Contexts

(* A call begins without arguments.                                         *)
LEMMA FirstFrame ==
    ASSUME NEW n \in Nodes
    PROVE  /\ Frame(n) \in Frames /\ <<Frame(n)>> \in Seq(Frames)
           /\ Frame(n).node = n /\ Frame(n).args = <<>>
           /\ \A past : Given(n, <<>>, past)
<1>1. <<>> \in Seq(Results) /\ Len(<<>>) = 0
    OBVIOUS
<1>2. Frame(n) \in Frames /\ Frame(n).node = n /\ Frame(n).args = <<>>
    BY <1>1 DEF Frame, Frames
<1>3. \A past : Given(n, <<>>, past)
    BY <1>1, NodeFacts DEF Given
<1> QED  BY <1>2, <1>3

(* The operand that a call is for *)
LEMMA NextOperand ==
    ASSUME NEW n \in Nodes, NEW args \in Seq(Results), NEW past, Given(n, args, past),
           ~Finished(n, args)
    PROVE  Len(args) < Len(n.operands) /\ n.operands[Len(args) + 1] \in Nodes
<1>1. Len(args) \in Nat /\ Len(n.operands) \in Nat /\ Len(args) <= Len(n.operands)
    BY NodeFacts, LenProperties DEF Given
<1>2. Len(args) < Len(n.operands)
    BY <1>1 DEF Finished
<1>3. Len(args) + 1 \in 1..Len(n.operands)
    BY <1>1, <1>2
<1> QED  BY <1>2, <1>3, NodeFacts

(* What a node returned is one more argument of its caller. *)
LEMMA OneMoreArgument ==
    ASSUME NEW n \in Nodes, NEW args \in Seq(Results), NEW past, Given(n, args, past),
           Len(args) < Len(n.operands), NEW v \in Results,
           <<n.operands[Len(args) + 1], v>> \in past
    PROVE  Append(args, v) \in Seq(Results) /\ Given(n, Append(args, v), past)
<1>1. Len(args) \in Nat /\ Len(n.operands) \in Nat
    BY NodeFacts, LenProperties
<1>2. Append(args, v) \in Seq(Results) /\ Len(Append(args, v)) = Len(args) + 1
    BY AppendProperties
<1>3. \A k \in 1..Len(args) : Append(args, v)[k] = args[k]
    BY AppendProperties
<1>4. Append(args, v)[Len(args) + 1] = v
    BY AppendProperties
<1>5. ASSUME NEW k \in 1..(Len(args) + 1)
      PROVE  <<n.operands[k], Append(args, v)[k]>> \in past
    <2>1. CASE k \in 1..Len(args)
        BY <2>1, <1>3 DEF Given
    <2>2. CASE k = Len(args) + 1
        BY <2>2, <1>4
    <2>3. k \in 1..Len(args) \/ k = Len(args) + 1
        BY <1>1, <1>5
    <2> QED  BY <2>1, <2>2, <2>3
<1> QED  BY <1>1, <1>2, <1>5 DEF Given

(* The frames that remain when a call returns *)
Returned(frames, value) ==
    LET caller == Len(frames) - 1
    IN  [i \in 1..caller |->
            IF i = caller THEN [node |-> frames[i].node,
                                args |-> Append(frames[i].args, value)]
            ELSE frames[i]]

(* Only the caller's frame changes, by one argument.                        *)
LEMMA ReturnedFrames ==
    ASSUME NEW frames \in Seq(Frames), Len(frames) \in Nat, Len(frames) > 1,
           NEW value \in Results
    PROVE  LET c == Len(frames) - 1
           IN  /\ Returned(frames, value) \in Seq(Frames)
               /\ Len(Returned(frames, value)) = c
               /\ \A i \in 1..(c - 1) : Returned(frames, value)[i] = frames[i]
               /\ Returned(frames, value)[c].node = frames[c].node
               /\ Returned(frames, value)[c].args = Append(frames[c].args, value)
<1> DEFINE c == Len(frames) - 1
           rest == Returned(frames, value)
<1>1. c \in Nat \ {0} /\ \A i \in 1..c : frames[i] \in Frames
    BY ElementOfSeq
<1>2. ASSUME NEW i \in 1..c PROVE rest[i] \in Frames
    <2>1. CASE i = c
        <3>1. rest[i] = [node |-> frames[i].node, args |-> Append(frames[i].args, value)]
            BY <2>1 DEF Returned
        <3>2. frames[i].node \in Nodes /\ frames[i].args \in Seq(Results)
            BY <1>1, <1>2 DEF Frames
        <3>3. Append(frames[i].args, value) \in Seq(Results)
            BY <3>2, AppendProperties
        <3> QED  BY <3>1, <3>2, <3>3 DEF Frames
    <2>2. CASE i # c
        BY <1>1, <1>2, <2>2 DEF Returned
    <2> QED  BY <2>1, <2>2
<1>3. rest \in [1..c -> Frames]
    BY <1>2 DEF Returned
<1>4. rest \in Seq(Frames) /\ Len(rest) = c
    BY <1>1, <1>3, SeqDef
<1>5. c \in 1..c /\ \A i \in 1..(c - 1) : i \in 1..c /\ i # c
    BY <1>1
<1> QED  BY <1>4, <1>5 DEF Returned

-----------------------------------------------------------------------------
(* Every step keeps the stack: each action in turn.                         *)

(* Call: the new frame is for the operand its caller needs next.            *)
LEMMA CallStep == TypeOK /\ StackInv /\ Call => TypeOK' /\ StackInv'
<1> SUFFICES ASSUME TypeOK, StackInv, Call PROVE TypeOK' /\ StackInv'
    OBVIOUS
<1> DEFINE callee == Top.node.operands[Len(Top.args) + 1]
           depth == Len(stack)
<1>1. /\ depth \in Nat \ {0} /\ stack \in Seq(Frames)
      /\ Top \in Frames /\ Given(Top.node, Top.args, returned)
      /\ Top.node \in Nodes /\ Top.args \in Seq(Results)
    BY StackFacts DEF Call
<1>2. Len(Top.args) < Len(Top.node.operands) /\ callee \in Nodes
    BY <1>1, NextOperand DEF Call
<1>3. /\ Frame(callee) \in Frames /\ Frame(callee).node = callee
      /\ Frame(callee).args = <<>> /\ Given(callee, <<>>, returned)
    BY <1>2, FirstFrame
<1>4. /\ stack' = Append(stack, Frame(callee))
      /\ UNCHANGED <<context, program, current, findings, returned>>
    BY DEF Call
<1>5. /\ stack' \in Seq(Frames) /\ Len(stack') = depth + 1
      /\ \A i \in 1..depth : stack'[i] = stack[i]
      /\ stack'[depth + 1] = Frame(callee)
    BY <1>1, <1>3, <1>4, AppendProperties
<1>6. TypeOK'
    BY <1>4, <1>5 DEF TypeOK, Frames, Results
<1>7. ASSUME NEW i \in 1..(depth + 1)
      PROVE  /\ Given(stack'[i].node, stack'[i].args, returned)
             /\ i > 1 => /\ Len(stack'[i - 1].args) < Len(stack'[i - 1].node.operands)
                         /\ stack'[i].node = stack'[i - 1].node.operands[Len(stack'[i - 1].args) + 1]
    <2>1. CASE i \in 1..depth
        <3>1. i > 1 => i - 1 \in 1..depth
            BY <2>1
        <3> QED  BY <2>1, <3>1, <1>5 DEF StackInv
    <2>2. CASE i = depth + 1
        <3>1. stack'[i] = Frame(callee) /\ stack'[i - 1] = Top
            BY <1>1, <1>5, <2>2 DEF Top
        <3> QED  BY <3>1, <1>2, <1>3
    <2>3. i \in 1..depth \/ i = depth + 1
        BY <1>1, <1>7
    <2> QED  BY <2>1, <2>2, <2>3
<1>8. current' <= Len(program') /\ stack'[1].node = program'[current'].condition
    <2>1. stack'[1] = stack[1]
        BY <1>1, <1>5
    <2> QED  BY <2>1, <1>4 DEF Call, StackInv
<1> QED  BY <1>4, <1>5, <1>6, <1>7, <1>8 DEF StackInv

(* What the innermost call returns is justified. *)
LEMMA ReturnedValue ==
    ASSUME TypeOK, StackInv, Returns
    PROVE  /\ Value \in Results
           /\ returned' = returned \cup {<<Top.node, Value>>}
           /\ <<Top.node, Value>> \in returned'
           /\ returned' \subseteq Nodes \X Results
           /\ Top.node \in Nodes /\ Top.args \in Seq(Results)
           /\ Given(Top.node, Top.args, returned) /\ context \in Contexts
           /\ Finished(Top.node, Top.args) /\ ~Raises(Top.node, Top.args)
<1>1. /\ Top.node \in Nodes /\ Top.args \in Seq(Results) /\ context \in Contexts
      /\ Given(Top.node, Top.args, returned)
    BY StackFacts DEF Returns
<1>2. Finished(Top.node, Top.args) /\ ~Raises(Top.node, Top.args)
    BY DEF Returns
<1>3. Value \in Results
    BY <1>1, <1>2, ResultNone DEF Value
<1>4. returned' = returned \cup {<<Top.node, Value>>}
    BY DEF Returns
<1>5. returned \subseteq Nodes \X Results
    BY DEF TypeOK, Results
<1> QED  BY <1>1, <1>2, <1>3, <1>4, <1>5

(* Return: the caller's new argument is in the history.                     *)
LEMMA ReturnStep == TypeOK /\ StackInv /\ Return => TypeOK' /\ StackInv'
<1> SUFFICES ASSUME TypeOK, StackInv, Return PROVE TypeOK' /\ StackInv'
    OBVIOUS
<1> DEFINE depth == Len(stack)
           c == depth - 1
<1>1. /\ depth \in Nat \ {0} /\ stack \in Seq(Frames)
      /\ \A i \in 1..depth : stack[i] \in Frames
    BY StackFacts DEF Return, Returns
<1>2. /\ Value \in Results /\ returned \subseteq returned'
      /\ <<Top.node, Value>> \in returned' /\ returned' \subseteq Nodes \X Results
    BY ReturnedValue DEF Return
<1>3. depth > 1 /\ stack' = Returned(stack, Value)
      /\ UNCHANGED <<context, program, current, findings>>
    BY DEF Return, Returns, Returned
<1>4. /\ stack' \in Seq(Frames) /\ Len(stack') = c
      /\ \A i \in 1..(c - 1) : stack'[i] = stack[i]
      /\ stack'[c].node = stack[c].node
      /\ stack'[c].args = Append(stack[c].args, Value)
    BY <1>1, <1>2, <1>3, ReturnedFrames
<1>5. TypeOK'
    BY <1>2, <1>3, <1>4 DEF TypeOK, Frames, Results
<1>6. Given(stack'[c].node, stack'[c].args, returned')
    <2>1. /\ Given(stack[c].node, stack[c].args, returned)
          /\ Len(stack[c].args) < Len(stack[c].node.operands)
          /\ Top.node = stack[c].node.operands[Len(stack[c].args) + 1]
        <3>1. c \in 1..depth /\ depth \in 1..depth /\ depth > 1
            BY <1>1, <1>3
        <3> QED  BY <3>1 DEF StackInv, Top
    <2>2. stack[c].node \in Nodes /\ stack[c].args \in Seq(Results)
        <3>1. c \in 1..depth
            BY <1>1, <1>3
        <3> QED  BY <1>1, <3>1 DEF Frames
    <2>3. Given(stack[c].node, stack[c].args, returned')
        BY <1>2, <2>1, GivenStays
    <2> QED  BY <1>2, <1>4, <2>1, <2>2, <2>3, OneMoreArgument
<1>7. ASSUME NEW i \in 1..c
      PROVE  /\ Given(stack'[i].node, stack'[i].args, returned')
             /\ i > 1 => /\ Len(stack'[i - 1].args) < Len(stack'[i - 1].node.operands)
                         /\ stack'[i].node = stack'[i - 1].node.operands[Len(stack'[i - 1].args) + 1]
    <2>1. Given(stack'[i].node, stack'[i].args, returned')
        <3>1. CASE i = c
            BY <1>6, <3>1
        <3>2. CASE i # c
            <4>1. i \in 1..(c - 1) /\ i \in 1..depth
                BY <1>1, <1>3, <1>7, <3>2
            <4>2. Given(stack[i].node, stack[i].args, returned)
                BY <4>1 DEF StackInv
            <4> QED  BY <1>2, <1>4, <4>1, <4>2, GivenStays
        <3> QED  BY <3>1, <3>2
    <2>2. ASSUME i > 1
          PROVE  /\ Len(stack'[i - 1].args) < Len(stack'[i - 1].node.operands)
                 /\ stack'[i].node = stack'[i - 1].node.operands[Len(stack'[i - 1].args) + 1]
        <3>1. i - 1 \in 1..(c - 1) /\ i \in 1..depth /\ (i = c \/ i \in 1..(c - 1))
            BY <1>1, <1>3, <1>7, <2>2
        <3>2. stack'[i - 1] = stack[i - 1] /\ stack'[i].node = stack[i].node
            BY <1>4, <3>1
        <3> QED  BY <2>2, <3>1, <3>2 DEF StackInv
    <2> QED  BY <2>1, <2>2
<1>8. current' <= Len(program') /\ stack'[1].node = program'[current'].condition
    <2>1. stack'[1].node = stack[1].node
        <3>1. c \in Nat \ {0}
            BY <1>1, <1>3
        <3>2. CASE c = 1
            BY <3>2, <1>4
        <3>3. CASE c > 1
            <4>1. 1 \in 1..(c - 1)
                BY <3>1, <3>3
            <4>2. stack'[1] = stack[1]
                BY <4>1, <1>4
            <4> QED  BY <4>2
        <3>4. c = 1 \/ c > 1
            <4>1. \A d \in Nat : d > 1 => d - 1 = 1 \/ d - 1 > 1
                OBVIOUS
            <4> QED  BY <1>1, <1>3, <4>1
        <3> QED  BY <3>2, <3>3, <3>4
    <2> QED  BY <2>1, <1>3 DEF Return, Returns, StackInv
<1> QED  BY <1>4, <1>5, <1>7, <1>8 DEF StackInv

(* evaluate_rule: the next rule is called, or none is.                      *)
LEMMA RuleStep == TypeOK /\ StackInv /\ evaluate_rule => TypeOK' /\ StackInv'
<1> SUFFICES ASSUME TypeOK, StackInv, evaluate_rule PROVE TypeOK' /\ StackInv'
    OBVIOUS
<1>1. returned' \subseteq Nodes \X Results
    BY ReturnedValue DEF evaluate_rule
<1>2. UNCHANGED <<context, program>> /\ current' = current + 1 /\ current <= Len(program)
    BY DEF evaluate_rule, Returns, StackInv
<1>3. /\ program \in Programs /\ Len(program) \in Nat /\ current \in 1..Len(program)
      /\ \A i \in 1..Len(program) : program[i].condition \in Nodes
    BY <1>2, ProgramFacts DEF TypeOK
<1>4. findings' \subseteq {program'[i].rule_id : i \in 1..(current' - 1)}
    <2>1. findings' \subseteq findings \cup {program[current].rule_id}
        BY DEF evaluate_rule
    <2>2. findings \subseteq {program[i].rule_id : i \in 1..current}
        <3>1. \A i \in 1..(current - 1) : i \in 1..current
            BY <1>3
        <3> QED  BY <3>1 DEF TypeOK
    <2>3. program[current].rule_id \in {program[i].rule_id : i \in 1..current}
        BY <1>3
    <2>4. current' - 1 = current
        BY <1>2, <1>3
    <2> QED  BY <2>1, <2>2, <2>3, <2>4, <1>2
<1>5. CASE current < Len(program)
    <2> DEFINE next == program[current + 1].condition
    <2>1. next \in Nodes
        BY <1>3, <1>5
    <2>2. stack' = <<Frame(next)>>
        BY <1>5 DEF evaluate_rule
    <2>3. /\ stack' \in Seq(Frames) /\ Len(stack') = 1 /\ stack'[1] = Frame(next)
          /\ Frame(next).node = next /\ Frame(next).args = <<>>
          /\ Given(next, <<>>, returned')
        BY <2>1, <2>2, FirstFrame
    <2>4. TypeOK'
        BY <1>1, <1>2, <1>3, <1>4, <1>5, <2>3 DEF TypeOK, Frames, Results
    <2>5. \A i \in 1..Len(stack') : i = 1 /\ ~(i > 1)
        BY <2>3
    <2>6. current' <= Len(program') /\ stack'[1].node = program'[current'].condition
        BY <1>2, <1>3, <1>5, <2>3
    <2> HIDE DEF next
    <2> QED  BY <2>3, <2>4, <2>5, <2>6 DEF StackInv
<1>6. CASE ~(current < Len(program))
    <2>1. stack' = <<>>
        BY <1>6 DEF evaluate_rule
    <2>2. TypeOK'
        BY <1>1, <1>2, <1>3, <1>4, <1>6, <2>1 DEF TypeOK, Frames, Results
    <2> QED  BY <2>1, <2>2 DEF StackInv
<1> QED  BY <1>5, <1>6

(* EvaluationError: nothing is left on the stack.                           *)
LEMMA ErrorStep == TypeOK /\ StackInv /\ EvaluationError => TypeOK' /\ StackInv'
<1> SUFFICES ASSUME TypeOK, EvaluationError PROVE TypeOK' /\ StackInv'
    OBVIOUS
<1>1. stack' = <<>> /\ findings' = {} /\ UNCHANGED <<context, program, current, returned>>
    BY DEF EvaluationError
<1> QED  BY <1>1 DEF TypeOK, StackInv

(* Types and stack are kept by every step ...                               *)
LEMMA WalkStep == TypeOK /\ StackInv /\ [Next]_vars => TypeOK' /\ StackInv'
<1>1. TypeOK /\ StackInv /\ UNCHANGED vars => TypeOK' /\ StackInv'
    BY DEF TypeOK, StackInv, vars
<1> QED  BY <1>1, CallStep, ReturnStep, RuleStep, ErrorStep DEF Next

(* ... and hold at first.                                                   *)
LEMMA WalkInit == Init => TypeOK /\ StackInv
<1> SUFFICES ASSUME Init PROVE TypeOK /\ StackInv
    OBVIOUS
<1> DEFINE first == program[1].condition
<1>1. /\ program \in Programs /\ Len(program) \in Nat \ {0} /\ first \in Nodes
      /\ current = 1 /\ current \in 1..(Len(program) + 1)
    BY ProgramFacts DEF Init
<1>2. /\ stack \in Seq(Frames) /\ Len(stack) = 1 /\ stack[1] = Frame(first)
      /\ Frame(first).node = first /\ Frame(first).args = <<>>
      /\ Given(first, <<>>, returned)
    BY <1>1, FirstFrame DEF Init
<1>3. context \in [Fields -> Int \cup {None}]
    BY TreesAssumption DEF Init
<1>4. TypeOK
    BY <1>1, <1>2, <1>3 DEF Init, TypeOK, Frames, Results
<1>5. \A i \in 1..Len(stack) : i = 1 /\ ~(i > 1)
    BY <1>2
<1> QED  BY <1>1, <1>2, <1>4, <1>5 DEF StackInv

-----------------------------------------------------------------------------
(* What eval() returned stays justified, and None stays right.              *)

HistoryInv == History(returned, context) /\ NoneShortCircuits

(* The property, in the form that does not mention variables                *)
LEMMA NoneRightIsProperty == NoneShortCircuits <=> NoneRight(returned, context)
BY DEF NoneShortCircuits, NoneRight

(* A step adds to the history what its innermost call returns, or nothing.  *)
LEMMA HistoryStep ==
    TypeOK /\ StackInv /\ HistoryInv /\ [Next]_vars => HistoryInv'
<1> SUFFICES ASSUME TypeOK, StackInv, HistoryInv, [Next]_vars PROVE HistoryInv'
    OBVIOUS
<1>1. CASE Returns
    <2>1. /\ returned' = returned \cup {<<Top.node, Value>>} /\ context' = context
          /\ Top.node \in Nodes /\ Top.args \in Seq(Results)
          /\ Given(Top.node, Top.args, returned) /\ context \in Contexts
          /\ Finished(Top.node, Top.args) /\ ~Raises(Top.node, Top.args)
          /\ Value = Result(Top.node, Top.args, context)
        BY <1>1, ReturnedValue DEF Returns, Value
    <2>2. History(returned', context')
        BY <2>1, HistoryGrows DEF HistoryInv
    <2>3. Value = None <=> \E f \in Reads[Top.node] : context[f] = None
        BY <2>1, NoneFollows, NoneRightIsProperty DEF HistoryInv
    <2>4. ASSUME NEW r \in returned'
          PROVE  r[2] = None <=> \E f \in Reads[r[1]] : context'[f] = None
        <3>1. CASE r \in returned
            BY <3>1, <2>1 DEF HistoryInv, NoneShortCircuits
        <3>2. CASE r = <<Top.node, Value>>
            <4>1. r[1] = Top.node /\ r[2] = Value
                BY <3>2
            <4> QED  BY <4>1, <2>1, <2>3
        <3> QED  BY <2>1, <3>1, <3>2
    <2>5. NoneShortCircuits'
        BY <2>4 DEF NoneShortCircuits
    <2> QED  BY <2>2, <2>5 DEF HistoryInv
<1>2. CASE UNCHANGED <<returned, context>>
    BY <1>2 DEF HistoryInv, History, NoneShortCircuits
<1> QED
    BY <1>1, <1>2 DEF Next, Call, Return, evaluate_rule, EvaluationError, vars

(* A verdict given stays, and the next one is that of its rule alone.       *)
LEMMA VerdictStep ==
    TypeOK /\ StackInv /\ VerdictInv /\ [Next]_vars => VerdictInv'
<1> SUFFICES ASSUME TypeOK, StackInv, VerdictInv, [Next]_vars PROVE VerdictInv'
    OBVIOUS
<1>1. CASE Call \/ Return
    <2>1. /\ UNCHANGED <<program, current, findings>>
          /\ returned \subseteq returned' /\ stack # <<>>
        BY <1>1 DEF Call, Return, Returns
    <2> QED  BY <2>1 DEF VerdictInv
<1>2. CASE evaluate_rule
    <2> DEFINE id == program[current].rule_id
    <2>1. /\ UNCHANGED program /\ current' = current + 1 /\ stack # <<>>
          /\ findings' = IF Value \in {True, None} THEN findings ELSE findings \cup {id}
          /\ returned' = returned \cup {<<Top.node, Value>>}
        BY <1>2 DEF evaluate_rule, Returns
    <2>2. /\ current \in 1..Len(program) /\ Len(program) \in Nat
          /\ Top.node = program[current].condition
        <3>1. current <= Len(program) /\ stack[1].node = program[current].condition
            BY <2>1 DEF StackInv
        <3>2. Len(stack) = 1
            BY <1>2 DEF evaluate_rule
        <3> QED  BY <3>1, <3>2, ProgramFacts DEF TypeOK, Top
    <2>3. \A i, j \in 1..Len(program) :
            program[i].rule_id = program[j].rule_id => i = j
        BY ProgramFacts DEF TypeOK
    <2>4. ASSUME NEW i \in 1..current
          PROVE  \E r \in returned' :
                    /\ r[1] = program[i].condition
                    /\ program[i].rule_id \in findings' <=> r[2] \notin {True, None}
        <3>1. CASE i < current
            <4>1. i \in 1..(current - 1)
                BY <2>2, <3>1
            <4>2. PICK r \in returned :
                    /\ r[1] = program[i].condition
                    /\ program[i].rule_id \in findings <=> r[2] \notin {True, None}
                BY <2>1, <4>1 DEF VerdictInv
            <4>3. program[i].rule_id # id
                BY <2>2, <2>3, <3>1
            <4>4. program[i].rule_id \in findings' <=> program[i].rule_id \in findings
                BY <2>1, <4>3
            <4> QED  BY <2>1, <4>2, <4>4
        <3>2. CASE i = current
            <4> DEFINE r == <<Top.node, Value>>
            <4>1. id \notin findings
                <5>1. id \notin {program[k].rule_id : k \in 1..(current - 1)}
                    BY <2>2, <2>3
                <5> QED  BY <5>1 DEF TypeOK
            <4>2. id \in findings' <=> Value \notin {True, None}
                BY <2>1, <4>1
            <4>3. r[1] = program[i].condition /\ r[2] = Value /\ r \in returned'
                BY <2>1, <2>2, <3>2
            <4> HIDE DEF r
            <4> QED  BY <3>2, <4>2, <4>3
        <3> QED  BY <2>2, <3>1, <3>2
    <2>5. current' - 1 = current
        BY <2>1, <2>2
    <2> QED  BY <2>1, <2>4, <2>5 DEF VerdictInv
<1>3. CASE EvaluationError
    <2>1. current' <= Len(program') /\ stack' = <<>>
        BY <1>3 DEF EvaluationError, StackInv
    <2>2. ~(current' > Len(program'))
        BY <1>3, <2>1, ProgramFacts DEF EvaluationError, TypeOK
    <2> QED  BY <2>1, <2>2 DEF VerdictInv
<1>4. CASE UNCHANGED vars
    BY <1>4 DEF VerdictInv, vars
<1> QED  BY <1>1, <1>2, <1>3, <1>4 DEF Next

(* The engine's own rules never end in an EvaluationError.                  *)
LEMMA KnownOperators ==
    ASSUME NEW n \in RuleNodes
    PROVE  /\ \A k \in 1..Len(n.operands) : n.operands[k] \in RuleNodes
           /\ \A args : ~Raises(n, args)
<1> USE DEF Literal, FieldRef, UnaryOp, BinaryOp, ConditionNode, IsNotNull
<1> DEFINE OneOp(m, a) == m.operands = <<a>> /\ a \in RuleNodes
           TwoOps(m, a, b) == m.operands = <<a, b>> /\ a \in RuleNodes /\ b \in RuleNodes
           Known(m) == \/ m.node = "ConditionNode" /\ m.op \in Connectives
                       \/ m.node = "BinaryOp" /\ m.op \in Arithmetic \cup Comparisons
                       \/ m.node \in {"Literal", "FieldRef"}
           Inside(m) == \A k \in 1..Len(m.operands) : m.operands[k] \in RuleNodes
<1>1. ASSUME NEW m, Known(m) PROVE \A args : ~Raises(m, args)
    BY <1>1 DEF Raises
<1>2. \A m, a : OneOp(m, a) => Inside(m)
    OBVIOUS
<1>3. \A m, a, b : TwoOps(m, a, b) => Inside(m)
    <2> TAKE m, a, b
    <2>1. \A k \in 1..2 : k = 1 \/ k = 2
        OBVIOUS
    <2> QED  BY <2>1
<1>4. \A m, a, b, c : m.operands = <<a, b, c>> /\ {a, b, c} \subseteq RuleNodes => Inside(m)
    <2> TAKE m, a, b, c
    <2>1. \A k \in 1..3 : k = 1 \/ k = 2 \/ k = 3
        OBVIOUS
    <2> QED  BY <2>1
<1>5. CASE n \in {FieldRef(f) : f \in Fields}
          \cup {Literal(Float(0, 1)), Literal(Float(max_tax_rate, 100))}
    <2>1. n.operands = <<>> /\ Known(n)
        BY <1>5
    <2> QED  BY <1>1, <2>1
<1>6. CASE n \in {IsNotNull(f) : f \in Fields}
    <2>1. PICK f \in Fields : n = IsNotNull(f)
        BY <1>6
    <2>2. OneOp(n, FieldRef(f)) /\ Known(n)
        BY <2>1 DEF RuleNodes, Connectives
    <2> QED  BY <1>1, <1>2, <2>2
<1>7. CASE n = BinaryOp("+", FieldRef("subtotal"), FieldRef("tax"))
    <2>1. TwoOps(n, FieldRef("subtotal"), FieldRef("tax")) /\ Known(n)
        BY <1>7 DEF RuleNodes, Fields, Arithmetic
    <2> QED  BY <1>1, <1>3, <2>1
<1>8. CASE n = BinaryOp("/", FieldRef("tax"), FieldRef("subtotal"))
    <2>1. TwoOps(n, FieldRef("tax"), FieldRef("subtotal")) /\ Known(n)
        BY <1>8 DEF RuleNodes, Fields, Arithmetic
    <2> QED  BY <1>1, <1>3, <2>1
<1>9. CASE n = BinaryOp(">", FieldRef("subtotal"), Literal(Float(0, 1)))
    <2>1. TwoOps(n, FieldRef("subtotal"), Literal(Float(0, 1))) /\ Known(n)
        BY <1>9 DEF RuleNodes, Fields, Comparisons
    <2> QED  BY <1>1, <1>3, <2>1
<1>10. CASE n \in {rule_lines_subtotal, rule_subtotal_tax, rule_tax_rate}
    <2>1. Known(n)
        BY <1>10 DEF rule_lines_subtotal, rule_subtotal_tax, rule_tax_rate, Connectives
    <2>2. n.operands = <<n.operands[1], n.operands[2]>>
        BY <1>10 DEF rule_lines_subtotal, rule_subtotal_tax, rule_tax_rate
    <2>3. n.operands[1] \in RuleNodes /\ n.operands[2] \in RuleNodes
        <3>1. 1 \in 1..2 /\ 2 \in 1..2
            OBVIOUS
        <3> QED  BY <1>10, <3>1 DEF RuleNodes
    <2> QED  BY <1>1, <1>3, <2>1, <2>2, <2>3
<1>11. CASE n = rule_lines_subtotal.operands[1]
    <2>1. TwoOps(n, IsNotNull("subtotal"), IsNotNull("lines_sum")) /\ Known(n)
        BY <1>11 DEF rule_lines_subtotal, RuleNodes, Fields, Connectives
    <2> QED  BY <1>1, <1>3, <2>1
<1>12. CASE n = rule_lines_subtotal.operands[2]
    <2>1. TwoOps(n, FieldRef("lines_sum"), FieldRef("subtotal")) /\ Known(n)
        BY <1>12 DEF rule_lines_subtotal, RuleNodes, Fields, Comparisons
    <2> QED  BY <1>1, <1>3, <2>1
<1>13. CASE n = rule_subtotal_tax.operands[1]
    <2>1. /\ n.operands = <<IsNotNull("subtotal"), IsNotNull("tax"), IsNotNull("total")>>
          /\ {IsNotNull("subtotal"), IsNotNull("tax"), IsNotNull("total")} \subseteq RuleNodes
          /\ Known(n)
        BY <1>13 DEF rule_subtotal_tax, RuleNodes, Fields, Connectives
    <2> QED  BY <1>1, <1>4, <2>1
<1>14. CASE n = rule_subtotal_tax.operands[2]
    <2>1. TwoOps(n, BinaryOp("+", FieldRef("subtotal"), FieldRef("tax")), FieldRef("total"))
          /\ Known(n)
        BY <1>14 DEF rule_subtotal_tax, RuleNodes, Fields, Comparisons
    <2> QED  BY <1>1, <1>3, <2>1
<1>15. CASE n = rule_tax_rate.operands[1]
    <2> DEFINE positive == BinaryOp(">", FieldRef("subtotal"), Literal(Float(0, 1)))
    <2>1. /\ n.operands = <<IsNotNull("subtotal"), IsNotNull("tax"), positive>>
          /\ {IsNotNull("subtotal"), IsNotNull("tax"), positive} \subseteq RuleNodes
          /\ Known(n)
        BY <1>15 DEF rule_tax_rate, RuleNodes, Fields, Connectives
    <2> HIDE DEF positive, Inside, Known
    <2> QED  BY <1>1, <1>4, <2>1
<1>16. CASE n = rule_tax_rate.operands[2]
    <2>1. TwoOps(n, BinaryOp("/", FieldRef("tax"), FieldRef("subtotal")),
                    Literal(Float(max_tax_rate, 100)))
          /\ Known(n)
        BY <1>16 DEF rule_tax_rate, RuleNodes, Fields, Comparisons
    <2> QED  BY <1>1, <1>3, <2>1
<1>17. \A k \in 1..2 : k = 1 \/ k = 2
    OBVIOUS
<1> QED
    BY <1>5, <1>6, <1>7, <1>8, <1>9, <1>10, <1>11, <1>12, <1>13, <1>14, <1>15, <1>16, <1>17
    DEF RuleNodes

(* The conditions of the engine's rules are among RuleNodes.                *)
LEMMA RulesAreKnown == \A i \in 1..Len(rules) : rules[i].condition \in RuleNodes
<1>1. /\ rules[1].condition = rule_lines_subtotal /\ rules[2].condition = rule_subtotal_tax
      /\ rules[3].condition = rule_tax_rate /\ Len(rules) = 3
    BY DEF rules, RuleNode
<1>2. \A i \in 1..3 : i \in {1, 2, 3}
    OBVIOUS
<1> QED  BY <1>1, <1>2 DEF RuleNodes

(* The walk of the engine's rules stays within RuleNodes.                   *)
LEMMA KnownStep ==
    TypeOK /\ StackInv /\ KnownInv /\ [Next]_vars => KnownInv'
<1> SUFFICES ASSUME TypeOK, StackInv, KnownInv, [Next]_vars, program' = rules
             PROVE  /\ \A i \in 1..Len(stack') : stack'[i].node \in RuleNodes
                    /\ stack' = <<>> => current' > Len(program')
    BY DEF KnownInv
<1>1. program = rules /\ \A i \in 1..Len(stack) : stack[i].node \in RuleNodes
    BY DEF KnownInv, Next, Call, Return, Returns, evaluate_rule, EvaluationError, vars
<1>2. CASE Call
    <2> DEFINE callee == Top.node.operands[Len(Top.args) + 1]
    <2>1. /\ Len(stack) \in Nat \ {0} /\ stack \in Seq(Frames)
          /\ Top.node \in Nodes /\ Top.args \in Seq(Results)
          /\ Given(Top.node, Top.args, returned)
        BY <1>2, StackFacts DEF Call
    <2>2. Len(Top.args) < Len(Top.node.operands) /\ callee \in Nodes
        BY <1>2, <2>1, NextOperand DEF Call
    <2>3. Len(Top.args) + 1 \in 1..Len(Top.node.operands)
        BY <2>1, <2>2, NodeFacts, LenProperties
    <2>4. callee \in RuleNodes
        BY <1>1, <2>1, <2>3, KnownOperators DEF Top
    <2>5. Frame(callee) \in Frames /\ Frame(callee).node = callee
        BY <2>2, FirstFrame
    <2>6. stack' = Append(stack, Frame(callee))
        BY <1>2 DEF Call
    <2>7. /\ Len(stack') = Len(stack) + 1
          /\ \A i \in 1..Len(stack) : stack'[i] = stack[i]
          /\ stack'[Len(stack) + 1] = Frame(callee)
        BY <2>1, <2>5, <2>6, AppendProperties
    <2>8. \A i \in 1..(Len(stack) + 1) : i \in 1..Len(stack) \/ i = Len(stack) + 1
        BY <2>1
    <2>9. stack' # <<>>
        BY <2>1, <2>7
    <2> HIDE DEF callee
    <2> QED  BY <1>1, <2>4, <2>5, <2>7, <2>8, <2>9
<1>3. CASE Return
    <2>1. /\ Len(stack) \in Nat /\ Len(stack) > 1 /\ stack \in Seq(Frames)
          /\ Value \in Results /\ stack' = Returned(stack, Value)
        BY <1>3, StackFacts, ReturnedValue DEF Return, Returns, Returned
    <2> DEFINE c == Len(stack) - 1
    <2>2. /\ Len(stack') = c /\ stack'[c].node = stack[c].node
          /\ \A i \in 1..(c - 1) : stack'[i] = stack[i]
        BY <2>1, ReturnedFrames
    <2>3. \A i \in 1..c : i \in 1..Len(stack) /\ (i = c \/ i \in 1..(c - 1))
        BY <2>1
    <2>4. stack' # <<>>
        BY <2>1, <2>2
    <2> HIDE DEF c
    <2> QED  BY <1>1, <2>2, <2>3, <2>4
<1>4. CASE evaluate_rule
    <2>1. /\ current \in 1..Len(program) /\ Len(program) \in Nat
          /\ current' = current + 1 /\ program' = program
          /\ \A i \in 1..Len(program) : program[i].condition \in Nodes
        BY <1>4, ProgramFacts DEF evaluate_rule, Returns, StackInv, TypeOK
    <2>2. CASE current < Len(program)
        <3> DEFINE next == program[current + 1].condition
        <3>1. next \in Nodes /\ next \in RuleNodes
            BY <1>1, <2>1, <2>2, RulesAreKnown
        <3>2. stack' = <<Frame(next)>> /\ Frame(next).node = next
            BY <1>4, <2>2, <3>1, FirstFrame DEF evaluate_rule
        <3>3. \A i \in 1..1 : i = 1
            OBVIOUS
        <3> HIDE DEF next
        <3> QED  BY <3>1, <3>2, <3>3
    <2>3. CASE ~(current < Len(program))
        <3>1. stack' = <<>>
            BY <1>4, <2>3 DEF evaluate_rule
        <3>2. current' > Len(program')
            BY <2>1, <2>3
        <3> QED  BY <3>1, <3>2
    <2> QED  BY <2>2, <2>3
<1>5. CASE EvaluationError
    <2>1. Len(stack) \in 1..Len(stack)
        BY <1>5, StackFacts DEF EvaluationError
    <2>2. Top.node \in RuleNodes
        BY <1>1, <2>1 DEF Top
    <2> QED  BY <1>5, <2>2, KnownOperators DEF EvaluationError
<1>6. CASE UNCHANGED vars
    BY <1>1, <1>6 DEF KnownInv, vars
<1> QED  BY <1>2, <1>3, <1>4, <1>5, <1>6 DEF Next

-----------------------------------------------------------------------------
(* What a history says of each kind of node in the engine's trees.          *)

(* A value in a history is the result of returned arguments.                *)
LEMMA ValueOfNode ==
    ASSUME NEW past, NEW ctx, History(past, ctx), NEW n, NEW v, <<n, v>> \in past
    PROVE  /\ n \in Nodes
           /\ \E args \in Seq(Results) :
                /\ Given(n, args, past) /\ Finished(n, args) /\ ~Raises(n, args)
                /\ v = Result(n, args, ctx)
<1> DEFINE r == <<n, v>>
<1>1. r \in past /\ r[1] = n /\ r[2] = v
    OBVIOUS
<1>2. r[1] \in Nodes /\ Justified(r[1], r[2], past, ctx)
    <2> HIDE DEF r
    <2> QED  BY <1>1 DEF History
<1> HIDE DEF r
<1> QED  BY <1>1, <1>2 DEF Justified

(* A field: None if it is missing, else its hundredths                      *)
LEMMA ValueOfField ==
    ASSUME NEW past, NEW ctx, History(past, ctx), NEW f, NEW v, <<FieldRef(f), v>> \in past
    PROVE  v = IF ctx[f] = None THEN None ELSE Float(ctx[f], 100)
<1>1. PICK args : v = Result(FieldRef(f), args, ctx)
    BY ValueOfNode
<1> QED  BY <1>1 DEF Result, FieldRef

(* A literal: its value                                                     *)
LEMMA ValueOfLiteral ==
    ASSUME NEW past, NEW ctx, History(past, ctx), NEW c, NEW v, <<Literal(c), v>> \in past
    PROVE  v = c
<1>1. PICK args : v = Result(Literal(c), args, ctx)
    BY ValueOfNode
<1> QED  BY <1>1 DEF Result, Literal

Operated(past, op, a, b, v) ==
    \E l, r : <<a, l>> \in past /\ <<b, r>> \in past /\ v = Binary(op, l, r)

(* A binary node: the operator on what its operands returned                *)
LEMMA ValueOfBinary ==
    ASSUME NEW past, NEW ctx, History(past, ctx), NEW op, NEW a, NEW b, NEW v,
           <<BinaryOp(op, a, b), v>> \in past
    PROVE  Operated(past, op, a, b, v)
<1> DEFINE n == BinaryOp(op, a, b)
<1>1. PICK args \in Seq(Results) :
        Given(n, args, past) /\ Finished(n, args) /\ v = Result(n, args, ctx)
    BY ValueOfNode
<1>2. /\ n.node = "BinaryOp" /\ n.op = op /\ Len(n.operands) = 2
      /\ n.operands[1] = a /\ n.operands[2] = b
    BY DEF BinaryOp
<1> HIDE DEF n
<1>3. Len(args) = 2 /\ v = Binary(op, args[1], args[2])
    BY <1>1, <1>2 DEF Finished, Result
<1>4. 1 \in 1..2 /\ 2 \in 1..2
    OBVIOUS
<1>5. <<a, args[1]>> \in past /\ <<b, args[2]>> \in past
    BY <1>1, <1>2, <1>3, <1>4 DEF Given
<1> QED  BY <1>3, <1>5 DEF Operated

(* A test for a field: whether it is there                                  *)
LEMMA ValueOfIsNotNull ==
    ASSUME NEW past, NEW ctx \in Contexts, History(past, ctx), NEW f \in Fields, NEW v,
           <<IsNotNull(f), v>> \in past
    PROVE  v = Truth(ctx[f] # None)
<1> DEFINE n == IsNotNull(f)
<1>1. PICK args \in Seq(Results) :
        Given(n, args, past) /\ Finished(n, args) /\ v = Result(n, args, ctx)
    BY ValueOfNode
<1>2. /\ n.node = "ConditionNode" /\ n.op = "is_not_null" /\ Len(n.operands) = 1
      /\ n.operands[1] = FieldRef(f)
    BY DEF IsNotNull, ConditionNode
<1> HIDE DEF n
<1>3. Len(args) = 1
    BY <1>1, <1>2 DEF Finished, Decided
<1>4. v = Truth(args[1] # None)
    BY <1>1, <1>2 DEF Result, Condition
<1>5. <<FieldRef(f), args[1]>> \in past
    BY <1>1, <1>2, <1>3 DEF Given
<1>6. args[1] = IF ctx[f] = None THEN None ELSE Float(ctx[f], 100)
    BY <1>5, ValueOfField
<1>7. ctx[f] # None => Float(ctx[f], 100) # None
    <2>1. \A c \in Int : Float(c, 100) \in Fractions
        BY DEF Float, Number, Fractions
    <2> QED  BY <2>1, TreesAssumption DEF Contexts, Numbers
<1>8. args[1] # None <=> ctx[f] # None
    BY <1>6, <1>7
<1>9. (args[1] # None) = (ctx[f] # None)
    BY <1>8
<1> QED  BY <1>4, <1>9

(* A conjunction whose operands are True under the conditions given         *)
LEMMA ValueOfAnd ==
    ASSUME NEW past, NEW ctx, History(past, ctx), NEW operands, NEW v,
           <<ConditionNode("and", operands), v>> \in past,
           NEW holds, \A k \in 1..Len(operands) : \A w :
                <<operands[k], w>> \in past => (w = True <=> holds[k])
    PROVE  v = Truth(\A k \in 1..Len(operands) : holds[k])
<1> DEFINE n == ConditionNode("and", operands)
<1>1. n \in Nodes
    BY ValueOfNode
<1>2. PICK args \in Seq(Results) :
        Given(n, args, past) /\ Finished(n, args) /\ v = Result(n, args, ctx)
    BY ValueOfNode
<1>3. n.node = "ConditionNode" /\ n.op = "and" /\ n.operands = operands
    BY DEF ConditionNode
<1>4. Len(operands) \in Nat /\ Len(args) \in Nat /\ DOMAIN args = 1..Len(args)
    BY <1>1, <1>3, NodeFacts, LenProperties
<1> HIDE DEF n
<1>5. \A k \in 1..Len(args) : k \in 1..Len(operands) /\ (args[k] = True <=> holds[k])
    <2>1. Len(args) <= Len(operands) /\ \A k \in 1..Len(args) : <<operands[k], args[k]>> \in past
        BY <1>2, <1>3 DEF Given
    <2>2. \A k \in 1..Len(args) : k \in 1..Len(operands)
        BY <1>4, <2>1
    <2> QED  BY <2>1, <2>2
<1>6. (\A k \in 1..Len(args) : args[k] = True) <=> \A k \in 1..Len(operands) : holds[k]
    <2>1. CASE Len(args) = Len(operands)
        BY <1>5, <2>1
    <2>2. CASE Len(args) # Len(operands)
        <3>1. args # <<>> /\ args[Len(args)] # True
            BY <1>2, <1>3, <2>2 DEF Finished, Decided
        <3>2. Len(args) \in 1..Len(args)
            <4>1. Len(args) # 0
                BY <3>1, EmptySeq
            <4> QED  BY <1>4, <4>1
        <3> QED  BY <1>5, <3>1, <3>2
    <2> QED  BY <2>1, <2>2
<1>7. v = Truth(\A k \in DOMAIN args : args[k] = True)
    BY <1>2, <1>3 DEF Result, Condition
<1>8. (\A k \in DOMAIN args : args[k] = True) = (\A k \in 1..Len(operands) : holds[k])
    BY <1>4, <1>6
<1> QED  BY <1>7, <1>8

(* An implication whose premise is a truth                                  *)
LEMMA ValueOfImplies ==
    ASSUME NEW past, NEW ctx, History(past, ctx), NEW a, NEW b, NEW v,
           <<ConditionNode("implies", <<a, b>>), v>> \in past,
           NEW holds \in BOOLEAN, \A w : <<a, w>> \in past => w = Truth(holds)
    PROVE  IF holds THEN \E w : <<b, w>> \in past /\ v = Truth(IsTruthy(w))
           ELSE v = True
<1> DEFINE n == ConditionNode("implies", <<a, b>>)
<1>1. PICK args \in Seq(Results) :
        Given(n, args, past) /\ Finished(n, args) /\ v = Result(n, args, ctx)
    BY ValueOfNode
<1>2. /\ n.node = "ConditionNode" /\ n.op = "implies" /\ Len(n.operands) = 2
      /\ n.operands[1] = a /\ n.operands[2] = b
    BY DEF ConditionNode
<1>3. Len(args) \in Nat
    BY LenProperties
<1> HIDE DEF n
<1>4. Len(args) # 0
    BY <1>1, <1>2, EmptySeq DEF Finished
<1>5. args[1] = Truth(holds)
    <2>1. 1 \in 1..Len(args)
        BY <1>3, <1>4
    <2> QED  BY <1>1, <1>2, <2>1 DEF Given
<1>6. IsTruthy(args[1]) <=> holds
    BY <1>5, TruthIsNumber
<1>7. v = Truth(IsTruthy(args[1]) => IsTruthy(args[2]))
    BY <1>1, <1>2 DEF Result, Condition
<1>8. CASE ~holds
    <2>1. (IsTruthy(args[1]) => IsTruthy(args[2])) = TRUE
        BY <1>6, <1>8
    <2> QED  BY <1>7, <1>8, <2>1 DEF True
<1>9. CASE holds
    <2>1. Len(args) = 2
        <3>1. ASSUME Len(args) = 1 PROVE FALSE
            BY <1>1, <1>2, <1>6, <1>9, <3>1 DEF Finished, Decided
        <3>2. Len(args) <= 2
            BY <1>1, <1>2 DEF Given
        <3>3. \A d \in Nat : d <= 2 /\ d # 0 /\ d # 1 => d = 2
            OBVIOUS
        <3> QED  BY <1>3, <1>4, <3>1, <3>2, <3>3
    <2>2. <<b, args[2]>> \in past
        <3>1. 2 \in 1..Len(args)
            BY <2>1
        <3> QED  BY <1>1, <1>2, <3>1 DEF Given
    <2>3. (IsTruthy(args[1]) => IsTruthy(args[2])) = IsTruthy(args[2])
        BY <1>6, <1>9 DEF IsTruthy
    <2> QED  BY <1>7, <1>9, <2>2, <2>3
<1> QED  BY <1>8, <1>9

-----------------------------------------------------------------------------
(* The arithmetic of the two engines: hundredths against cents.             *)

(* An amount in cents is a float with two decimals.                         *)
LEMMA Cents ==
    ASSUME NEW c \in Int
    PROVE  /\ Float(c, 100).num = c /\ Float(c, 100).den = 100
           /\ Float(c, 100).type = "float"
           /\ Float(c, 100) \in Fractions /\ Float(c, 100) \notin {None, NaN}
<1>1. Float(c, 100) \in Fractions
    BY DEF Float, Number, Fractions
<1> QED  BY <1>1, TreesAssumption DEF Float, Number, Numbers

(* abs_diff_lte of two amounts is closeness in cents ...                    *)
LEMMA ClosePair ==
    ASSUME NEW a \in Int, NEW b \in Int
    PROVE  abs_diff_lte(Float(a, 100), Float(b, 100)) <=> Distance(a, b) <= amount_tolerance
<1> DEFINE d == Minus(Float(a, 100), Float(b, 100))
<1>1. d.num = a * 100 - b * 100 /\ d.den = 10000
    BY Cents DEF Minus, Number
<1>2. Absolute(d).num = Distance(a * 100 - b * 100, 0) /\ Absolute(d).den = 10000
    BY <1>1 DEF Absolute, Number
<1>3. tolerance.num = amount_tolerance /\ tolerance.den = 100 /\ amount_tolerance \in Nat
    BY RulesAssumption DEF tolerance, Float, Number
<1>4. Distance(a * 100 - b * 100, 0) * 100 <= amount_tolerance * 10000
        <=> Distance(a, b) <= amount_tolerance
    BY <1>3 DEF Distance
<1> HIDE DEF d
<1> QED  BY <1>2, <1>3, <1>4 DEF abs_diff_lte, AtMost, d

(* ... also of a sum and an amount.                                         *)
LEMMA CloseSum ==
    ASSUME NEW a \in Int, NEW b \in Int, NEW c \in Int
    PROVE  /\ Plus(Float(a, 100), Float(b, 100)) \in Fractions
           /\ abs_diff_lte(Plus(Float(a, 100), Float(b, 100)), Float(c, 100))
                <=> Distance(a + b, c) <= amount_tolerance
<1> DEFINE sum == Plus(Float(a, 100), Float(b, 100))
           d == Minus(sum, Float(c, 100))
<1>1. sum.num = a * 100 + b * 100 /\ sum.den = 10000 /\ sum \in Fractions
    BY Cents DEF Plus, Number, Type, Fractions
<1> HIDE DEF sum
<1>2. d.num = (a * 100 + b * 100) * 100 - c * 10000 /\ d.den = 1000000
    BY <1>1, Cents DEF Minus, Number
<1>3. /\ Absolute(d).num = Distance((a * 100 + b * 100) * 100 - c * 10000, 0)
      /\ Absolute(d).den = 1000000
    BY <1>2 DEF Absolute, Number
<1>4. tolerance.num = amount_tolerance /\ tolerance.den = 100 /\ amount_tolerance \in Nat
    BY RulesAssumption DEF tolerance, Float, Number
<1>5. Distance((a * 100 + b * 100) * 100 - c * 10000, 0) * 100 <= amount_tolerance * 1000000
        <=> Distance(a + b, c) <= amount_tolerance
    BY <1>4 DEF Distance
<1>6. abs_diff_lte(sum, Float(c, 100)) <=> Distance(a + b, c) <= amount_tolerance
    <2> HIDE DEF d
    <2> QED  BY <1>3, <1>4, <1>5 DEF abs_diff_lte, AtMost, d
<1> QED  BY <1>1, <1>6 DEF sum

(* A quotient is at most the maximal rate when the products compare so.     *)
LEMMA RatePlausible ==
    ASSUME NEW s \in Int, NEW t \in Int, s > 0
    PROVE  /\ Over(Float(t, 100), Float(s, 100)) \in Fractions
           /\ AtMost(Over(Float(t, 100), Float(s, 100)), Float(max_tax_rate, 100))
                <=> 100 * t <= max_tax_rate * s
<1> DEFINE rate == Over(Float(t, 100), Float(s, 100))
           limit == max_tax_rate * s
<1>1. rate = Float(t * 100, 100 * s)
    BY Cents DEF Over
<1>2. rate.num = t * 100 /\ rate.den = 100 * s /\ rate \in Fractions
    BY <1>1 DEF Float, Number, Fractions
<1>3. max_tax_rate \in Int /\ limit \in Int
    BY RulesAssumption
<1>4. max_tax_rate * (100 * s) = 100 * limit
    BY <1>3
<1>5. Float(max_tax_rate, 100).num = max_tax_rate /\ Float(max_tax_rate, 100).den = 100
    BY <1>3, Cents
<1>6. AtMost(rate, Float(max_tax_rate, 100)) <=> (t * 100) * 100 <= 100 * limit
    BY <1>2, <1>4, <1>5 DEF AtMost
<1>7. (t * 100) * 100 <= 100 * limit <=> 100 * t <= limit
    <2> HIDE DEF limit
    <2> QED  BY <1>3
<1> QED  BY <1>2, <1>6, <1>7

-----------------------------------------------------------------------------
(* The verdict of each rule is that of the validator.                       *)

InvoiceOf(ctx) == [f \in Fields \cup {"ties"} |-> IF f = "ties" THEN {} ELSE ctx[f]]

(* The fields of a context as those of an invoice                           *)
LEMMA InvoiceFields ==
    ASSUME NEW ctx \in Contexts
    PROVE  /\ InvoiceOf(ctx).subtotal = ctx["subtotal"] /\ InvoiceOf(ctx).tax = ctx["tax"]
           /\ InvoiceOf(ctx).total = ctx["total"]
           /\ InvoiceOf(ctx).lines_sum = ctx["lines_sum"]
           /\ InvoiceOf(ctx).ties = {}
           /\ \A f \in Fields : ctx[f] \in Int \cup {None}
           /\ {"subtotal", "tax", "total", "lines_sum"} \subseteq Fields
BY DEF InvoiceOf, Fields, Contexts

(* A comparison of two fractions gives the truth of the comparison.         *)
LEMMA ClosenessValue ==
    ASSUME NEW l \in Fractions, NEW r \in Fractions, NEW op \in Comparisons
    PROVE  /\ Binary(op, l, r) = Truth(Compare(op, l, r))
           /\ IsTruthy(Binary(op, l, r)) <=> Compare(op, l, r)
           /\ Binary(op, l, r) = True <=> Compare(op, l, r)
<1>1. op \notin Arithmetic
    BY DEF Comparisons, Arithmetic
<1>2. None \notin {l, r} /\ NaN \notin {l, r}
    BY TreesAssumption DEF Numbers
<1>3. Binary(op, l, r) = Truth(Compare(op, l, r))
    BY <1>1, <1>2 DEF Binary
<1> QED  BY <1>3, CompareType, TruthIsNumber

(* The shape of the engine's rules: a comparison under what it takes.       *)
LEMMA GuardedVerdict ==
    ASSUME NEW past, NEW ctx, History(past, ctx), NEW operands, NEW expr, NEW v,
           <<ConditionNode("implies", <<ConditionNode("and", operands), expr>>), v>> \in past,
           NEW holds, NEW guard \in BOOLEAN,
           guard <=> \A k \in 1..Len(operands) : holds[k],
           \A k \in 1..Len(operands) : \A w :
                <<operands[k], w>> \in past => (w = True <=> holds[k])
    PROVE  IF guard THEN \E w : <<expr, w>> \in past
                                /\ (v \notin {True, None} <=> ~IsTruthy(w))
           ELSE v \in {True, None}
<1>1. ASSUME NEW w, <<ConditionNode("and", operands), w>> \in past PROVE w = Truth(guard)
    <2>1. w = Truth(\A k \in 1..Len(operands) : holds[k])
        BY <1>1, ValueOfAnd
    <2>2. (\A k \in 1..Len(operands) : holds[k]) = guard
        OBVIOUS
    <2> QED  BY <2>1, <2>2
<1>2. IF guard THEN \E w : <<expr, w>> \in past /\ v = Truth(IsTruthy(w)) ELSE v = True
    BY <1>1, ValueOfImplies
<1>3. \A w : IsTruthy(w) \in BOOLEAN
    BY DEF IsTruthy
<1> QED  BY <1>2, <1>3, TruthIsNumber

(* An operand that tests a field is True when the field is there.           *)
LEMMA ValueOfPresent ==
    ASSUME NEW past, NEW ctx \in Contexts, History(past, ctx)
    PROVE  \A f \in {"subtotal", "tax", "total", "lines_sum"} : \A w :
                <<IsNotNull(f), w>> \in past => (w = True <=> ctx[f] # None)
<1> TAKE f \in {"subtotal", "tax", "total", "lines_sum"}
<1> SUFFICES ASSUME NEW w, <<IsNotNull(f), w>> \in past PROVE w = True <=> ctx[f] # None
    OBVIOUS
<1>1. w = Truth(ctx[f] # None)
    BY InvoiceFields, ValueOfIsNotNull
<1> QED  BY <1>1, TruthIsNumber

(* What a comparison in a tree compared                                     *)
LEMMA ValuesCompared ==
    ASSUME NEW past, NEW ctx, History(past, ctx)
    PROVE  \A op, a, b, w : <<BinaryOp(op, a, b), w>> \in past => Operated(past, op, a, b, w)
<1> TAKE op, a, b, w
<1> QED  BY ValueOfBinary

(* lines_vs_subtotal fails exactly when the validator reports it.           *)
LEMMA LinesVerdict ==
    ASSUME NEW past, NEW ctx \in Contexts, History(past, ctx), NEW v,
           <<rule_lines_subtotal, v>> \in past
    PROVE  v \notin {True, None} <=> LinesDiffer(InvoiceOf(ctx))
<1> DEFINE sub == ctx["subtotal"]
           lin == ctx["lines_sum"]
           ops == <<IsNotNull("subtotal"), IsNotNull("lines_sum")>>
           close == BinaryOp("abs_diff_lte", FieldRef("lines_sum"), FieldRef("subtotal"))
           guard == sub # None /\ lin # None
           holds == <<sub # None, lin # None>>
<1>1. \A k \in 1..2 : k = 1 \/ k = 2
    OBVIOUS
<1>10. \A f \in {"subtotal", "tax", "total", "lines_sum"} : \A w :
            <<IsNotNull(f), w>> \in past => (w = True <=> ctx[f] # None)
    BY ValueOfPresent
<1>11. \A op, a, b, w : <<BinaryOp(op, a, b), w>> \in past => Operated(past, op, a, b, w)
    BY ValuesCompared
<1>2. \A k \in 1..Len(ops) : \A w : <<ops[k], w>> \in past => (w = True <=> holds[k])
    <2>1. \A w : <<ops[1], w>> \in past => (w = True <=> holds[1])
        BY <1>10
    <2>2. \A w : <<ops[2], w>> \in past => (w = True <=> holds[2])
        BY <1>10
    <2> QED  BY <1>1, <2>1, <2>2
<1>3. guard <=> \A k \in 1..Len(ops) : holds[k]
    <2>1. (\A k \in 1..2 : holds[k]) <=> holds[1] /\ holds[2]
        BY <1>1
    <2> QED  BY <2>1
<1>4. rule_lines_subtotal = ConditionNode("implies", <<ConditionNode("and", ops), close>>)
    BY DEF rule_lines_subtotal
<1>5. guard \in BOOLEAN
    OBVIOUS
<1>6. IF guard THEN \E w : <<close, w>> \in past /\ (v \notin {True, None} <=> ~IsTruthy(w))
      ELSE v \in {True, None}
    <2> HIDE DEF ops, close, guard, holds
    <2> QED  BY <1>2, <1>3, <1>4, <1>5, GuardedVerdict
<1>7. CASE ~guard
    <2>1. ~LinesDiffer(InvoiceOf(ctx))
        BY <1>7, InvoiceFields DEF LinesDiffer
    <2> QED  BY <1>6, <1>7, <2>1
<1>8. CASE guard
    <2>1. sub \in Int /\ lin \in Int
        BY <1>8, InvoiceFields
    <2>2. PICK w : <<close, w>> \in past /\ (v \notin {True, None} <=> ~IsTruthy(w))
        BY <1>6, <1>8
    <2>3. PICK l, r : /\ <<FieldRef("lines_sum"), l>> \in past
                      /\ <<FieldRef("subtotal"), r>> \in past
                      /\ w = Binary("abs_diff_lte", l, r)
        <3>1. Operated(past, "abs_diff_lte", FieldRef("lines_sum"), FieldRef("subtotal"), w)
            BY <2>2, <1>11
        <3> QED  BY <3>1 DEF Operated
    <2>4. l = Float(lin, 100) /\ r = Float(sub, 100)
        BY <1>8, <2>3, ValueOfField
    <2>5. IsTruthy(w) <=> Compare("abs_diff_lte", l, r)
        BY <2>1, <2>3, <2>4, Cents, ClosenessValue DEF Comparisons
    <2>6. Compare("abs_diff_lte", l, r) <=> Distance(lin, sub) <= amount_tolerance
        BY <2>1, <2>4, ClosePair DEF Compare
    <2>7. LinesDiffer(InvoiceOf(ctx)) <=> Distance(sub, lin) > amount_tolerance
        BY <1>8, InvoiceFields DEF LinesDiffer, Exceeds
    <2>8. Distance(lin, sub) = Distance(sub, lin) /\ Distance(sub, lin) \in Int
        BY <2>1 DEF Distance
    <2>9. amount_tolerance \in Int
        BY RulesAssumption
    <2>10. Distance(lin, sub) <= amount_tolerance <=> ~(Distance(sub, lin) > amount_tolerance)
        BY <2>8, <2>9
    <2> QED  BY <2>2, <2>5, <2>6, <2>7, <2>10
<1> QED  BY <1>7, <1>8

(* So does subtotal_plus_tax ...                                            *)
LEMMA TotalVerdict ==
    ASSUME NEW past, NEW ctx \in Contexts, History(past, ctx), NEW v,
           <<rule_subtotal_tax, v>> \in past
    PROVE  v \notin {True, None} <=> TotalDiffers(InvoiceOf(ctx))
<1> DEFINE sub == ctx["subtotal"]
           tax == ctx["tax"]
           tot == ctx["total"]
           ops == <<IsNotNull("subtotal"), IsNotNull("tax"), IsNotNull("total")>>
           plus == BinaryOp("+", FieldRef("subtotal"), FieldRef("tax"))
           close == BinaryOp("abs_diff_lte", plus, FieldRef("total"))
           guard == sub # None /\ tax # None /\ tot # None
           holds == <<sub # None, tax # None, tot # None>>
<1>1. \A k \in 1..3 : k = 1 \/ k = 2 \/ k = 3
    OBVIOUS
<1>10. \A f \in {"subtotal", "tax", "total", "lines_sum"} : \A w :
            <<IsNotNull(f), w>> \in past => (w = True <=> ctx[f] # None)
    BY ValueOfPresent
<1>11. \A op, a, b, w : <<BinaryOp(op, a, b), w>> \in past => Operated(past, op, a, b, w)
    BY ValuesCompared
<1>2. \A k \in 1..Len(ops) : \A w : <<ops[k], w>> \in past => (w = True <=> holds[k])
    <2>1. \A w : <<ops[1], w>> \in past => (w = True <=> holds[1])
        BY <1>10
    <2>2. \A w : <<ops[2], w>> \in past => (w = True <=> holds[2])
        BY <1>10
    <2>3. \A w : <<ops[3], w>> \in past => (w = True <=> holds[3])
        BY <1>10
    <2> QED  BY <1>1, <2>1, <2>2, <2>3
<1>3. guard <=> \A k \in 1..Len(ops) : holds[k]
    <2>1. (\A k \in 1..3 : holds[k]) <=> holds[1] /\ holds[2] /\ holds[3]
        BY <1>1
    <2> QED  BY <2>1
<1>4. rule_subtotal_tax = ConditionNode("implies", <<ConditionNode("and", ops), close>>)
    BY DEF rule_subtotal_tax
<1>5. guard \in BOOLEAN
    OBVIOUS
<1>6. IF guard THEN \E w : <<close, w>> \in past /\ (v \notin {True, None} <=> ~IsTruthy(w))
      ELSE v \in {True, None}
    <2> HIDE DEF ops, close, guard, holds
    <2> QED  BY <1>2, <1>3, <1>4, <1>5, GuardedVerdict
<1>7. CASE ~guard
    <2>1. ~TotalDiffers(InvoiceOf(ctx))
        BY <1>7, InvoiceFields DEF TotalDiffers
    <2> QED  BY <1>6, <1>7, <2>1
<1>8. CASE guard
    <2>1. sub \in Int /\ tax \in Int /\ tot \in Int
        BY <1>8, InvoiceFields
    <2>2. PICK w : <<close, w>> \in past /\ (v \notin {True, None} <=> ~IsTruthy(w))
        BY <1>6, <1>8
    <2>3. PICK l, r : /\ <<plus, l>> \in past /\ <<FieldRef("total"), r>> \in past
                      /\ w = Binary("abs_diff_lte", l, r)
        <3>1. Operated(past, "abs_diff_lte", plus, FieldRef("total"), w)
            BY <2>2, <1>11
        <3> HIDE DEF plus
        <3> QED  BY <3>1 DEF Operated
    <2>4. PICK a, b : /\ <<FieldRef("subtotal"), a>> \in past
                      /\ <<FieldRef("tax"), b>> \in past /\ l = Binary("+", a, b)
        <3>1. Operated(past, "+", FieldRef("subtotal"), FieldRef("tax"), l)
            BY <2>3, <1>11
        <3> QED  BY <3>1 DEF Operated
    <2>5. r = Float(tot, 100) /\ a = Float(sub, 100) /\ b = Float(tax, 100)
        BY <1>8, <2>3, <2>4, ValueOfField
    <2>6. l = Plus(a, b)
        BY <2>1, <2>4, <2>5, Cents DEF Binary, Arithmetic, Compute
    <2>7. IsTruthy(w) <=> Compare("abs_diff_lte", l, r)
        <3>1. l \in Fractions /\ r \in Fractions
            BY <2>1, <2>5, <2>6, Cents, CloseSum
        <3> QED  BY <2>3, <3>1, ClosenessValue DEF Comparisons
    <2>8. Compare("abs_diff_lte", l, r) <=> Distance(sub + tax, tot) <= amount_tolerance
        BY <2>1, <2>5, <2>6, CloseSum DEF Compare
    <2>9. TotalDiffers(InvoiceOf(ctx)) <=> Distance(sub + tax, tot) > amount_tolerance
        BY <1>8, InvoiceFields DEF TotalDiffers, Exceeds
    <2>10. Distance(sub + tax, tot) \in Int /\ amount_tolerance \in Int
        BY <2>1, RulesAssumption DEF Distance
    <2>11. Distance(sub + tax, tot) <= amount_tolerance
            <=> ~(Distance(sub + tax, tot) > amount_tolerance)
        BY <2>10
    <2> QED  BY <2>2, <2>7, <2>8, <2>9, <2>11
<1> QED  BY <1>7, <1>8

RateImplausible(inv) ==
    /\ None \notin {inv.subtotal, inv.tax}
    /\ inv.subtotal > 0
    /\ Exceeds(inv, "tax_rate_implausible", 100 * inv.tax, max_tax_rate * inv.subtotal)

(* The third condition of the rate rule: a subtotal above zero              *)
LEMMA ValueOfPositive ==
    ASSUME NEW past, NEW ctx \in Contexts, History(past, ctx), NEW w,
           <<BinaryOp(">", FieldRef("subtotal"), Literal(Float(0, 1))), w>> \in past
    PROVE  w = True <=> ctx["subtotal"] # None /\ ctx["subtotal"] > 0
<1> DEFINE zero == Literal(Float(0, 1))
           sub == ctx["subtotal"]
<1>1. PICK l, r : /\ <<FieldRef("subtotal"), l>> \in past /\ <<zero, r>> \in past
                  /\ w = Binary(">", l, r)
    <2>1. Operated(past, ">", FieldRef("subtotal"), zero, w)
        BY ValueOfBinary
    <2> HIDE DEF zero
    <2> QED  BY <2>1 DEF Operated
<1>2. r = Float(0, 1) /\ l = IF sub = None THEN None ELSE Float(sub, 100)
    BY <1>1, ValueOfField, ValueOfLiteral
<1>3. r.num = 0 /\ r.den = 1 /\ r \in Fractions
    BY <1>2 DEF Float, Number, Fractions
<1>4. CASE sub = None
    <2>1. w = None
        BY <1>1, <1>2, <1>4 DEF Binary
    <2> QED  BY <1>4, <2>1, TruthIsNumber DEF True
<1>5. CASE sub # None
    <2>1. sub \in Int
        BY <1>5, InvoiceFields
    <2>2. l.num = sub /\ l.den = 100 /\ l \in Fractions
        BY <1>2, <1>5, <2>1, Cents
    <2>3. w = True <=> Compare(">", l, r)
        BY <1>1, <1>3, <2>2, ClosenessValue DEF Comparisons
    <2>4. Compare(">", l, r) <=> ~(sub * 1 <= 0 * 100)
        BY <1>3, <2>2 DEF Compare, AtMost
    <2> QED  BY <1>5, <2>1, <2>3, <2>4
<1> QED  BY <1>4, <1>5

(* ... and tax_rate_implausible, which divides by a positive subtotal only. *)
LEMMA RateVerdict ==
    ASSUME NEW past, NEW ctx \in Contexts, History(past, ctx), NEW v,
           <<rule_tax_rate, v>> \in past
    PROVE  v \notin {True, None} <=> RateImplausible(InvoiceOf(ctx))
<1> DEFINE sub == ctx["subtotal"]
           tax == ctx["tax"]
           positive == BinaryOp(">", FieldRef("subtotal"), Literal(Float(0, 1)))
           ops == <<IsNotNull("subtotal"), IsNotNull("tax"), positive>>
           over == BinaryOp("/", FieldRef("tax"), FieldRef("subtotal"))
           limit == Literal(Float(max_tax_rate, 100))
           below == BinaryOp("<=", over, limit)
           guard == sub # None /\ tax # None /\ sub > 0
           holds == <<sub # None, tax # None, sub # None /\ sub > 0>>
<1>1. \A k \in 1..3 : k = 1 \/ k = 2 \/ k = 3
    OBVIOUS
<1>10. \A f \in {"subtotal", "tax", "total", "lines_sum"} : \A w :
            <<IsNotNull(f), w>> \in past => (w = True <=> ctx[f] # None)
    BY ValueOfPresent
<1>11. \A op, a, b, w : <<BinaryOp(op, a, b), w>> \in past => Operated(past, op, a, b, w)
    BY ValuesCompared
<1>2. \A k \in 1..Len(ops) : \A w : <<ops[k], w>> \in past => (w = True <=> holds[k])
    <2>1. \A w : <<ops[1], w>> \in past => (w = True <=> holds[1])
        BY <1>10
    <2>2. \A w : <<ops[2], w>> \in past => (w = True <=> holds[2])
        BY <1>10
    <2>3. \A w : <<ops[3], w>> \in past => (w = True <=> holds[3])
        <3> SUFFICES ASSUME NEW w, <<positive, w>> \in past
                     PROVE  w = True <=> sub # None /\ sub > 0
            OBVIOUS
        <3> QED  BY ValueOfPositive
    <2> QED  BY <1>1, <2>1, <2>2, <2>3
<1>3. guard <=> \A k \in 1..Len(ops) : holds[k]
    <2>1. (\A k \in 1..3 : holds[k]) <=> holds[1] /\ holds[2] /\ holds[3]
        BY <1>1
    <2> QED  BY <2>1
<1>4. rule_tax_rate = ConditionNode("implies", <<ConditionNode("and", ops), below>>)
    BY DEF rule_tax_rate
<1>5. guard \in BOOLEAN
    OBVIOUS
<1>6. IF guard THEN \E w : <<below, w>> \in past /\ (v \notin {True, None} <=> ~IsTruthy(w))
      ELSE v \in {True, None}
    <2> HIDE DEF ops, below, guard, holds
    <2> QED  BY <1>2, <1>3, <1>4, <1>5, GuardedVerdict
<1>7. CASE ~guard
    <2>1. ~RateImplausible(InvoiceOf(ctx))
        BY <1>7, InvoiceFields DEF RateImplausible
    <2> QED  BY <1>6, <1>7, <2>1
<1>8. CASE guard
    <2>1. sub \in Int /\ tax \in Int /\ sub > 0
        BY <1>8, InvoiceFields
    <2>2. PICK w : <<below, w>> \in past /\ (v \notin {True, None} <=> ~IsTruthy(w))
        BY <1>6, <1>8
    <2>3. PICK l, r : <<over, l>> \in past /\ <<limit, r>> \in past /\ w = Binary("<=", l, r)
        <3>1. Operated(past, "<=", over, limit, w)
            BY <2>2, <1>11
        <3> HIDE DEF over, limit
        <3> QED  BY <3>1 DEF Operated
    <2>4. PICK a, b : /\ <<FieldRef("tax"), a>> \in past
                      /\ <<FieldRef("subtotal"), b>> \in past /\ l = Binary("/", a, b)
        <3>1. Operated(past, "/", FieldRef("tax"), FieldRef("subtotal"), l)
            BY <2>3, <1>11
        <3> QED  BY <3>1 DEF Operated
    <2>5. /\ a = Float(tax, 100) /\ b = Float(sub, 100)
          /\ r = Float(max_tax_rate, 100) /\ max_tax_rate \in Int
        BY <1>8, <2>3, <2>4, ValueOfField, ValueOfLiteral, RulesAssumption
    <2>6. l = Over(a, b)
        BY <2>1, <2>4, <2>5, Cents DEF Binary, Arithmetic, Compute
    <2>7. IsTruthy(w) <=> Compare("<=", l, r)
        <3>1. l \in Fractions /\ r \in Fractions
            BY <2>1, <2>5, <2>6, Cents, RatePlausible
        <3> QED  BY <2>3, <3>1, ClosenessValue DEF Comparisons
    <2>8. Compare("<=", l, r) <=> 100 * tax <= max_tax_rate * sub
        BY <2>1, <2>5, <2>6, RatePlausible DEF Compare
    <2>9. RateImplausible(InvoiceOf(ctx)) <=> 100 * tax > max_tax_rate * sub
        BY <1>8, InvoiceFields DEF RateImplausible, Exceeds
    <2>10. 100 * tax \in Int /\ max_tax_rate * sub \in Int
        BY <2>1, <2>5
    <2>11. 100 * tax <= max_tax_rate * sub <=> ~(100 * tax > max_tax_rate * sub)
        BY <2>10
    <2> QED  BY <2>2, <2>7, <2>8, <2>9, <2>11
<1> QED  BY <1>7, <1>8

-----------------------------------------------------------------------------
(* The theorems.                                                            *)

(* The invariant holds at first ...                                         *)
LEMMA InitInv == Init => IInv
<1> SUFFICES ASSUME Init PROVE IInv
    OBVIOUS
<1>1. TypeOK /\ StackInv
    BY WalkInit
<1>2. History(returned, context) /\ NoneShortCircuits
    BY DEF Init, History, NoneShortCircuits
<1>3. VerdictInv
    <2>1. current = 1 /\ \A i \in 1..(1 - 1) : FALSE
        BY DEF Init
    <2> QED  BY <2>1 DEF VerdictInv
<1>4. KnownInv
    <2> SUFFICES ASSUME program = rules PROVE KnownInv
        BY DEF KnownInv
    <2>1. Len(rules) = 3 /\ rules[1].condition \in Nodes /\ rules[1].condition \in RuleNodes
        <3>1. Len(rules) = 3
            BY DEF rules
        <3>2. 1 \in 1..3
            OBVIOUS
        <3> QED  BY <3>1, <3>2, ProgramFacts, RulesAreKnown DEF Programs
    <2>2. stack = <<Frame(rules[1].condition)>>
        BY DEF Init
    <2>3. Frame(rules[1].condition).node \in RuleNodes
        BY <2>1, FirstFrame
    <2>4. /\ stack # <<>> /\ Len(stack) = 1
          /\ stack[1] = Frame(rules[1].condition) /\ \A i \in 1..1 : i = 1
        BY <2>2
    <2> QED  BY <2>3, <2>4 DEF KnownInv
<1> QED  BY <1>1, <1>2, <1>3, <1>4 DEF IInv

(* ... and every step keeps it.                                             *)
LEMMA StepInv == IInv /\ [Next]_vars => IInv'
<1> SUFFICES ASSUME IInv, [Next]_vars PROVE IInv'
    OBVIOUS
<1>1. TypeOK' /\ StackInv'
    BY WalkStep DEF IInv
<1>2. History(returned, context)' /\ NoneShortCircuits'
    BY HistoryStep DEF IInv, HistoryInv
<1>3. VerdictInv'
    BY VerdictStep DEF IInv
<1>4. KnownInv'
    BY KnownStep DEF IInv
<1> QED  BY <1>1, <1>2, <1>3, <1>4 DEF IInv

(* Every state of the walk satisfies the invariant.                         *)
THEOREM Invariance == Spec => []IInv
<1> QED  BY InitInv, StepInv, PTL DEF Spec

(* Every operator keeps numbers fractions with a positive denominator, and  *)
(* every call is of a node of the trees: the walk never leaves them.        *)
THEOREM InterpreterTypeCorrect == Spec => []TypeOK
<1>1. IInv => TypeOK
    BY DEF IInv
<1> QED  BY <1>1, Invariance, PTL

(* Whatever tree an author writes, with whatever operators, what eval()     *)
(* returns is None exactly when a field it reads is missing.                *)
THEOREM NoneIsContagious == Spec => []NoneShortCircuits
<1>1. IInv => NoneShortCircuits
    BY DEF IInv
<1> QED  BY <1>1, Invariance, PTL

HasVerdict(condition, id) ==
    \E v : <<condition, v>> \in returned /\ (id \in findings <=> v \notin {True, None})

(* For any amounts, tolerance and maximal rate, the engine's rules end      *)
(* without an error and report what check_arithmetic and                    *)
(* check_tax_plausibility report.                                           *)
THEOREM EnginesAlwaysAgree == Spec => []EnginesAgree
<1>1. IInv => EnginesAgree
    <2> SUFFICES ASSUME IInv, program = rules, stack = <<>>
                 PROVE  /\ current > Len(rules)
                        /\ findings = check_arithmetic(Invoice)
                                        \cup check_tax_plausibility(Invoice)
        BY DEF EnginesAgree
    <2> DEFINE inv == InvoiceOf(context)
    <2>1. current > Len(rules) /\ current \in 1..(Len(rules) + 1)
        BY DEF IInv, KnownInv, TypeOK
    <2>2. /\ rules[1] = RuleNode("lines_vs_subtotal", rule_lines_subtotal)
          /\ rules[2] = RuleNode("subtotal_plus_tax", rule_subtotal_tax)
          /\ rules[3] = RuleNode("tax_rate_implausible", rule_tax_rate)
          /\ Len(rules) = 3
        BY DEF rules
    <2>3. current - 1 = 3
        BY <2>1, <2>2
    <2>4. History(returned, context) /\ context \in Contexts
        BY DEF IInv, TypeOK, Contexts
    <2>5. \A i \in 1..3 : HasVerdict(rules[i].condition, rules[i].rule_id)
        <3> TAKE i \in 1..3
        <3>1. PICK r \in returned :
                /\ r[1] = rules[i].condition
                /\ rules[i].rule_id \in findings <=> r[2] \notin {True, None}
            BY <2>1, <2>3 DEF IInv, VerdictInv
        <3>2. r = <<r[1], r[2]>>
            BY <2>4 DEF History
        <3> QED  BY <3>1, <3>2 DEF HasVerdict
    <2>6. "lines_vs_subtotal" \in findings <=> LinesDiffer(inv)
        <3>1. PICK v : /\ <<rule_lines_subtotal, v>> \in returned
                       /\ "lines_vs_subtotal" \in findings <=> v \notin {True, None}
            <4>1. 1 \in 1..3
                OBVIOUS
            <4>2. HasVerdict(rule_lines_subtotal, "lines_vs_subtotal")
                BY <2>2, <2>5, <4>1 DEF RuleNode
            <4> QED  BY <4>2 DEF HasVerdict
        <3> QED  BY <2>4, <3>1, LinesVerdict
    <2>7. "subtotal_plus_tax" \in findings <=> TotalDiffers(inv)
        <3>1. PICK v : /\ <<rule_subtotal_tax, v>> \in returned
                       /\ "subtotal_plus_tax" \in findings <=> v \notin {True, None}
            <4>1. 2 \in 1..3
                OBVIOUS
            <4>2. HasVerdict(rule_subtotal_tax, "subtotal_plus_tax")
                BY <2>2, <2>5, <4>1 DEF RuleNode
            <4> QED  BY <4>2 DEF HasVerdict
        <3> QED  BY <2>4, <3>1, TotalVerdict
    <2>8. "tax_rate_implausible" \in findings <=> RateImplausible(inv)
        <3>1. PICK v : /\ <<rule_tax_rate, v>> \in returned
                       /\ "tax_rate_implausible" \in findings <=> v \notin {True, None}
            <4>1. 3 \in 1..3
                OBVIOUS
            <4>2. HasVerdict(rule_tax_rate, "tax_rate_implausible")
                BY <2>2, <2>5, <4>1 DEF RuleNode
            <4> QED  BY <4>2 DEF HasVerdict
        <3> QED  BY <2>4, <3>1, RateVerdict
    <2>9. findings \subseteq {"lines_vs_subtotal", "subtotal_plus_tax", "tax_rate_implausible"}
        <3>1. findings \subseteq {rules[i].rule_id : i \in 1..3}
            BY <2>3 DEF IInv, TypeOK
        <3>2. \A i \in 1..3 : i \in {1, 2, 3}
            OBVIOUS
        <3> QED  BY <2>2, <3>1, <3>2 DEF RuleNode
    <2>10. /\ check_arithmetic(inv) = {r \in {"lines_vs_subtotal"} : LinesDiffer(inv)}
                                       \cup {r \in {"subtotal_plus_tax"} : TotalDiffers(inv)}
           /\ check_tax_plausibility(inv) = {r \in {"tax_rate_implausible"} : RateImplausible(inv)}
        BY DEF check_arithmetic, check_tax_plausibility, RateImplausible
    <2>11. ASSUME NEW e
           PROVE  e \in findings <=> e \in check_arithmetic(inv) \cup check_tax_plausibility(inv)
        <3> HIDE DEF inv
        <3> QED  BY <2>6, <2>7, <2>8, <2>9, <2>10
    <2>12. inv = Invoice
        BY DEF InvoiceOf, Invoice
    <2>13. findings = check_arithmetic(inv) \cup check_tax_plausibility(inv)
        <3> HIDE DEF inv
        <3> QED  BY <2>11
    <2> QED  BY <2>1, <2>12, <2>13
<1> QED  BY <1>1, Invariance, PTL
================================================================================
