-------------------------- MODULE AuditServiceProofs --------------------------
(***************************************************************************)
(* Proofs about AuditService for any set of uploads, any pages and any     *)
(* versions of the policy documents.                                       *)
(***************************************************************************)
EXTENDS AuditService, FiniteSetTheorems, SequenceTheorems, TLAPS

-----------------------------------------------------------------------------
(* What the pure parts of an audit can return.                              *)

(* The coverage gate passes only the clause that governs the rule. *)
LEMMA GateGoverns ==
    ASSUME NEW rule \in DOMAIN POLICY_QUERIES, NEW top, passes_gate(rule, top)
    PROVE  rule \in DOMAIN EXPECTED /\ top = EXPECTED[rule]
<1>1. PICK n \in 1..9 : <<rule, top, n>> \in Words /\ 2 * n >= POLICY_QUERIES[rule]
    BY DEF passes_gate
<1>2. /\ POLICY_QUERIES["lines_vs_subtotal"] = 9 /\ POLICY_QUERIES["subtotal_plus_tax"] = 7
      /\ POLICY_QUERIES["tax_rate_implausible"] = 8 /\ POLICY_QUERIES["terms_unusual"] = 8
      /\ POLICY_QUERIES["terms_unacceptable"] = 8 /\ POLICY_QUERIES["due_before_issue"] = 7
      /\ POLICY_QUERIES["duplicate_invoice_no"] = 7
    BY DEF POLICY_QUERIES
<1>3. \/ n <= 2
      \/ /\ n > 2
         /\ \/ rule = "lines_vs_subtotal" /\ top = "dispute"
            \/ rule = "subtotal_plus_tax" /\ top = "dispute"
            \/ rule = "tax_rate_implausible" /\ top = "rates"
            \/ rule = "terms_unusual" /\ top = "terms"
            \/ rule = "terms_unacceptable" /\ top = "terms"
            \/ rule = "due_before_issue" /\ top = "terms"
            \/ rule = "duplicate_invoice_no" /\ top = "duplicates"
    BY <1>1 DEF Words
<1>4. n > 2
    BY <1>1, <1>2 DEF POLICY_QUERIES
<1> QED  BY <1>3, <1>4 DEF EXPECTED

(* A single invoice is reported under rule names only. *)
LEMMA FindingsAreRules ==
    ASSUME NEW inv
    PROVE  validate_invoice(inv, None) \subseteq RULE_IDS
<1>1. validate_invoice(inv, None) = FieldFindings(inv)
    BY DEF validate_invoice
<1>2. check_required_fields(inv) \subseteq RULE_IDS /\ check_arithmetic(inv) \subseteq RULE_IDS
    BY DEF check_required_fields, check_arithmetic, RULE_IDS
<1>3. check_tax_plausibility(inv) \subseteq RULE_IDS
    BY DEF check_tax_plausibility, RULE_IDS
<1>4. check_dates(inv) \subseteq RULE_IDS
    BY DEF check_dates, RULE_IDS
<1> QED  BY <1>1, <1>2, <1>3, <1>4 DEF FieldFindings

(* What goes to review is fields of an invoice. *)
LEMMA ReviewIsFields ==
    ASSUME NEW page
    PROVE  review_fields(extract_fields(page)) \subseteq FieldNames
<1>1. DOMAIN extract_fields(page) = FieldNames
    BY DEF extract_fields, FieldNames
<1> QED  BY <1>1 DEF review_fields

-----------------------------------------------------------------------------
(* The types of the two records.  NoWork and its successors say nothing of  *)
(* the fields but that they were extracted from a page.                     *)
Works == [
    fields       : {extract_fields(page) : page \in Pages} \cup {None},
    review       : SUBSET FieldNames,
    findings     : SUBSET RULE_IDS,
    todo         : SUBSET RULE_IDS,
    citations    : SUBSET (RULE_IDS \X Clauses),
    stages       : Seq(Runs),
    max_severity : {"", "warning", "error"}]

Counters == [
    review    : [FieldNames -> Nat],
    findings  : [RULE_IDS -> Nat],
    grounding : [Outcomes -> Nat],
    stages    : [Runs -> Nat]]

TypeInv ==
    /\ pc \in [Uploads -> {"new", "reading"} \cup Auditing \cup Ended]
    /\ request \in [Uploads -> [route : Routes, content : Pages \cup {Unreadable}]]
    /\ work \in [Uploads -> Works]
    /\ loop \in Uploads \cup {None}
    /\ index \in Indexes \cup {None}
    /\ counted \in Counters

(* A span appends one run to the stages and keeps the rest. *)
LEMMA SpanKeeps ==
    ASSUME NEW u, pc[u] \in Stages, NEW w \in Works, NEW status \in {"ok", "error"}
    PROVE  /\ Span(u, w, status) \in Works
           /\ Span(u, w, status).review = w.review
           /\ Span(u, w, status).findings = w.findings
           /\ Span(u, w, status).todo = w.todo
           /\ Span(u, w, status).citations = w.citations
           /\ Span(u, w, status).stages = Append(w.stages, <<pc[u], status>>)
<1>1. <<pc[u], status>> \in Runs
    BY DEF Runs
<1>2. w.stages \in Seq(Runs)
    BY DEF Works
<1>3. Append(w.stages, <<pc[u], status>>) \in Seq(Runs)
    BY <1>1, <1>2, AppendProperties
<1> QED  BY <1>3 DEF Span, Works

(* A stage that ends counts one run more. *)
LEMMA StageRunCounts ==
    ASSUME NEW u, pc[u] \in Stages, counted \in Counters, NEW status \in {"ok", "error"}
    PROVE  /\ StageRun(u, status) \in Counters
           /\ StageRun(u, status).review = counted.review
           /\ StageRun(u, status).findings = counted.findings
           /\ StageRun(u, status).grounding = counted.grounding
           /\ StageRun(u, status).stages[<<pc[u], status>>]
                = counted.stages[<<pc[u], status>>] + 1
           /\ \A run \in Runs : run # <<pc[u], status>> =>
                StageRun(u, status).stages[run] = counted.stages[run]
<1>1. PICK run \in Runs : run = <<pc[u], status>>
    BY DEF Runs
<1>2. counted.stages \in [Runs -> Nat]
    BY DEF Counters
<1>3. StageRun(u, status) = [counted EXCEPT !.stages = [counted.stages EXCEPT ![run] = counted.stages[run] + 1]]
    BY <1>1 DEF StageRun
<1> DEFINE stages == [counted.stages EXCEPT ![run] = counted.stages[run] + 1]
<1>4. /\ stages \in [Runs -> Nat] /\ stages[run] = counted.stages[run] + 1
      /\ \A other \in Runs : other # run => stages[other] = counted.stages[other]
    BY <1>2
<1> HIDE DEF stages
<1>5. /\ [counted EXCEPT !.stages = stages] \in Counters
      /\ [counted EXCEPT !.stages = stages].review = counted.review
      /\ [counted EXCEPT !.stages = stages].findings = counted.findings
      /\ [counted EXCEPT !.stages = stages].grounding = counted.grounding
      /\ [counted EXCEPT !.stages = stages].stages = stages
    BY <1>4 DEF Counters
<1> QED  BY <1>1, <1>3, <1>4, <1>5 DEF stages

(* Counted adds one to the counters of a set. *)
LEMMA CountedAdds ==
    ASSUME NEW D, NEW c \in [D -> Nat], NEW S
    PROVE  /\ Counted(c, S) \in [D -> Nat]
           /\ \A k \in D : Counted(c, S)[k] = IF k \in S THEN c[k] + 1 ELSE c[k]
<1>1. \A k \in D : c[k] \in Nat
    OBVIOUS
<1> QED  BY <1>1 DEF Counted

-----------------------------------------------------------------------------
(* What each step does to the work of its upload and to the counters.       *)

LEMMA FailDoes ==
    ASSUME TypeInv, NEW u \in Uploads, pc[u] \in Stages, Fail(u)
    PROVE  /\ work' \in [Uploads -> Works]
           /\ \A v \in Uploads : v # u => work'[v] = work[v]
           /\ work'[u] = Span(u, work[u], "error")
           /\ counted' = StageRun(u, "error")
<1>1. Span(u, work[u], "error") \in Works
    BY SpanKeeps DEF TypeInv
<1>2. work' = [work EXCEPT ![u] = Span(u, work[u], "error")]
    BY DEF Fail
<1> QED  BY <1>1, <1>2 DEF Fail, TypeInv

(* A stage that extracts counts its run and the fields for review. *)
LEMMA ExtractDoes ==
    ASSUME TypeInv, NEW u \in Uploads, Extract(u)
    PROVE  \E review \in SUBSET FieldNames, w \in Works :
              /\ work' \in [Uploads -> Works]
              /\ \A v \in Uploads : v # u => work'[v] = work[v]
              /\ work'[u] = Span(u, w, "ok")
              /\ w.review = review /\ w.findings = work[u].findings /\ w.todo = work[u].todo
              /\ w.citations = work[u].citations /\ w.stages = work[u].stages
              /\ counted' \in Counters
              /\ counted'.review = Counted(StageRun(u, "ok").review, review)
              /\ counted'.findings = StageRun(u, "ok").findings
              /\ counted'.grounding = StageRun(u, "ok").grounding
              /\ counted'.stages = StageRun(u, "ok").stages
<1>1. PICK fields : fields = extract_fields(request[u].content)
    OBVIOUS
<1>2. PICK review : review = review_fields(fields)
    OBVIOUS
<1> DEFINE w == [work[u] EXCEPT !.fields = fields, !.review = review]
           c == [StageRun(u, "ok") EXCEPT !.review = Counted(StageRun(u, "ok").review, review)]
<1>3. work' = [work EXCEPT ![u] = Span(u, w, "ok")] /\ counted' = c
    BY <1>1, <1>2 DEF Extract
<1>4. fields \in {extract_fields(page) : page \in Pages} /\ review \in SUBSET FieldNames
    <2>1. request[u].content \in Pages
        BY DEF Extract, TypeInv
    <2> QED  BY <1>1, <1>2, <2>1, ReviewIsFields
<1>5. work[u] \in Works
    BY DEF TypeInv
<1>6. /\ w \in Works /\ w.review = review /\ w.findings = work[u].findings /\ w.todo = work[u].todo
      /\ w.citations = work[u].citations /\ w.stages = work[u].stages
    <2>1. w = [k \in DOMAIN work[u] |-> IF k = "fields" THEN fields ELSE
                                        IF k = "review" THEN review ELSE work[u][k]]
        BY <1>5 DEF Works
    <2> QED  BY <1>4, <1>5, <2>1 DEF Works
<1>7. StageRun(u, "ok") \in Counters
    <2>1. pc[u] \in Stages /\ counted \in Counters
        BY DEF Extract, Stages, TypeInv
    <2> QED  BY <2>1, StageRunCounts
<1>8. /\ c \in Counters /\ c.review = Counted(StageRun(u, "ok").review, review)
      /\ c.findings = StageRun(u, "ok").findings
      /\ c.grounding = StageRun(u, "ok").grounding /\ c.stages = StageRun(u, "ok").stages
    <2>1. StageRun(u, "ok").review \in [FieldNames -> Nat]
        BY <1>7 DEF Counters
    <2>2. Counted(StageRun(u, "ok").review, review) \in [FieldNames -> Nat]
        BY <2>1, CountedAdds
    <2> QED  BY <1>7, <2>2 DEF Counters
<1> HIDE DEF w, c
<1>9. Span(u, w, "ok") \in Works
    <2>1. pc[u] \in Stages
        BY DEF Extract, Stages
    <2> QED  BY <1>6, <2>1, SpanKeeps
<1>10. work' \in [Uploads -> Works] /\ work'[u] = Span(u, w, "ok")
       /\ \A v \in Uploads : v # u => work'[v] = work[v]
    BY <1>3, <1>9 DEF TypeInv
<1> QED  BY <1>3, <1>4, <1>6, <1>8, <1>10

(* A stage that validates counts its run and the rules it reports, all of   *)
(* which are to be grounded.                                                *)
LEMMA ValidateDoes ==
    ASSUME TypeInv, NEW u \in Uploads, Validate(u)
    PROVE  \E found \in SUBSET RULE_IDS, w \in Works :
              /\ work' \in [Uploads -> Works]
              /\ \A v \in Uploads : v # u => work'[v] = work[v]
              /\ work'[u] = Span(u, w, "ok")
              /\ w.review = work[u].review /\ w.findings = found /\ w.todo = found
              /\ w.citations = work[u].citations /\ w.stages = work[u].stages
              /\ counted' \in Counters
              /\ counted'.review = StageRun(u, "ok").review
              /\ counted'.findings = Counted(StageRun(u, "ok").findings, found)
              /\ counted'.grounding = StageRun(u, "ok").grounding
              /\ counted'.stages = StageRun(u, "ok").stages
<1>1. PICK found : found = Findings(u)
    OBVIOUS
<1> DEFINE w == [work[u] EXCEPT !.findings = found, !.todo = found]
           c == [StageRun(u, "ok") EXCEPT !.findings = Counted(StageRun(u, "ok").findings, found)]
<1>2. work' = [work EXCEPT ![u] = Span(u, w, "ok")] /\ counted' = c
    BY <1>1 DEF Validate
<1>3. found \in SUBSET RULE_IDS
    BY <1>1, FindingsAreRules DEF Findings
<1>4. work[u] \in Works
    BY DEF TypeInv
<1>5. /\ w \in Works /\ w.review = work[u].review /\ w.findings = found /\ w.todo = found
      /\ w.citations = work[u].citations /\ w.stages = work[u].stages
    <2>1. w = [k \in DOMAIN work[u] |-> IF k \in {"findings", "todo"} THEN found ELSE work[u][k]]
        BY <1>4 DEF Works
    <2> QED  BY <1>3, <1>4, <2>1 DEF Works
<1>6. StageRun(u, "ok") \in Counters
    <2>1. pc[u] \in Stages /\ counted \in Counters
        BY DEF Validate, Stages, TypeInv
    <2> QED  BY <2>1, StageRunCounts
<1>7. /\ c \in Counters /\ c.review = StageRun(u, "ok").review
      /\ c.findings = Counted(StageRun(u, "ok").findings, found)
      /\ c.grounding = StageRun(u, "ok").grounding /\ c.stages = StageRun(u, "ok").stages
    <2>1. StageRun(u, "ok").findings \in [RULE_IDS -> Nat]
        BY <1>6 DEF Counters
    <2>2. Counted(StageRun(u, "ok").findings, found) \in [RULE_IDS -> Nat]
        BY <2>1, CountedAdds
    <2> QED  BY <1>6, <2>2 DEF Counters
<1> HIDE DEF w, c
<1>8. Span(u, w, "ok") \in Works
    <2>1. pc[u] \in Stages
        BY DEF Validate, Stages
    <2> QED  BY <1>5, <2>1, SpanKeeps
<1>9. work' \in [Uploads -> Works] /\ work'[u] = Span(u, w, "ok")
      /\ \A v \in Uploads : v # u => work'[v] = work[v]
    BY <1>2, <1>8 DEF TypeInv
<1> QED  BY <1>2, <1>3, <1>5, <1>7, <1>9

(* The outcome of one finding, and what is left of the others *)
LEMMA GroundDoes ==
    ASSUME TypeInv, NEW u \in Uploads, GroundNext(u)
    PROVE  \E rule \in work[u].todo, outcome \in Outcomes, citations \in SUBSET (RULE_IDS \X Clauses) :
              /\ work' \in [Uploads -> Works]
              /\ \A v \in Uploads : v # u => work'[v] = work[v]
              /\ work'[u].review = work[u].review /\ work'[u].findings = work[u].findings
              /\ work'[u].todo = work[u].todo \ {rule}
              /\ work'[u].citations = work[u].citations \cup citations
              /\ work'[u].stages = work[u].stages
              /\ outcome # "cited" => citations = {}
              /\ outcome = "cited" => /\ rule \in DOMAIN EXPECTED
                                      /\ citations = {<<rule, EXPECTED[rule]>>}
              /\ counted' \in Counters
              /\ counted'.review = counted.review /\ counted'.findings = counted.findings
              /\ counted'.grounding = Counted(counted.grounding, {outcome})
              /\ counted'.stages = counted.stages
              /\ index' \in Indexes \cup {None}
<1>1. PICK rule \in work[u].todo, clauses \in Indexes \cup {{}} :
        /\ IF rule \in DOMAIN POLICY_QUERIES THEN Index(clauses)
           ELSE clauses = {} /\ UNCHANGED index
        /\ \E top \in IF clauses = {} THEN {None} ELSE clauses :
                /\ counted' =
                      [counted EXCEPT !.grounding = Counted(@, {ground_finding(rule, top)})]
                /\ work' = [work EXCEPT ![u] = Grounded(@, rule, top)]
    BY DEF GroundNext
<1>2. PICK top \in IF clauses = {} THEN {None} ELSE clauses :
        /\ counted' = [counted EXCEPT !.grounding = Counted(@, {ground_finding(rule, top)})]
        /\ work' = [work EXCEPT ![u] = Grounded(@, rule, top)]
    BY <1>1
<1>3. PICK outcome : outcome = ground_finding(rule, top)
    OBVIOUS
<1>4. outcome \in Outcomes
    BY <1>3 DEF ground_finding, Outcomes
<1>5. work[u] \in Works /\ counted \in Counters /\ rule \in RULE_IDS
    BY DEF TypeInv, Works
<1>6. /\ counted' \in Counters
      /\ counted'.review = counted.review /\ counted'.findings = counted.findings
      /\ counted'.grounding = Counted(counted.grounding, {outcome})
      /\ counted'.stages = counted.stages
    <2>1. counted.grounding \in [Outcomes -> Nat]
        BY <1>5 DEF Counters
    <2>2. Counted(counted.grounding, {outcome}) \in [Outcomes -> Nat]
        BY <2>1, CountedAdds
    <2>3. counted' = [counted EXCEPT !.grounding = Counted(counted.grounding, {outcome})]
        BY <1>2, <1>3
    <2> QED  BY <1>5, <2>2, <2>3 DEF Counters
<1>7. index' \in Indexes \cup {None}
    <2>1. CASE rule \in DOMAIN POLICY_QUERIES
        BY <1>1, <2>1 DEF Index, TypeInv
    <2>2. CASE rule \notin DOMAIN POLICY_QUERIES
        BY <1>1, <2>2 DEF TypeInv
    <2> QED  BY <2>1, <2>2
<1>8. CASE outcome = "cited"
    <2>1. rule \in DOMAIN POLICY_QUERIES /\ top # None /\ passes_gate(rule, top)
        BY <1>3, <1>8 DEF ground_finding
    <2>2. rule \in DOMAIN EXPECTED /\ top = EXPECTED[rule]
        BY <2>1, GateGoverns
    <2>3. top \in Clauses
        BY <1>2, <2>1, AuditAssumption
    <2> DEFINE w == [work[u] EXCEPT !.todo = work[u].todo \ {rule},
                                    !.citations = work[u].citations \cup {<<rule, top>>}]
    <2>4. /\ w \in Works /\ w.review = work[u].review /\ w.findings = work[u].findings
          /\ w.todo = work[u].todo \ {rule} /\ w.stages = work[u].stages
          /\ w.citations = work[u].citations \cup {<<rule, top>>}
        <3>1. w = [k \in DOMAIN work[u] |->
                    IF k = "todo" THEN work[u].todo \ {rule}
                    ELSE IF k = "citations" THEN work[u].citations \cup {<<rule, top>>}
                    ELSE work[u][k]]
            BY <1>5 DEF Works
        <3>2. {<<rule, top>>} \in SUBSET (RULE_IDS \X Clauses)
            BY <1>5, <2>3
        <3> QED  BY <1>5, <3>1, <3>2 DEF Works
    <2>5. Grounded(work[u], rule, top) = w
        BY <1>3, <1>8 DEF Grounded
    <2> HIDE DEF w
    <2>6. /\ work' \in [Uploads -> Works] /\ work'[u] = w
          /\ \A v \in Uploads : v # u => work'[v] = work[v]
        BY <1>2, <2>4, <2>5 DEF TypeInv
    <2>7. {<<rule, top>>} \in SUBSET (RULE_IDS \X Clauses)
        BY <1>5, <2>3
    <2> QED  BY <1>4, <1>6, <1>7, <1>8, <2>2, <2>4, <2>6, <2>7
<1>9. CASE outcome # "cited"
    <2> DEFINE w == [work[u] EXCEPT !.todo = work[u].todo \ {rule}]
    <2>1. /\ w \in Works /\ w.review = work[u].review /\ w.findings = work[u].findings
          /\ w.todo = work[u].todo \ {rule} /\ w.stages = work[u].stages
          /\ w.citations = work[u].citations \cup {}
        BY <1>5 DEF Works
    <2>2. Grounded(work[u], rule, top) = w
        BY <1>3, <1>9 DEF Grounded
    <2> HIDE DEF w
    <2>3. /\ work' \in [Uploads -> Works] /\ work'[u] = w
          /\ \A v \in Uploads : v # u => work'[v] = work[v]
        BY <1>2, <2>1, <2>2 DEF TypeInv
    <2> QED  BY <1>4, <1>6, <1>7, <1>9, <2>1, <2>3
<1> QED  BY <1>8, <1>9

(* The end of the grounding *)
LEMMA GroundDoneDoes ==
    ASSUME TypeInv, NEW u \in Uploads, GroundDone(u)
    PROVE  /\ work' \in [Uploads -> Works]
           /\ \A v \in Uploads : v # u => work'[v] = work[v]
           /\ work'[u] = Span(u, work[u], "ok")
           /\ counted' = StageRun(u, "ok")
<1>1. pc[u] \in Stages
    BY DEF GroundDone, Stages
<1>2. Span(u, work[u], "ok") \in Works
    BY <1>1, SpanKeeps DEF TypeInv
<1> QED  BY <1>2 DEF GroundDone, TypeInv

(* An answer leaves what the stages have found. *)
LEMMA ReplyDoes ==
    ASSUME TypeInv, NEW u \in Uploads, Reply(u)
    PROVE  /\ work' \in [Uploads -> Works]
           /\ \A v \in Uploads : v # u => work'[v] = work[v]
           /\ work'[u].review = work[u].review /\ work'[u].findings = work[u].findings
           /\ work'[u].todo = work[u].todo /\ work'[u].citations = work[u].citations
           /\ work'[u].stages = work[u].stages
<1>1. work[u] \in Works /\ max_severity(work[u].findings) \in {"", "warning", "error"}
    BY DEF TypeInv, max_severity
<1>2. work' = [work EXCEPT ![u] = [work[u] EXCEPT !.max_severity = max_severity(work[u].findings)]]
    BY DEF Reply
<1> DEFINE w == [work[u] EXCEPT !.max_severity = max_severity(work[u].findings)]
<1>3. /\ w \in Works /\ w.review = work[u].review /\ w.findings = work[u].findings
      /\ w.todo = work[u].todo /\ w.stages = work[u].stages /\ w.citations = work[u].citations
    BY <1>1 DEF Works
<1> HIDE DEF w
<1> QED  BY <1>2, <1>3 DEF TypeInv, w

-----------------------------------------------------------------------------
(* The inductive invariant.                                                 *)

(* The event loop is in the audit of the one request that is in its middle. *)
LoopInv == \A u \in Uploads : pc[u] \in Auditing <=> loop = u

(* What an audit has found at each of its stages: nothing before the first, *)
(* no finding before the second; only the findings of an audit are grounded *)
(* and only a finding already grounded has a citation, the right one.       *)
NothingFound(w) == w.findings = {} /\ w.todo = {} /\ w.citations = {}

AtPhase(label, route, w) ==
    /\ label \in {"new", "reading", "extract"} => w.review = {} /\ NothingFound(w)
    /\ label = "validate" => NothingFound(w)
    /\ label = "ground" => route = "audit"
    /\ w.todo \subseteq w.findings
    /\ \A c \in w.citations :
          /\ c[1] \in w.findings \ w.todo
          /\ c[1] \in DOMAIN EXPECTED /\ c[2] = EXPECTED[c[1]]

PhaseInv == \A u \in Uploads : AtPhase(pc[u], request[u].route, work[u])

IInv == TypeInv /\ LoopInv /\ TempFilesRemoved /\ PhaseInv

Labels == {"new", "reading"} \cup Auditing \cup Ended

(* A request goes to its next label alone. *)
LEMMA GotoMoves ==
    ASSUME TypeInv, NEW u \in Uploads, NEW label \in Labels, Goto(u, label)
    PROVE  /\ pc' \in [Uploads -> Labels] /\ pc'[u] = label
           /\ \A v \in Uploads : v # u => pc'[v] = pc[v]
BY DEF Goto, TypeInv, Labels

(* A stage that goes on to the next keeps the loop and its file, *)
LEMMA AuditGoesOn ==
    ASSUME LoopInv, TempFilesRemoved, NEW u \in Uploads,
           pc[u] \in Auditing, pc'[u] \in Auditing,
           \A v \in Uploads : v # u => pc'[v] = pc[v],
           loop' = loop, tempfiles' = tempfiles
    PROVE  LoopInv' /\ TempFilesRemoved'
<1>1. LoopInv'
    BY DEF LoopInv
<1>2. \A v \in Uploads : pc'[v] \in {"reading", "unread"} \cup Auditing
                          <=> pc[v] \in {"reading", "unread"} \cup Auditing
    OBVIOUS
<1>3. TempFilesRemoved'
    BY <1>2 DEF TempFilesRemoved
<1> QED  BY <1>1, <1>3

(* and the end of an audit gives both up. *)
LEMMA AuditEnds ==
    ASSUME LoopInv, TempFilesRemoved, NEW u \in Uploads,
           pc[u] \in Auditing, pc'[u] \in {"failed", "answered"},
           \A v \in Uploads : v # u => pc'[v] = pc[v],
           loop' = None, tempfiles' = tempfiles \ {u}
    PROVE  LoopInv' /\ TempFilesRemoved'
<1>1. pc'[u] \notin {"reading", "unread"} \cup Auditing
    BY DEF Auditing, Stages
<1>2. loop = u /\ None \notin Uploads
    BY AuditAssumption DEF LoopInv
<1>3. LoopInv'
    BY <1>1, <1>2 DEF LoopInv
<1>4. TempFilesRemoved'
    BY <1>1 DEF TempFilesRemoved
<1> QED  BY <1>3, <1>4

(* A step of one request leaves the others in their phase. *)
LEMMA OthersKeepPhase ==
    ASSUME PhaseInv, NEW u \in Uploads,
           \A v \in Uploads : v # u =>
              pc'[v] = pc[v] /\ request'[v] = request[v] /\ work'[v] = work[v],
           AtPhase(pc'[u], request'[u].route, work'[u])
    PROVE  PhaseInv'
<1>1. \A v \in Uploads : AtPhase(pc'[v], request'[v].route, work'[v])
    BY DEF PhaseInv
<1> QED  BY <1>1 DEF PhaseInv

(* The service starts with the invariant. *)
LEMMA InitInv == Init => IInv
<1> SUFFICES ASSUME Init PROVE IInv
    OBVIOUS
<1>1. NoWork \in Works
    <2>1. <<>> \in Seq(Runs)
        OBVIOUS
    <2> QED  BY <2>1 DEF NoWork, Works
<1>2. counted \in Counters
    BY DEF Init, Counters
<1>3. TypeInv
    <2>1. NoRequest \in [route : Routes, content : Pages \cup {Unreadable}]
        BY DEF NoRequest, Routes
    <2> QED  BY <1>1, <1>2, <2>1 DEF Init, TypeInv
<1>4. \A u \in Uploads : pc[u] = "new" /\ work[u] = NoWork
    BY DEF Init
<1>5. LoopInv /\ TempFilesRemoved
    BY <1>4, AuditAssumption DEF Init, LoopInv, TempFilesRemoved, Auditing, Stages
<1>6. PhaseInv
    <2>1. /\ NoWork.review = {} /\ NoWork.findings = {} /\ NoWork.todo = {}
          /\ NoWork.citations = {}
        BY DEF NoWork
    <2>2. \A route : AtPhase("new", route, NoWork)
        BY <2>1 DEF AtPhase, NothingFound
    <2> QED  BY <1>4, <2>2 DEF PhaseInv
<1> QED  BY <1>3, <1>5, <1>6 DEF IInv

(* A stage that raises keeps what the audit has found so far. *)
LEMMA FailSteps ==
    ASSUME IInv, NEW u \in Uploads, pc[u] \in Stages, Fail(u)
    PROVE  IInv'
<1> USE DEF IInv
<1>1. /\ pc' \in [Uploads -> Labels] /\ pc'[u] = "failed"
      /\ \A v \in Uploads : v # u => pc'[v] = pc[v]
    BY GotoMoves DEF Fail, Labels, Ended
<1>2. /\ work' \in [Uploads -> Works] /\ work'[u] = Span(u, work[u], "error")
      /\ \A v \in Uploads : v # u => work'[v] = work[v]
      /\ counted' = StageRun(u, "error")
    BY FailDoes
<1>3. TypeInv'
    <2>1. counted' \in Counters
        BY <1>2, StageRunCounts DEF TypeInv
    <2> QED  BY <1>1, <1>2, <2>1 DEF TypeInv, Fail, Labels
<1>4. LoopInv' /\ TempFilesRemoved'
    BY <1>1, AuditEnds DEF Fail, Auditing
<1>5. PhaseInv'
    <2>1. work[u] \in Works
        BY DEF TypeInv
    <2>2. /\ work'[u].review = work[u].review /\ work'[u].findings = work[u].findings
          /\ work'[u].todo = work[u].todo /\ work'[u].citations = work[u].citations
        BY <1>2, <2>1, SpanKeeps
    <2>3. AtPhase("failed", request'[u].route, work'[u])
        BY <2>2 DEF PhaseInv, AtPhase
    <2> QED  BY <1>1, <1>2, <2>3, OthersKeepPhase DEF Fail
<1> QED  BY <1>3, <1>4, <1>5

(* The steps before an audit starts. *)
LEMMA UploadSteps ==
    ASSUME IInv, NEW u \in Uploads,
           Refuse(u) \/ Receive(u) \/ ReadFails(u) \/ StartAudit(u)
    PROVE  IInv'
<1> USE DEF IInv
<1>1. AtPhase(pc[u], request[u].route, work[u])
    BY DEF PhaseInv
<1>2. CASE Refuse(u)
    <2>1. /\ pc' \in [Uploads -> Labels] /\ pc'[u] = "refused" /\ pc[u] = "new"
          /\ \A v \in Uploads : v # u => pc'[v] = pc[v]
        BY <1>2, GotoMoves DEF Refuse, Labels, Ended
    <2>2. TypeInv'
        BY <1>2, <2>1 DEF TypeInv, Refuse, Labels
    <2>3. LoopInv' /\ TempFilesRemoved'
        BY <1>2, <2>1 DEF Refuse, LoopInv, TempFilesRemoved, Auditing, Stages
    <2>4. AtPhase("refused", request'[u].route, work'[u])
        BY <1>1, <1>2 DEF AtPhase, Refuse
    <2> QED  BY <1>2, <2>1, <2>2, <2>3, <2>4, OthersKeepPhase DEF Refuse
<1>3. CASE Receive(u)
    <2>1. /\ pc' \in [Uploads -> Labels] /\ pc'[u] = "reading" /\ pc[u] = "new"
          /\ \A v \in Uploads : v # u => pc'[v] = pc[v]
        BY <1>3, GotoMoves DEF Receive, Labels
    <2>2. /\ request' \in [Uploads -> [route : Routes, content : Pages \cup {Unreadable}]]
          /\ \A v \in Uploads : v # u => request'[v] = request[v]
        BY <1>3 DEF Receive, TypeInv
    <2>3. TypeInv'
        BY <1>3, <2>1, <2>2 DEF TypeInv, Receive, Labels
    <2>4. LoopInv' /\ TempFilesRemoved'
        BY <1>3, <2>1 DEF Receive, LoopInv, TempFilesRemoved, Auditing, Stages
    <2>5. AtPhase("reading", request'[u].route, work'[u])
        BY <1>1, <1>3, <2>1 DEF AtPhase, Receive
    <2> QED  BY <1>3, <2>1, <2>2, <2>3, <2>4, <2>5, OthersKeepPhase DEF Receive
<1>4. CASE ReadFails(u)
    <2>1. /\ pc' \in [Uploads -> Labels] /\ pc'[u] = "unread" /\ pc[u] = "reading"
          /\ \A v \in Uploads : v # u => pc'[v] = pc[v]
        BY <1>4, GotoMoves DEF ReadFails, Labels, Ended
    <2>2. TypeInv'
        BY <1>4, <2>1 DEF TypeInv, ReadFails, Labels
    <2>3. LoopInv' /\ TempFilesRemoved'
        BY <1>4, <2>1 DEF ReadFails, LoopInv, TempFilesRemoved, Auditing, Stages
    <2>4. AtPhase("unread", request'[u].route, work'[u])
        BY <1>1, <1>4 DEF AtPhase, ReadFails
    <2> QED  BY <1>4, <2>1, <2>2, <2>3, <2>4, OthersKeepPhase DEF ReadFails
<1>5. CASE StartAudit(u)
    <2>1. /\ pc' \in [Uploads -> Labels] /\ pc'[u] = "extract" /\ pc[u] = "reading"
          /\ \A v \in Uploads : v # u => pc'[v] = pc[v]
        BY <1>5, GotoMoves DEF StartAudit, Labels, Auditing, Stages
    <2>2. TypeInv'
        BY <1>5, <2>1 DEF TypeInv, StartAudit, Labels
    <2>3. LoopInv' /\ TempFilesRemoved'
        BY <1>5, <2>1, AuditAssumption
           DEF StartAudit, LoopInv, TempFilesRemoved, Auditing, Stages
    <2>4. AtPhase("extract", request'[u].route, work'[u])
        BY <1>1, <1>5, <2>1 DEF AtPhase, StartAudit
    <2> QED  BY <1>5, <2>1, <2>2, <2>3, <2>4, OthersKeepPhase DEF StartAudit
<1> QED  BY <1>2, <1>3, <1>4, <1>5

(* The stages of an audit. *)
LEMMA StageSteps ==
    ASSUME IInv, NEW u \in Uploads,
           Extract(u) \/ Validate(u) \/ GroundNext(u) \/ GroundDone(u) \/ Reply(u)
    PROVE  IInv'
<1> USE DEF IInv
<1>1. AtPhase(pc[u], request[u].route, work[u]) /\ work[u] \in Works
    BY DEF PhaseInv, TypeInv
<1>2. CASE Extract(u)
    <2>1. /\ pc' \in [Uploads -> Labels] /\ pc'[u] = "validate" /\ pc[u] = "extract"
          /\ \A v \in Uploads : v # u => pc'[v] = pc[v]
        BY <1>2, GotoMoves DEF Extract, Labels, Auditing, Stages
    <2>2. PICK w \in Works :
              /\ work' \in [Uploads -> Works]
              /\ \A v \in Uploads : v # u => work'[v] = work[v]
              /\ work'[u] = Span(u, w, "ok")
              /\ w.findings = work[u].findings /\ w.todo = work[u].todo
              /\ w.citations = work[u].citations
              /\ counted' \in Counters
        BY <1>2, ExtractDoes
    <2>3. TypeInv'
        BY <1>2, <2>1, <2>2 DEF TypeInv, Extract, Labels
    <2>4. LoopInv' /\ TempFilesRemoved'
        BY <1>2, <2>1, AuditGoesOn DEF Extract, Auditing, Stages
    <2>5. AtPhase("validate", request'[u].route, work'[u])
        <3>1. /\ work'[u].findings = work[u].findings /\ work'[u].todo = work[u].todo
              /\ work'[u].citations = work[u].citations
            BY <2>1, <2>2, SpanKeeps DEF Stages
        <3> QED  BY <1>1, <2>1, <3>1 DEF AtPhase, NothingFound
    <2> QED  BY <1>2, <2>1, <2>2, <2>3, <2>4, <2>5, OthersKeepPhase DEF Extract
<1>3. CASE Validate(u)
    <2>1. PICK label \in {"ground", "reply"} :
            /\ label = "ground" => request[u].route = "audit"
            /\ Goto(u, label)
        BY <1>3 DEF Validate
    <2>2. /\ pc' \in [Uploads -> Labels] /\ pc'[u] = label /\ pc[u] = "validate"
          /\ \A v \in Uploads : v # u => pc'[v] = pc[v]
        BY <1>3, <2>1, GotoMoves DEF Validate, Labels, Auditing, Stages
    <2>3. PICK found \in SUBSET RULE_IDS, w \in Works :
              /\ work' \in [Uploads -> Works]
              /\ \A v \in Uploads : v # u => work'[v] = work[v]
              /\ work'[u] = Span(u, w, "ok")
              /\ w.findings = found /\ w.todo = found
              /\ w.citations = work[u].citations
              /\ counted' \in Counters
        BY <1>3, ValidateDoes
    <2>4. TypeInv'
        BY <1>3, <2>2, <2>3 DEF TypeInv, Validate, Labels
    <2>5. LoopInv' /\ TempFilesRemoved'
        BY <1>3, <2>2, AuditGoesOn DEF Validate, Auditing, Stages
    <2>6. AtPhase(label, request'[u].route, work'[u])
        <3>1. /\ work'[u].findings = found /\ work'[u].todo = found
              /\ work'[u].citations = work[u].citations
            BY <2>2, <2>3, SpanKeeps DEF Stages
        <3>2. request'[u] = request[u] /\ work[u].citations = {}
            BY <1>1, <1>3, <2>2 DEF AtPhase, NothingFound, Validate
        <3> QED  BY <2>1, <3>1, <3>2 DEF AtPhase
    <2> QED  BY <1>3, <2>2, <2>3, <2>4, <2>5, <2>6, OthersKeepPhase DEF Validate
<1>4. CASE GroundNext(u)
    <2>1. PICK rule \in work[u].todo, outcome \in Outcomes,
              citations \in SUBSET (RULE_IDS \X Clauses) :
              /\ work' \in [Uploads -> Works]
              /\ \A v \in Uploads : v # u => work'[v] = work[v]
              /\ work'[u].review = work[u].review /\ work'[u].findings = work[u].findings
              /\ work'[u].todo = work[u].todo \ {rule}
              /\ work'[u].citations = work[u].citations \cup citations
              /\ outcome # "cited" => citations = {}
              /\ outcome = "cited" => /\ rule \in DOMAIN EXPECTED
                                      /\ citations = {<<rule, EXPECTED[rule]>>}
              /\ counted' \in Counters
              /\ index' \in Indexes \cup {None}
        BY <1>4, GroundDoes
    <2>2. TypeInv'
        BY <1>4, <2>1 DEF TypeInv, GroundNext
    <2>3. LoopInv' /\ TempFilesRemoved'
        BY <1>4 DEF GroundNext, LoopInv, TempFilesRemoved
    <2>4. AtPhase(pc'[u], request'[u].route, work'[u])
        <3>1. pc'[u] = "ground" /\ request'[u].route = "audit"
            BY <1>1, <1>4 DEF AtPhase, GroundNext
        <3>2. work'[u].todo \subseteq work'[u].findings
            BY <1>1, <2>1 DEF AtPhase
        <3>3. ASSUME NEW c \in work'[u].citations
              PROVE  /\ c[1] \in work'[u].findings \ work'[u].todo
                     /\ c[1] \in DOMAIN EXPECTED /\ c[2] = EXPECTED[c[1]]
            <4>1. CASE c \in work[u].citations
                BY <1>1, <2>1, <4>1 DEF AtPhase
            <4>2. CASE c \in citations
                <5>1. rule \in DOMAIN EXPECTED /\ c = <<rule, EXPECTED[rule]>>
                    BY <2>1, <4>2
                <5>2. rule \in work'[u].findings \ work'[u].todo
                    BY <1>1, <2>1 DEF AtPhase
                <5>3. c[1] = rule /\ c[2] = EXPECTED[rule]
                    BY <5>1
                <5> QED  BY <5>1, <5>2, <5>3
            <4> QED  BY <2>1, <4>1, <4>2
        <3> QED  BY <3>1, <3>2, <3>3 DEF AtPhase
    <2> QED  BY <1>4, <2>1, <2>2, <2>3, <2>4, OthersKeepPhase DEF GroundNext
<1>5. CASE GroundDone(u)
    <2>1. /\ pc' \in [Uploads -> Labels] /\ pc'[u] = "reply" /\ pc[u] = "ground"
          /\ \A v \in Uploads : v # u => pc'[v] = pc[v]
        BY <1>5, GotoMoves DEF GroundDone, Labels, Auditing
    <2>2. /\ work' \in [Uploads -> Works] /\ work'[u] = Span(u, work[u], "ok")
          /\ \A v \in Uploads : v # u => work'[v] = work[v]
          /\ counted' = StageRun(u, "ok")
        BY <1>5, GroundDoneDoes
    <2>3. TypeInv'
        <3>1. counted' \in Counters
            <4>1. pc[u] \in Stages /\ counted \in Counters
                BY <2>1 DEF TypeInv, Stages
            <4> QED  BY <2>2, <4>1, StageRunCounts
        <3> QED  BY <1>5, <2>1, <2>2, <3>1 DEF TypeInv, GroundDone, Labels
    <2>4. LoopInv' /\ TempFilesRemoved'
        BY <1>5, <2>1, AuditGoesOn DEF GroundDone, Auditing, Stages
    <2>5. AtPhase("reply", request'[u].route, work'[u])
        <3>1. /\ work'[u].review = work[u].review /\ work'[u].findings = work[u].findings
              /\ work'[u].todo = work[u].todo /\ work'[u].citations = work[u].citations
            BY <1>1, <2>1, <2>2, SpanKeeps DEF Stages
        <3> QED  BY <1>1, <3>1 DEF AtPhase
    <2> QED  BY <1>5, <2>1, <2>2, <2>3, <2>4, <2>5, OthersKeepPhase DEF GroundDone
<1>6. CASE Reply(u)
    <2>1. /\ pc' \in [Uploads -> Labels] /\ pc'[u] = "answered" /\ pc[u] = "reply"
          /\ \A v \in Uploads : v # u => pc'[v] = pc[v]
        BY <1>6, GotoMoves DEF Reply, Labels, Ended
    <2>2. /\ work' \in [Uploads -> Works]
          /\ \A v \in Uploads : v # u => work'[v] = work[v]
          /\ work'[u].review = work[u].review /\ work'[u].findings = work[u].findings
          /\ work'[u].todo = work[u].todo /\ work'[u].citations = work[u].citations
        BY <1>6, ReplyDoes
    <2>3. TypeInv'
        BY <1>6, <2>1, <2>2, AuditAssumption DEF TypeInv, Reply, Labels
    <2>4. LoopInv' /\ TempFilesRemoved'
        BY <1>6, <2>1, AuditEnds DEF Reply, Auditing
    <2>5. AtPhase("answered", request'[u].route, work'[u])
        BY <1>1, <2>2 DEF AtPhase
    <2> QED  BY <1>6, <2>1, <2>2, <2>3, <2>4, <2>5, OthersKeepPhase DEF Reply
<1> QED  BY <1>2, <1>3, <1>4, <1>5, <1>6

(* Every step of the service keeps the invariant. *)
LEMMA StepInv == IInv /\ [Next]_vars => IInv'
<1> SUFFICES ASSUME IInv, [Next]_vars PROVE IInv'
    OBVIOUS
<1>1. CASE UNCHANGED vars
    BY <1>1 DEF IInv, TypeInv, LoopInv, TempFilesRemoved, PhaseInv, vars
<1>2. CASE AskLoadsIndex
    BY <1>2 DEF IInv, TypeInv, LoopInv, TempFilesRemoved, PhaseInv, AskLoadsIndex
<1>3. ASSUME NEW u \in Uploads, Refuse(u) \/ Receive(u) \/ Step(u)
      PROVE  IInv'
    <2>1. CASE ExtractFails(u) \/ GroundFails(u)
        <3>1. pc[u] \in Stages /\ Fail(u)
            BY <2>1 DEF ExtractFails, GroundFails, Stages
        <3> QED  BY <3>1, FailSteps
    <2> QED  BY <1>3, <2>1, UploadSteps, StageSteps DEF Step
<1> QED  BY <1>1, <1>2, <1>3 DEF Next

-----------------------------------------------------------------------------
(* The invariant holds of every execution of the two upload routes. *)
THEOREM Invariance == Spec => []IInv
<1>1. Init => IInv
    BY InitInv
<1>2. IInv /\ [Next]_vars => IInv'
    BY StepInv
<1> QED  BY <1>1, <1>2, PTL DEF Spec

(* Every variable keeps its type, and the event loop never runs two audits. *)
THEOREM Typed == Spec => []TypeOK
<1>1. IInv => TypeOK
    <2> SUFFICES ASSUME IInv PROVE TypeOK
        OBVIOUS
    <2>1. tempfiles \subseteq Uploads
        BY DEF IInv, TempFilesRemoved
    <2>2. ASSUME NEW u \in Uploads
          PROVE  /\ work[u].review \subseteq FieldNames
                 /\ work[u].todo \subseteq work[u].findings
                 /\ work[u].findings \subseteq RULE_IDS
                 /\ \A i \in DOMAIN work[u].stages : work[u].stages[i] \in Runs
        <3>1. work[u] \in Works /\ AtPhase(pc[u], request[u].route, work[u])
            BY DEF IInv, TypeInv, PhaseInv
        <3>2. work[u].stages \in Seq(Runs)
            BY <3>1 DEF Works
        <3>3. \A i \in DOMAIN work[u].stages : work[u].stages[i] \in Runs
            BY <3>2
        <3> QED  BY <3>1, <3>3 DEF Works, AtPhase
    <2> QED  BY <2>1, <2>2 DEF IInv, TypeInv, LoopInv, TypeOK, Counters
<1> QED  BY <1>1, Invariance, PTL

(* The temporary files on disk are those of the requests being served and of *)
(* those whose content could not be read.                                    *)
THEOREM TempFilesAreRemoved == Spec => []TempFilesRemoved
<1>1. IInv => TempFilesRemoved
    BY DEF IInv
<1> QED  BY <1>1, Invariance, PTL

(* A citation names the clause that governs its rule, whatever clauses the   *)
(* documents had at each search and however the hits were ranked.            *)
THEOREM CitationsAreRight == Spec => []CitationsGovern
<1>1. IInv => CitationsGovern
    BY DEF IInv, PhaseInv, AtPhase, CitationsGovern
<1> QED  BY <1>1, Invariance, PTL

-----------------------------------------------------------------------------
(* The metrics.  A counter counts a set that grows by the same elements as  *)
(* the counter; that the set is finite is part of the invariant, for the    *)
(* uploads themselves may be infinitely many.                               *)
Counts(n, S) == IsFiniteSet(S) /\ n = Cardinality(S)

(* The sets, of any assignment of requests and works to uploads *)
Reviewed(w, f) == {u \in Uploads : f \in w[u].review}
Reporting(w, r) == {u \in Uploads : r \in w[u].findings}
CitedIn(w) == UNION {{<<u, c>> : c \in w[u].citations} : u \in Uploads}
GroundedIn(rq, w) ==
    UNION {{<<u, r>> : r \in w[u].findings \ w[u].todo} :
             u \in {v \in Uploads : rq[v].route = "audit"}}
RunsIn(w, run) ==
    UNION {{<<u, i>> : i \in {k \in DOMAIN w[u].stages : w[u].stages[k] = run}} :
             u \in Uploads}

Outcomes_counted(c) ==
    c.grounding["cited"] + c.grounding["gated"]
        + c.grounding["unmapped"] + c.grounding["no_docs"]

ReviewTally(c, w) == \A f \in FieldNames : Counts(c.review[f], Reviewed(w, f))
FindingsTally(c, w) == \A r \in RULE_IDS : Counts(c.findings[r], Reporting(w, r))
CitedTally(c, w) == Counts(c.grounding["cited"], CitedIn(w))
GroundedTally(c, rq, w) == Counts(Outcomes_counted(c), GroundedIn(rq, w))
StageTally(c, w) == \A run \in Runs : Counts(c.stages[run], RunsIn(w, run))

MetricsInv ==
    /\ ReviewTally(counted, work)
    /\ FindingsTally(counted, work)
    /\ CitedTally(counted, work)
    /\ GroundedTally(counted, request, work)
    /\ StageTally(counted, work)

(* Zero counts nothing. *)
LEMMA NoneToCount == Counts(0, {})
BY FS_EmptySet DEF Counts

(* One more counts one more. *)
LEMMA OneMoreToCount ==
    ASSUME NEW n, NEW S, Counts(n, S), NEW x, x \notin S
    PROVE  Counts(n + 1, S \cup {x})
BY FS_AddElement DEF Counts

(* Who belongs to the sets of pairs. *)
LEMMA InCited ==
    ASSUME NEW w
    PROVE  \A e : e \in CitedIn(w) <=>
              \E u \in Uploads : \E c \in w[u].citations : e = <<u, c>>
BY DEF CitedIn

(* What is grounded is a finding of an audit that is off its list. *)
LEMMA InGrounded ==
    ASSUME NEW rq, NEW w
    PROVE  \A e : e \in GroundedIn(rq, w) <=>
              \E u \in Uploads : /\ rq[u].route = "audit"
                                 /\ \E r \in w[u].findings \ w[u].todo : e = <<u, r>>
BY DEF GroundedIn

(* A stage's runs are its places in the traces. *)
LEMMA InRuns ==
    ASSUME NEW w, NEW run
    PROVE  \A e : e \in RunsIn(w, run) <=>
              \E u \in Uploads : \E i \in DOMAIN w[u].stages :
                 w[u].stages[i] = run /\ e = <<u, i>>
BY DEF RunsIn

(* A step that finds nothing new leaves a tally as it was. *)
LEMMA ReviewKept ==
    ASSUME NEW c, NEW d, NEW w, NEW x, ReviewTally(c, w), d.review = c.review,
           \A v \in Uploads : x[v].review = w[v].review
    PROVE  ReviewTally(d, x)
<1>1. ASSUME NEW f \in FieldNames PROVE Reviewed(x, f) = Reviewed(w, f)
    BY DEF Reviewed
<1> QED  BY <1>1 DEF ReviewTally

(* The counters of findings stay right while neither they nor the findings  *)
(* change.                                                                  *)
LEMMA FindingsKept ==
    ASSUME NEW c, NEW d, NEW w, NEW x, FindingsTally(c, w), d.findings = c.findings,
           \A v \in Uploads : x[v].findings = w[v].findings
    PROVE  FindingsTally(d, x)
<1>1. ASSUME NEW r \in RULE_IDS PROVE Reporting(x, r) = Reporting(w, r)
    BY DEF Reporting
<1> QED  BY <1>1 DEF FindingsTally

(* So do those of citations, *)
LEMMA CitedKept ==
    ASSUME NEW c, NEW d, NEW w, NEW x, CitedTally(c, w),
           d.grounding["cited"] = c.grounding["cited"],
           \A v \in Uploads : x[v].citations = w[v].citations
    PROVE  CitedTally(d, x)
<1>1. ASSUME NEW e PROVE e \in CitedIn(x) <=> e \in CitedIn(w)
    BY InCited
<1>2. CitedIn(x) = CitedIn(w)
    BY <1>1
<1> QED  BY <1>2 DEF CitedTally

(* those of grounding, *)
LEMMA GroundedKept ==
    ASSUME NEW c, NEW d, NEW rq, NEW rx, NEW w, NEW x, GroundedTally(c, rq, w),
           d.grounding = c.grounding,
           \A v \in Uploads :
              \A r : /\ rx[v].route = "audit" /\ r \in x[v].findings \ x[v].todo
                     <=> /\ rq[v].route = "audit" /\ r \in w[v].findings \ w[v].todo
    PROVE  GroundedTally(d, rx, x)
<1>1. ASSUME NEW e PROVE e \in GroundedIn(rx, x) <=> e \in GroundedIn(rq, w)
    BY InGrounded
<1>2. GroundedIn(rx, x) = GroundedIn(rq, w)
    BY <1>1
<1> QED  BY <1>2 DEF GroundedTally, Outcomes_counted

(* and those of stage runs. *)
LEMMA StagesKept ==
    ASSUME NEW c, NEW d, NEW w, NEW x, StageTally(c, w), d.stages = c.stages,
           \A v \in Uploads : x[v].stages = w[v].stages
    PROVE  StageTally(d, x)
<1>1. ASSUME NEW run \in Runs PROVE RunsIn(x, run) = RunsIn(w, run)
    <2>1. ASSUME NEW e PROVE e \in RunsIn(x, run) <=> e \in RunsIn(w, run)
        BY InRuns
    <2> QED  BY <2>1
<1> QED  BY <1>1 DEF StageTally

(* A stage counts what it found for the first time. *)
LEMMA ReviewGrows ==
    ASSUME NEW c \in Counters, NEW d, NEW w, NEW x, NEW u \in Uploads,
           NEW R \in SUBSET FieldNames, ReviewTally(c, w),
           d.review = Counted(c.review, R), w[u].review = {}, x[u].review = R,
           \A v \in Uploads : v # u => x[v].review = w[v].review
    PROVE  ReviewTally(d, x)
<1>1. ASSUME NEW f \in FieldNames PROVE Counts(d.review[f], Reviewed(x, f))
    <2>1. Counts(c.review[f], Reviewed(w, f))
        BY DEF ReviewTally
    <2>2. d.review[f] = IF f \in R THEN c.review[f] + 1 ELSE c.review[f]
        <3>1. c.review \in [FieldNames -> Nat]
            BY DEF Counters
        <3> QED  BY <3>1, CountedAdds
    <2>3. CASE f \in R
        <3>1. u \notin Reviewed(w, f) /\ Reviewed(x, f) = Reviewed(w, f) \cup {u}
            BY <2>3 DEF Reviewed
        <3> QED  BY <2>1, <2>2, <2>3, <3>1, OneMoreToCount
    <2>4. CASE f \notin R
        <3>1. Reviewed(x, f) = Reviewed(w, f)
            BY <2>4 DEF Reviewed
        <3> QED  BY <2>1, <2>2, <2>4, <3>1
    <2> QED  BY <2>3, <2>4
<1> QED  BY <1>1 DEF ReviewTally

(* Counting the findings of one more upload keeps their counters right. *)
LEMMA FindingsGrow ==
    ASSUME NEW c \in Counters, NEW d, NEW w, NEW x, NEW u \in Uploads,
           NEW R \in SUBSET RULE_IDS, FindingsTally(c, w),
           d.findings = Counted(c.findings, R), w[u].findings = {}, x[u].findings = R,
           \A v \in Uploads : v # u => x[v].findings = w[v].findings
    PROVE  FindingsTally(d, x)
<1>1. ASSUME NEW r \in RULE_IDS PROVE Counts(d.findings[r], Reporting(x, r))
    <2>1. Counts(c.findings[r], Reporting(w, r))
        BY DEF FindingsTally
    <2>2. d.findings[r] = IF r \in R THEN c.findings[r] + 1 ELSE c.findings[r]
        <3>1. c.findings \in [RULE_IDS -> Nat]
            BY DEF Counters
        <3> QED  BY <3>1, CountedAdds
    <2>3. CASE r \in R
        <3>1. u \notin Reporting(w, r) /\ Reporting(x, r) = Reporting(w, r) \cup {u}
            BY <2>3 DEF Reporting
        <3> QED  BY <2>1, <2>2, <2>3, <3>1, OneMoreToCount
    <2>4. CASE r \notin R
        <3>1. Reporting(x, r) = Reporting(w, r)
            BY <2>4 DEF Reporting
        <3> QED  BY <2>1, <2>2, <2>4, <3>1
    <2> QED  BY <2>3, <2>4
<1> QED  BY <1>1 DEF FindingsTally

(* A stage that ends adds its run to the runs of its kind. *)
OneRunMore(c, d, w, x, u, run) ==
    /\ d.stages[run] = c.stages[run] + 1
    /\ \A other \in Runs : other # run => d.stages[other] = c.stages[other]
    /\ w[u].stages \in Seq(Runs)
    /\ x[u].stages = Append(w[u].stages, run)
    /\ \A v \in Uploads : v # u => x[v].stages = w[v].stages

(* Counting one more run of a stage does. *)
LEMMA StagesGrow ==
    ASSUME NEW c, NEW d, NEW w, NEW x, NEW u \in Uploads, NEW run \in Runs,
           StageTally(c, w), OneRunMore(c, d, w, x, u, run)
    PROVE  StageTally(d, x)
<1> USE DEF OneRunMore
<1> DEFINE n == Len(w[u].stages) + 1
<1>1. /\ n \in Nat /\ DOMAIN w[u].stages = 1..(n - 1) /\ DOMAIN x[u].stages = 1..n
      /\ x[u].stages[n] = run
      /\ \A i \in 1..(n - 1) : x[u].stages[i] = w[u].stages[i]
    BY AppendProperties, LenProperties
<1>2. n \notin DOMAIN w[u].stages /\ DOMAIN x[u].stages = DOMAIN w[u].stages \cup {n}
      /\ \A i \in DOMAIN w[u].stages : x[u].stages[i] = w[u].stages[i]
    BY <1>1
<1> HIDE DEF n
<1>3. ASSUME NEW other \in Runs PROVE Counts(d.stages[other], RunsIn(x, other))
    <2>1. Counts(c.stages[other], RunsIn(w, other))
        BY DEF StageTally
    <2>2. CASE other = run
        <3>1. <<u, n>> \notin RunsIn(w, run)
            <4>1. ASSUME NEW v \in Uploads, NEW i \in DOMAIN w[v].stages PROVE <<u, n>> # <<v, i>>
                BY <1>2
            <4> QED  BY <4>1, InRuns
        <3>2. ASSUME NEW e PROVE e \in RunsIn(x, run) <=> e \in RunsIn(w, run) \/ e = <<u, n>>
            <4>1. ASSUME e \in RunsIn(x, run)
                  PROVE  e \in RunsIn(w, run) \/ e = <<u, n>>
                <5>1. PICK v \in Uploads : \E i \in DOMAIN x[v].stages :
                         x[v].stages[i] = run /\ e = <<v, i>>
                    BY <4>1, InRuns
                <5>2. PICK i \in DOMAIN x[v].stages : x[v].stages[i] = run /\ e = <<v, i>>
                    BY <5>1
                <5>3. (v = u /\ i = n) \/ (i \in DOMAIN w[v].stages /\ w[v].stages[i] = run)
                    <6>1. CASE v = u
                        <7>1. i \in DOMAIN x[u].stages /\ x[u].stages[i] = run
                            BY <5>2, <6>1
                        <7>2. i = n \/ i \in DOMAIN w[u].stages
                            BY <1>2, <7>1
                        <7>3. i \in DOMAIN w[u].stages => w[u].stages[i] = run
                            BY <1>2, <7>1
                        <7> QED  BY <6>1, <7>2, <7>3
                    <6>2. CASE v # u
                        <7>1. x[v].stages = w[v].stages
                            BY <6>2
                        <7> QED  BY <5>2, <7>1
                    <6> QED  BY <6>1, <6>2
                <5> QED  BY <5>2, <5>3, InRuns
            <4>2. ASSUME e \in RunsIn(w, run)
                  PROVE  e \in RunsIn(x, run)
                <5>1. PICK v \in Uploads : \E i \in DOMAIN w[v].stages :
                         w[v].stages[i] = run /\ e = <<v, i>>
                    BY <4>2, InRuns
                <5>2. PICK i \in DOMAIN w[v].stages : w[v].stages[i] = run /\ e = <<v, i>>
                    BY <5>1
                <5>3. i \in DOMAIN x[v].stages /\ x[v].stages[i] = run
                    BY <1>2, <5>2
                <5> QED  BY <5>2, <5>3, InRuns
            <4>3. ASSUME e = <<u, n>> PROVE e \in RunsIn(x, run)
                <5>1. n \in DOMAIN x[u].stages /\ x[u].stages[n] = run
                    BY <1>1, <1>2
                <5> QED  BY <4>3, <5>1, InRuns
            <4> QED  BY <4>1, <4>2, <4>3
        <3>3. RunsIn(x, run) = RunsIn(w, run) \cup {<<u, n>>}
            BY <3>2
        <3> QED  BY <2>1, <2>2, <3>1, <3>3, OneMoreToCount
    <2>3. CASE other # run
        <3>1. ASSUME NEW v \in Uploads, NEW i
              PROVE  /\ i \in DOMAIN x[v].stages /\ x[v].stages[i] = other
                     <=> /\ i \in DOMAIN w[v].stages /\ w[v].stages[i] = other
            BY <1>1, <1>2, <2>3
        <3>2. ASSUME NEW e PROVE e \in RunsIn(x, other) <=> e \in RunsIn(w, other)
            BY <3>1, InRuns
        <3>3. RunsIn(x, other) = RunsIn(w, other)
            BY <3>2
        <3> QED  BY <2>1, <2>3, <3>3
    <2> QED  BY <2>2, <2>3
<1> QED  BY <1>3 DEF StageTally

(* One outcome more is one finding grounded more, *)
OneFindingMore(w, x, u, rule) ==
    /\ rule \in w[u].todo
    /\ w[u].todo \subseteq w[u].findings
    /\ x[u].findings = w[u].findings
    /\ x[u].todo = w[u].todo \ {rule}
    /\ \A v \in Uploads : v # u => x[v] = w[v]

(* Counting one more finding that is grounded does, under any outcome. *)
LEMMA GroundedGrows ==
    ASSUME NEW c \in Counters, NEW d, NEW rq, NEW w, NEW x, NEW u \in Uploads,
           NEW rule, NEW outcome \in Outcomes, GroundedTally(c, rq, w),
           d.grounding = Counted(c.grounding, {outcome}), rq[u].route = "audit",
           OneFindingMore(w, x, u, rule)
    PROVE  GroundedTally(d, rq, x)
<1> USE DEF OneFindingMore
<1>1. Outcomes_counted(d) = Outcomes_counted(c) + 1
    <2>1. c.grounding \in [Outcomes -> Nat]
        BY DEF Counters
    <2>2. \A o \in Outcomes :
             d.grounding[o] = IF o = outcome THEN c.grounding[o] + 1 ELSE c.grounding[o]
        BY <2>1, CountedAdds
    <2> QED  BY <2>1, <2>2 DEF Outcomes_counted, Outcomes
<1>2. <<u, rule>> \notin GroundedIn(rq, w)
    <2>1. ASSUME NEW v \in Uploads, NEW r \in w[v].findings \ w[v].todo
          PROVE  <<u, rule>> # <<v, r>>
        OBVIOUS
    <2> QED  BY <2>1, InGrounded
<1>3. ASSUME NEW e PROVE e \in GroundedIn(rq, x) <=> e \in GroundedIn(rq, w) \/ e = <<u, rule>>
    <2>1. x[u].findings \ x[u].todo = (w[u].findings \ w[u].todo) \cup {rule}
        OBVIOUS
    <2>2. ASSUME e \in GroundedIn(rq, x) PROVE e \in GroundedIn(rq, w) \/ e = <<u, rule>>
        <3>1. PICK v \in Uploads : /\ rq[v].route = "audit"
                                   /\ \E r \in x[v].findings \ x[v].todo : e = <<v, r>>
            BY <2>2, InGrounded
        <3>2. PICK r \in x[v].findings \ x[v].todo : e = <<v, r>>
            BY <3>1
        <3>3. (v = u /\ r = rule) \/ r \in w[v].findings \ w[v].todo
            BY <2>1, <3>2
        <3> QED  BY <3>1, <3>2, <3>3, InGrounded
    <2>3. ASSUME e \in GroundedIn(rq, w) PROVE e \in GroundedIn(rq, x)
        <3>1. PICK v \in Uploads : /\ rq[v].route = "audit"
                                   /\ \E r \in w[v].findings \ w[v].todo : e = <<v, r>>
            BY <2>3, InGrounded
        <3>2. PICK r \in w[v].findings \ w[v].todo : e = <<v, r>>
            BY <3>1
        <3>3. r \in x[v].findings \ x[v].todo
            BY <2>1, <3>2
        <3> QED  BY <3>1, <3>2, <3>3, InGrounded
    <2>4. ASSUME e = <<u, rule>> PROVE e \in GroundedIn(rq, x)
        <3>1. rule \in x[u].findings \ x[u].todo
            BY <2>1
        <3> QED  BY <2>4, <3>1, InGrounded
    <2> QED  BY <2>2, <2>3, <2>4
<1>4. GroundedIn(rq, x) = GroundedIn(rq, w) \cup {<<u, rule>>}
    BY <1>3
<1> QED  BY <1>1, <1>2, <1>4, OneMoreToCount DEF GroundedTally

(* and one "cited" is one citation more, and of a finding without one. *)
LEMMA CitedGrows ==
    ASSUME NEW c \in Counters, NEW d, NEW w, NEW x, NEW u \in Uploads,
           NEW new, CitedTally(c, w), new \notin w[u].citations,
           d.grounding = Counted(c.grounding, {"cited"}),
           x[u].citations = w[u].citations \cup {new},
           \A v \in Uploads : v # u => x[v].citations = w[v].citations
    PROVE  CitedTally(d, x)
<1>1. d.grounding["cited"] = c.grounding["cited"] + 1
    <2>1. c.grounding \in [Outcomes -> Nat] /\ "cited" \in Outcomes
        BY DEF Counters, Outcomes
    <2> QED  BY <2>1, CountedAdds
<1>2. <<u, new>> \notin CitedIn(w)
    <2>1. ASSUME NEW v \in Uploads, NEW e \in w[v].citations PROVE <<u, new>> # <<v, e>>
        OBVIOUS
    <2> QED  BY <2>1, InCited
<1>3. ASSUME NEW e PROVE e \in CitedIn(x) <=> e \in CitedIn(w) \/ e = <<u, new>>
    BY InCited
<1>4. CitedIn(x) = CitedIn(w) \cup {<<u, new>>}
    BY <1>3
<1> QED  BY <1>1, <1>2, <1>4, OneMoreToCount DEF CitedTally

(* A fresh registry counts nothing. *)
LEMMA MetricsInit == Init => MetricsInv
<1> SUFFICES ASSUME Init PROVE MetricsInv
    OBVIOUS
<1>1. \A u \in Uploads : /\ work[u].review = {} /\ work[u].findings = {}
                         /\ work[u].citations = {} /\ work[u].stages = <<>>
    <2>1. /\ NoWork.review = {} /\ NoWork.findings = {}
          /\ NoWork.citations = {} /\ NoWork.stages = <<>>
        BY DEF NoWork
    <2> QED  BY <2>1 DEF Init
<1>2. ReviewTally(counted, work)
    <2>1. ASSUME NEW f \in FieldNames PROVE counted.review[f] = 0 /\ Reviewed(work, f) = {}
        BY <1>1 DEF Init, Reviewed
    <2> QED  BY <2>1, NoneToCount DEF ReviewTally
<1>3. FindingsTally(counted, work)
    <2>1. ASSUME NEW r \in RULE_IDS PROVE counted.findings[r] = 0 /\ Reporting(work, r) = {}
        BY <1>1 DEF Init, Reporting
    <2> QED  BY <2>1, NoneToCount DEF FindingsTally
<1>4. \A o \in Outcomes : counted.grounding[o] = 0
    BY DEF Init
<1>5. CitedTally(counted, work)
    <2>1. \A e : e \notin CitedIn(work)
        BY <1>1, InCited
    <2>2. CitedIn(work) = {}
        BY <2>1
    <2> QED  BY <1>4, <2>2, NoneToCount DEF CitedTally, Outcomes
<1>6. GroundedTally(counted, request, work)
    <2>1. \A e : e \notin GroundedIn(request, work)
        BY <1>1, InGrounded
    <2>2. GroundedIn(request, work) = {}
        BY <2>1
    <2>3. Outcomes_counted(counted) = 0
        BY <1>4 DEF Outcomes_counted, Outcomes
    <2> QED  BY <2>2, <2>3, NoneToCount DEF GroundedTally
<1>7. StageTally(counted, work)
    <2>1. ASSUME NEW run \in Runs PROVE counted.stages[run] = 0 /\ RunsIn(work, run) = {}
        <3>1. \A u \in Uploads : DOMAIN work[u].stages = {}
            BY <1>1
        <3>2. \A e : e \notin RunsIn(work, run)
            BY <3>1, InRuns
        <3> QED  BY <3>2 DEF Init
    <2> QED  BY <2>1, NoneToCount DEF StageTally
<1> QED  BY <1>2, <1>3, <1>5, <1>6, <1>7 DEF MetricsInv

(* A span closed in u, with what else the stage left in w *)
LEMMA SpanTally ==
    ASSUME IInv, MetricsInv, NEW u \in Uploads, pc[u] \in Stages,
           NEW status \in {"ok", "error"}, NEW w \in Works, w.stages = work[u].stages,
           work'[u] = Span(u, w, status),
           \A v \in Uploads : v # u => work'[v] = work[v],
           counted'.stages = StageRun(u, status).stages
    PROVE  StageTally(counted', work')
<1>1. PICK run \in Runs : run = <<pc[u], status>>
    BY DEF Runs
<1>2. counted \in Counters /\ work[u].stages \in Seq(Runs)
    BY DEF IInv, TypeInv, Works
<1>3. /\ StageRun(u, status).stages[<<pc[u], status>>] = counted.stages[<<pc[u], status>>] + 1
      /\ \A other \in Runs : other # <<pc[u], status>> =>
            StageRun(u, status).stages[other] = counted.stages[other]
    BY <1>2, StageRunCounts
<1>4. /\ counted'.stages[run] = counted.stages[run] + 1
      /\ \A other \in Runs : other # run => counted'.stages[other] = counted.stages[other]
    BY <1>1, <1>3
<1>5. Span(u, w, status).stages = Append(w.stages, <<pc[u], status>>)
    BY SpanKeeps
<1>6. work'[u].stages = Append(work[u].stages, run)
    BY <1>1, <1>5
<1>7. \A v \in Uploads : v # u => work'[v].stages = work[v].stages
    OBVIOUS
<1>8. StageTally(counted, work)
    BY DEF MetricsInv
<1>9. OneRunMore(counted, counted', work, work', u, run)
    BY <1>2, <1>4, <1>6, <1>7 DEF OneRunMore
<1> QED  BY <1>8, <1>9, StagesGrow

(* Steps that find nothing: a request moves, or a stage fails or ends. *)
LEMMA QuietSteps ==
    ASSUME MetricsInv, counted'.grounding = counted.grounding,
           counted'.review = counted.review, counted'.findings = counted.findings,
           \A v \in Uploads :
              /\ work'[v].review = work[v].review /\ work'[v].findings = work[v].findings
              /\ work'[v].todo = work[v].todo /\ work'[v].citations = work[v].citations
              /\ request'[v].route = request[v].route \/ work[v].findings = {}
    PROVE  /\ ReviewTally(counted', work') /\ FindingsTally(counted', work')
           /\ CitedTally(counted', work') /\ GroundedTally(counted', request', work')
<1>1. /\ ReviewTally(counted, work) /\ FindingsTally(counted, work)
      /\ CitedTally(counted, work) /\ GroundedTally(counted, request, work)
    BY DEF MetricsInv
<1>2. /\ \A v \in Uploads : work'[v].review = work[v].review
      /\ \A v \in Uploads : work'[v].findings = work[v].findings
      /\ \A v \in Uploads : work'[v].citations = work[v].citations
    OBVIOUS
<1>3. ReviewTally(counted', work')
    BY <1>1, <1>2, ReviewKept
<1>4. FindingsTally(counted', work')
    BY <1>1, <1>2, FindingsKept
<1>5. CitedTally(counted', work')
    BY <1>1, <1>2, CitedKept
<1>6. GroundedTally(counted', request', work')
    <2>1. ASSUME NEW v \in Uploads, NEW r
          PROVE  /\ request'[v].route = "audit" /\ r \in work'[v].findings \ work'[v].todo
                 <=> /\ request[v].route = "audit" /\ r \in work[v].findings \ work[v].todo
        <3>1. work'[v].findings = work[v].findings /\ work'[v].todo = work[v].todo
            OBVIOUS
        <3>2. CASE request'[v].route = request[v].route
            BY <3>1, <3>2
        <3>3. CASE work[v].findings = {}
            BY <3>1, <3>3
        <3> QED  BY <3>2, <3>3
    <2> QED  BY <1>1, <2>1, GroundedKept
<1> QED  BY <1>3, <1>4, <1>5, <1>6

(* A request that moves, a reply, or the index of another caller. *)
LEMMA UncountedSteps ==
    ASSUME MetricsInv, counted' = counted,
           \A v \in Uploads :
              /\ work'[v].review = work[v].review /\ work'[v].findings = work[v].findings
              /\ work'[v].todo = work[v].todo /\ work'[v].citations = work[v].citations
              /\ work'[v].stages = work[v].stages
              /\ request'[v].route = request[v].route \/ work[v].findings = {}
    PROVE  MetricsInv'
<1>1. /\ ReviewTally(counted', work') /\ FindingsTally(counted', work')
      /\ CitedTally(counted', work') /\ GroundedTally(counted', request', work')
    BY QuietSteps
<1>2. StageTally(counted', work')
    <2>1. StageTally(counted, work) /\ counted'.stages = counted.stages
        BY DEF MetricsInv
    <2>2. \A v \in Uploads : work'[v].stages = work[v].stages
        OBVIOUS
    <2> QED  BY <2>1, <2>2, StagesKept
<1> QED  BY <1>1, <1>2 DEF MetricsInv

(* A stage that fails, or the grounding when no finding is left. *)
LEMMA SpanSteps ==
    ASSUME IInv, MetricsInv, NEW u \in Uploads, pc[u] \in Stages,
           NEW status \in {"ok", "error"}, request' = request,
           work'[u] = Span(u, work[u], status), counted' = StageRun(u, status),
           \A v \in Uploads : v # u => work'[v] = work[v]
    PROVE  MetricsInv'
<1>1. work[u] \in Works /\ counted \in Counters
    BY DEF IInv, TypeInv
<1>2. /\ work'[u].review = work[u].review /\ work'[u].findings = work[u].findings
      /\ work'[u].todo = work[u].todo /\ work'[u].citations = work[u].citations
    BY <1>1, SpanKeeps
<1>3. /\ counted'.review = counted.review /\ counted'.findings = counted.findings
      /\ counted'.grounding = counted.grounding
    BY <1>1, StageRunCounts
<1>4. \A v \in Uploads :
         /\ work'[v].review = work[v].review /\ work'[v].findings = work[v].findings
         /\ work'[v].todo = work[v].todo /\ work'[v].citations = work[v].citations
         /\ request'[v].route = request[v].route
    BY <1>2
<1>5. /\ ReviewTally(counted', work') /\ FindingsTally(counted', work')
      /\ CitedTally(counted', work') /\ GroundedTally(counted', request', work')
    BY <1>3, <1>4, QuietSteps
<1>6. StageTally(counted', work')
    BY <1>1, SpanTally
<1> QED  BY <1>5, <1>6 DEF MetricsInv

(* The counters stay right when fields are extracted, *)
LEMMA ExtractCounts ==
    ASSUME IInv, MetricsInv, NEW u \in Uploads, Extract(u)
    PROVE  MetricsInv'
<1>1. pc[u] \in Stages /\ TypeInv /\ work[u].review = {} /\ request' = request
      /\ counted \in Counters
    BY DEF Extract, Stages, IInv, TypeInv, PhaseInv, AtPhase
<1>2. PICK review \in SUBSET FieldNames, w \in Works :
              /\ \A v \in Uploads : v # u => work'[v] = work[v]
              /\ work'[u] = Span(u, w, "ok")
              /\ w.review = review /\ w.findings = work[u].findings /\ w.todo = work[u].todo
              /\ w.citations = work[u].citations /\ w.stages = work[u].stages
              /\ counted'.review = Counted(StageRun(u, "ok").review, review)
              /\ counted'.findings = StageRun(u, "ok").findings
              /\ counted'.grounding = StageRun(u, "ok").grounding
              /\ counted'.stages = StageRun(u, "ok").stages
    BY <1>1, ExtractDoes
<1>3. /\ work'[u].review = review /\ work'[u].findings = work[u].findings
      /\ work'[u].todo = work[u].todo /\ work'[u].citations = work[u].citations
    BY <1>1, <1>2, SpanKeeps
<1>4. /\ counted'.review = Counted(counted.review, review)
      /\ counted'.findings = counted.findings /\ counted'.grounding = counted.grounding
    BY <1>1, <1>2, StageRunCounts
<1>5. /\ ReviewTally(counted, work) /\ FindingsTally(counted, work)
      /\ CitedTally(counted, work) /\ GroundedTally(counted, request, work)
    BY DEF MetricsInv
<1>6. ReviewTally(counted', work')
    <2>1. \A v \in Uploads : v # u => work'[v].review = work[v].review
        BY <1>2
    <2> QED  BY <1>1, <1>3, <1>4, <1>5, <2>1, ReviewGrows
<1>7. FindingsTally(counted', work')
    <2>1. \A v \in Uploads : work'[v].findings = work[v].findings
        BY <1>2, <1>3
    <2> QED  BY <1>4, <1>5, <2>1, FindingsKept
<1>8. CitedTally(counted', work')
    <2>1. \A v \in Uploads : work'[v].citations = work[v].citations
        BY <1>2, <1>3
    <2> QED  BY <1>4, <1>5, <2>1, CitedKept
<1>9. GroundedTally(counted', request', work')
    <2>1. \A v \in Uploads : work'[v].findings = work[v].findings /\ work'[v].todo = work[v].todo
        BY <1>2, <1>3
    <2> QED  BY <1>1, <1>4, <1>5, <2>1, GroundedKept
<1>10. StageTally(counted', work')
    BY <1>1, <1>2, SpanTally
<1> QED  BY <1>6, <1>7, <1>8, <1>9, <1>10 DEF MetricsInv

(* when the rules have run, *)
LEMMA ValidateCounts ==
    ASSUME IInv, MetricsInv, NEW u \in Uploads, Validate(u)
    PROVE  MetricsInv'
<1>1. /\ pc[u] \in Stages /\ TypeInv /\ work[u].findings = {} /\ request' = request
      /\ counted \in Counters
    BY DEF Validate, Stages, IInv, TypeInv, PhaseInv, AtPhase, NothingFound
<1>2. PICK found \in SUBSET RULE_IDS, w \in Works :
              /\ \A v \in Uploads : v # u => work'[v] = work[v]
              /\ work'[u] = Span(u, w, "ok")
              /\ w.review = work[u].review /\ w.findings = found /\ w.todo = found
              /\ w.citations = work[u].citations /\ w.stages = work[u].stages
              /\ counted'.review = StageRun(u, "ok").review
              /\ counted'.findings = Counted(StageRun(u, "ok").findings, found)
              /\ counted'.grounding = StageRun(u, "ok").grounding
              /\ counted'.stages = StageRun(u, "ok").stages
    BY <1>1, ValidateDoes
<1>3. /\ work'[u].review = work[u].review /\ work'[u].findings = found
      /\ work'[u].todo = found /\ work'[u].citations = work[u].citations
    BY <1>1, <1>2, SpanKeeps
<1>4. /\ counted'.findings = Counted(counted.findings, found)
      /\ counted'.review = counted.review /\ counted'.grounding = counted.grounding
    BY <1>1, <1>2, StageRunCounts
<1>5. /\ ReviewTally(counted, work) /\ FindingsTally(counted, work)
      /\ CitedTally(counted, work) /\ GroundedTally(counted, request, work)
    BY DEF MetricsInv
<1>6. ReviewTally(counted', work')
    <2>1. \A v \in Uploads : work'[v].review = work[v].review
        BY <1>2, <1>3
    <2> QED  BY <1>4, <1>5, <2>1, ReviewKept
<1>7. FindingsTally(counted', work')
    <2>1. \A v \in Uploads : v # u => work'[v].findings = work[v].findings
        BY <1>2
    <2> QED  BY <1>1, <1>3, <1>4, <1>5, <2>1, FindingsGrow
<1>8. CitedTally(counted', work')
    <2>1. \A v \in Uploads : work'[v].citations = work[v].citations
        BY <1>2, <1>3
    <2> QED  BY <1>4, <1>5, <2>1, CitedKept
<1>9. GroundedTally(counted', request', work')
    <2>1. \A v \in Uploads :
             work'[v].findings \ work'[v].todo = work[v].findings \ work[v].todo
        BY <1>1, <1>2, <1>3
    <2> QED  BY <1>1, <1>4, <1>5, <2>1, GroundedKept
<1>10. StageTally(counted', work')
    BY <1>1, <1>2, SpanTally
<1> QED  BY <1>6, <1>7, <1>8, <1>9, <1>10 DEF MetricsInv

(* when a finding is grounded, *)
LEMMA GroundCounts ==
    ASSUME IInv, MetricsInv, NEW u \in Uploads, GroundNext(u)
    PROVE  MetricsInv'
<1>1. /\ TypeInv /\ request' = request /\ request[u].route = "audit"
      /\ counted \in Counters /\ work[u].todo \subseteq work[u].findings
      /\ \A c \in work[u].citations : c[1] \notin work[u].todo
    BY DEF GroundNext, IInv, TypeInv, PhaseInv, AtPhase
<1>2. PICK rule \in work[u].todo, outcome \in Outcomes,
          citations \in SUBSET (RULE_IDS \X Clauses) :
              /\ work' \in [Uploads -> Works]
              /\ \A v \in Uploads : v # u => work'[v] = work[v]
              /\ work'[u].review = work[u].review /\ work'[u].findings = work[u].findings
              /\ work'[u].todo = work[u].todo \ {rule}
              /\ work'[u].citations = work[u].citations \cup citations
              /\ work'[u].stages = work[u].stages
              /\ outcome # "cited" => citations = {}
              /\ outcome = "cited" => /\ rule \in DOMAIN EXPECTED
                                      /\ citations = {<<rule, EXPECTED[rule]>>}
              /\ counted' \in Counters
              /\ counted'.review = counted.review /\ counted'.findings = counted.findings
              /\ counted'.grounding = Counted(counted.grounding, {outcome})
              /\ counted'.stages = counted.stages
              /\ index' \in Indexes \cup {None}
    BY <1>1, GroundDoes
<1>3. /\ ReviewTally(counted, work) /\ FindingsTally(counted, work)
      /\ CitedTally(counted, work) /\ GroundedTally(counted, request, work)
      /\ StageTally(counted, work)
    BY DEF MetricsInv
<1>4. ReviewTally(counted', work')
    <2>1. \A v \in Uploads : work'[v].review = work[v].review
        BY <1>2
    <2> QED  BY <1>2, <1>3, <2>1, ReviewKept
<1>5. FindingsTally(counted', work')
    <2>1. \A v \in Uploads : work'[v].findings = work[v].findings
        BY <1>2
    <2> QED  BY <1>2, <1>3, <2>1, FindingsKept
<1>6. CitedTally(counted', work')
    <2>1. \A v \in Uploads : v # u => work'[v].citations = work[v].citations
        BY <1>2
    <2>2. CASE outcome = "cited"
        <3>1. PICK new : new = <<rule, EXPECTED[rule]>>
            OBVIOUS
        <3>2. new \notin work[u].citations
            BY <1>1, <1>2, <3>1
        <3>3. work'[u].citations = work[u].citations \cup {new}
            BY <1>2, <2>2, <3>1
        <3>4. counted'.grounding = Counted(counted.grounding, {"cited"})
            BY <1>2, <2>2
        <3> QED  BY <1>1, <1>3, <2>1, <3>2, <3>3, <3>4, CitedGrows
    <2>3. CASE outcome # "cited"
        <3>1. work'[u].citations = work[u].citations
            BY <1>2, <2>3
        <3>2. counted'.grounding["cited"] = counted.grounding["cited"]
            <4>1. counted.grounding \in [Outcomes -> Nat] /\ "cited" \in Outcomes
                BY <1>1 DEF Counters, Outcomes
            <4> QED  BY <1>2, <2>3, <4>1, CountedAdds
        <3>3. \A v \in Uploads : work'[v].citations = work[v].citations
            BY <2>1, <3>1
        <3> QED  BY <1>3, <3>2, <3>3, CitedKept
    <2> QED  BY <2>2, <2>3
<1>7. GroundedTally(counted', request', work')
    <2>1. GroundedTally(counted', request, work')
        <3>1. OneFindingMore(work, work', u, rule)
            BY <1>1, <1>2 DEF OneFindingMore
        <3> QED  BY <1>1, <1>2, <1>3, <3>1, GroundedGrows
    <2> QED  BY <1>1, <2>1
<1>8. StageTally(counted', work')
    <2>1. \A v \in Uploads : work'[v].stages = work[v].stages
        BY <1>2
    <2> QED  BY <1>2, <1>3, <2>1, StagesKept
<1> QED  BY <1>4, <1>5, <1>6, <1>7, <1>8 DEF MetricsInv

(* and in every other step. *)
LEMMA MetricsSteps == IInv /\ MetricsInv /\ [Next]_vars => MetricsInv'
<1> SUFFICES ASSUME IInv, MetricsInv, [Next]_vars PROVE MetricsInv'
    OBVIOUS
<1>1. CASE UNCHANGED vars \/ AskLoadsIndex
    <2>1. counted' = counted /\ work' = work /\ request' = request
        BY <1>1 DEF vars, AskLoadsIndex
    <2> QED  BY <2>1, UncountedSteps
<1>2. ASSUME NEW u \in Uploads, Refuse(u) \/ Receive(u) \/ Step(u)
      PROVE  MetricsInv'
    <2>1. CASE Refuse(u) \/ ReadFails(u) \/ StartAudit(u)
        <3>1. counted' = counted /\ work' = work /\ request' = request
            BY <2>1 DEF Refuse, ReadFails, StartAudit
        <3> QED  BY <3>1, UncountedSteps
    <2>2. CASE Receive(u)
        <3>1. work[u].findings = {}
            BY <2>2 DEF Receive, IInv, PhaseInv, AtPhase, NothingFound
        <3>2. counted' = counted /\ work' = work
            BY <2>2 DEF Receive
        <3>3. \A v \in Uploads : v # u => request'[v] = request[v]
            BY <2>2 DEF Receive, IInv, TypeInv
        <3> QED  BY <3>1, <3>2, <3>3, UncountedSteps
    <2>3. CASE ExtractFails(u) \/ GroundFails(u)
        <3>1. pc[u] \in Stages /\ Fail(u) /\ TypeInv /\ request' = request
            BY <2>3 DEF ExtractFails, GroundFails, Fail, Stages, IInv
        <3> QED  BY <3>1, FailDoes, SpanSteps
    <2>4. CASE Extract(u)
        BY <2>4, ExtractCounts
    <2>5. CASE Validate(u)
        BY <2>5, ValidateCounts
    <2>6. CASE GroundNext(u)
        BY <2>6, GroundCounts
    <2>7. CASE GroundDone(u)
        <3>1. pc[u] \in Stages /\ TypeInv /\ request' = request
            BY <2>7 DEF GroundDone, Stages, IInv
        <3> QED  BY <2>7, <3>1, GroundDoneDoes, SpanSteps
    <2>8. CASE Reply(u)
        <3>1. TypeInv /\ counted' = counted /\ request' = request
            BY <2>8 DEF Reply, IInv
        <3> QED  BY <2>8, <3>1, ReplyDoes, UncountedSteps
    <2> QED  BY <1>2, <2>1, <2>2, <2>3, <2>4, <2>5, <2>6, <2>7, <2>8 DEF Step
<1> QED  BY <1>1, <1>2 DEF Next

(* Every counter of /metrics is the number of things that the audits found,  *)
(* whatever the interleaving and wherever they failed.                       *)
THEOREM MetricsAreRight == Spec => []MetricsReflectAudits
<1>1. MetricsInv => MetricsReflectAudits
    <2> SUFFICES ASSUME MetricsInv PROVE MetricsReflectAudits
        OBVIOUS
    <2>1. \A f \in FieldNames :
             counted.review[f] = Cardinality({u \in Uploads : f \in work[u].review})
        BY DEF MetricsInv, ReviewTally, Counts, Reviewed
    <2>2. \A r \in RULE_IDS :
             counted.findings[r] = Cardinality({u \in Uploads : r \in work[u].findings})
        BY DEF MetricsInv, FindingsTally, Counts, Reporting
    <2>3. counted.grounding["cited"] = Cardinality(Cited)
        <3>1. Cited = CitedIn(work)
            BY DEF Cited, CitedIn
        <3> QED  BY <3>1 DEF MetricsInv, CitedTally, Counts
    <2>4. Outcomes_counted(counted) = Cardinality(Grounded_so_far)
        <3>1. Grounded_so_far = GroundedIn(request, work)
            BY DEF Grounded_so_far, GroundedIn
        <3> QED  BY <3>1 DEF MetricsInv, GroundedTally, Counts
    <2>5. ASSUME NEW run \in Runs PROVE counted.stages[run] = Cardinality(RunsOf(run))
        <3>1. RunsOf(run) = RunsIn(work, run)
            BY DEF RunsOf, RunsIn
        <3> QED  BY <3>1 DEF MetricsInv, StageTally, Counts
    <2> QED  BY <2>1, <2>2, <2>3, <2>4, <2>5 DEF MetricsReflectAudits, Outcomes_counted
<1>2. Init => MetricsInv
    BY MetricsInit
<1>3. IInv /\ MetricsInv /\ [Next]_vars => MetricsInv'
    BY MetricsSteps
<1> QED  BY <1>1, <1>2, <1>3, Invariance, PTL DEF Spec
================================================================================
