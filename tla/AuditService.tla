----------------------------- MODULE AuditService -----------------------------
(***************************************************************************)
(* POST /extract and POST /audit: api/routes.py, gateway/audit.py and the  *)
(* stages of observability/tracer.py, over the extraction, the rules and   *)
(* the grounding.                                                          *)
(*                                                                         *)
(* The handlers are coroutines.  They give up the event loop only where    *)
(* they await the upload's content: from there an audit runs to its reply  *)
(* without another upload in between, but not without the threads of /ask, *)
(* which may load the policy index.  A stage is one step, except the       *)
(* grounding, which is one step per finding.  The counters are those of    *)
(* MetricsRegistry, which loses no increment.                              *)
(***************************************************************************)
EXTENDS FieldExtraction, PolicyGrounding, FiniteSets

CONSTANTS
    Uploads,    \* the requests
    Pages,      \* what the uploaded PDFs say
    Unreadable, \* what no PDF reader can read
    Indexes     \* the clauses in the policy documents, or {} without them

ASSUME AuditAssumption ==
    /\ None \notin Uploads
    /\ Unreadable \notin Pages
    /\ Indexes \subseteq SUBSET Clauses

VARIABLES
    pc,         \* where each request is
    request,    \* its route and its content
    work,       \* what its audit has found so far
    loop,       \* the request in the middle of an audit, or None
    tempfiles,  \* the requests with a temporary file on disk
    index,      \* the clauses in the cached policy index, None before
    counted     \* the counters but that of the seconds

vars == <<pc, request, work, loop, tempfiles, index, counted>>

Routes == {"extract", "audit"}
Stages == {"extract", "validate", "ground"}
Runs == Stages \X {"ok", "error"}
Auditing == Stages \cup {"reply"}
FieldNames == {"invoice_no", "invoice_date", "due_date", "subtotal", "tax", "total",
               "vendor", "n_lines", "lines_sum"}
Ended == {"refused", "unread", "failed", "answered"}

NoRequest == [route |-> "extract", content |-> Unreadable]
NoWork == [fields |-> None, review |-> {}, findings |-> {}, todo |-> {},
           citations |-> {}, stages |-> <<>>, max_severity |-> ""]

Init ==
    /\ pc = [u \in Uploads |-> "new"]
    /\ request = [u \in Uploads |-> NoRequest]
    /\ work = [u \in Uploads |-> NoWork]
    /\ loop = None
    /\ tempfiles = {}
    /\ index = None
    /\ counted = [review    |-> [f \in FieldNames |-> 0],
                  findings  |-> [r \in RULE_IDS |-> 0],
                  grounding |-> [o \in Outcomes |-> 0],
                  stages    |-> [s \in Runs |-> 0]]

(* The counters of the members of S go up by one. *)
Counted(counters, S) == [k \in DOMAIN counters |-> counters[k] + IF k \in S THEN 1 ELSE 0]

Goto(u, label) == pc' = [pc EXCEPT ![u] = label]

(* The span of a stage, and its counter. *)
Span(u, w, status) == [w EXCEPT !.stages = Append(@, <<pc[u], status>>)]
StageRun_skips_errors(u, status) ==
    IF status = "ok" THEN [counted EXCEPT !.stages[<<pc[u], status>>] = @ + 1] ELSE counted

StageRun(u, status) == [counted EXCEPT !.stages[<<pc[u], status>>] = @ + 1]

-----------------------------------------------------------------------------
(* A request with a name that does not end in .pdf *)
Refuse(u) ==
    /\ pc[u] = "new"
    /\ loop = None
    /\ Goto(u, "refused")
    /\ UNCHANGED <<request, work, loop, tempfiles, index, counted>>

(* The temporary file is created, then the content awaited. *)
Receive(u) ==
    /\ pc[u] = "new"
    /\ loop = None
    /\ \E route \in Routes, content \in Pages \cup {Unreadable} :
          request' = [request EXCEPT ![u] = [route |-> route, content |-> content]]
    /\ tempfiles' = tempfiles \cup {u}
    /\ Goto(u, "reading")
    /\ UNCHANGED <<work, loop, index, counted>>

(* file.read() raises before the try block that removes the file. *)
ReadFails(u) ==
    /\ pc[u] = "reading"
    /\ loop = None
    /\ Goto(u, "unread")
    /\ UNCHANGED <<request, work, loop, tempfiles, index, counted>>

StartAudit_shares_loop(u) ==
    /\ pc[u] = "reading"
    /\ loop' = u
    /\ Goto(u, "extract")
    /\ UNCHANGED <<request, work, tempfiles, index, counted>>

StartAudit(u) ==
    /\ pc[u] = "reading"
    /\ loop = None
    /\ loop' = u
    /\ Goto(u, "extract")
    /\ UNCHANGED <<request, work, tempfiles, index, counted>>

(* A stage raises: its span ends in an error, the file is removed.          *)
Fail_keeps_file(u) ==
    /\ work' = [work EXCEPT ![u] = Span(u, @, "error")]
    /\ counted' = StageRun(u, "error")
    /\ loop' = None
    /\ Goto(u, "failed")
    /\ UNCHANGED <<request, tempfiles, index>>

(* Run the stage again, without closing its span *)
Fail_retries(u) == UNCHANGED <<pc, request, work, loop, tempfiles, index, counted>>

Fail(u) ==
    /\ work' = [work EXCEPT ![u] = Span(u, @, "error")]
    /\ counted' = StageRun(u, "error")
    /\ loop' = None
    /\ tempfiles' = tempfiles \ {u}
    /\ Goto(u, "failed")
    /\ UNCHANGED <<request, index>>

ExtractFails(u) ==
    /\ pc[u] = "extract"
    /\ request[u].content = Unreadable
    /\ Fail(u)

Extract(u) ==
    /\ pc[u] = "extract"
    /\ request[u].content # Unreadable
    /\ \E fields \in {extract_fields(request[u].content)} :
          LET review == review_fields(fields)
              read == [work[u] EXCEPT !.fields = fields, !.review = review]
          IN  /\ work' = [work EXCEPT ![u] = Span(u, read, "ok")]
              /\ counted' = [StageRun(u, "ok") EXCEPT !.review = Counted(@, review)]
    /\ Goto(u, "validate")
    /\ UNCHANGED <<request, loop, tempfiles, index>>

(* The routes pass no seen numbers. *)
Findings(u) ==
    validate_invoice(Extracted(u, request[u].content.ties, work[u].fields), None)

Validate(u) ==
    /\ pc[u] = "validate"
    /\ \E found \in {Findings(u)} :
          LET validated == [work[u] EXCEPT !.findings = found, !.todo = found]
          IN  /\ work' = [work EXCEPT ![u] = Span(u, validated, "ok")]
              /\ counted' = [StageRun(u, "ok") EXCEPT !.findings = Counted(@, found)]
    /\ Goto(u, IF request[u].route = "audit" THEN "ground" ELSE "reply")
    /\ UNCHANGED <<request, loop, tempfiles, index>>

(* qa._index() of PolicyIndex, in one step: without documents nothing is    *)
(* cached; another caller may have stored its index while this one loaded.  *)
Index(clauses) ==
    \/ index # None /\ clauses = index /\ UNCHANGED index
    \/ /\ index = None /\ clauses \in Indexes
       /\ index' \in (Indexes \ {{}}) \cup (IF clauses = {} THEN {None} ELSE {})

(* A finding leaves the loop over the findings, with its citation if any. *)
Grounded(w, rule, top) ==
    IF ground_finding(rule, top) = "cited"
    THEN [w EXCEPT !.todo = @ \ {rule}, !.citations = @ \cup {<<rule, top>>}]
    ELSE [w EXCEPT !.todo = @ \ {rule}]

(* ground_finding for one finding; one without a query searches nothing. *)
GroundNext(u) ==
    /\ pc[u] = "ground"
    /\ \E rule \in work[u].todo, clauses \in Indexes \cup {{}} :
          /\ IF rule \in DOMAIN POLICY_QUERIES THEN Index(clauses)
             ELSE clauses = {} /\ UNCHANGED index
          /\ \E top \in IF clauses = {} THEN {None} ELSE clauses :
                /\ counted' =
                      [counted EXCEPT !.grounding = Counted(@, {ground_finding(rule, top)})]
                /\ work' = [work EXCEPT ![u] = Grounded(@, rule, top)]
    /\ UNCHANGED <<pc, request, loop, tempfiles>>

(* The embedding model cannot be loaded or run. *)
GroundFails(u) ==
    /\ pc[u] = "ground"
    /\ work[u].todo \cap DOMAIN POLICY_QUERIES # {}
    /\ Fail(u)

GroundDone(u) ==
    /\ pc[u] = "ground"
    /\ work[u].todo = {}
    /\ work' = [work EXCEPT ![u] = Span(u, @, "ok")]
    /\ counted' = StageRun(u, "ok")
    /\ Goto(u, "reply")
    /\ UNCHANGED <<request, loop, tempfiles, index>>

Reply(u) ==
    /\ pc[u] = "reply"
    /\ work' = [work EXCEPT ![u].max_severity = max_severity(work[u].findings)]
    /\ loop' = None
    /\ tempfiles' = tempfiles \ {u}
    /\ Goto(u, "answered")
    /\ UNCHANGED <<request, index, counted>>

(* A question on a thread of /ask loads the index. *)
AskLoadsIndex ==
    /\ index = None
    /\ index' \in Indexes \ {{}}
    /\ UNCHANGED <<pc, request, work, loop, tempfiles, counted>>

Step(u) ==
    \/ ReadFails(u) \/ StartAudit(u)
    \/ ExtractFails(u) \/ Extract(u) \/ Validate(u)
    \/ GroundNext(u) \/ GroundFails(u) \/ GroundDone(u) \/ Reply(u)

Next ==
    \/ AskLoadsIndex
    \/ \E u \in Uploads : Refuse(u) \/ Receive(u) \/ Step(u)

(* The event loop and the file system serve every request they accepted. *)
Fairness == \A u \in Uploads : WF_vars(Step(u))

Spec == Init /\ [][Next]_vars /\ Fairness
-----------------------------------------------------------------------------
(***************************************************************************)
(* Properties.                                                             *)
(***************************************************************************)

(* Every variable has its type, and the event loop is busy with exactly the *)
(* one request that is in the middle of its audit.                          *)
TypeOK ==
    /\ pc \in [Uploads -> {"new", "reading"} \cup Auditing \cup Ended]
    /\ request \in [Uploads -> [route : Routes, content : Pages \cup {Unreadable}]]
    /\ \A u \in Uploads : pc[u] \in Auditing <=> loop = u
    /\ loop \in Uploads \cup {None}
    /\ tempfiles \subseteq Uploads
    /\ index \in Indexes \cup {None}
    /\ \A u \in Uploads :
          /\ work[u].review \subseteq FieldNames
          /\ work[u].todo \subseteq work[u].findings
          /\ work[u].findings \subseteq RULE_IDS
          /\ \A i \in DOMAIN work[u].stages : work[u].stages[i] \in Runs
    /\ counted.review \in [FieldNames -> Nat]
    /\ counted.findings \in [RULE_IDS -> Nat]
    /\ counted.grounding \in [Outcomes -> Nat]
    /\ counted.stages \in [Runs -> Nat]

(* A temporary file is on disk while its request is served.  A failed stage *)
(* removes it as a reply does; only a request whose content could not be    *)
(* read leaves it behind.                                                   *)
TempFilesRemoved ==
    tempfiles = {u \in Uploads : pc[u] \in {"reading", "unread"} \cup Auditing}

Grounded_so_far ==
    UNION {{<<u, r>> : r \in work[u].findings \ work[u].todo} :
             u \in {v \in Uploads : request[v].route = "audit"}}

Cited == UNION {{<<u, c>> : c \in work[u].citations} : u \in Uploads}

RunsOf(run) ==
    UNION {{<<u, i>> : i \in {k \in DOMAIN work[u].stages : work[u].stages[k] = run}} :
             u \in Uploads}

(* What /metrics counts is what the audits found, those that failed in the  *)
(* middle included: each field for review, each finding, one grounding      *)
(* outcome for each finding reached, each stage that ended, in an error or  *)
(* not.                                                                     *)
MetricsReflectAudits ==
    /\ \A f \in FieldNames :
          counted.review[f] = Cardinality({u \in Uploads : f \in work[u].review})
    /\ \A r \in RULE_IDS :
          counted.findings[r] = Cardinality({u \in Uploads : r \in work[u].findings})
    /\ counted.grounding["cited"] = Cardinality(Cited)
    /\ counted.grounding["cited"] + counted.grounding["gated"]
          + counted.grounding["unmapped"] + counted.grounding["no_docs"]
          = Cardinality(Grounded_so_far)
    /\ \A run \in Runs : counted.stages[run] = Cardinality(RunsOf(run))

(* A finding is never tied to a clause that does not govern it, whichever   *)
(* clauses are in the documents and whichever comes first in the index.     *)
CitationsGovern ==
    \A u \in Uploads : \A c \in work[u].citations : c[2] = EXPECTED[c[1]]

(* Every upload that was accepted ends in a reply or an error.              *)
EveryUploadEnds == \A u \in Uploads : pc[u] = "reading" ~> pc[u] \in Ended
==============================================================================
