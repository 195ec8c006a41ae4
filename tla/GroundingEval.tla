---------------------------- MODULE GroundingEval ----------------------------
(***************************************************************************)
(* scripts/grounding_eval.py over PolicyIndex: how often a finding is tied *)
(* to a wrong clause, first with all the clauses in the documents, then    *)
(* with the governing clause of each rule taken out of them.               *)
(*                                                                         *)
(* The script is one thread: it writes the documents with the calls that   *)
(* the service's operator makes from another process, and drops the index  *)
(* after each writing.  One finding stands for those of its rule; the      *)
(* queries are the curated ones.                                           *)
(***************************************************************************)
EXTENDS PolicyIndex

(* The script's process has the thread it runs on. *)
ASSUME ScriptAssumption == Callers # {}

VARIABLES
    program,    \* what the process runs: "service" or "evaluation"
    phase,      \* of the evaluation
    todo,       \* the rules it has yet to ask about in this phase
    counts      \* per gate, how its citations were judged

scriptVars == <<phase, todo, counts>>
vars == <<indexVars, program, scriptVars>>

Script == CHOOSE c \in Callers : TRUE
Grounded == <<"due_before_issue", "duplicate_invoice_no", "lines_vs_subtotal",
    "subtotal_plus_tax", "tax_rate_implausible", "terms_unacceptable", "terms_unusual">>
Rules == Grounded \o <<"missing_fields", "dates_unparseable">>
GATES == {"none", "lexical", "coverage"}
NoCounts == [g \in GATES |-> [ok |-> 0, gated |-> 0, wrong |-> 0]]

Init ==
    /\ IndexInit
    /\ program \in {"service", "evaluation"}
    /\ phase = "setup"
    /\ todo = Rules
    /\ counts = NoCounts

Single == writer = None /\ pc[Script] = "idle"

(* write_kb(kb, drop), its first step and its last *)
write_kb(drop, next) ==
    /\ Single
    /\ StartWriting(drop)
    /\ phase' = next
    /\ UNCHANGED <<todo, counts>>

KbWritten_keeps_index ==
    /\ writer # None /\ writer.todo = <<>>
    /\ StopWriting
    /\ UNCHANGED scriptVars

KbWritten ==
    /\ writer # None /\ writer.todo = <<>>
    /\ writer' = None
    /\ invalidate_index
    /\ UNCHANGED <<docs, callerVars, window, scriptVars>>

(* A rule without a query searches nothing; the others need the index. *)
Searches == phase = "query" \/ (phase = "score" /\ todo # <<>> /\ Head(todo) \in DOMAIN EXPECTED)

Search ==
    /\ writer = None /\ Searches
    /\ \/ /\ Hit(Script) \/ ListFiles(Script) \/ ReadNext(Script) \/ Store(Script)
          /\ UNCHANGED phase
       \/ EmbeddingFails(Script) /\ phase' = "failed"
    /\ UNCHANGED <<todo, counts>>

Passes(gate, rule, top) ==
    CASE gate = "none"     -> TRUE
      [] gate = "lexical"  -> passes_gate_lexical(rule, top)
      [] gate = "coverage" -> passes_gate(rule, top)

(* A clause that was taken out should not be cited, nor any other for it. *)
Verdict(gate, rule, top) ==
    IF rule \notin DOMAIN POLICY_QUERIES THEN "ok"
    ELSE IF ~Passes(gate, rule, top) THEN "gated"
    ELSE IF phase = "score" /\ top = EXPECTED[rule] THEN "ok" ELSE "wrong"

Judge(top) ==
    /\ counts' = [g \in GATES |-> [counts[g] EXCEPT ![Verdict(g, Head(todo), top)] = @ + 1]]
    /\ todo' = Tail(todo)
    /\ phase' = IF phase = "query" THEN "ablate" ELSE phase

(* ground_query with each of the gates: the first hit is the same for all. *)
Cite ==
    /\ Searches
    /\ \E top \in chunks[Script] : Judge(top)
    /\ Answer(Script)

Unmapped ==
    /\ phase = "score" /\ Single
    /\ todo # <<>> /\ ~Searches
    /\ Judge(None)
    /\ UNCHANGED indexVars

ScoreDone ==
    /\ phase = "score" /\ todo = <<>>
    /\ phase' = "ablate"
    /\ todo' = Grounded
    /\ counts' = NoCounts
    /\ UNCHANGED indexVars

Restore ==
    /\ phase = "restore" /\ Single
    /\ phase' = "done"
    /\ invalidate_index
    /\ UNCHANGED <<docsVars, callerVars, window, todo, counts>>

clause_removed ==
    \/ phase = "ablate" /\ todo # <<>> /\ write_kb(EXPECTED[Head(todo)], "query")
    \/ phase = "ablate" /\ todo = <<>> /\ write_kb(None, "restore")

EvaluationNext ==
    \/ phase = "setup" /\ write_kb(None, "score")
    \/ (Truncate \/ Fill) /\ UNCHANGED scriptVars
    \/ KbWritten \/ Search \/ Cite \/ Unmapped \/ ScoreDone \/ clause_removed \/ Restore

Next ==
    /\ \/ program = "service" /\ ServiceNext /\ UNCHANGED scriptVars
       \/ program = "evaluation" /\ EvaluationNext
    /\ UNCHANGED program

Spec == Init /\ [][Next]_vars

-----------------------------------------------------------------------------
(***************************************************************************)
(* Properties.                                                             *)
(***************************************************************************)

(* The coverage gate refuses no governing clause that retrieval found, and  *)
(* cites no other: neither with all the clauses in the documents nor, since *)
(* the index is dropped with each writing of them, with the clause of the   *)
(* rule taken out.                                                          *)
CoverageIsRight ==
    /\ counts["coverage"].wrong = 0
    /\ counts["coverage"].ok = counts["none"].ok

(* The script searches only an index of the documents as it last wrote      *)
(* them, so that the gates are compared on the clauses they are said to be. *)
ScriptSearchesWhatItWrote ==
    program = "evaluation" /\ pc[Script] = "using" => chunks[Script] = Text(docs)
==============================================================================
