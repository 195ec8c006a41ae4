-------------------------- MODULE GroundingEvalProofs --------------------------
(***************************************************************************)
(* Proofs about PolicyIndex and GroundingEval, for any number of callers    *)
(* and any edits of the documents: what a load can miss, and what the       *)
(* evaluation script measures.                                              *)
(***************************************************************************)
EXTENDS GroundingEval, SequenceTheorems, TLAPS

Names == DOMAIN POLICIES

Tally == [ok : Nat, gated : Nat, wrong : Nat]

Phases == {"setup", "score", "ablate", "query", "restore", "failed", "done"}

(* A document holds clauses of its own only. *)
TypeInv ==
    /\ docs \in [Names -> (SUBSET Clauses) \cup {Absent}]
    /\ \A d \in Names : docs[d] # Absent => docs[d] \subseteq POLICIES[d]
    /\ writer \in Writings \cup {None}
    /\ index \in ((SUBSET Clauses) \ {{}}) \cup {None}
    /\ pc \in [Callers -> {"idle", "reading", "using"}]
    /\ files \in [Callers -> SUBSET Names]
    /\ \A c \in Callers : files[c] # {} => Loading(c)
    /\ chunks \in [Callers -> SUBSET Clauses]
    /\ \A c \in Callers : pc[c] = "idle" => chunks[c] = {}
    /\ window \in [Callers -> [always : SUBSET Clauses, ever : SUBSET Clauses]]

ScriptTypeInv ==
    /\ program \in {"service", "evaluation"}
    /\ phase \in Phases
    /\ counts \in [GATES -> Tally]

(* The clauses in the documents that a caller has yet to read *)
Ahead(ds, names) == UNION {ds[d] : d \in names}

(* A clause on disk since the load started has been read or is in a file    *)
(* still to be read, in which it is now.                                    *)
LoadInv ==
    \A c \in Callers : Loading(c) =>
        /\ \A d \in files[c] : docs[d] # Absent
        /\ window[c].always \subseteq chunks[c] \cup Ahead(docs, files[c])
        /\ chunks[c] \subseteq window[c].ever
        /\ Text(docs) \subseteq window[c].ever

(* The script searches and writes in turns. *)
TurnsInv ==
    program = "evaluation" =>
        /\ writer # None => pc[Script] = "idle"
        /\ writer = None /\ index # None => index = Text(docs)
        /\ pc[Script] = "reading" => window[Script] = Opened(Text(docs))
        /\ pc[Script] = "using" => chunks[Script] = Text(docs)

(* In a query the documents lack the clause that governs the rule: those    *)
(* already written while they are being written, all of them afterwards.    *)
DroppedInv ==
    /\ program = "evaluation" /\ phase \in {"ablate", "query"} => todo \in Seq(DOMAIN EXPECTED)
    /\ program = "evaluation" /\ phase = "query" =>
          /\ todo # <<>>
          /\ writer # None =>
                /\ writer.drop = EXPECTED[Head(todo)]
                /\ \A d \in Names :
                      \/ \E i \in DOMAIN writer.todo : writer.todo[i] = d
                      \/ docs[d] # Absent /\ writer.drop \notin docs[d]
          /\ writer = None => EXPECTED[Head(todo)] \notin Text(docs)

IndexInv == TypeInv /\ LoadInv

IInv == IndexInv /\ ScriptTypeInv /\ TurnsInv /\ DroppedInv /\ CoverageIsRight

-----------------------------------------------------------------------------
(* What the constants say.                                                  *)

(* No clause is in two documents. *)
LEMMA OwnClauses ==
    ASSUME NEW d \in Names, NEW e \in Names, NEW x, x \in POLICIES[d], x \in POLICIES[e]
    PROVE  d = e
BY DEF Names, POLICIES

(* A document of POLICIES has clauses. *)
LEMMA PoliciesAreClauses ==
    ASSUME NEW d \in Names
    PROVE  POLICIES[d] \subseteq Clauses /\ POLICIES[d] # Absent
<1>1. POLICIES[d] \subseteq Clauses
    BY DEF Names, POLICIES, Clauses
<1> QED  BY <1>1, DocumentsAssumption

(* Every document is written by every call of write_policies. *)
LEMMA AllAreWritten ==
    /\ WriteOrder \in Seq(Names)
    /\ \A d \in Names : \E i \in DOMAIN WriteOrder : WriteOrder[i] = d
<1>1. WriteOrder \in Seq(Names)
    BY DEF WriteOrder, Names, POLICIES
<1>2. /\ 1 \in DOMAIN WriteOrder /\ 2 \in DOMAIN WriteOrder
      /\ 3 \in DOMAIN WriteOrder /\ 4 \in DOMAIN WriteOrder
      /\ WriteOrder[1] = "expense" /\ WriteOrder[2] = "tax"
      /\ WriteOrder[3] = "vendor" /\ WriteOrder[4] = "capitalization"
    BY DEF WriteOrder
<1>3. Names = {"expense", "tax", "vendor", "capitalization"}
    BY DEF Names, POLICIES
<1> QED  BY <1>1, <1>2, <1>3

(* The coverage gate passes exactly the clause that governs the rule. *)
LEMMA GateIsExpected ==
    ASSUME NEW rule \in DOMAIN POLICY_QUERIES, NEW top
    PROVE  passes_gate(rule, top) <=> top = EXPECTED[rule]
<1>1. /\ POLICY_QUERIES["lines_vs_subtotal"] = 9 /\ POLICY_QUERIES["subtotal_plus_tax"] = 7
      /\ POLICY_QUERIES["tax_rate_implausible"] = 8 /\ POLICY_QUERIES["terms_unusual"] = 8
      /\ POLICY_QUERIES["terms_unacceptable"] = 8 /\ POLICY_QUERIES["due_before_issue"] = 7
      /\ POLICY_QUERIES["duplicate_invoice_no"] = 7
    BY DEF POLICY_QUERIES
<1>2. ASSUME passes_gate(rule, top) PROVE top = EXPECTED[rule]
    <2>1. PICK m \in 1..9 : <<rule, top, m>> \in Words /\ 2 * m >= POLICY_QUERIES[rule]
        BY <1>2 DEF passes_gate
    <2>2. m > 2
        BY <2>1, <1>1 DEF POLICY_QUERIES
    <2>3. m <= 2 \/ \/ rule = "lines_vs_subtotal" /\ top = "dispute"
                    \/ rule = "subtotal_plus_tax" /\ top = "dispute"
                    \/ rule = "tax_rate_implausible" /\ top = "rates"
                    \/ rule = "terms_unusual" /\ top = "terms"
                    \/ rule = "terms_unacceptable" /\ top = "terms"
                    \/ rule = "due_before_issue" /\ top = "terms"
                    \/ rule = "duplicate_invoice_no" /\ top = "duplicates"
        BY <2>1 DEF Words
    <2> QED  BY <2>2, <2>3 DEF EXPECTED
<1>3. ASSUME top = EXPECTED[rule] PROVE passes_gate(rule, top)
    <2>1. PICK m \in 5..8 : <<rule, top, m>> \in Words /\ 2 * m >= POLICY_QUERIES[rule]
        <3>1. /\ <<"lines_vs_subtotal", "dispute", 8>> \in Words
              /\ <<"subtotal_plus_tax", "dispute", 5>> \in Words
              /\ <<"tax_rate_implausible", "rates", 6>> \in Words
              /\ <<"terms_unusual", "terms", 8>> \in Words
              /\ <<"terms_unacceptable", "terms", 8>> \in Words
              /\ <<"due_before_issue", "terms", 5>> \in Words
              /\ <<"duplicate_invoice_no", "duplicates", 7>> \in Words
            BY DEF Words
        <3> QED  BY <1>1, <1>3, <3>1 DEF EXPECTED, POLICY_QUERIES
    <2> QED  BY <2>1 DEF passes_gate
<1> QED  BY <1>2, <1>3

(* The clauses in the documents *)
LEMMA InText ==
    ASSUME NEW ds, DOMAIN ds = Names
    PROVE  \A x : x \in Text(ds) <=> \E d \in Names : ds[d] # Absent /\ x \in ds[d]
BY DEF Text

(* What is still to be read is in some document. *)
LEMMA InAhead ==
    ASSUME NEW ds, NEW names
    PROVE  \A x : x \in Ahead(ds, names) <=> \E d \in names : x \in ds[d]
BY DEF Ahead

-----------------------------------------------------------------------------
(* The writer.  A file that changes cannot take from a load a clause that   *)
(* was on disk all along.                                                   *)
LEMMA PutKeeps ==
    ASSUME TypeInv, LoadInv, NEW d \in Names, NEW text \in SUBSET POLICIES[d], Put(d, text)
    PROVE  /\ docs' \in [Names -> (SUBSET Clauses) \cup {Absent}]
           /\ \A e \in Names : docs'[e] # Absent => docs'[e] \subseteq POLICIES[e]
           /\ window' \in [Callers -> [always : SUBSET Clauses, ever : SUBSET Clauses]]
           /\ LoadInv'
<1>1. text \in SUBSET Clauses /\ text # Absent
    BY PoliciesAreClauses, DocumentsAssumption
<1>2. /\ docs' \in [Names -> (SUBSET Clauses) \cup {Absent}] /\ docs'[d] = text
      /\ \A e \in Names : e # d => docs'[e] = docs[e]
    BY <1>1 DEF Put, TypeInv
<1>3. \A e \in Names : docs'[e] # Absent => docs'[e] \subseteq POLICIES[e]
    BY <1>2 DEF TypeInv
<1>4. DOMAIN docs = Names /\ DOMAIN docs' = Names
    BY <1>2 DEF TypeInv
<1>5. Text(docs') \subseteq Clauses
    BY <1>2, <1>4, InText
<1>6. ASSUME NEW c \in Callers
      PROVE  /\ window'[c] \in [always : SUBSET Clauses, ever : SUBSET Clauses]
             /\ Loading(c) => /\ window'[c].always = window[c].always \cap Text(docs')
                              /\ window'[c].ever = window[c].ever \cup Text(docs')
    <2>1. window'[c] = IF Loading(c) THEN Watched(window[c], Text(docs')) ELSE window[c]
        BY DEF Put
    <2>2. window[c] \in [always : SUBSET Clauses, ever : SUBSET Clauses]
        BY DEF TypeInv
    <2> QED  BY <1>5, <2>1, <2>2 DEF Watched
<1>7. window' \in [Callers -> [always : SUBSET Clauses, ever : SUBSET Clauses]]
    <2>1. window' = [c \in Callers |-> window'[c]]
        BY DEF Put
    <2> QED  BY <1>6, <2>1
<1>8. LoadInv'
    <2> SUFFICES ASSUME NEW c \in Callers, Loading(c)
                 PROVE  /\ \A e \in files[c] : docs'[e] # Absent
                        /\ window'[c].always \subseteq chunks[c] \cup Ahead(docs', files[c])
                        /\ chunks[c] \subseteq window'[c].ever
                        /\ Text(docs') \subseteq window'[c].ever
        BY DEF LoadInv, Loading, Put, callerVars
    <2>1. /\ \A e \in files[c] : docs[e] # Absent /\ e \in Names
          /\ window[c].always \subseteq chunks[c] \cup Ahead(docs, files[c])
          /\ chunks[c] \subseteq window[c].ever
        BY DEF LoadInv, TypeInv
    <2>2. \A e \in files[c] : docs'[e] # Absent
        BY <1>1, <1>2, <2>1
    <2>3. ASSUME NEW x \in window'[c].always, x \notin chunks[c]
          PROVE  x \in Ahead(docs', files[c])
        <3>1. x \in window[c].always /\ x \in Text(docs')
            BY <1>6, <2>3
        <3>2. PICK e \in files[c] : x \in docs[e]
            BY <2>1, <2>3, <3>1, InAhead
        <3>3. PICK f \in Names : docs'[f] # Absent /\ x \in docs'[f]
            BY <1>4, <3>1, InText
        <3>4. x \in POLICIES[e] /\ x \in POLICIES[f] /\ e \in Names
            BY <1>3, <2>1, <3>2, <3>3 DEF TypeInv
        <3>5. e = f
            BY <3>4, OwnClauses
        <3> QED  BY <3>3, <3>5, InAhead
    <2> QED  BY <1>6, <2>1, <2>2, <2>3
<1> QED  BY <1>2, <1>3, <1>7, <1>8

(* A writer or an editor keeps what is known of the loads under way. *)
LEMMA WriterSteps ==
    ASSUME IndexInv, NEW drop \in Clauses \cup {None},
           StartWriting(drop) \/ Truncate \/ Fill \/ StopWriting \/ Edit
    PROVE  IndexInv'
<1> USE DEF IndexInv
<1>1. CASE StartWriting(drop)
    <2>1. [todo |-> WriteOrder, open |-> FALSE, drop |-> drop] \in Writings
        BY AllAreWritten DEF Writings, Names
    <2>2. TypeInv'
        BY <1>1, <2>1 DEF StartWriting, TypeInv, callerVars, Loading
    <2> QED  BY <1>1, <2>2 DEF StartWriting, LoadInv, callerVars, Loading
<1>2. CASE Truncate
    <2>1. writer \in Writings /\ writer.todo \in Seq(Names) /\ writer.todo # <<>>
        BY <1>2 DEF Truncate, TypeInv, Writings, Names
    <2>2. PICK d \in Names : d = Head(writer.todo)
        BY <2>1, HeadTailProperties
    <2>3. Put(d, {})
        BY <1>2, <2>2 DEF Truncate
    <2>4. writer' \in Writings
        BY <1>2, <2>1 DEF Truncate, Writings
    <2> QED  BY <2>3, <2>4, PutKeeps DEF TypeInv, Put, callerVars, Loading
<1>3. CASE Fill
    <2>1. writer \in Writings /\ writer.todo \in Seq(Names) /\ writer.todo # <<>>
        BY <1>3 DEF Fill, TypeInv, Writings, Names
    <2>2. PICK d \in Names : d = Head(writer.todo)
        BY <2>1, HeadTailProperties
    <2>3. Put(d, POLICIES[d] \ {writer.drop}) /\ POLICIES[d] \ {writer.drop} \in SUBSET POLICIES[d]
        BY <1>3, <2>2 DEF Fill
    <2>4. writer' \in Writings
        <3>1. Tail(writer.todo) \in Seq(Names)
            BY <2>1, HeadTailProperties
        <3>2. writer' = [writer EXCEPT !.open = FALSE, !.todo = Tail(writer.todo)]
            BY <1>3 DEF Fill
        <3>3. writer' = [todo |-> Tail(writer.todo), open |-> FALSE, drop |-> writer.drop]
            BY <2>1, <3>2 DEF Writings
        <3> QED  BY <2>1, <3>1, <3>3 DEF Writings, Names
    <2> QED  BY <2>3, <2>4, PutKeeps DEF TypeInv, Put, callerVars, Loading
<1>4. CASE StopWriting
    BY <1>4 DEF StopWriting, TypeInv, LoadInv, callerVars, Loading
<1>5. CASE Edit
    <2>1. PICK d \in Names : docs[d] # Absent /\
             \E clause \in Dropped \cap docs[d] : Put(d, docs[d] \ {clause})
        BY <1>5 DEF Edit, Names
    <2>2. PICK clause \in Dropped \cap docs[d] : Put(d, docs[d] \ {clause})
        BY <2>1
    <2>3. docs[d] \ {clause} \in SUBSET POLICIES[d]
        BY <2>1 DEF TypeInv
    <2>4. writer' = writer
        BY <1>5 DEF Edit
    <2> QED  BY <2>2, <2>3, <2>4, PutKeeps DEF TypeInv, Put, callerVars, Loading
<1> QED  BY <1>1, <1>2, <1>3, <1>4, <1>5

(* A query ends. *)
LEMMA LeaveKeeps ==
    ASSUME IndexInv, NEW c \in Callers, Leave(c)
    PROVE  IndexInv'
<1> USE DEF IndexInv
<1>1. /\ pc' \in [Callers -> {"idle", "reading", "using"}] /\ pc'[c] = "idle"
      /\ files' \in [Callers -> SUBSET Names] /\ files'[c] = {}
      /\ chunks' \in [Callers -> SUBSET Clauses] /\ chunks'[c] = {}
      /\ window' \in [Callers -> [always : SUBSET Clauses, ever : SUBSET Clauses]]
      /\ \A b \in Callers : b # c => /\ pc'[b] = pc[b] /\ files'[b] = files[b]
                                     /\ chunks'[b] = chunks[b] /\ window'[b] = window[b]
      /\ docs' = docs /\ writer' = writer /\ index' = index
    BY DEF Leave, TypeInv, NotOpened, Opened, docsVars
<1>2. TypeInv'
    BY <1>1 DEF TypeInv, Loading
<1>3. LoadInv'
    BY <1>1 DEF LoadInv, Loading
<1> QED  BY <1>2, <1>3

(* What a load reads next leaves the files ahead for what it has read. *)
LEMMA ReadKeeps ==
    ASSUME IndexInv, NEW c \in Callers, ReadNext(c)
    PROVE  IndexInv'
<1> USE DEF IndexInv
<1>1. PICK d : d = First(files[c])
    OBVIOUS
<1>2. /\ Loading(c)
      /\ chunks' = [chunks EXCEPT ![c] = chunks[c] \cup docs[d]]
      /\ files' = [files EXCEPT ![c] = files[c] \ {d}]
      /\ docs' = docs /\ writer' = writer /\ index' = index /\ pc' = pc /\ window' = window
    BY <1>1 DEF ReadNext, docsVars
<1>3. d \in files[c] /\ d \in Names /\ docs[d] # Absent
    <2>1. files[c] \subseteq {"expense", "tax", "vendor", "capitalization"} /\ files[c] # {}
        BY DEF TypeInv, ReadNext, Names, POLICIES
    <2>2. \E x \in files[c] : \A e \in files[c] : ReadOrder[x] <= ReadOrder[e]
        <3>1. /\ ReadOrder["capitalization"] = 1 /\ ReadOrder["expense"] = 2
              /\ ReadOrder["tax"] = 3 /\ ReadOrder["vendor"] = 4
            BY DEF ReadOrder
        <3>2. CASE "capitalization" \in files[c]
            BY <2>1, <3>1, <3>2
        <3>3. CASE "capitalization" \notin files[c] /\ "expense" \in files[c]
            BY <2>1, <3>1, <3>3
        <3>4. CASE files[c] \subseteq {"tax", "vendor"} /\ "tax" \in files[c]
            BY <2>1, <3>1, <3>4
        <3>5. CASE files[c] \subseteq {"vendor"}
            BY <2>1, <3>1, <3>5
        <3> QED  BY <2>1, <3>2, <3>3, <3>4, <3>5
    <2>3. d \in files[c]
        BY <1>1, <2>2 DEF First
    <2> QED  BY <1>2, <2>3 DEF TypeInv, LoadInv
<1>4. /\ docs[d] \subseteq Clauses /\ docs[d] \subseteq Text(docs)
      /\ DOMAIN docs = Names
    <2>1. DOMAIN docs = Names
        BY DEF TypeInv
    <2> QED  BY <1>3, <2>1, InText DEF TypeInv
<1>5. /\ chunks' \in [Callers -> SUBSET Clauses] /\ chunks'[c] = chunks[c] \cup docs[d]
      /\ files' \in [Callers -> SUBSET Names] /\ files'[c] = files[c] \ {d}
      /\ \A b \in Callers : b # c => chunks'[b] = chunks[b] /\ files'[b] = files[b]
    BY <1>2, <1>4 DEF TypeInv
<1>6. TypeInv'
    BY <1>2, <1>5 DEF TypeInv, Loading
<1>7. LoadInv'
    <2>1. window[c].always \subseteq chunks'[c] \cup Ahead(docs, files'[c])
        <3>1. ASSUME NEW x \in window[c].always, x \notin chunks'[c]
              PROVE  x \in Ahead(docs, files'[c])
            <4>1. x \notin chunks[c] /\ x \notin docs[d]
                BY <1>5, <3>1
            <4>2. x \in Ahead(docs, files[c])
                BY <1>2, <4>1 DEF LoadInv
            <4>3. PICK e \in files[c] : x \in docs[e]
                BY <4>2, InAhead
            <4>4. e \in files'[c]
                BY <1>5, <4>1, <4>3
            <4> QED  BY <4>3, <4>4, InAhead
        <3> QED  BY <3>1
    <2>2. chunks'[c] \subseteq window[c].ever /\ Text(docs) \subseteq window[c].ever
        BY <1>2, <1>4, <1>5 DEF LoadInv
    <2>3. \A e \in files'[c] : docs[e] # Absent
        BY <1>2, <1>5 DEF LoadInv
    <2> QED  BY <1>2, <1>5, <2>1, <2>2, <2>3 DEF LoadInv, Loading
<1> QED  BY <1>6, <1>7

(* A load starts with all the clauses on disk in the files ahead of it. *)
LEMMA ListKeeps ==
    ASSUME IndexInv, NEW c \in Callers, ListFiles(c)
    PROVE  IndexInv'
<1> USE DEF IndexInv
<1> DEFINE names == {d \in Names : docs[d] # Absent}
<1>1. DOMAIN docs = Names /\ Text(docs) \subseteq Clauses
    <2>1. DOMAIN docs = Names
        BY DEF TypeInv
    <2> QED  BY <2>1, InText DEF TypeInv
<1>2. /\ pc' = [pc EXCEPT ![c] = "reading"] /\ files' = [files EXCEPT ![c] = names]
      /\ window' = [window EXCEPT ![c] = Opened(Text(docs))]
      /\ docs' = docs /\ writer' = writer /\ index' = index /\ chunks' = chunks
    BY DEF ListFiles, docsVars, Names
<1>3. names \in SUBSET Names
    OBVIOUS
<1> HIDE DEF names
<1>4. /\ pc' \in [Callers -> {"idle", "reading", "using"}] /\ pc'[c] = "reading"
      /\ files' \in [Callers -> SUBSET Names] /\ files'[c] = names
      /\ window' \in [Callers -> [always : SUBSET Clauses, ever : SUBSET Clauses]]
      /\ window'[c].always = Text(docs) /\ window'[c].ever = Text(docs)
      /\ \A b \in Callers : b # c =>
            pc'[b] = pc[b] /\ files'[b] = files[b] /\ window'[b] = window[b]
    BY <1>1, <1>2, <1>3 DEF TypeInv, Opened
<1>5. TypeInv'
    BY <1>2, <1>4 DEF TypeInv, Loading
<1>6. Text(docs) \subseteq Ahead(docs, names)
    <2>1. ASSUME NEW x \in Text(docs) PROVE x \in Ahead(docs, names)
        <3>1. PICK d \in Names : docs[d] # Absent /\ x \in docs[d]
            BY <1>1, InText
        <3>2. d \in names
            BY <3>1 DEF names
        <3> QED  BY <3>1, <3>2, InAhead
    <2> QED  BY <2>1
<1>7. chunks[c] = {}
    BY DEF ListFiles, TypeInv
<1>8. LoadInv'
    BY <1>2, <1>4, <1>6, <1>7 DEF LoadInv, Loading, names
<1> QED  BY <1>5, <1>8

(* So does a caller of _index(). *)
LEMMA CallerSteps ==
    ASSUME IndexInv, NEW c \in Callers, Hit(c) \/ ListFiles(c) \/ Load(c) \/ Answer(c)
    PROVE  IndexInv'
<1> USE DEF IndexInv
<1>1. CASE Hit(c)
    <2>1. index \in SUBSET Clauses /\ chunks' = [chunks EXCEPT ![c] = index]
        BY <1>1 DEF Hit, TypeInv
    <2>2. /\ pc' \in [Callers -> {"idle", "reading", "using"}] /\ pc'[c] = "using"
          /\ chunks' \in [Callers -> SUBSET Clauses]
          /\ \A b \in Callers : b # c => pc'[b] = pc[b] /\ chunks'[b] = chunks[b]
          /\ docs' = docs /\ writer' = writer /\ index' = index
          /\ files' = files /\ window' = window
        BY <1>1, <2>1 DEF Hit, TypeInv, docsVars
    <2>3. files[c] = {}
        BY <1>1 DEF Hit, TypeInv, Loading
    <2>4. TypeInv'
        BY <2>2, <2>3 DEF TypeInv, Loading
    <2> QED  BY <2>2, <2>4 DEF LoadInv, Loading
<1>2. CASE Store(c)
    <2>1. chunks[c] \in (SUBSET Clauses) \ {{}} /\ files[c] = {}
        BY <1>2 DEF Store, TypeInv
    <2>2. index' \in ((SUBSET Clauses) \ {{}}) \cup {None}
        BY <1>2, <2>1 DEF Store, TypeInv
    <2>3. /\ pc' \in [Callers -> {"idle", "reading", "using"}] /\ pc'[c] = "using"
          /\ window' \in [Callers -> [always : SUBSET Clauses, ever : SUBSET Clauses]]
          /\ \A b \in Callers : b # c => pc'[b] = pc[b] /\ window'[b] = window[b]
          /\ docs' = docs /\ writer' = writer /\ files' = files /\ chunks' = chunks
        BY <1>2 DEF Store, TypeInv, docsVars, NotOpened, Opened
    <2>4. TypeInv'
        BY <2>1, <2>2, <2>3 DEF TypeInv, Loading
    <2> QED  BY <2>3, <2>4 DEF LoadInv, Loading
<1> QED  BY <1>1, <1>2, ListKeeps, ReadKeeps, LeaveKeeps
         DEF Load, NoDocs, EmbeddingFails, Answer

(* The evaluation drops the index; no query is bound to it then. *)
LEMMA Invalidated ==
    ASSUME IndexInv, index' = None, writer' \in {writer, None},
           docs' = docs, pc' = pc, files' = files, chunks' = chunks, window' = window
    PROVE  IndexInv'
BY DEF IndexInv, TypeInv, LoadInv, Loading

(* So does a step that leaves documents, cache and callers alone. *)
LEMMA Undisturbed ==
    ASSUME IndexInv, UNCHANGED indexVars
    PROVE  IndexInv'
BY DEF IndexInv, TypeInv, LoadInv, Loading, indexVars, docsVars, callerVars

(* The service and the evaluation keep what is said of the index. *)
LEMMA IndexSteps ==
    ASSUME IndexInv, DroppedInv, [Next]_vars
    PROVE  IndexInv'
<1>1. CASE UNCHANGED vars
    BY <1>1, Undisturbed DEF vars
<1>2. CASE ServiceNext
    <2>1. None \in Clauses \cup {None}
        OBVIOUS
    <2> QED  BY <1>2, <2>1, WriterSteps, CallerSteps DEF ServiceNext
<1>3. CASE program = "evaluation" /\ EvaluationNext
    <2> Script \in Callers
        BY ScriptAssumption DEF Script
    <2>1. ASSUME NEW drop \in Clauses \cup {None}, NEW next, write_kb(drop, next)
          PROVE  IndexInv'
        BY <2>1, WriterSteps DEF write_kb
    <2>2. CASE clause_removed
        <3>1. CASE phase = "ablate" /\ todo # <<>> /\ write_kb(EXPECTED[Head(todo)], "query")
            <4>1. Head(todo) \in DOMAIN EXPECTED
                BY <1>3, <3>1, HeadTailProperties DEF DroppedInv
            <4>2. EXPECTED[Head(todo)] \in Clauses
                BY <4>1 DEF EXPECTED, Clauses
            <4> QED  BY <2>1, <3>1, <4>2
        <3>2. CASE phase = "ablate" /\ todo = <<>> /\ write_kb(None, "restore")
            BY <2>1, <3>2
        <3> QED  BY <2>2, <3>1, <3>2 DEF clause_removed
    <2>3. CASE phase = "setup" /\ write_kb(None, "score")
        BY <2>1, <2>3
    <2>4. CASE Truncate \/ Fill
        <3>1. None \in Clauses \cup {None}
            OBVIOUS
        <3> QED  BY <2>4, <3>1, WriterSteps
    <2>5. CASE KbWritten \/ Restore
        BY <2>5, Invalidated DEF KbWritten, Restore, invalidate_index, callerVars, docsVars
    <2>6. CASE Search \/ Cite
        BY <2>6, CallerSteps DEF Search, Cite, Load
    <2>7. CASE Unmapped \/ ScoreDone
        BY <2>7, Undisturbed DEF Unmapped, ScoreDone
    <2> QED  BY <1>3, <2>2, <2>3, <2>4, <2>5, <2>6, <2>7 DEF EvaluationNext
<1> QED  BY <1>1, <1>2, <1>3 DEF Next

-----------------------------------------------------------------------------
(* The judgements.  With the governing clause in the hits the coverage gate *)
(* is right where no gate is; without it, it cites nothing.                 *)
LEMMA VerdictsAgree ==
    ASSUME NEW rule, NEW top,
           rule \in DOMAIN EXPECTED => phase = "score" \/ top # EXPECTED[rule]
    PROVE  /\ \A g \in GATES : Verdict(g, rule, top) \in {"ok", "gated", "wrong"}
           /\ Verdict("coverage", rule, top) # "wrong"
           /\ Verdict("coverage", rule, top) = "ok" <=> Verdict("none", rule, top) = "ok"
<1>1. \A g \in GATES : Verdict(g, rule, top) \in {"ok", "gated", "wrong"}
    BY DEF Verdict
<1>2. CASE rule \notin DOMAIN POLICY_QUERIES
    BY <1>1, <1>2 DEF Verdict
<1>3. CASE rule \in DOMAIN POLICY_QUERIES
    <2>1. passes_gate(rule, top) <=> top = EXPECTED[rule]
        BY <1>3, GateIsExpected
    <2>2. rule \in DOMAIN EXPECTED
        BY <1>3 DEF POLICY_QUERIES, EXPECTED
    <2>3. Passes("coverage", rule, top) <=> top = EXPECTED[rule]
        BY <2>1 DEF Passes
    <2>4. Passes("none", rule, top)
        BY DEF Passes
    <2>5. Verdict("coverage", rule, top) = IF top # EXPECTED[rule] THEN "gated" ELSE
             IF phase = "score" /\ top = EXPECTED[rule] THEN "ok" ELSE "wrong"
        BY <1>3, <2>3 DEF Verdict
    <2>6. Verdict("none", rule, top) =
             IF phase = "score" /\ top = EXPECTED[rule] THEN "ok" ELSE "wrong"
        BY <1>3, <2>4 DEF Verdict
    <2> QED  BY <1>1, <2>2, <2>5, <2>6
<1> QED  BY <1>2, <1>3

(* Counting a verdict of the coverage gate on the governing clause, or on   *)
(* the loss of it, keeps the counts right.                                  *)
LEMMA JudgeKeeps ==
    ASSUME ScriptTypeInv, CoverageIsRight, NEW top, Judge(top),
           Head(todo) \in DOMAIN EXPECTED =>
              phase = "score" \/ top # EXPECTED[Head(todo)]
    PROVE  counts' \in [GATES -> Tally] /\ CoverageIsRight'
<1>1. PICK rule : rule = Head(todo)
    OBVIOUS
<1>2. /\ \A g \in GATES : Verdict(g, rule, top) \in {"ok", "gated", "wrong"}
      /\ Verdict("coverage", rule, top) # "wrong"
      /\ Verdict("coverage", rule, top) = "ok" <=> Verdict("none", rule, top) = "ok"
    BY <1>1, VerdictsAgree
<1> DEFINE Added(g) == [counts[g] EXCEPT ![Verdict(g, rule, top)] = @ + 1]
<1>3. counts' = [g \in GATES |-> Added(g)]
    BY <1>1 DEF Judge
<1>4. ASSUME NEW g \in GATES, NEW v \in {"ok", "gated", "wrong"}, v = Verdict(g, rule, top)
      PROVE  /\ Added(g) \in Tally
             /\ Added(g).ok = IF v = "ok" THEN counts[g].ok + 1 ELSE counts[g].ok
             /\ Added(g).wrong = IF v = "wrong" THEN counts[g].wrong + 1 ELSE counts[g].wrong
    <2>1. counts[g] \in Tally /\ Added(g) = [counts[g] EXCEPT ![v] = counts[g][v] + 1]
        BY <1>4 DEF ScriptTypeInv
    <2>2. CASE v = "ok"
        BY <2>1, <2>2 DEF Tally
    <2>3. CASE v = "gated"
        BY <2>1, <2>3 DEF Tally
    <2>4. CASE v = "wrong"
        BY <2>1, <2>4 DEF Tally
    <2> QED  BY <2>2, <2>3, <2>4
<1> HIDE DEF Added
<1>5. counts' \in [GATES -> Tally]
    BY <1>2, <1>3, <1>4
<1>6. CoverageIsRight'
    <2>1. "coverage" \in GATES /\ "none" \in GATES
        BY DEF GATES
    <2>2. /\ counts'["coverage"].wrong = counts["coverage"].wrong
          /\ counts'["coverage"].ok = IF Verdict("coverage", rule, top) = "ok"
                THEN counts["coverage"].ok + 1 ELSE counts["coverage"].ok
          /\ counts'["none"].ok = IF Verdict("none", rule, top) = "ok"
                THEN counts["none"].ok + 1 ELSE counts["none"].ok
        BY <1>2, <1>3, <1>4, <2>1
    <2> QED  BY <1>2, <2>2 DEF CoverageIsRight
<1> QED  BY <1>5, <1>6

-----------------------------------------------------------------------------
(* The evaluation's own invariants, one group of steps at a time.           *)
ScriptInv == ScriptTypeInv /\ TurnsInv /\ DroppedInv /\ CoverageIsRight

Running == program = "evaluation" /\ program' = program

(* The script's thread is a caller. *)
LEMMA ScriptIsCaller == Script \in Callers
BY ScriptAssumption DEF Script

(* Writing the documents starts a phase in which the script waits for them. *)
LEMMA WriteStarts ==
    ASSUME IInv, Running, NEW drop \in Clauses \cup {None}, NEW next,
           next \in {"score", "query", "restore"}, write_kb(drop, next),
           next = "query" => /\ phase = "ablate" /\ todo # <<>>
                             /\ drop = EXPECTED[Head(todo)]
    PROVE  ScriptInv'
<1> USE DEF IInv, IndexInv
<1>1. /\ writer' = [todo |-> WriteOrder, open |-> FALSE, drop |-> drop]
      /\ writer' \in Writings /\ phase' = next
      /\ docs' = docs /\ pc' = pc /\ index' = index /\ todo' = todo /\ counts' = counts
      /\ pc'[Script] = "idle"
    BY AllAreWritten DEF write_kb, Single, StartWriting, Writings, callerVars, Names
<1>2. writer' # None
    BY <1>1, DocumentsAssumption
<1>3. ScriptTypeInv' /\ CoverageIsRight'
    BY <1>1 DEF Running, ScriptTypeInv, CoverageIsRight, Phases
<1>4. TurnsInv'
    BY <1>1, <1>2 DEF TurnsInv
<1>5. DroppedInv'
    <2>1. CASE next = "query"
        <3>1. todo \in Seq(DOMAIN EXPECTED)
            BY <2>1 DEF DroppedInv, Running
        <3>2. writer'.drop = EXPECTED[Head(todo')] /\ writer'.todo = WriteOrder
            BY <1>1, <2>1
        <3>3. \A d \in Names : \E i \in DOMAIN writer'.todo : writer'.todo[i] = d
            BY <3>2, AllAreWritten
        <3> QED  BY <1>1, <1>2, <2>1, <3>1, <3>2, <3>3 DEF DroppedInv
    <2>2. CASE next # "query"
        <3>1. phase' \notin {"ablate", "query"}
            BY <1>1, <2>2
        <3> QED  BY <3>1 DEF DroppedInv
    <2> QED  BY <2>1, <2>2
<1> QED  BY <1>3, <1>4, <1>5 DEF ScriptInv

(* A document once written lacks the clause; one being written lacks all. *)
LEMMA WriteGoesOn ==
    ASSUME IInv, Running, Truncate \/ Fill, UNCHANGED scriptVars
    PROVE  ScriptInv'
<1> USE DEF IInv, IndexInv
<1>1. /\ phase' = phase /\ todo' = todo /\ counts' = counts
    BY DEF scriptVars
<1>2. writer \in Writings /\ writer # None /\ writer.todo \in Seq(Names) /\ writer.todo # <<>>
    BY DEF Truncate, Fill, TypeInv, Writings, Names
<1>3. PICK d \in Names : d = Head(writer.todo)
    BY <1>2, HeadTailProperties
<1>4. PICK text \in SUBSET POLICIES[d], rest \in {writer.todo, Tail(writer.todo)}, open \in BOOLEAN :
         /\ Put(d, text) /\ writer.drop \notin text
         /\ writer' = [todo |-> rest, open |-> open, drop |-> writer.drop]
    <2>1. CASE Truncate
        <3>1. writer' = [todo |-> writer.todo, open |-> TRUE, drop |-> writer.drop]
            BY <1>2, <2>1 DEF Truncate, Writings
        <3> QED  BY <1>3, <2>1, <3>1 DEF Truncate
    <2>2. CASE Fill
        <3>1. writer' = [writer EXCEPT !.open = FALSE, !.todo = Tail(writer.todo)]
            BY <2>2 DEF Fill
        <3>2. writer' = [todo |-> Tail(writer.todo), open |-> FALSE, drop |-> writer.drop]
            BY <1>2, <3>1 DEF Writings
        <3>3. Put(d, POLICIES[d] \ {writer.drop})
            BY <1>3, <2>2 DEF Fill
        <3>4. /\ POLICIES[d] \ {writer.drop} \in SUBSET POLICIES[d]
              /\ writer.drop \notin POLICIES[d] \ {writer.drop}
            OBVIOUS
        <3> QED  BY <3>2, <3>3, <3>4
    <2> QED  BY <2>1, <2>2
<1>5. rest \in Seq(Names)
    BY <1>2, <1>4, HeadTailProperties
<1>6. writer' # None
    <2>1. writer' \in Writings
        BY <1>2, <1>4, <1>5 DEF Writings, Names
    <2> QED  BY <2>1, DocumentsAssumption
<1>7. pc' = pc /\ pc[Script] = "idle"
    BY <1>2, <1>4 DEF Put, callerVars, TurnsInv, Running
<1>8. ScriptTypeInv' /\ CoverageIsRight'
    BY <1>1 DEF Running, ScriptTypeInv, CoverageIsRight
<1>9. TurnsInv'
    BY <1>6, <1>7 DEF TurnsInv
<1>10. ASSUME phase = "query"
       PROVE  \A e \in Names :
                      \/ \E i \in DOMAIN rest : rest[i] = e
                      \/ docs'[e] # Absent /\ writer.drop \notin docs'[e]
    <2> TAKE e \in Names
    <2>1. text # Absent /\ text \in SUBSET Clauses
        BY <1>4, PoliciesAreClauses, DocumentsAssumption
    <2>2. docs'[d] = text /\ (e # d => docs'[e] = docs[e])
        BY <1>4, <2>1 DEF Put, TypeInv
    <2>3. CASE e = d
        BY <1>4, <2>1, <2>2, <2>3
    <2>4. CASE e # d
        <3>1. \/ \E i \in DOMAIN writer.todo : writer.todo[i] = e
              \/ docs[e] # Absent /\ writer.drop \notin docs[e]
            BY <1>2, <1>10 DEF DroppedInv, Running
        <3>2. CASE \E i \in DOMAIN writer.todo : writer.todo[i] = e
            <4>1. PICK i \in DOMAIN writer.todo : writer.todo[i] = e
                BY <3>2
            <4>2. CASE rest = Tail(writer.todo)
                <5>1. i # 1
                    BY <1>2, <1>3, <2>4, <4>1
                <5>2. i - 1 \in DOMAIN Tail(writer.todo) /\ Tail(writer.todo)[i - 1] = e
                    BY <1>2, <4>1, <5>1
                <5> QED  BY <4>2, <5>2
            <4> QED  BY <1>4, <4>1, <4>2
        <3> QED  BY <2>2, <2>4, <3>1, <3>2
    <2> QED  BY <2>3, <2>4
<1>11. DroppedInv'
    <2>1. phase = "query" => todo # <<>> /\ writer.drop = EXPECTED[Head(todo)]
        BY <1>2 DEF DroppedInv, Running
    <2>2. phase \in {"ablate", "query"} => todo \in Seq(DOMAIN EXPECTED)
        BY DEF DroppedInv, Running
    <2>3. writer'.drop = writer.drop /\ writer'.todo = rest
        BY <1>4
    <2> QED  BY <1>1, <1>6, <1>10, <2>1, <2>2, <2>3 DEF DroppedInv
<1> QED  BY <1>8, <1>9, <1>11 DEF ScriptInv

(* All the documents written lack the clause, and the index of those before *)
(* is dropped.                                                              *)
LEMMA WriteEnds ==
    ASSUME IInv, Running, KbWritten
    PROVE  ScriptInv'
<1> USE DEF IInv, IndexInv
<1>1. /\ writer # None /\ writer.todo = <<>> /\ writer' = None /\ index' = None
      /\ docs' = docs /\ pc' = pc /\ phase' = phase /\ todo' = todo /\ counts' = counts
    BY DEF KbWritten, invalidate_index, callerVars, scriptVars
<1>2. ScriptTypeInv' /\ CoverageIsRight'
    BY <1>1 DEF Running, ScriptTypeInv, CoverageIsRight
<1>3. TurnsInv'
    BY <1>1 DEF TurnsInv, Running
<1>4. ASSUME phase = "query" PROVE EXPECTED[Head(todo)] \notin Text(docs)
    <2>1. DOMAIN docs = Names
        BY DEF TypeInv
    <2>2. writer.drop = EXPECTED[Head(todo)] /\ \A d \in Names : writer.drop \notin docs[d]
        <3>1. DOMAIN writer.todo = {}
            BY <1>1
        <3> QED  BY <1>1, <1>4, <3>1 DEF DroppedInv, Running
    <2> QED  BY <2>1, <2>2, InText
<1>5. DroppedInv'
    BY <1>1, <1>4 DEF DroppedInv, Running
<1> QED  BY <1>2, <1>3, <1>5 DEF ScriptInv

(* Restoring the documents keeps the script's invariant. *)
LEMMA RestoreKeeps ==
    ASSUME IInv, Running, Restore
    PROVE  ScriptInv'
BY DEF IInv, Restore, Running, ScriptInv, ScriptTypeInv, TurnsInv, DroppedInv,
       CoverageIsRight, Phases, Single, invalidate_index, docsVars, callerVars

(* So does the end of the scoring, *)
LEMMA ScoreEnds ==
    ASSUME IInv, Running, ScoreDone
    PROVE  ScriptInv'
<1> USE DEF IInv
<1>1. /\ phase' = "ablate" /\ todo' = Grounded /\ counts' = NoCounts
      /\ docs' = docs /\ writer' = writer /\ index' = index /\ pc' = pc
      /\ chunks' = chunks /\ window' = window
    BY DEF ScoreDone, indexVars, docsVars, callerVars
<1>2. Grounded \in Seq(DOMAIN EXPECTED)
    BY DEF Grounded, EXPECTED
<1>3. NoCounts \in [GATES -> Tally] /\ NoCounts["coverage"].wrong = 0
      /\ NoCounts["coverage"].ok = NoCounts["none"].ok
    BY DEF NoCounts, Tally, GATES
<1>4. ScriptTypeInv' /\ CoverageIsRight'
    BY <1>1, <1>3 DEF Running, ScriptTypeInv, CoverageIsRight, Phases
<1>5. TurnsInv'
    BY <1>1 DEF TurnsInv, Running
<1>6. DroppedInv'
    BY <1>1, <1>2 DEF DroppedInv
<1> QED  BY <1>4, <1>5, <1>6 DEF ScriptInv

(* Without a writer a load ends with exactly the documents' clauses. *)
LEMMA SearchKeeps ==
    ASSUME IInv, Running, Search
    PROVE  ScriptInv'
<1> USE DEF IInv, IndexInv, ScriptIsCaller
<1>1. /\ writer = None /\ writer' = None /\ docs' = docs
      /\ todo' = todo /\ counts' = counts /\ phase' \in {phase, "failed"}
    BY DEF Search, Hit, ListFiles, ReadNext, Store, EmbeddingFails, Leave, docsVars
<1>2. ScriptTypeInv' /\ CoverageIsRight'
    BY <1>1 DEF Running, ScriptTypeInv, CoverageIsRight, Phases
<1>3. DroppedInv'
    BY <1>1 DEF DroppedInv, Running
<1>4. TurnsInv'
    <2> USE ScriptIsCaller
    <2>1. CASE Hit(Script)
        <3>1. pc'[Script] = "using" /\ chunks'[Script] = index /\ index # None /\ index' = index
            BY <2>1 DEF Hit, TypeInv
        <3> QED  BY <1>1, <3>1 DEF TurnsInv, Running
    <2>2. CASE ListFiles(Script)
        <3>1. pc'[Script] = "reading" /\ window'[Script] = Opened(Text(docs)) /\ index' = index
            BY <2>2 DEF ListFiles, TypeInv
        <3> QED  BY <1>1, <3>1 DEF TurnsInv, Running
    <2>3. CASE ReadNext(Script)
        <3>1. pc'[Script] = "reading" /\ pc[Script] = "reading"
              /\ window' = window /\ index' = index
            BY <2>3 DEF ReadNext, Loading
        <3> QED  BY <1>1, <3>1 DEF TurnsInv, Running
    <2>4. CASE Store(Script)
        <3>1. /\ pc'[Script] = "using" /\ pc[Script] = "reading" /\ files[Script] = {}
              /\ chunks' = chunks /\ index' = IF index = None THEN chunks[Script] ELSE index
            BY <2>4 DEF Store, TypeInv, Loading
        <3>2. window[Script].always = Text(docs) /\ window[Script].ever = Text(docs)
            BY <3>1 DEF TurnsInv, Running, Opened
        <3>3. Ahead(docs, files[Script]) = {}
            BY <3>1, InAhead
        <3>4. chunks[Script] = Text(docs)
            BY <3>1, <3>2, <3>3 DEF LoadInv, Loading
        <3> QED  BY <1>1, <3>1, <3>4 DEF TurnsInv, Running
    <2>5. CASE EmbeddingFails(Script)
        <3>1. pc'[Script] = "idle" /\ index' = index
            BY <2>5 DEF EmbeddingFails, Leave, TypeInv
        <3> QED  BY <1>1, <3>1 DEF TurnsInv, Running
    <2> QED  BY <2>1, <2>2, <2>3, <2>4, <2>5 DEF Search
<1> QED  BY <1>2, <1>3, <1>4 DEF ScriptInv

(* a citation of any hit, *)
LEMMA CiteKeeps ==
    ASSUME IInv, Running, Cite
    PROVE  ScriptInv'
<1> USE DEF IInv, IndexInv
<1>1. PICK top \in chunks[Script] : Judge(top)
    BY DEF Cite
<1>2. /\ pc[Script] = "using" /\ pc'[Script] = "idle" /\ docs' = docs /\ writer' = writer
      /\ index' = index /\ Searches
    BY ScriptIsCaller DEF Cite, Answer, Leave, TypeInv, docsVars
<1>3. writer = None /\ chunks[Script] = Text(docs)
    BY <1>2 DEF TurnsInv, Running
<1>4. phase = "query" => todo # <<>> /\ EXPECTED[Head(todo)] \notin Text(docs)
    BY <1>3 DEF DroppedInv, Running
<1>5. counts' \in [GATES -> Tally] /\ CoverageIsRight'
    <2>1. phase = "score" \/ top # EXPECTED[Head(todo)]
        BY <1>1, <1>2, <1>3, <1>4 DEF Searches
    <2> QED  BY <1>1, <2>1, JudgeKeeps
<1>6. ScriptTypeInv'
    BY <1>1, <1>5 DEF Judge, Running, ScriptTypeInv, Phases
<1>7. TurnsInv'
    BY <1>2, <1>3 DEF TurnsInv, Running
<1>8. DroppedInv'
    <2>1. CASE phase = "query"
        <3>1. phase' = "ablate" /\ todo' = Tail(todo)
            BY <1>1, <2>1 DEF Judge
        <3>2. todo \in Seq(DOMAIN EXPECTED) /\ todo # <<>>
            BY <1>4, <2>1 DEF DroppedInv, Running
        <3> QED  BY <3>1, <3>2, HeadTailProperties DEF DroppedInv
    <2>2. CASE phase = "score"
        BY <1>1, <2>2 DEF Judge, DroppedInv
    <2> QED  BY <1>2, <2>1, <2>2 DEF Searches
<1> QED  BY <1>5, <1>6, <1>7, <1>8 DEF ScriptInv

(* and a rule without a clause. *)
LEMMA UnmappedKeeps ==
    ASSUME IInv, Running, Unmapped
    PROVE  ScriptInv'
<1> USE DEF IInv
<1>1. /\ phase = "score" /\ Judge(None) /\ Head(todo) \notin DOMAIN EXPECTED
      /\ docs' = docs /\ writer' = writer /\ index' = index /\ pc' = pc
      /\ chunks' = chunks /\ window' = window
    BY DEF Unmapped, Searches, indexVars, docsVars, callerVars
<1>2. counts' \in [GATES -> Tally] /\ CoverageIsRight'
    BY <1>1, JudgeKeeps
<1>3. phase' = "score"
    BY <1>1 DEF Judge
<1>4. ScriptTypeInv'
    BY <1>2, <1>3 DEF Running, ScriptTypeInv, Phases
<1>5. TurnsInv'
    BY <1>1 DEF TurnsInv, Running
<1>6. DroppedInv'
    BY <1>3 DEF DroppedInv
<1> QED  BY <1>2, <1>4, <1>5, <1>6 DEF ScriptInv

-----------------------------------------------------------------------------
(* The script starts with the invariant. *)
LEMMA InitInv == Init => IInv
<1> SUFFICES ASSUME Init PROVE IInv
    OBVIOUS
<1> USE DEF Init, IndexInit
<1>1. DOMAIN docs = Names /\ \A d \in Names : docs[d] = Absent
    BY DEF Names
<1>2. TypeInv
    BY <1>1 DEF TypeInv, NotOpened, Opened, Loading, Names
<1>3. LoadInv
    BY DEF LoadInv, Loading
<1>4. ScriptTypeInv /\ CoverageIsRight
    BY DEF ScriptTypeInv, CoverageIsRight, Phases, NoCounts, Tally, GATES
<1>5. TurnsInv
    BY ScriptIsCaller DEF TurnsInv
<1>6. DroppedInv
    BY DEF DroppedInv
<1> QED  BY <1>2, <1>3, <1>4, <1>5, <1>6 DEF IInv, IndexInv

(* Every step of the service or of the script keeps it. *)
LEMMA StepInv == IInv /\ [Next]_vars => IInv'
<1> SUFFICES ASSUME IInv, [Next]_vars PROVE IInv'
    OBVIOUS
<1>1. IndexInv'
    BY IndexSteps DEF IInv
<1>2. CASE UNCHANGED vars
    BY <1>1, <1>2 DEF IInv, vars, indexVars, docsVars, callerVars, scriptVars,
       ScriptTypeInv, TurnsInv, DroppedInv, CoverageIsRight
<1>3. CASE program = "service" /\ UNCHANGED <<program, scriptVars>>
    BY <1>1, <1>3 DEF IInv, scriptVars, ScriptTypeInv, TurnsInv, DroppedInv, CoverageIsRight
<1>4. CASE Running /\ EvaluationNext
    <2>1. CASE clause_removed
        <3>1. CASE phase = "ablate" /\ todo # <<>> /\ write_kb(EXPECTED[Head(todo)], "query")
            <4>1. Head(todo) \in DOMAIN EXPECTED
                BY <1>4, <3>1, HeadTailProperties DEF IInv, DroppedInv, Running
            <4>2. EXPECTED[Head(todo)] \in Clauses \cup {None}
                BY <4>1 DEF EXPECTED, Clauses
            <4> QED  BY <1>1, <1>4, <3>1, <4>2, WriteStarts DEF ScriptInv, IInv
        <3>2. CASE phase = "ablate" /\ todo = <<>> /\ write_kb(None, "restore")
            BY <1>1, <1>4, <3>2, WriteStarts DEF ScriptInv, IInv
        <3> QED  BY <2>1, <3>1, <3>2 DEF clause_removed
    <2>2. CASE phase = "setup" /\ write_kb(None, "score")
        BY <1>1, <1>4, <2>2, WriteStarts DEF ScriptInv, IInv
    <2>3. CASE (Truncate \/ Fill) /\ UNCHANGED scriptVars
        BY <1>1, <1>4, <2>3, WriteGoesOn DEF ScriptInv, IInv
    <2> QED  BY <1>1, <1>4, <2>1, <2>2, <2>3, WriteEnds, RestoreKeeps, ScoreEnds,
                SearchKeeps, CiteKeeps, UnmappedKeeps DEF EvaluationNext, ScriptInv, IInv
<1> QED  BY <1>2, <1>3, <1>4 DEF Next, Running

-----------------------------------------------------------------------------
(* The invariant holds of the service and of the evaluation script. *)
THEOREM Invariance == Spec => []IInv
<1>1. Init => IInv
    BY InitInv
<1>2. IInv /\ [Next]_vars => IInv'
    BY StepInv
<1> QED  BY <1>1, <1>2, PTL DEF Spec

(* The index and its callers keep their types: an empty index is never kept. *)
THEOREM IndexTyped == Spec => []IndexTypeOK
<1>1. IInv => IndexTypeOK
    BY DEF IInv, IndexInv, TypeInv, IndexTypeOK, Names
<1> QED  BY <1>1, Invariance, PTL

(* A load ends with every clause that was on disk all along and with none   *)
(* that never was, for any number of loads, writers killed and edits.       *)
THEOREM LoadsAreRegular == Spec => []IndexIsRegular
<1>1. IInv => IndexIsRegular
    <2> SUFFICES ASSUME IInv, NEW c \in Callers, Loading(c), files[c] = {}
                 PROVE  /\ window[c].always \subseteq chunks[c]
                        /\ chunks[c] \subseteq window[c].ever
        BY DEF IndexIsRegular
    <2>1. Ahead(docs, files[c]) = {}
        BY InAhead
    <2> QED  BY <2>1 DEF IInv, IndexInv, LoadInv
<1> QED  BY <1>1, Invariance, PTL

(* No step replaces a cached index by another one. *)
THEOREM IndexIsSettled == Spec => IndexSettles
<1>1. ASSUME [Next]_vars PROVE [index # None => index' \in {index, None}]_indexVars
    <2>1. CASE UNCHANGED vars
        BY <2>1 DEF vars
    <2>2. ASSUME NEW c, Hit(c) \/ ListFiles(c) \/ Load(c) \/ Answer(c)
          PROVE  index # None => index' = index
        BY <2>2 DEF Hit, ListFiles, Load, ReadNext, NoDocs, EmbeddingFails, Store,
                    Answer, Leave
    <2>3. CASE ServiceNext
        BY <2>2, <2>3 DEF ServiceNext, StartWriting, Truncate, Fill, Put, StopWriting, Edit
    <2>4. CASE EvaluationNext
        <3>1. CASE Search \/ Cite
            BY <2>2, <3>1 DEF Search, Cite, Load
        <3>2. ASSUME NEW drop, NEW next, write_kb(drop, next) PROVE index' = index
            BY <3>2 DEF write_kb, StartWriting
        <3>3. CASE Truncate \/ Fill
            BY <3>3 DEF Truncate, Fill, Put
        <3>4. CASE KbWritten \/ Restore
            BY <3>4 DEF KbWritten, Restore, invalidate_index
        <3>5. CASE Unmapped \/ ScoreDone
            BY <3>5 DEF Unmapped, ScoreDone, indexVars
        <3>6. CASE clause_removed
            BY <3>2, <3>6 DEF clause_removed
        <3>7. CASE phase = "setup" /\ write_kb(None, "score")
            BY <3>2, <3>7
        <3> QED  BY <2>4, <3>1, <3>3, <3>4, <3>5, <3>6, <3>7 DEF EvaluationNext
    <2> QED  BY <1>1, <2>1, <2>3, <2>4 DEF Next
<1> QED  BY <1>1, PTL DEF Spec, IndexSettles

(* The script asks only an index of the documents as it last wrote them. *)
THEOREM SearchesAreFresh == Spec => []ScriptSearchesWhatItWrote
<1>1. IInv => ScriptSearchesWhatItWrote
    BY DEF IInv, TurnsInv, ScriptSearchesWhatItWrote
<1> QED  BY <1>1, Invariance, PTL

(* The coverage gate is never wrong in either phase and refuses no governing *)
(* clause, whichever hit retrieval puts first.                               *)
THEOREM CoverageIsProved == Spec => []CoverageIsRight
<1>1. IInv => CoverageIsRight
    BY DEF IInv
<1> QED  BY <1>1, Invariance, PTL
================================================================================
