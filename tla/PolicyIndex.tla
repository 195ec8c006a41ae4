----------------------------- MODULE PolicyIndex -----------------------------
(***************************************************************************)
(* The policy documents (rag/policies.py) and the index over them that one *)
(* process keeps (rag/qa.py).                                              *)
(*                                                                         *)
(* Every query calls _index(), which lru_cache computes once.  The cache   *)
(* holds no lock while it computes: callers on several threads each load   *)
(* the documents, file by file, while another process may be writing them, *)
(* each file truncated first.  The text of a document is the set of its    *)
(* clauses; a chunk carries the clause it was cut from.                    *)
(***************************************************************************)
EXTENDS PolicyGrounding, Sequences

CONSTANTS
    Callers,    \* the threads that search the index
    Dropped,    \* the clauses that may be missing in a version of the documents
    Absent      \* the content of a file that does not exist

VARIABLES
    docs,       \* the content of each file
    writer,     \* the writing of the documents in progress, or None
    index,      \* the cached index, or None
    pc,         \* what each caller does: "idle", "reading" or "using"
    files,      \* the files a caller has yet to read
    chunks,     \* what it has read, then the index it uses
    window      \* what has been on disk during its load

docsVars == <<docs, writer>>
callerVars == <<pc, files, chunks>>
indexVars == <<docsVars, index, callerVars, window>>

POLICIES == [
    expense        |-> {"approval", "terms", "duplicates"},
    tax            |-> {"rates", "zero_rated"},
    vendor         |-> {"onboarding", "dispute"},
    capitalization |-> {"capitalization"}]

WriteOrder == <<"expense", "tax", "vendor", "capitalization">>
ReadOrder == [capitalization |-> 1, expense |-> 2, tax |-> 3, vendor |-> 4]

(* The documents of one call of write_policies not yet written, whether the *)
(* first of them is open, and the clause left out, if any. *)
Writings == [todo : Seq(DOMAIN POLICIES), open : BOOLEAN, drop : Clauses \cup {None}]

ASSUME DocumentsAssumption ==
    /\ Dropped \subseteq Clauses
    /\ \A text \in SUBSET Clauses : text # Absent
    /\ None \notin Writings

Text(ds) == UNION {ds[d] : d \in {x \in DOMAIN ds : ds[x] # Absent}}

(* The clauses that were on disk all along, and those that ever were. *)
Opened(clauses) == [always |-> clauses, ever |-> clauses]
NotOpened == Opened({})
Watched(w, clauses) == [always |-> w.always \cap clauses, ever |-> w.ever \cup clauses]

Loading(c) == pc[c] = "reading"

IndexInit ==
    /\ docs = [d \in DOMAIN POLICIES |-> Absent]
    /\ writer = None
    /\ index = None
    /\ pc = [c \in Callers |-> "idle"]
    /\ files = [c \in Callers |-> {}]
    /\ chunks = [c \in Callers |-> {}]
    /\ window = [c \in Callers |-> NotOpened]

-----------------------------------------------------------------------------
(* Writing the documents.                                                   *)

(* A file changes; every load in progress lives through it. *)
Put(d, text) ==
    /\ docs' = [docs EXCEPT ![d] = text]
    /\ window' = [c \in Callers |->
          IF Loading(c) THEN Watched(window[c], Text(docs')) ELSE window[c]]
    /\ UNCHANGED <<index, callerVars>>

StartWriting(drop) ==
    /\ writer = None
    /\ writer' = [todo |-> WriteOrder, open |-> FALSE, drop |-> drop]
    /\ UNCHANGED <<docs, index, callerVars, window>>

(* write_text: truncate the file, then write it *)
Truncate ==
    /\ writer # None /\ writer.todo # <<>> /\ ~writer.open
    /\ writer' = [writer EXCEPT !.open = TRUE]
    /\ Put(Head(writer.todo), {})

Fill ==
    /\ writer # None /\ writer.todo # <<>> /\ writer.open
    /\ writer' = [writer EXCEPT !.open = FALSE, !.todo = Tail(@)]
    /\ Put(Head(writer.todo), POLICIES[Head(writer.todo)] \ {writer.drop})

(* The writing process ends, or is killed, half-way through a file or not. *)
StopWriting ==
    /\ writer # None
    /\ writer' = None
    /\ UNCHANGED <<docs, index, callerVars, window>>

(* A person saves a document with a clause taken out. *)
Edit ==
    /\ \E d \in {x \in DOMAIN POLICIES : docs[x] # Absent} :
          \E clause \in Dropped \cap docs[d] : Put(d, docs[d] \ {clause})
    /\ UNCHANGED writer

-----------------------------------------------------------------------------
(* Calling _index().                                                        *)

Hit(c) ==
    /\ pc[c] = "idle" /\ index # None
    /\ pc' = [pc EXCEPT ![c] = "using"]
    /\ chunks' = [chunks EXCEPT ![c] = index]
    /\ UNCHANGED <<docsVars, index, files, window>>

(* Not in the cache: _chunks() lists the documents there are, by name. *)
ListFiles(c) ==
    /\ pc[c] = "idle" /\ index = None
    /\ pc' = [pc EXCEPT ![c] = "reading"]
    /\ files' = [files EXCEPT ![c] = {d \in DOMAIN POLICIES : docs[d] # Absent}]
    /\ window' = [window EXCEPT ![c] = Opened(Text(docs))]
    /\ UNCHANGED <<docsVars, index, chunks>>

First(names) == CHOOSE d \in names : \A e \in names : ReadOrder[d] <= ReadOrder[e]

(* A loop that ends at a file without text *)
ReadNext_ends_at_empty(c) ==
    /\ Loading(c) /\ files[c] # {}
    /\ LET d == First(files[c])
       IN  /\ chunks' = [chunks EXCEPT ![c] = @ \cup docs[d]]
           /\ files' = [files EXCEPT ![c] = IF docs[d] = {} THEN {} ELSE @ \ {d}]
    /\ UNCHANGED <<docsVars, index, pc, window>>

ReadNext(c) ==
    /\ Loading(c) /\ files[c] # {}
    /\ LET d == First(files[c])
       IN  /\ chunks' = [chunks EXCEPT ![c] = @ \cup docs[d]]
           /\ files' = [files EXCEPT ![c] = @ \ {d}]
    /\ UNCHANGED <<docsVars, index, pc, window>>

(* The query is over, with an error or its hits. *)
Leave(c) ==
    /\ pc' = [pc EXCEPT ![c] = "idle"]
    /\ files' = [files EXCEPT ![c] = {}]
    /\ chunks' = [chunks EXCEPT ![c] = {}]
    /\ window' = [window EXCEPT ![c] = NotOpened]
    /\ UNCHANGED <<docsVars, index>>

(* FileNotFoundError: lru_cache keeps no exception. *)
NoDocs(c) ==
    /\ Loading(c) /\ files[c] = {} /\ chunks[c] = {}
    /\ Leave(c)

(* The embedding model cannot be loaded or run. *)
EmbeddingFails(c) ==
    /\ Loading(c) /\ files[c] = {} /\ chunks[c] # {}
    /\ Leave(c)

(* The caller uses what it loaded; the cache keeps what was stored first. *)
Store_caches_anything(c) ==
    /\ Loading(c) /\ files[c] = {}
    /\ pc' = [pc EXCEPT ![c] = "using"]
    /\ index' = IF index = None THEN chunks[c] ELSE index
    /\ UNCHANGED <<docsVars, files, chunks, window>>

Store_last_wins(c) ==
    /\ Loading(c) /\ files[c] = {} /\ chunks[c] # {}
    /\ pc' = [pc EXCEPT ![c] = "using"]
    /\ index' = chunks[c]
    /\ window' = [window EXCEPT ![c] = NotOpened]
    /\ UNCHANGED <<docsVars, files, chunks>>

Store(c) ==
    /\ Loading(c) /\ files[c] = {} /\ chunks[c] # {}
    /\ pc' = [pc EXCEPT ![c] = "using"]
    /\ index' = IF index = None THEN chunks[c] ELSE index
    /\ window' = [window EXCEPT ![c] = NotOpened]
    /\ UNCHANGED <<docsVars, files, chunks>>

Answer(c) == pc[c] = "using" /\ Leave(c)

invalidate_index == index' = None

Load(c) == ReadNext(c) \/ NoDocs(c) \/ EmbeddingFails(c) \/ Store(c)

(* The service: nothing in it invalidates its index. *)
ServiceNext ==
    \/ StartWriting(None) \/ Truncate \/ Fill \/ StopWriting \/ Edit
    \/ \E c \in Callers : Hit(c) \/ ListFiles(c) \/ Load(c) \/ Answer(c)

IndexSpec == IndexInit /\ [][ServiceNext]_indexVars

-----------------------------------------------------------------------------
(***************************************************************************)
(* Properties.                                                             *)
(***************************************************************************)

(* Every variable has its type; an index without a clause is never cached,  *)
(* so that documents written after a first query are found.                 *)
IndexTypeOK ==
    /\ docs \in [DOMAIN POLICIES -> (SUBSET Clauses) \cup {Absent}]
    /\ writer \in Writings \cup {None}
    /\ index \in ((SUBSET Clauses) \ {{}}) \cup {None}
    /\ pc \in [Callers -> {"idle", "reading", "using"}]
    /\ \A c \in Callers : files[c] # {} => Loading(c)
    /\ chunks \in [Callers -> SUBSET Clauses]
    /\ window \in [Callers -> [always : SUBSET Clauses, ever : SUBSET Clauses]]

(* However loads and writes overlap, a load ends with every clause that was *)
(* on disk from its start on, and with none that never was: an index that   *)
(* is partial or stale takes a document written during its load or since,   *)
(* and no query finds the documents missing that were there.                *)
IndexIsRegular ==
    \A c \in Callers : Loading(c) /\ files[c] = {} =>
        /\ window[c].always \subseteq chunks[c]
        /\ chunks[c] \subseteq window[c].ever

(* Whichever load ends last, an index in use is never replaced by another:  *)
(* once cached, it is what every later query uses until it is invalidated.  *)
IndexSettles == [][index # None => index' \in {index, None}]_indexVars
==============================================================================
