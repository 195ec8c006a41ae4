# Ledger-Lens in TLA+

Ledger-Lens reads invoice PDFs, checks their bookkeeping, ties each finding to
the policy clause that governs it, and answers policy questions through an LLM
provider guarded by a circuit breaker. This directory holds TLA+ modules for
the parts of that program whose correctness depends on order, sharing, failure
or arithmetic, TLC configurations that check them on small instances, and
proofs that TLAPS checks for every value of the constants.

Paths are relative to `src/` (the repository); `ledgerlens/` stands for
`src/ledgerlens/` in it.

## 1. Inventory

### Components

| Component | State it keeps | Operations |
|---|---|---|
| `gateway/circuit.py` circuit breaker | per provider: `consecutive_failures`, `opened_at`, `probing`; the table `_BREAKERS` | `allow`, `record_success`, `record_failure`, `state`, `retry_after_s`; `breaker_for`, `reset_breakers` |
| `gateway/policy_qa.py`, `/ask`, `/health` | none of its own | `guarded_ask`, `health` |
| `observability/metrics.py` registry | `_samples` under `_lock` | `inc`, `reset`, `render`, `value`, `series` |
| `observability/tracer.py` stage tracer | the spans of one request | `stage` |
| `api/routes.py` upload routes, `gateway/audit.py` | temporary files; the findings and review list of one request | `_run_upload`, `audit_invoice`, `review_fields` |
| `gateway/grounding.py` | none | `ground_finding`, `passes_gate` |
| `rag/policies.py` | the policy documents on disk | `main` (rewrites them one by one) |
| `rag/qa.py` | the cached index (`lru_cache`) | `_index`, `invalidate_index`, `retrieve_hits`, `_coverage`, `_chunks` |
| `corpus/generate.py` | invoice PDFs and their ground truth on disk | `main`, `_make_invoice`, `_inject_error`, `render_pdf` |
| `extraction/extract.py` | none | `extract_fields`, `_anchored` |
| `validation/rules.py` | `seen_numbers`, passed in by the caller | the `check_*` functions, `validate_invoice` |
| `extraction/pipeline.py` | the ledger file | `process_corpus` |
| `extraction/evaluate.py` | counters of one run | `main` |
| `rules_engine/` | none | the AST, `RuleInterpreter.eval`, `evaluate_rule`, the engine's three rules |
| `llm/factory.py`, `llm/*.py` | none | `get_provider`, the calls of each provider |
| `scripts/grounding_eval.py` | counters of one run | `write_kb`, `score`, `clause_removed` |
| `/ledger`, `/findings`, `ui/app.py` | none; the ledger tab shows two replies as one page | `_ledger`, `ledger`, `findings` |
| `settings.py`, `api/main.py` | configuration | wiring |

### How they interact, and what is hard

* **One process, two kinds of threads.** `/ask`, `/health`, `/metrics`,
  `/ledger` are plain functions, so the server runs each on a thread of its
  pool; `/extract` and `/audit` are coroutines on the event loop. They share the
  breakers, the metrics registry and the policy index. Only the registry has
  a lock.
* **The breaker** is check-then-act code around calls of the clock. Correct:
  nobody reaches a provider on a circuit that is cooling, the half-open slot is
  never taken for good, the circuit opens only after enough failures, one probe
  at a time, no request dies of a race.
* **An upload** passes a temporary file, three stages and a loop over its
  findings, each of which can raise. Correct: the file goes, the counters of
  `/metrics` are what was found, a citation is of the clause that governs the
  finding, the reply comes.
* **The registry.** Correct: no increment is lost; a lock-free scrape never
  shows a counter falling.
* **The batch side** is three programs run by hand that share only files and can
  be killed. Correct: duplicates are judged in file order, a clean invoice
  is never flagged, an injected error is caught or cannot be seen, the ledger
  is of a complete run and pays every number once.
* **The policy index** is computed by whichever thread first misses the cache,
  without a lock, from files another process may be writing. Correct: what is
  cached was on disk at some time of the load and misses nothing that was there
  throughout, is never empty, and is not replaced by a slower load.
* **Rank fusion** joins two rankings that are cut off at a depth. Correct: the hits
  are the best sums, a chunk ahead in both rankings stays ahead, and the gates see
  the agreement the rankings have.
* **The table of breakers** is check-then-act as well, and is looked up by a name
  that has several spellings. Correct: only the first callers can be on different
  breakers, and providers do not share failures.
* **The evaluation script** rewrites the documents under its own cached index.
  Correct: it scores the documents as it last wrote them, and no clause but the
  governing one is cited.
* **The ledger tab** makes two requests, between which a job may write the ledger.
  Correct: the details cover every row shown as flagged.
* **The rules exist twice**, as Python and as trees. Correct: the same verdicts,
  a missing field never becomes a number, and no rule of the engine's own ends
  `evaluate()` with an error.

Every place where the code is exposed, with its line and the properties that
watch it, is listed under "hazards" in `PROJECT.json`.

## 2. Modules

| Module | Models | Used by |
|---|---|---|
| `ProviderBreaker` | `ProviderBreaker` of `circuit.py`, its methods cut where another thread can run | `PolicyAsk` |
| `CircuitContract` | nothing in the source: the abstract promise of a circuit | `PolicyAsk` (refinement) |
| `PolicyAsk` | threads in `guarded_ask` and `/health` over one breaker | `PolicyAskProofs`, `MCPolicyAsk` |
| `MetricsRegistry` | `inc`, `reset`, `render` | `MetricsRegistryProofs`, `MCMetricsRegistry` |
| `CounterContract` | nothing in the source: the abstract promise of shared counters | `MetricsRegistry` (refinement) |
| `Python` | `None` | the invoice side |
| `ValidationRules` | `validation/rules.py` | `LedgerBatch`, `PolicyGrounding`, `RulesDsl` |
| `FieldExtraction` | `extract_fields`, `review_fields` | `LedgerBatch`, `AuditService` |
| `PolicyGrounding` | `grounding.py` on the clauses of `policies.py` | `AuditService`, `PolicyIndex` |
| `AuditService` | `/extract` and `/audit` from the file to the reply | `AuditServiceProofs`, `MCAuditService` |
| `LedgerBatch` | generator, pipeline and evaluation over shared files | `LedgerRoutes` |
| `LedgerRoutes` | `/ledger` and `/findings` beside the jobs of `LedgerBatch` | `LedgerBatchProofs` (for both), `MCLedgerBatch` |
| `PolicyIndex` | the policy documents and the cached index | `GroundingEval` |
| `GroundingEval` | `scripts/grounding_eval.py` over `PolicyIndex` | `GroundingEvalProofs` (for both), `MCPolicyIndex` |
| `HybridRetrieval` | `retrieve_hits` and the gates on its rankings | `HybridRetrievalProofs`, `MCHybridRetrieval` |
| `BreakerTable` | `breaker_for`, `get_provider`, `reset_breakers` | `BreakerTableProofs`, `MCBreakerTable` |
| `RulesDsl` | `rules_engine/`, against `ValidationRules` | `RulesDslProofs`, `MCRulesDsl` |

Definitions that end in a description of a bug (`Trips_OneEarly`,
`reset_no_lock`, `Fail_keeps_file`, ...) are not part of any specification. Each
stands above the definition it is a mutation of, and `PROJECT.json` names
the property that must fail when it takes that definition's place.

### What is one step: the interpreter's thread switches

`pyproject.toml` requires Python >= 3.12, < 3.13 and the Dockerfile starts from
`python:3.12-slim-bookworm`. This interpreter releases the GIL to another thread only
when a Python function is entered, after a call, and on a backward jump.
Between two such points attribute loads, stores, comparisons and additions of
integers form one step. So:

* a breaker method that does not call the clock is one action; one that does is
  two, up to the clock call and from the reading on. `self.clock() -
  self.opened_at` calls first and loads `opened_at` second, so the second action
  sees the breaker as it is then, with a reading as it was. In
  `record_failure()` the decision to open is in the first action and the stores
  of `opened_at` and `probing` in the second.
* `breaker_for()` is cut before the constructor of `ProviderBreaker`, which is
  a Python function; the store into the table and the return are one step.
* `inc()` is cut around the lock and after `series.get`; `render()` between
  metrics, since it copies the items of one metric in one call.

### PolicyAsk

`pc[r]` is where the thread of request `r` is: `new`, in `allow()` after its
clock call (`allow_clock`), refused, in `retry_after_s()` (`retry_clock`), calling
the provider, in `record_failure()` (`fail_clock`), and reading `state` for the log
line and for the reply. `reading[r]` is the clock reading it holds across a
switch, `outcome[r]` the label it was counted under, and `probes` a history
variable: who was let through as a probe and has not reported. The actions
`AllowOnClosed` to `RefusedWhileCooling` are `allow()`, `RejectedOnClosed` to
`RetryAfter` the rejected branch, `ProviderAnswers` to `FailureOpens` the call and
its report, `StateAtOnce` to `StateAfterClock` the property `state`, `Crashes` the
`TypeError` of a subtraction whose `opened_at` has become None, and
`RetrievalFails` the exception of the retrieval that precedes `allow()`.
`Health` is a request that only reads the state. `Tick` advances the clock.

### CircuitContract

`open`, `cooled`, `busy`, `inflight`: while the circuit is open nobody calls
until the cooldown is over, only an answer closes, only a failure opens, whoever
leaves frees the slot, and on a taken slot a failure cannot pass unnoticed.
`PolicyAsk` implements it with `open <- opened_at # None`, `cooled <- the
cooldown is over now`, `busy <- probing`, `inflight <-` the requests between
being let through and being recorded. It does not promise one probe at a time,
since the code does not keep that (run `ask_one_probe`).

### BreakerTable

The table of all providers, with each breaker's methods as single steps.
`Names` are the spellings in use, `Lower` is `.lower()`, and `llm_provider`, the
setting, is any of them. `key[r]` is the name request `r` looks its breaker up by:
for a question (`asking`) that of the provider `get_provider` found for the
lower-case form of what was asked for (`Ask`), for `/health` the setting as it is
spelled (`Health`). `table[n]` is the breaker under the name `n`, itself named after
the request that constructed it; `holds[r]` is the one request `r` uses. `Missing` is
the failed lookup, `Create` the construction and the store, which does not look at
the table again. `late` remembers who found a breaker while nobody was
constructing one under that name.

### MetricsRegistry

`samples`, `lock`, and for each thread where it is in `inc()`, what it is to add
and what `series.get` returned. A scraper's `page` grows metric by metric.
`total` and `resets` are history: what should have been counted, and how often
the registry was reset; `asked` remembers the samples when a scrape began.

In `CounterContract` a call of `inc()` has its whole effect in one step, nothing else
but a reset changes a counter, and a page is shown metric by metric, each as of one
moment. `MetricsRegistry` implements it with `calling <-` the threads inside `inc()`;
the effect is at the store.

### The invoice side

Amounts are whole cents, dates days, and rates exact fractions, so that a vendor's
7.25 % and a drawn rate are both `<<num, den>>`. `Rounded` is `round(x, 2)`: the
nearest cent, and either one when two are as near, since the product of floats may
lie on either side of the half. The code computes in binary floating
point, in which a difference exactly at a tolerance can come out on either side
(1.02 - 1.0 > 0.02, but not 100.02 - 100.0): the set `ties` of an invoice holds the
rules for which it comes out above. Generated invoices are never exactly at a
limit (`CorpusAssumption`, `ConfigAssumption`), so `ties` is empty in
`LedgerBatch`; `AuditService` takes a page with a tie.

`FieldExtraction` reads a page, the sequence of its labelled amounts, the way
`_anchored` does: anchors in order, each at its leftmost match, without word
boundaries, amounts without a sign. `ValidationRules` is one operator per check;
`seen` maps a number to the file it was first read in, and is None where the
routes pass none. `max_severity` is the maximum of strings, as in the code.

`LedgerBatch` has one action per write or file read: `RenderPdf` and
`WriteTruth` (the two writes of one invoice), `StartPipeline`, `StartEvaluation`
(the file list is taken), `ValidateNext` (extract, validate, remember, append),
`OpenLedger` and `CloseLedger` (the in-place write), `FinishEvaluation`, `Killed`.
The generator is killed by never taking its next step. A re-run of the
generator is not an action: it draws from a fixed seed and writes the same bytes.

`AuditService` has one action per stage, one per finding in the grounding loop,
and one for each way to fail. `loop` is the upload that holds the event
loop: the handlers await only the content of the file. `index` is the set
of clauses in the cached index; a thread of `/ask` may fill it at any moment, also
while an audit loads its own, which the audit then uses without its being
cached. What an index can hold is the matter of `PolicyIndex`. Which
clause is the first hit depends on the embedding model, so any clause of the
index may be; what `passes_gate` then does is decided by the word counts of the
shipped policies and queries.

`LedgerRoutes` adds to `LedgerBatch` a tab that has the head of the ledger on
display (`shown`) and asks for the details of its flagged rows.

### The policy side

`PolicyIndex` has the documents as sets of clauses. A writing goes through them
in the order of `POLICIES`, one truncation (`Truncate`) and one `Fill` each; it
may be killed anywhere, and a person may `Edit` a file by hand. A caller of
`_index()` finds the cache filled (`Hit`) or lists the files, reads the ones it
listed one by one in the order of their names (`First`), embeds and stores. `lru_cache` stores only if the key is still missing, so
the slower of two loads is used by its caller and then forgotten (`Store`), and an
exception is not cached (`NoDocs`, `EmbeddingFails`). `window[c]` is history: the
clauses that were on disk throughout the load of `c`, and those that ever were in it.

`GroundingEval` runs the script's phases over the same actions: `score` with all
clauses, then `clause_removed`, which for each rule writes the documents without
its clause, asks, and at the end restores them. `Verdict` is the judgement of one
citation under one gate. `program` says whether the process is the service or
the script: they are not run in one process.

`HybridRetrieval` takes any ranking by the embeddings and any BM25 scores, adds
the reciprocals place by place as the loops do (`Fuse`), and takes the best
of the dictionary in a stable order (`Select`). Sums are exact fractions. Two
sums that differ are far more than a rounding error apart, and sums of
different reciprocals of the ranks in use never coincide, so ties of the
fractions are ties of the floating-point numbers. `_margin` keeps the branches of
the code: no other chunk, a best other score of 0 or below, the quotient and its cap.

`RulesDsl` is one `evaluate()` on one invoice: of the engine's three rules, held to
`ValidationRules`, or of one rule of an author. The recursive calls of `eval()` are
frames of `stack`, each a node with what its operands have returned so far. `Call`
evaluates the next operand a node needs (`Finished`, `Decided`: a condition
stops at the operand that decides it), `Return` hands a value to the caller,
`evaluate_rule` ends a rule and starts the next, `EvaluationError` ends
`evaluate()` with nothing. `Result` is one operator, on None, NaN and fractions
typed float, int or bool, which `==` and `is True` tell apart. `returned` is
history: each node with the value `eval()` gave it. The constant `Reads` gives for each
node the fields an expression reads; `TreesAssumption` ties it to the operands, one
node at a time. Fields and literals are numbers (the code also accepts strings, for
which no rule exists), and operators have as many operands as they take.

## 3. Runs

| Run | Question | Answer |
|---|---|---|
| `ask_safety` | Can the slot be taken by nobody, can the circuit open early? | No: `SlotIsHeld`, `OpensAfterThreshold` hold |
| `ask_contract` | Can a cooling circuit let somebody through, does the breaker keep the contract, does a probe resolve? | `OpenAdmitsNobody`, `ImplementsContract`, `ProbeResolves` hold |
| `ask_one_probe` | Is there one probe at a time? | **No**: two threads read the clock before either sets `probing` |
| `ask_stack_trace` | Does every caller get an answer or excerpts? | **No**: a success in the middle of another thread's `allow()` makes it subtract None |
| `audit_service` | Files, counters, citations and termination of two uploads | All hold |
| `metrics_registry` | Lost increments, falling scrapes, an `inc()` that is seen in part | None: the threads implement `CounterContract` |
| `ledger_batch` | Duplicates, false alarms, missed errors, the ledger's content, the accuracy of fields, the ledger tab | All hold, with the exceptions named by `Invisible`; a field is missed only when its total is negative |
| `ledger_review` | Does a total that is not read at its label go to review? | **No**: "Total" matches the end of "Subtotal" |
| `rules_dsl` | Do the two engines agree, is None contagious, do numbers stay numbers? | Yes |
| `policy_index` | What can an index hold that is loaded while documents are written, and what does the evaluation script score? | A load misses nothing that was on disk throughout, a cached index stays, the script scores what it wrote, the coverage gate is right |
| `hybrid_retrieval` | Are the hits the best, does fusion hide agreement, does the margin's quotient say who leads? | Yes; no; yes, without a runner-up too |
| `breaker_table` | Who can be on another breaker than the rest, can a provider pay for another? | The first callers only, and `/health` when the setting is not in lower case; no |

### Bounds, and why they are enough

* `ask_safety`: 4 requests, threshold 2, cooldown 2, clock up to 3. Two calls open
  the circuit, a third becomes the probe, and the fourth is the late one admitted
  before. A suspended thread may hold its reading for the whole time
  (`MaxSuspension = Horizon`). Requests are interchangeable, hence the symmetry, as
  in `breaker_table`; the runs that check a temporal property have none.
* `ask_contract`: 3 requests, threshold 1, cooldown 1, clock up to 3: every
  failure opens, so three requests reach re-openings, second probes and late
  reports. Here every reading may be old too.
* `ask_one_probe`, `ask_stack_trace`: `MaxSuspension = 0`. The clock does not move
  while a thread holds a reading, so the traces need no long suspension, only a
  switch of threads.
* `metrics_registry`: two threads, one scraper, two metrics, so a page can mix
  old and new numbers, the first with two label sets, whose numbers are of one moment;
  one reset. One counter goes up to 2, enough to lose an addition, and two up to 1
  (`MCMaxTotal`). The theorems lift every bound.
* `ledger_batch`: three invoices are a number, its copy, and one in between or a
  second copy. The tab shows two rows (`limit`), fewer than there are. The
  subtotal is 10.10, close to the smallest the generator makes (8.00); a larger one only
  moves amounts away from the limits. A tax-free vendor and one at 8.25 %, whose tax
  of 83.325 cents is rounded; a crazy rate of 45 %, the least there is, whose tax of
  454.5 cents is rounded either way. The ends of the shift of a total, and the five
  kinds of error.
* `audit_service`: two uploads on any route, readable or not: one at the tolerance
  with long terms (an error and a warning), one that can hardly be read (most
  fields for review); the policy whole, without one governing clause, cut down to one document, and absent.
* `policy_index`: two callers, the least that race to fill the cache; all four
  documents and eight clauses, of which one can be edited away, and any number of
  writings, kills and edits. The script asks about all nine rules and then
  takes out the clause of each of the seven that have one.
* `hybrid_retrieval`: an index of one chunk, which has nothing to be compared with, and
  of four; with `top_k` 1 their lists are cut off at depth 3, with 2 they are not. The
  scores -1, 0, 1, 2 and 201 lie below zero, at zero, below and at the margin of 2
  and beyond its cap of 100. Every ranking and every assignment of scores is an
  initial state.
* `breaker_table`: four requests: two that race to construct a breaker, and two more
  that find one, or three of one provider, of which the third is rejected (the
  threshold is 2). Each asks, or checks the health, for any of the three providers; one
  is also spelled `Ollama`, and the setting may also name none of them (`gpt`).
* `rules_dsl`: the engine's rules on amounts zero, equal, at the tolerance and beyond
  it, at the maximal rate and beyond it, and missing, in all four fields. An author's trees
  read two of the fields (`TwoFields`): quotients by zero, by a field and by a
  difference that can be negative, alone, compared, multiplied and negated; `==` and
  `!=` on floats and bools; operators the interpreter does not know, behind a missing
  field and behind an operand that decides. The theorems lift the depth of the trees.

### Fairness

`ProbeResolves` assumes weak fairness of each request once it has arrived: a
runnable thread is scheduled, and a provider call ends because the HTTP client
has a timeout (`llm/ollama.py`, 300 s). Nothing is assumed of the arrival of
requests or of the clock, so the property does not say that a probe is ever sent.
`EveryUploadEnds` assumes weak fairness of each upload: the event loop returns to
an upload whose content can be read or has failed to be read. The other runs check safety only and assume no fairness. Deadlock is
not checked in the runs of `PolicyAsk`, `AuditService` and `BreakerTable`, where
finitely many requests have then all been answered, nor in `policy_index` and
`hybrid_retrieval`, where the script and the query come to their end, nor in
`rules_dsl`, where `evaluate()` returns.

## 4. What the code does not keep

Three runs must end in a violation; "findings" in `PROJECT.json` quotes the
sentence each contradicts.

* `OneProbe` (`gateway/circuit.py`, `allow()`: "exactly one probe until it reports
  back"): `probing` is tested two lines before it is set, with a clock call between.
* `NoStackTrace` (`gateway/policy_qa.py`: "instead of a stack trace"): `allow()`,
  `state` and `retry_after_s()` subtract `opened_at` after it was tested.
* `UnreadTotalGoesToReview` (`extraction/extract.py`): a negative total is not
  read at "Total Due"; the anchor "Total" then reads the subtotal with full
  confidence, and the fallback the test suite describes never runs.

Further disagreements seen while modelling, which have no run of their own:

* `gateway/audit.py:66` and `extraction/pipeline.py:50` compare severities as
  strings, and "warning" is above "error": an invoice with both reports "warning".
* A first query during the first writing of the documents caches an index of the
  documents written so far, and the service keeps it until it is restarted:
  nothing in it calls `invalidate_index()`.
* `/health` looks the breaker up under the configured name as it is written, `/ask`
  under the provider's own: with `LLM_PROVIDER=Ollama`, `/health` shows a breaker
  that no question is counted on, always closed. `OnlyFirstCallersStray` states for which
  settings the two are the same.
* The chunk with the best BM25 score can be missing from the hits, when the
  embeddings rank it last and others are in both lists; a query that shares no
  word with any chunk gives the BM25 ranking of the order of the documents.
* The ledger tab calls `r.json()` on whatever it gets; the body of a 500 is
  not JSON, and the tab raises.
* `record_failure()` does not know whether its caller is the probe, so a late
  failure frees the slot of the probe in flight ("further callers are rejected
  while the probe is in flight"); a success recorded between its decision to open
  and its store is overwritten, so the circuit can be open with a streak of zero.
* `_inject_error` records a `duplicate_no` also when there is no earlier number to
  take: the first invoice is then unchanged and counts as a missed error.
  `Invisible` in `LedgerBatch` accounts for it.
* The routes pass no `seen_numbers`, so the duplicate in the README's example of
  `/audit` cannot be found.
* `ConditionNode` does not evaluate `not`, which the README's grammar lists: it is an
  `EvaluationError`, with which `evaluate()` also loses the findings it had. An
  `implies` whose conclusion reads a missing field is False.

## 5. Proofs

`PolicyAskProofs`, for any finite set of requests, any threshold of at least 1,
any cooldown and any clock bound (`BreakerAssumption`, `AskAssumption`):

* `TypeCorrect`: `TypeOK` is inductive by itself, because it contains what relates
  the variables: no reading is later than the clock, only a request between a clock
  call and its use holds one, a probe is in flight.
* `SlotAlwaysHeld`: `TypeOK /\ SlotIsHeld` is inductive. The one step that could
  leave the slot without a call in flight is the end of the last call; an answer
  clears the flag, and a failure on a taken slot always trips (`Trips` tests
  `probing` first), stays in flight until its second half, and clears it there. A
  crash is of a thread that holds no slot.
* `AdmissionSafe`: an action property from `TypeOK`: a reading is never later
  than the clock, so a cooldown that is over at the reading is over at the step,
  whatever `opened_at` has become meanwhile.
* `OpensLateEnough`: needs the strengthening that `consecutive_failures` is at
  most the number of failed requests (`CountIsEarned`) and that a request that
  can still fail has no outcome yet (`UndecidedHasNone`), so that the set of failed
  requests grows by one at each count. A taken slot trips below the threshold;
  there `SlotIsHeld` says that the circuit is open, which the invariant covers.
* `ImplementsCircuitContract`: initial states map to initial states, and under
  `TypeOK /\ SlotIsHeld` every step maps to a step of the contract or a stutter;
  one case per action.

`MetricsRegistryProofs`, for any threads, scrapers, metrics, amounts and resets
(`RegistryAssumption`): `IInv` adds to the three properties that a thread about
to store holds the current count (`Reserved`: true because it holds the lock) and
that the samples a scrape began with are below those of now unless there was a
reset (`Started`). From it `RegistryTypeCorrect`, `NothingLost`, `ScrapesMonotone`, and
`ImplementsCounterContract`: with `Reserved` the store adds its amount to the counter
of that moment (`SetIsEffect`), and the steps inside the lock are stutters.

### LedgerBatchProofs

Of `LedgerBatch` and `LedgerRoutes`, for any number of invoices, any subtotals, terms
and shifts the generator can draw, any vendors' rates up to 20 % and crazy rates from
45 to 80 %, as fractions (`CorpusAssumption`), any limits of the configuration that
keep the injected errors apart from them (`ConfigAssumption`), and any `limit`
(`LimitAssumption`). What rounding does to a tax is `TaxIsRounded`.

The properties speak of the rows of a job and of a ledger file written by an
earlier one, perhaps after more invoices were printed. None is inductive: a row
does not tell how it came about. The invariant says it: the row of file `f` is
`RowOf(f)`, which depends on the invoices in the files up to `f` only and so never
changes (`RowStays`), and rows and ledger are tables of such rows (`JobInv`,
`LedgerInv`). For that, `SeenInv` relates what a job remembers to the files it has
read, and `CorpusInv` says what can be printed: at most one injected error each, with
the distance that error has from a right invoice, and a copied number that is that
of an earlier file whose own number it is (`Numbered`). The last is what
`PaidOnce` rests on: the file a number was made for is the first that bears it.

* `DuplicatesFollow`, `PaidOnce`, `LedgerChanges` follow from tables and numbers.
* `CleanInvoicesPass` and `ErrorsAreFlagged` need what `extract_fields` reads off a
  page that was rendered from an invoice (`AmountsRead`: the first anchor that
  matches decides, and only a total below zero is read as the subtotal), and what
  each rule says of what was read, error by error.
* `RecallIsRight` and `AccuracyIsRight` need `TallyInv`: each counter of the
  evaluation is the cardinality of a set of files among those read.
* `DetailsAreThere` needs that the table on display lies within the files of any
  ledger that can follow (`ShownInv`); `ServedIsLedgerBatch` gives the rest of the
  invariant for free: the routes refine `LedgerBatch` by stuttering.

### AuditServiceProofs

For any set of uploads, finite or not, any pages and any versions of the documents
(`AuditAssumption`). `IInv` is types, `LoopInv` (a request in the middle of its
stages is the one that holds the event loop), `PhaseInv` (what a request has found
by its phase, and that each citation is of a grounded finding and the right one) and `TempFilesRemoved`, which is inductive with them.

* `CitationsAreRight`: a citation enters only through the coverage gate, and the gate
  passes only the governing clause (`GateGoverns`: the word counts of the shipped
  policies and queries, rule by rule). A search sees any index, so this does
  not depend on which clauses were on disk.
* `MetricsAreRight`: `MetricsInv` says that each counter is the cardinality of a
  finite set: of uploads that have the field or the finding, of pairs of
  upload and citation, of places in traces. Finiteness is part of the
  invariant, since nothing bounds the number of uploads.

### GroundingEvalProofs

For any callers (`ScriptAssumption`: there is one, the script's own thread) and any
edits (`DocumentsAssumption`). `TypeInv` holds that a document has clauses of its
own only. `LoadInv` says of a load under way, for each clause that was on disk
throughout, that it has been read or is in a file still to be read, and of
each that was read, that it was on disk at some time; `LoadsAreRegular` is its last
instance. `ScriptTypeInv`, `TurnsInv` and `DroppedInv` add what the script's phase
says about the writer, the cache and the clause that is missing. `CoverageIsProved`
rests on them (the ablated index lacks the governing clause) and on
`GateIsExpected` (the gate passes the governing clause and no other).
`IndexIsSettled` is an action property and needs no invariant: `Store` is the one step
that fills the cache, and it looks first.

### BreakerTableProofs

For any requests and any threshold (`TableAssumption`), and any spellings of which
the three providers' names are their own lower case (`NamesAssumption`). `HoldInv` says where a
breaker comes from: it is named after the request that constructed it, and who holds
it asks for the same provider. With it the failures a breaker counts are
among those of its provider (`CountInv`), and `NoOtherProviderBlocks` follows.
`LateInv` says that while a late request uses a breaker nobody constructs one under
its name; without it `LateCallersShare` is not inductive. `KeyInv` says which name
that is: a question's is in lower case whatever was asked for, a health check's is
the setting. Hence the theorem's two directions: the breaker in use is the one in the
table under the provider's own name for every question, and for `/health` exactly
when the setting is in lower case.

### HybridRetrievalProofs

For any number of chunks, any ranking, any scores, also negative ones, and any `top_k`
(`RetrievalAssumption`: the factor of the margin lies between 2 and its cap). First the BM25 order: a rank is the cardinality of the set
of chunks that beat a chunk, so ranks are distinct (`RanksOrderScores`: who beats
another has a strict subset of its beaters). Then `IInv`: after `at` places each sum
is `Owed`, the shares of the places passed and no others; the entered chunks are
those that are owed one; and the hits are closed under larger sums (`OrderInv`).

* `Typed` includes that the lists are deep enough: the first list alone enters
  `Depth` different chunks, and that is `top_k` or all.
* `BestAreHit`: at the end `Owed` is `RRF`, and a chunk without a sum is above none.
* `BothAreObeyed`: with two smaller denominators a sum of reciprocals is larger,
  also when one or both shares of the other are cut off (`BothShrink`, `OneShrinks`).
  `AgreementIsConsensus` is its corollary for two ranks of 0.
* `MarginIsLeadOfAll`: what the gate reads off the first hit is a statement about the
  index. `MarginIsLead` goes through the branches of `_margin`: the largest
  other score exists, as that of the chunk of least rank; multiplied out, the quotient
  is a lead over it and so over all; at the cap and without a positive divisor it comes
  to the same. A chunk with that lead is first for BM25 (`LeaderIsFirst`), and one that
  is first in both rankings is the first hit (`ConsensusIsFirst`). It covers the index
  of a single chunk.

### RulesDslProofs

For any trees of any depth, any amounts in cents, any tolerance and any maximal rate
(`TreesAssumption`, `RulesAssumption`). What a tree means as a whole would be an
induction over trees, which is out of the prover's reach. The invariant says instead
that each value in `returned` is justified by its node's operator alone, from values
the operands returned (`History`), and that the frames on the stack hold such
values and are of the operand their caller needs next (`StackInv`).

* `NoneIsContagious`: `NoneShortCircuits` is inductive with these. A value that is right of
  the operands is right of the node (`NoneFollows`), since `Reads` of a node is the union
  of its operands' and a binary operator has evaluated both when it looks for None.
* `InterpreterTypeCorrect`: a quotient keeps its denominator positive because
  zero gives NaN first (`ComputeType`).
* `EnginesAlwaysAgree`: `VerdictInv` relates each finding to what the condition of its
  rule returned, and `KnownInv` keeps the walk of the engine's rules within nodes whose
  operators the interpreter knows, so that it ends without an error. At the end
  `History` is unfolded from each rule down to its fields (`ValueOfAnd`, `ValueOfImplies`,
  `ValueOfBinary`), and the comparison of fractions is that of cents (`ClosePair`,
  `CloseSum`, `RatePlausible`, which needs the positive subtotal of the rule's premise).

### Assumptions

Each is named, stands in the module that declares the constants, and is evaluated by
TLC in a run. Those not mentioned above say that None and its like are
not among the values they are told apart from: `NoneAssumption` (None is no number),
`AbsentAssumption` (nor the name of a vendor, nor a table of numbers), and conjuncts of
`AskAssumption`, `TableAssumption`, `AuditAssumption`, `DocumentsAssumption`,
`TreesAssumption`.

### Only model-checked

* Liveness: `ProbeResolves`, `EveryUploadEnds`. Fairness and ENABLED are outside the
  prover's reach.
* The three runs of section 4, whose properties do not hold.

## 6. Not modelled

* The application factory and the settings: wiring, and values that the CONSTANTS
  stand for. Two tabs of the Streamlit workspace: each posts one request and
  renders its reply.
* The HTTP calls of the providers and their streaming, which no route uses: a
  call answers or fails.
* The embeddings and the BM25 scores: any ranking and any scores of a small set.
  `ask()` and the prompt keep no state.
* Of the evaluation script, the queries made of the findings' messages, the
  labelled invoices and the printed report; of `evaluate.py`, MLflow.
* Durations (spans, the seconds counter), texts of prompts, findings and replies.
* `value` and `series` of the registry: one read each.
* Half-written PDFs and truth files: each is one write in the model.
* A reader that opens a ledger in the middle of its writing: the model shows
  when the file is unreadable (`Torn`); the reply is then a 500.

## 7. Plan

Modules, in the order of their importance; all are written.

1. Breaker and `/ask`: `ProviderBreaker`, `CircuitContract`, `PolicyAsk`,
   `PolicyAskProofs`.
2. Batch side: `Python`, `ValidationRules`, `FieldExtraction`, `LedgerBatch`,
   `LedgerRoutes`.
3. Upload service and registry: `PolicyGrounding`, `AuditService`,
   `MetricsRegistry`, `CounterContract`, `MetricsRegistryProofs`.
4. Rules engine: `RulesDsl`, `RulesDslProofs`.
5. Policy side: `PolicyIndex`, `GroundingEval`, `HybridRetrieval`.
6. `BreakerTable`.

Proofs: every invariant, every action property and every refinement of the passing
runs is a theorem (section 5). What could be added:

1. An abstract specification of the ledger (a file that is replaced as a
   whole, or torn) that `LedgerBatch` implements, and one of the policy index (a
   regular register of the documents) that `PolicyIndex` implements.
2. `BreakerTable` on the breaker of `ProviderBreaker`, cut at the clock calls,
   in place of the one whose methods are single steps.
