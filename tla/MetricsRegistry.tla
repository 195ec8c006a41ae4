--------------------------- MODULE MetricsRegistry ---------------------------
(***************************************************************************)
(* observability/metrics.py: the counters of the API process.              *)
(*                                                                         *)
(* inc() reads and writes a sample under a lock, render() reads without    *)
(* it, one metric at a time in alphabetical order.  CPython 3.12 switches  *)
(* threads when a Python function is entered, after a call of a C function *)
(* and on a backward jump: in inc() around the lock and after series.get,  *)
(* in render() from one metric to the next.  The items of one metric are   *)
(* copied and sorted without a switch.                                     *)
(***************************************************************************)
EXTENDS Naturals, Sequences

CONSTANTS
    Threads,    \* callers of inc() and reset()
    Scrapers,   \* readers of /metrics
    n_names,    \* metrics, numbered in the order they are rendered
    Labels,     \* label sets of a metric
    Amounts,    \* what is added at once
    MaxTotal,   \* bound: nothing is added to a counter beyond this count of it
    MaxResets,  \* bound on the resets
    NoOne,      \* the lock is free
    NoPage      \* a scraper that has not asked yet

ASSUME RegistryAssumption ==
    /\ n_names \in Nat
    /\ Amounts \subseteq Nat
    /\ NoOne \notin Threads
    /\ NoPage \notin Seq([Labels -> Nat])

VARIABLES
    samples,    \* the counters, 0 when there is no sample yet
    lock,
    pc,         \* a thread in inc(): "idle", "acquire", "get" or "set"
    call,       \* the series and the amount a thread is to add
    got,        \* what series.get returned to it
    page,       \* what a scraper has rendered so far, metric by metric
    asked,      \* the samples and the resets when the scraper asked
    total,      \* history: the amounts of the finished incs since the reset
    resets      \* history: the number of resets

incVars == <<samples, lock, pc, call, got, total, resets>>
vars == <<incVars, page, asked>>

Names == 1..n_names
Series == Names \X Labels
Zero == [s \in Series |-> 0]

Init ==
    /\ samples = Zero
    /\ lock = NoOne
    /\ pc = [t \in Threads |-> "idle"]
    /\ call \in [Threads -> Series \X Amounts]
    /\ got = [t \in Threads |-> 0]
    /\ page = [r \in Scrapers |-> NoPage]
    /\ asked = [r \in Scrapers |-> [samples |-> Zero, resets |-> 0]]
    /\ total = Zero
    /\ resets = 0

Key_without_labels(t) == <<call[t][1][1], CHOOSE l \in Labels : TRUE>>

Key(t) == call[t][1]
Amount(t) == call[t][2]
Goto(t, label) == pc' = [pc EXCEPT ![t] = label]

-----------------------------------------------------------------------------
(* inc(name, amount, **labels), up to the lock *)
CallInc(t) ==
    /\ pc[t] = "idle"
    /\ Goto(t, "acquire")
    /\ \E s \in Series, a \in Amounts :
          /\ total[s] + a <= MaxTotal[s]
          /\ call' = [call EXCEPT ![t] = <<s, a>>]
    /\ UNCHANGED <<samples, lock, got, total, resets, page, asked>>

Acquire_no_lock(t) ==
    /\ pc[t] = "acquire"
    /\ Goto(t, "get")
    /\ UNCHANGED <<samples, lock, call, got, total, resets, page, asked>>

Acquire(t) ==
    /\ pc[t] = "acquire"
    /\ lock = NoOne
    /\ lock' = t
    /\ Goto(t, "get")
    /\ UNCHANGED <<samples, call, got, total, resets, page, asked>>

Get(t) ==
    /\ pc[t] = "get"
    /\ got' = [got EXCEPT ![t] = samples[Key(t)]]
    /\ Goto(t, "set")
    /\ UNCHANGED <<samples, lock, call, total, resets, page, asked>>

(* The store and the release of the lock: no switch in between. *)
Set(t) ==
    /\ pc[t] = "set"
    /\ samples' = [samples EXCEPT ![Key(t)] = got[t] + Amount(t)]
    /\ total' = [total EXCEPT ![Key(t)] = @ + Amount(t)]
    /\ lock' = NoOne
    /\ Goto(t, "idle")
    /\ UNCHANGED <<call, got, resets, page, asked>>

reset_no_lock ==
    /\ resets < MaxResets
    /\ samples' = Zero
    /\ total' = Zero
    /\ resets' = resets + 1
    /\ UNCHANGED <<lock, pc, call, got, page, asked>>

reset ==
    /\ lock = NoOne
    /\ resets < MaxResets
    /\ samples' = Zero
    /\ total' = Zero
    /\ resets' = resets + 1
    /\ UNCHANGED <<lock, pc, call, got, page, asked>>

-----------------------------------------------------------------------------
(* render() *)

Rendering(r) == page[r] # NoPage /\ Len(page[r]) < n_names

StartRender(r) ==
    /\ ~Rendering(r)
    /\ page' = [page EXCEPT ![r] = <<>>]
    /\ asked' = [asked EXCEPT ![r] = [samples |-> samples, resets |-> resets]]
    /\ UNCHANGED incVars

RenderNext(r) ==
    /\ Rendering(r)
    /\ page' = [page EXCEPT ![r] =
                  Append(@, [l \in Labels |-> samples[<<Len(page[r]) + 1, l>>]])]
    /\ UNCHANGED <<incVars, asked>>

Next ==
    \/ \E t \in Threads : CallInc(t) \/ Acquire(t) \/ Get(t) \/ Set(t)
    \/ reset
    \/ \E r \in Scrapers : StartRender(r) \/ RenderNext(r)

Spec == Init /\ [][Next]_vars

-----------------------------------------------------------------------------
(* Every variable has its type, and the lock is held exactly by the thread  *)
(* that is inside inc().                                                    *)
TypeOK ==
    /\ samples \in [Series -> Nat]
    /\ lock \in Threads \cup {NoOne}
    /\ pc \in [Threads -> {"idle", "acquire", "get", "set"}]
    /\ \A t \in Threads : pc[t] \in {"get", "set"} <=> lock = t
    /\ call \in [Threads -> Series \X Amounts]
    /\ got \in [Threads -> Nat]
    /\ total \in [Series -> Nat]
    /\ resets \in Nat
    /\ page \in [Scrapers -> Seq([Labels -> Nat]) \cup {NoPage}]
    /\ \A r \in Scrapers : page[r] # NoPage => Len(page[r]) <= n_names
    /\ asked \in [Scrapers -> [samples : [Series -> Nat], resets : Nat]]

(* No increment is lost or counted twice, however the threads of /ask, the  *)
(* event loop of /audit and a reset interleave: a counter is the sum of     *)
(* what was added to it.                                                    *)
NoLostUpdate == samples = total

(* A scrape is not a snapshot, but unless the counters are reset meanwhile, *)
(* each of its numbers lies between the counter when the scrape was asked   *)
(* for and the counter now: two scrapes never show a counter falling.       *)
ScrapeNeverFalls ==
    \A r \in Scrapers :
        page[r] # NoPage /\ asked[r].resets = resets =>
            \A n \in DOMAIN page[r], l \in Labels :
                /\ asked[r].samples[<<n, l>>] <= page[r][n][l]
                /\ page[r][n][l] <= samples[<<n, l>>]

(* Behind the lock, an inc() has its effect at its store.                   *)
Contract == INSTANCE CounterContract WITH
    Callers <- Threads,
    Readers <- Scrapers,
    counters <- samples,
    calling <- {t \in Threads : pc[t] # "idle"},
    pages <- page

(* The threads implement CounterContract: an inc() that is read, added and  *)
(* stored in three steps changes its counter once and as a whole, a reset   *)
(* never falls into the middle of one, and each metric of a scrape shows    *)
(* counts that were there together.                                         *)
ImplementsCounters == Contract!Spec
==============================================================================
