------------------------ MODULE MetricsRegistryProofs ------------------------
(***************************************************************************)
(* Proofs about MetricsRegistry, for any threads, scrapers and metrics.    *)
(*                                                                         *)
(* The invariant adds two facts to what the runs check.  Reserved says why *)
(* the store in inc() loses nothing: the sample a thread has read does not *)
(* change while it holds the lock.  Started says that a counter only grows *)
(* between two resets, which puts the pages between their bounds.          *)
(***************************************************************************)
EXTENDS MetricsRegistry, SequenceTheorems, TLAPS

Reserved == \A t \in Threads : pc[t] = "set" => got[t] = samples[Key(t)]

Started ==
    \A r \in Scrapers :
        /\ asked[r].resets <= resets
        /\ asked[r].resets = resets =>
              \A s \in Series : asked[r].samples[s] <= samples[s]

IInv == TypeOK /\ Reserved /\ NoLostUpdate /\ Started /\ ScrapeNeverFalls

(* The invariant holds of the empty registry. *)
LEMMA InitIInv == Init => IInv
<1>1. SUFFICES ASSUME Init PROVE IInv
  OBVIOUS
<1>2. TypeOK
  BY <1>1, RegistryAssumption DEF Init, TypeOK, Zero, Series, Rendering
<1>3. Reserved /\ NoLostUpdate
  BY <1>1 DEF Init, Reserved, NoLostUpdate
<1>4. Started
  BY <1>1 DEF Init, Started, Zero
<1>5. ScrapeNeverFalls
  BY <1>1 DEF Init, ScrapeNeverFalls
<1>6. QED
  BY <1>2, <1>3, <1>4, <1>5 DEF IInv

(* Names of series are pairs of a metric's number and a label set. *)
LEMMA SeriesOfCall ==
  ASSUME TypeOK, NEW t \in Threads
  PROVE  Key(t) \in Series /\ Amount(t) \in Nat
<1>1. call[t] \in Series \X Amounts
  BY DEF TypeOK
<1>2. QED
  BY <1>1, RegistryAssumption DEF Key, Amount

(* Every step of inc(), reset() and render() keeps the types. *)
LEMMA TypeStep == IInv /\ [Next]_vars => TypeOK'
<1> SUFFICES ASSUME IInv, [Next]_vars PROVE TypeOK'
  OBVIOUS
<1> USE RegistryAssumption
<1>0. TypeOK /\ NoLostUpdate
  BY DEF IInv
<1>1. ASSUME NEW t \in Threads, CallInc(t) PROVE TypeOK'
  <2>1. PICK s \in Series, a \in Amounts : call' = [call EXCEPT ![t] = <<s, a>>]
    BY <1>1 DEF CallInc
  <2>2. call' \in [Threads -> Series \X Amounts]
    BY <1>0, <2>1 DEF TypeOK
  <2>3. QED
    BY <1>0, <1>1, <2>2 DEF TypeOK, CallInc, Goto
<1>2. ASSUME NEW t \in Threads, Acquire(t) PROVE TypeOK'
  BY <1>0, <1>2 DEF TypeOK, Acquire, Goto
<1>3. ASSUME NEW t \in Threads, Get(t) PROVE TypeOK'
  <2>1. samples[Key(t)] \in Nat
    BY <1>0, SeriesOfCall DEF TypeOK
  <2>2. QED
    BY <1>0, <1>3, <2>1 DEF TypeOK, Get, Goto
<1>4. ASSUME NEW t \in Threads, Set(t) PROVE TypeOK'
  <2>1. /\ Key(t) \in Series /\ Amount(t) \in Nat
    BY <1>0, SeriesOfCall
  <2>2. samples' \in [Series -> Nat] /\ total' \in [Series -> Nat]
    BY <1>0, <1>4, <2>1 DEF TypeOK, Set
  <2>3. QED
    BY <1>0, <1>4, <2>2 DEF TypeOK, Set, Goto
<1>5. CASE reset
  BY <1>0, <1>5 DEF TypeOK, reset, Zero
<1>6. ASSUME NEW r \in Scrapers, StartRender(r) PROVE TypeOK'
  <2>1. <<>> \in Seq([Labels -> Nat]) /\ Len(<<>>) <= n_names
    OBVIOUS
  <2>2. page' \in [Scrapers -> Seq([Labels -> Nat]) \cup {NoPage}]
    BY <1>0, <1>6, <2>1 DEF TypeOK, StartRender
  <2>3. asked' \in [Scrapers -> [samples : [Series -> Nat], resets : Nat]]
    BY <1>0, <1>6 DEF TypeOK, StartRender
  <2>4. \A q \in Scrapers : page'[q] # NoPage => Len(page'[q]) <= n_names
    BY <1>0, <1>6, <2>1 DEF TypeOK, StartRender
  <2>5. UNCHANGED incVars
    BY <1>6 DEF StartRender
  <2>6. QED
    BY <1>0, <2>2, <2>3, <2>4, <2>5 DEF TypeOK, incVars
<1>7. ASSUME NEW r \in Scrapers, RenderNext(r) PROVE TypeOK'
  <2> DEFINE metric == [l \in Labels |-> samples[<<Len(page[r]) + 1, l>>]]
  <2>1. page[r] \in Seq([Labels -> Nat]) /\ Len(page[r]) < n_names
    BY <1>0, <1>7 DEF TypeOK, RenderNext, Rendering
  <2>2. metric \in [Labels -> Nat]
    <3>1. Len(page[r]) + 1 \in Names
      BY <2>1 DEF Names
    <3>2. QED
      BY <1>0, <3>1 DEF TypeOK, Series
  <2>3. /\ Append(page[r], metric) \in Seq([Labels -> Nat])
        /\ Len(Append(page[r], metric)) <= n_names
    BY <2>1, <2>2
  <2>4. page' = [page EXCEPT ![r] = Append(page[r], metric)]
    BY <1>7 DEF RenderNext
  <2>5. page' \in [Scrapers -> Seq([Labels -> Nat]) \cup {NoPage}]
    BY <1>0, <2>3, <2>4 DEF TypeOK
  <2>6. \A q \in Scrapers : page'[q] # NoPage => Len(page'[q]) <= n_names
    BY <1>0, <2>3, <2>4 DEF TypeOK
  <2>7. UNCHANGED <<incVars, asked>>
    BY <1>7 DEF RenderNext
  <2>8. QED
    BY <1>0, <2>5, <2>6, <2>7 DEF TypeOK, incVars
<1>8. CASE UNCHANGED vars
  BY <1>0, <1>8 DEF TypeOK, vars, incVars
<1>9. QED
  BY <1>1, <1>2, <1>3, <1>4, <1>5, <1>6, <1>7, <1>8 DEF Next

(* A sample that a thread has read stays as it is until the thread stores   *)
(* its sum, because every other store and every reset waits for the lock.   *)
LEMMA ReservedStep == IInv /\ [Next]_vars => Reserved'
<1> SUFFICES ASSUME IInv, [Next]_vars PROVE Reserved'
  OBVIOUS
<1>0. TypeOK /\ Reserved
  BY DEF IInv
<1>1. ASSUME NEW t \in Threads, CallInc(t) PROVE Reserved'
  BY <1>0, <1>1 DEF TypeOK, Reserved, CallInc, Goto, Key
<1>2. ASSUME NEW t \in Threads, Acquire(t) PROVE Reserved'
  BY <1>0, <1>2 DEF TypeOK, Reserved, Acquire, Goto, Key
<1>3. ASSUME NEW t \in Threads, Get(t) PROVE Reserved'
  BY <1>0, <1>3 DEF TypeOK, Reserved, Get, Goto, Key
<1>4. ASSUME NEW t \in Threads, Set(t) PROVE Reserved'
  <2>1. \A u \in Threads : pc'[u] # "set"
    BY <1>0, <1>4 DEF TypeOK, Set, Goto
  <2>2. QED
    BY <2>1 DEF Reserved
<1>5. CASE reset
  <2>1. \A t \in Threads : pc'[t] # "set"
    BY <1>0, <1>5, RegistryAssumption DEF TypeOK, reset
  <2>2. QED
    BY <2>1 DEF Reserved
<1>6. CASE \E r \in Scrapers : StartRender(r) \/ RenderNext(r)
  BY <1>0, <1>6 DEF Reserved, StartRender, RenderNext, incVars, Key
<1>7. CASE UNCHANGED vars
  BY <1>0, <1>7 DEF Reserved, vars, incVars, Key
<1>8. QED
  BY <1>1, <1>2, <1>3, <1>4, <1>5, <1>6, <1>7 DEF Next

(* Counters and what was added to them change together. *)
LEMMA NoLostUpdateStep == IInv /\ [Next]_vars => NoLostUpdate'
<1> SUFFICES ASSUME IInv, [Next]_vars PROVE NoLostUpdate'
  OBVIOUS
<1>0. TypeOK /\ Reserved /\ NoLostUpdate
  BY DEF IInv
<1>1. ASSUME NEW t \in Threads, Set(t) PROVE NoLostUpdate'
  <2>1. got[t] = samples[Key(t)]
    BY <1>0, <1>1 DEF Reserved, Set
  <2>2. QED
    BY <1>0, <1>1, <2>1 DEF NoLostUpdate, Set
<1>2. CASE reset
  BY <1>2 DEF NoLostUpdate, reset
<1>3. ASSUME NEW t \in Threads, CallInc(t) \/ Acquire(t) \/ Get(t) PROVE NoLostUpdate'
  BY <1>0, <1>3 DEF NoLostUpdate, CallInc, Acquire, Get
<1>4. CASE \E r \in Scrapers : StartRender(r) \/ RenderNext(r)
  BY <1>0, <1>4 DEF NoLostUpdate, StartRender, RenderNext, incVars
<1>5. CASE UNCHANGED vars
  BY <1>0, <1>5 DEF NoLostUpdate, vars, incVars
<1>6. QED
  BY <1>1, <1>2, <1>3, <1>4, <1>5 DEF Next

(* The samples never fall, except to zero in a reset. *)
LEMMA SamplesGrow ==
  ASSUME IInv, [Next]_vars
  PROVE  \/ resets' = resets + 1 /\ asked' = asked /\ page' = page
         \/ resets' = resets /\ \A s \in Series : samples[s] <= samples'[s]
<1>0. TypeOK /\ Reserved
  BY DEF IInv
<1>1. ASSUME NEW t \in Threads, Set(t)
      PROVE  resets' = resets /\ \A s \in Series : samples[s] <= samples'[s]
  <2>1. got[t] = samples[Key(t)]
    BY <1>0, <1>1 DEF Reserved, Set
  <2>2. Key(t) \in Series /\ Amount(t) \in Nat
    BY <1>0, SeriesOfCall
  <2>3. QED
    BY <1>0, <1>1, <2>1, <2>2 DEF TypeOK, Set
<1>2. CASE reset
  BY <1>2 DEF reset
<1>3. ASSUME NEW s \in Series PROVE samples[s] <= samples[s]
  BY <1>0 DEF TypeOK
<1>4. ASSUME NEW t \in Threads, CallInc(t) \/ Acquire(t) \/ Get(t)
      PROVE  resets' = resets /\ samples' = samples
  BY <1>4 DEF CallInc, Acquire, Get
<1>5. ASSUME \E r \in Scrapers : StartRender(r) \/ RenderNext(r)
      PROVE  resets' = resets /\ samples' = samples
  BY <1>5 DEF StartRender, RenderNext, incVars
<1>6. ASSUME UNCHANGED vars PROVE resets' = resets /\ samples' = samples
  BY <1>6 DEF vars, incVars
<1>7. QED
  BY <1>1, <1>2, <1>3, <1>4, <1>5, <1>6 DEF Next

(* What a scraper asked with, and what its page shows, is kept from step to *)
(* step: only its own steps change them.                                    *)
LEMMA StartedStep == IInv /\ [Next]_vars => Started'
<1> SUFFICES ASSUME IInv, [Next]_vars, NEW r \in Scrapers
             PROVE  /\ asked'[r].resets <= resets'
                    /\ asked'[r].resets = resets' =>
                          \A s \in Series : asked'[r].samples[s] <= samples'[s]
  BY DEF Started
<1>0. TypeOK /\ TypeOK' /\ Started
  BY TypeStep DEF IInv
<1>1. CASE asked' = asked
  <2>1. /\ asked[r].resets \in Nat /\ resets \in Nat /\ resets' \in Nat
        /\ \A s \in Series : /\ asked[r].samples[s] \in Nat
                             /\ samples[s] \in Nat /\ samples'[s] \in Nat
    <3>1. asked[r] \in [samples : [Series -> Nat], resets : Nat]
      BY <1>0 DEF TypeOK
    <3>2. /\ samples \in [Series -> Nat] /\ samples' \in [Series -> Nat]
          /\ resets \in Nat /\ resets' \in Nat
      BY <1>0 DEF TypeOK
    <3>3. QED
      BY <3>1, <3>2
  <2>2. /\ asked[r].resets <= resets
        /\ asked[r].resets = resets =>
              \A s \in Series : asked[r].samples[s] <= samples[s]
    BY <1>0 DEF Started
  <2>3. CASE resets' = resets + 1
    BY <1>1, <2>1, <2>2, <2>3
  <2>4. CASE resets' = resets /\ \A s \in Series : samples[s] <= samples'[s]
    BY <1>1, <2>1, <2>2, <2>4
  <2>5. QED
    BY <2>3, <2>4, SamplesGrow
<1>2. CASE asked' # asked
  <2>1. PICK q \in Scrapers : StartRender(q)
    BY <1>2 DEF Next, CallInc, Acquire, Get, Set, reset, RenderNext, vars
  <2>2. samples' = samples /\ resets' = resets
    BY <2>1 DEF StartRender, incVars
  <2>3. CASE q = r
    <3>1. asked'[r] = [samples |-> samples, resets |-> resets]
      BY <1>0, <2>1, <2>3 DEF StartRender, TypeOK
    <3>2. resets \in Nat /\ \A s \in Series : samples[s] \in Nat
      BY <1>0 DEF TypeOK
    <3>3. QED
      BY <2>2, <3>1, <3>2
  <2>4. CASE q # r
    <3>1. asked'[r] = asked[r]
      BY <1>0, <2>1, <2>4 DEF StartRender, TypeOK
    <3>2. QED
      BY <1>0, <2>2, <3>1 DEF Started
  <2>5. QED
    BY <2>3, <2>4
<1>3. QED
  BY <1>1, <1>2

(* A page keeps its lines, and each line it gets is the counter of that     *)
(* moment.                                                                  *)
LEMMA PagesStep == IInv /\ [Next]_vars => ScrapeNeverFalls'
<1> SUFFICES ASSUME IInv, [Next]_vars, NEW r \in Scrapers,
                    page'[r] # NoPage, asked'[r].resets = resets',
                    NEW n \in DOMAIN page'[r], NEW l \in Labels
             PROVE  /\ asked'[r].samples[<<n, l>>] <= page'[r][n][l]
                    /\ page'[r][n][l] <= samples'[<<n, l>>]
  BY DEF ScrapeNeverFalls
<1>0. TypeOK /\ TypeOK' /\ Started /\ Started' /\ ScrapeNeverFalls
  BY TypeStep, StartedStep DEF IInv
<1>1. /\ page'[r] \in Seq([Labels -> Nat]) /\ Len(page'[r]) <= n_names
      /\ n_names \in Nat
  BY <1>0, RegistryAssumption DEF TypeOK
<1>2. n \in Names /\ <<n, l>> \in Series
  BY <1>1 DEF Names, Series
<1>3. CASE page'[r] = page[r] /\ asked'[r] = asked[r]
  <2>1. resets' = resets /\ samples[<<n, l>>] <= samples'[<<n, l>>]
    <3>1. asked[r].resets <= resets /\ resets \in Nat /\ asked[r].resets \in Nat
      BY <1>0 DEF TypeOK, Started
    <3>2. QED
      BY <1>2, <1>3, <3>1, SamplesGrow
  <2>2. /\ asked[r].samples[<<n, l>>] <= page[r][n][l]
        /\ page[r][n][l] <= samples[<<n, l>>]
    BY <1>0, <1>3, <2>1 DEF ScrapeNeverFalls
  <2>3. page[r][n] \in [Labels -> Nat]
    BY <1>1, <1>3
  <2>4. /\ samples[<<n, l>>] \in Nat /\ samples'[<<n, l>>] \in Nat
        /\ page[r][n][l] \in Nat
    BY <1>0, <1>2, <2>3 DEF TypeOK
  <2>5. QED
    BY <1>3, <2>1, <2>2, <2>4
<1>4. CASE StartRender(r)
  <2>1. page'[r] = <<>>
    BY <1>0, <1>4 DEF StartRender, TypeOK
  <2>2. QED
    BY <2>1
<1>5. CASE RenderNext(r)
  <2> DEFINE metric == [k \in Labels |-> samples[<<Len(page[r]) + 1, k>>]]
  <2>1. page[r] \in Seq([Labels -> Nat]) /\ metric \in [Labels -> Nat]
    <3>1. page[r] \in Seq([Labels -> Nat]) /\ Len(page[r]) + 1 \in Names
      BY <1>0, <1>5, RegistryAssumption DEF TypeOK, RenderNext, Rendering, Names
    <3>2. QED
      BY <1>0, <3>1 DEF TypeOK, Series
  <2>2. page'[r] = Append(page[r], metric)
    BY <1>0, <1>5 DEF RenderNext, TypeOK
  <2>3. samples' = samples /\ resets' = resets /\ asked' = asked
    BY <1>5 DEF RenderNext, incVars
  <2>4. asked[r].samples[<<n, l>>] <= samples[<<n, l>>]
    BY <1>0, <1>2, <2>3 DEF Started
  <2>5. samples[<<n, l>>] \in Nat
    BY <1>0, <1>2 DEF TypeOK
  <2>6. CASE n = Len(page[r]) + 1
    <3>1. page'[r][n] = metric
      BY <2>1, <2>2, <2>6
    <3>2. page'[r][n][l] = samples[<<n, l>>]
      BY <2>6, <3>1
    <3>3. QED
      BY <2>3, <2>4, <2>5, <3>2
  <2>7. CASE n # Len(page[r]) + 1
    <3>1. n \in DOMAIN page[r] /\ page'[r][n] = page[r][n]
      BY <2>1, <2>2, <2>7
    <3>2. page[r] # NoPage
      BY <1>5 DEF RenderNext, Rendering
    <3>3. QED
      BY <1>0, <2>3, <3>1, <3>2 DEF ScrapeNeverFalls
  <2>8. QED
    BY <2>6, <2>7
<1>6. CASE /\ ~StartRender(r) /\ ~RenderNext(r)
  <2>1. page'[r] = page[r] /\ asked'[r] = asked[r]
    <3>1. ASSUME NEW q \in Scrapers, StartRender(q) \/ RenderNext(q)
          PROVE  page'[r] = page[r] /\ asked'[r] = asked[r]
      <4>1. q # r
        BY <1>6, <3>1
      <4>2. QED
        BY <1>0, <3>1, <4>1 DEF StartRender, RenderNext, TypeOK
    <3>2. QED
      BY <3>1 DEF Next, CallInc, Acquire, Get, Set, reset, vars
  <2>2. QED
    BY <1>3, <2>1
<1>7. QED
  BY <1>4, <1>5, <1>6

(* All parts of the invariant together. *)
LEMMA Inductive == IInv /\ [Next]_vars => IInv'
  BY TypeStep, ReservedStep, NoLostUpdateStep, StartedStep, PagesStep DEF IInv

(* The invariant holds in every reachable state. *)
LEMMA Invariance == Spec => []IInv
<1>1. Init => IInv
  BY InitIInv
<1>2. IInv /\ [Next]_vars => IInv'
  BY Inductive
<1>3. QED
  BY <1>1, <1>2, PTL DEF Spec

(* In every reachable state of the registry the variables have their types  *)
(* and the lock belongs to the one thread that is inside inc().             *)
THEOREM RegistryTypeCorrect == Spec => []TypeOK
<1>1. IInv => TypeOK
  BY DEF IInv
<1>2. QED
  BY <1>1, Invariance, PTL

(* No increment of a counter is ever lost, for any number of threads.       *)
THEOREM NothingLost == Spec => []NoLostUpdate
<1>1. IInv => NoLostUpdate
  BY DEF IInv
<1>2. QED
  BY <1>1, Invariance, PTL

(* The lock-free rendering shows each counter between its value when the    *)
(* page was asked for and its value now, for any number of scrapers.        *)
THEOREM ScrapesMonotone == Spec => []ScrapeNeverFalls
<1>1. IInv => ScrapeNeverFalls
  BY DEF IInv
<1>2. QED
  BY <1>1, Invariance, PTL

-----------------------------------------------------------------------------
(* The refinement of CounterContract.                                       *)

(* Steps that the contract does not see *)
LEMMA InsideTheLock ==
  ASSUME TypeOK, NEW t \in Threads, Acquire(t) \/ Get(t)
  PROVE  UNCHANGED Contract!contractVars
<1>1. \A u \in Threads : pc'[u] # "idle" <=> pc[u] # "idle"
  BY DEF TypeOK, Acquire, Get, Goto
<1>2. UNCHANGED <<samples, call, page>>
  BY DEF Acquire, Get
<1>3. QED
  BY <1>1, <1>2 DEF Contract!contractVars

(* inc() is called: the thread counts as calling from here on. *)
LEMMA CallIsInvoke ==
  ASSUME TypeOK, NEW t \in Threads, CallInc(t)
  PROVE  Contract!Invoke(t)
<1>1. pc[t] = "idle" /\ pc' = [pc EXCEPT ![t] = "acquire"]
  BY DEF CallInc, Goto
<1>2. {u \in Threads : pc'[u] # "idle"} = {u \in Threads : pc[u] # "idle"} \cup {t}
  BY <1>1 DEF TypeOK
<1>3. \E request \in Contract!Calls : call' = [call EXCEPT ![t] = request]
  <2>1. PICK s \in Series, a \in Amounts : call' = [call EXCEPT ![t] = <<s, a>>]
    BY DEF CallInc
  <2>2. <<s, a>> \in Contract!Calls
    BY DEF Contract!Calls, Contract!Series, Series, Names
  <2>3. QED
    BY <2>1, <2>2
<1>4. QED
  BY <1>1, <1>2, <1>3 DEF CallInc, Contract!Invoke

(* The store adds the amount to the counter of now: by Reserved, that is    *)
(* what series.get returned.                                                *)
LEMMA SetIsEffect ==
  ASSUME TypeOK, Reserved, NEW t \in Threads, Set(t)
  PROVE  Contract!TakeEffect(t)
<1>1. pc[t] = "set" /\ pc' = [pc EXCEPT ![t] = "idle"]
  BY DEF Set, Goto
<1>2. {u \in Threads : pc'[u] # "idle"} = {u \in Threads : pc[u] # "idle"} \ {t}
  BY <1>1 DEF TypeOK
<1>3. samples' = [samples EXCEPT ![call[t][1]] = @ + call[t][2]]
  BY <1>1 DEF TypeOK, Reserved, Set, Key, Amount
<1>4. QED
  BY <1>1, <1>2, <1>3 DEF Set, Contract!TakeEffect

(* Every step of the registry is one of the contract, or none.              *)
LEMMA ContractStep ==
  ASSUME TypeOK, Reserved, [Next]_vars
  PROVE  [Contract!Next]_(Contract!contractVars)
<1>1. ASSUME NEW t \in Threads, CallInc(t) \/ Acquire(t) \/ Get(t) \/ Set(t)
      PROVE  [Contract!Next]_(Contract!contractVars)
  BY <1>1, CallIsInvoke, InsideTheLock, SetIsEffect DEF Contract!Next
<1>2. CASE reset
  <2>1. Contract!Clear
    BY <1>2 DEF reset, Zero, Series, Names,
                Contract!Clear, Contract!Cleared, Contract!Series
  <2>2. QED
    BY <2>1 DEF Contract!Next
<1>3. ASSUME NEW r \in Scrapers, StartRender(r)
      PROVE  [Contract!Next]_(Contract!contractVars)
  <2>1. Contract!Ask(r)
    BY <1>3 DEF StartRender, incVars, Contract!Ask
  <2>2. QED
    BY <2>1 DEF Contract!Next
<1>4. ASSUME NEW r \in Scrapers, RenderNext(r)
      PROVE  [Contract!Next]_(Contract!contractVars)
  <2>1. Contract!Show(r)
    BY <1>4 DEF TypeOK, RenderNext, Rendering, incVars, Contract!Show, Contract!Metric
  <2>2. QED
    BY <2>1 DEF Contract!Next
<1>5. CASE UNCHANGED vars
  BY <1>5 DEF vars, incVars, Contract!contractVars
<1>6. QED
  BY <1>1, <1>2, <1>3, <1>4, <1>5 DEF Next

(* Any number of threads, scrapers and resets implement CounterContract.    *)
THEOREM ImplementsCounterContract == Spec => ImplementsCounters
<1>1. Init => Contract!Init
  BY DEF Init, Zero, Series, Names,
         Contract!Init, Contract!Cleared, Contract!Calls, Contract!Series
<1>2. TypeOK /\ Reserved /\ [Next]_vars => [Contract!Next]_(Contract!contractVars)
  BY ContractStep
<1>3. IInv => TypeOK /\ Reserved
  BY DEF IInv
<1>4. QED
  BY <1>1, <1>2, <1>3, Invariance, PTL DEF Spec, ImplementsCounters, Contract!Spec
==============================================================================
