-------------------------- MODULE BreakerTableProofs --------------------------
(***************************************************************************)
(* Proofs about BreakerTable for any set of requests and any threshold.    *)
(*                                                                         *)
(* A breaker is counted on by requests of one provider only, so that its   *)
(* failures are failures of that provider (CountInv); and once a request   *)
(* holds the breaker of the table while nobody makes another one, nobody   *)
(* can start to (LateInv).  Both need to know where the breakers come from *)
(* (HoldInv), and the last theorem by which name each request looks its    *)
(* breaker up (KeyInv).                                                    *)
(***************************************************************************)
EXTENDS BreakerTable, FiniteSetTheorems, TLAPS

Waiting == {"new", "lookup", "creating", "unknown"}
After == InUse \cup {"done", "rejected", "failed"}

TypeInv ==
    /\ pc \in [Requests -> {"new", "lookup", "creating"} \cup InUse \cup Ended]
    /\ llm_provider \in Names
    /\ key \in [Requests -> Names \cup {None}]
    /\ holds \in [Requests -> Requests \cup {None}]
    /\ table \in [Names -> Requests \cup {None}]
    /\ breakers \in [Requests -> [failures : Nat, open : BOOLEAN, probing : BOOLEAN]]
    /\ asking \subseteq Requests /\ late \subseteq Requests
    /\ \A r \in Requests :
          IF pc[r] \in {"new", "unknown"} THEN key[r] = None ELSE key[r] \in Names

(* A question is counted under its provider, and a health check under the   *)
(* setting, whatever its spelling.                                          *)
KeyInv ==
    \A r \in Requests :
        IF pc[r] \in {"new", "unknown"} THEN r \notin asking
        ELSE key[r] \in IF r \in asking THEN Known ELSE {llm_provider}

(* A breaker in the table or in use was made by a request for the same      *)
(* provider that has got past breaker_for(); the others are as they were    *)
(* made.                                                                    *)
HoldInv ==
    /\ \A p \in Names : table[p] # None => key[table[p]] = p /\ pc[table[p]] \in After
    /\ \A r \in Requests :
          /\ pc[r] \in After <=> holds[r] # None
          /\ holds[r] # None => key[holds[r]] = key[r] /\ pc[holds[r]] \in After
          /\ pc[r] \in Waiting => breakers[r] = Fresh

FailedOf(p) == {s \in Requests : pc[s] = "failed" /\ key[s] = p}

(* The failures a breaker has counted are failures of requests for its      *)
(* provider, and it is open only after failure_threshold of them.           *)
Counts(b, p) ==
    /\ breakers[b].failures <= Cardinality(FailedOf(p))
    /\ breakers[b].open => Cardinality(FailedOf(p)) >= failure_threshold
    /\ breakers[b].probing => breakers[b].open

CountInv ==
    /\ \A p \in Names : IsFiniteSet(FailedOf(p))
    /\ \A b \in Requests, p \in Names :
          pc[b] \in After /\ key[b] = p => Counts(b, p)

RejectedInv ==
    \A r \in Requests, p \in Names :
        pc[r] = "rejected" /\ key[r] = p =>
            Cardinality(FailedOf(p)) >= failure_threshold

(* While a late request uses its breaker, that is the one in the table, and *)
(* nobody makes another.                                                    *)
LateInv ==
    \A r \in late :
        /\ pc[r] \in After
        /\ pc[r] \in InUse => holds[r] = table[key[r]] /\ ~Creating(key[r])

-----------------------------------------------------------------------------
(* Every variable keeps its type. *)
LEMMA TypeSteps ==
    ASSUME TypeInv, HoldInv, [Next]_vars
    PROVE  TypeInv'
<1> USE TableAssumption DEF TypeInv, Goto, InUse, Ended
<1>1. CASE reset_breakers
    BY <1>1 DEF reset_breakers
<1>2. ASSUME NEW r \in Requests, Ask(r) \/ Unknown(r) \/ Health(r)
      PROVE  TypeInv'
    <2>1. CASE Ask(r)
        <3>1. PICK n \in Names : key' = [key EXCEPT ![r] = Lower[n]]
            BY <2>1 DEF Ask
        <3>2. Lower[n] \in Names
            BY NamesAssumption
        <3> QED  BY <2>1, <3>1, <3>2 DEF Ask
    <2>2. CASE Unknown(r) \/ Health(r)
        BY <2>2 DEF Unknown, Health
    <2> QED  BY <1>2, <2>1, <2>2
<1>3. ASSUME NEW r \in Requests, Found(r) \/ Missing(r) \/ Create(r)
      PROVE  TypeInv'
    <2>1. CASE Found(r)
        <3>1. key[r] \in Names /\ table[key[r]] \in Requests
            BY <2>1 DEF Found, Key
        <3>2. late' \subseteq Requests
            BY <2>1 DEF Found
        <3> QED  BY <2>1, <3>1, <3>2 DEF Found, Key
    <2>2. CASE Missing(r)
        BY <2>2 DEF Missing
    <2>3. CASE Create(r)
        <3>1. key[r] \in Names
            BY <2>3 DEF Create
        <3> QED  BY <2>3, <3>1 DEF Create, Key
    <2> QED  BY <1>3, <2>1, <2>2, <2>3
<1>4. ASSUME NEW r \in Requests, Leave(r) \/ Allowed(r) \/ Rejected(r) \/ Answers(r) \/ Fails(r)
      PROVE  TypeInv'
    <2>1. /\ \E to \in {"calling"} \cup Ended : pc' = [pc EXCEPT ![r] = to]
          /\ pc[r] \in InUse
          /\ \E to \in {"calling", "done", "rejected", "failed"} : pc' = [pc EXCEPT ![r] = to]
          /\ UNCHANGED <<llm_provider, asking, key, holds, table, late>>
        BY <1>4 DEF Leave, Allowed, Rejected, Answers, Fails, Record
    <2>2. holds[r] \in Requests
        BY <2>1 DEF HoldInv, After
    <2>3. Breaker(r) \in [failures : Nat, open : BOOLEAN, probing : BOOLEAN]
        BY <2>2 DEF Breaker
    <2>4. \E state \in [failures : Nat, open : BOOLEAN, probing : BOOLEAN] :
            breakers' = [breakers EXCEPT ![holds[r]] = state]
        <3>1. CASE Leave(r) \/ Rejected(r)
            BY <2>3, <3>1 DEF Leave, Rejected, Record
        <3>2. CASE Allowed(r)
            <4>1. [Breaker(r) EXCEPT !.probing = Breaker(r).open]
                    \in [failures : Nat, open : BOOLEAN, probing : BOOLEAN]
                BY <2>3
            <4> QED  BY <3>2, <4>1 DEF Allowed, Record
        <3>3. CASE Answers(r)
            <4>1. Fresh \in [failures : Nat, open : BOOLEAN, probing : BOOLEAN]
                BY DEF Fresh
            <4> QED  BY <3>3, <4>1 DEF Answers, Record
        <3>4. CASE Fails(r)
            <4> DEFINE failures == Breaker(r).failures + 1
                       trips == Breaker(r).probing \/ failures >= failure_threshold
                       state == [failures |-> failures,
                                 open     |-> Breaker(r).open \/ trips,
                                 probing  |-> Breaker(r).probing /\ ~trips]
            <4>1. failures \in Nat
                BY <2>3
            <4>2. state \in [failures : Nat, open : BOOLEAN, probing : BOOLEAN]
                BY <4>1, Zenon
            <4> QED  BY <3>4, <4>2 DEF Fails, Record
        <3> QED  BY <1>4, <3>1, <3>2, <3>3, <3>4
    <2> QED  BY <2>1, <2>2, <2>4
<1>5. CASE UNCHANGED vars
    BY <1>5 DEF vars
<1> QED  BY <1>1, <1>2, <1>3, <1>4, <1>5 DEF Next

(* The steps of a request with its breaker leave the table alone. *)
UseStep(r) == Leave(r) \/ Allowed(r) \/ Rejected(r) \/ Answers(r) \/ Fails(r)

(* A step on a breaker is the step of a request that holds it, and changes  *)
(* no other breaker.                                                        *)
LEMMA UseSteps ==
    ASSUME TypeInv, HoldInv, NEW r \in Requests, UseStep(r)
    PROVE  /\ UNCHANGED <<llm_provider, asking, key, holds, table, late>>
           /\ pc[r] \in InUse /\ pc'[r] \in After
           /\ pc' = [pc EXCEPT ![r] = pc'[r]]
           /\ holds[r] \in Requests /\ pc[holds[r]] \in After
           /\ \A b \in Requests : b # holds[r] => breakers'[b] = breakers[b]
<1>1. /\ UNCHANGED <<llm_provider, asking, key, holds, table, late>> /\ pc[r] \in InUse
      /\ \E to \in {"calling", "done", "rejected", "failed"} : pc' = [pc EXCEPT ![r] = to]
      /\ \E state : breakers' = [breakers EXCEPT ![holds[r]] = state]
    BY DEF UseStep, Leave, Allowed, Rejected, Answers, Fails, Record, Goto, InUse
<1>2. pc'[r] \in After /\ pc' = [pc EXCEPT ![r] = pc'[r]]
    BY <1>1 DEF TypeInv, After, InUse
<1>3. holds[r] \in Requests /\ pc[holds[r]] \in After
    BY <1>1 DEF TypeInv, HoldInv, After
<1> QED  BY <1>1, <1>2, <1>3 DEF TypeInv

(* Every step keeps what is known of where the breakers come from. *)
LEMMA HoldSteps ==
    ASSUME TypeInv, HoldInv, [Next]_vars
    PROVE  HoldInv'
<1> USE TableAssumption DEF TypeInv, HoldInv, InUse, Ended, Waiting, After
<1>1. CASE reset_breakers
    BY <1>1 DEF reset_breakers
<1>2. ASSUME NEW r \in Requests, Ask(r) \/ Unknown(r) \/ Health(r)
      PROVE  HoldInv'
    BY <1>2 DEF Ask, Unknown, Health, Goto
<1>3. ASSUME NEW r \in Requests, Found(r)
      PROVE  HoldInv'
    BY <1>3 DEF Found, Key, Goto
<1>4. ASSUME NEW r \in Requests, Missing(r)
      PROVE  HoldInv'
    BY <1>4 DEF Missing, Goto
<1>5. ASSUME NEW r \in Requests, Create(r)
      PROVE  HoldInv'
    BY <1>5 DEF Create, Key, Goto
<1>6. ASSUME NEW r \in Requests, UseStep(r)
      PROVE  HoldInv'
    BY <1>6, UseSteps
<1>7. CASE UNCHANGED vars
    BY <1>7 DEF vars
<1> QED  BY <1>1, <1>2, <1>3, <1>4, <1>5, <1>6, <1>7 DEF Next, UseStep

(* Every step keeps what the requests look their breakers up by. *)
LEMMA KeySteps ==
    ASSUME TypeInv, HoldInv, KeyInv, [Next]_vars
    PROVE  KeyInv'
<1> USE DEF TypeInv, KeyInv, Goto
<1>1. CASE reset_breakers
    BY <1>1 DEF reset_breakers
<1>2. ASSUME NEW r \in Requests, Ask(r)
      PROVE  KeyInv'
    <2>1. PICK n \in Names : Lower[n] \in Known /\ key' = [key EXCEPT ![r] = Lower[n]]
        BY <1>2 DEF Ask
    <2> HIDE DEF Known
    <2> QED  BY <1>2, <2>1 DEF Ask
<1>3. ASSUME NEW r \in Requests, Unknown(r) \/ Health(r)
      PROVE  KeyInv'
    BY <1>3 DEF Unknown, Health
<1>4. ASSUME NEW r \in Requests, Found(r) \/ Missing(r) \/ Create(r)
      PROVE  KeyInv'
    BY <1>4 DEF Found, Missing, Create
<1>5. ASSUME NEW r \in Requests, UseStep(r)
      PROVE  KeyInv'
    BY <1>5, UseSteps DEF InUse, After
<1>6. CASE UNCHANGED vars
    BY <1>6 DEF vars
<1> QED  BY <1>1, <1>2, <1>3, <1>4, <1>5, <1>6 DEF Next, UseStep

(* No step gives a late request a breaker of its own. *)
LEMMA LateSteps ==
    ASSUME TypeInv, HoldInv, LateInv, [Next]_vars
    PROVE  LateInv'
<1> USE TableAssumption DEF TypeInv, LateInv, InUse, Ended, After, Creating
<1>1. CASE reset_breakers
    BY <1>1 DEF reset_breakers
<1>2. ASSUME NEW r \in Requests, Ask(r) \/ Unknown(r) \/ Health(r)
      PROVE  LateInv'
    BY <1>2 DEF Ask, Unknown, Health, Goto
<1>3. ASSUME NEW r \in Requests, Found(r)
      PROVE  LateInv'
    BY <1>3 DEF Found, Key, Goto
<1>4. ASSUME NEW r \in Requests, Missing(r)
      PROVE  LateInv'
    BY <1>4 DEF Missing, Key, Goto, HoldInv
<1>5. ASSUME NEW r \in Requests, Create(r)
      PROVE  LateInv'
    BY <1>5 DEF Create, Key, Goto
<1>6. ASSUME NEW r \in Requests, UseStep(r)
      PROVE  LateInv'
    BY <1>6, UseSteps
<1>7. CASE UNCHANGED vars
    BY <1>7 DEF vars
<1> QED  BY <1>1, <1>2, <1>3, <1>4, <1>5, <1>6, <1>7 DEF Next, UseStep

-----------------------------------------------------------------------------
(* Only a failing request adds to the failures of a provider, its own. *)
LEMMA FailedStays ==
    ASSUME TypeInv, NEW r \in Requests, pc' = [pc EXCEPT ![r] = pc'[r]],
           pc[r] # "failed", pc'[r] # "failed",
           \A s \in Requests : s # r => key'[s] = key[s]
    PROVE  \A p \in Names : FailedOf(p)' = FailedOf(p)
BY DEF TypeInv, FailedOf

(* A failure adds its request to the failures of its provider. *)
LEMMA FailedAdds ==
    ASSUME TypeInv, NEW r \in Requests, pc' = [pc EXCEPT ![r] = "failed"],
           pc[r] # "failed", UNCHANGED key, NEW p \in Names
    PROVE  FailedOf(p)' = IF p = key[r] THEN FailedOf(p) \cup {r} ELSE FailedOf(p)
<1>1. \A s \in Requests : s \in FailedOf(p)'
        <=> s \in FailedOf(p) \/ (s = r /\ p = key[r])
    BY DEF TypeInv, FailedOf
<1>2. FailedOf(p) \subseteq Requests /\ FailedOf(p)' \subseteq Requests
    BY DEF FailedOf
<1> QED  BY <1>1, <1>2

(* A step of a request on its way to a breaker: no failure is added, and    *)
(* the breaker it gets past breaker_for() with has counted none.            *)
LEMMA WayStep ==
    ASSUME TypeInv, HoldInv, CountInv, RejectedInv, TypeInv', HoldInv',
           NEW r \in Requests,
           Ask(r) \/ Unknown(r) \/ Health(r) \/ Found(r) \/ Missing(r) \/ Create(r)
    PROVE  CountInv' /\ RejectedInv'
<1>1. /\ pc[r] \in {"new", "lookup", "creating"} /\ UNCHANGED breakers
      /\ pc' = [pc EXCEPT ![r] = pc'[r]] /\ pc'[r] \notin {"failed", "rejected"}
      /\ \A s \in Requests : s # r => pc'[s] = pc[s] /\ key'[s] = key[s]
    BY DEF Ask, Unknown, Health, Found, Missing, Create, Goto, TypeInv
<1>2. \A p \in Names : FailedOf(p)' = FailedOf(p)
    BY <1>1, FailedStays
<1>3. ASSUME NEW b \in Requests, NEW p \in Names, pc'[b] \in After, key'[b] = p
      PROVE  Counts(b, p)'
    <2>1. CASE b # r
        <3>1. Counts(b, p)
            BY <1>1, <1>3, <2>1 DEF CountInv
        <3> QED  BY <1>1, <1>2, <3>1 DEF Counts
    <2>2. CASE b = r
        <3>1. breakers'[b] = Fresh
            BY <1>1, <2>2 DEF HoldInv, Waiting
        <3>2. Cardinality(FailedOf(p))' \in Nat
            BY <1>2, FS_CardinalityType DEF CountInv
        <3> QED  BY <3>1, <3>2 DEF Fresh, Counts
    <2> QED  BY <2>1, <2>2
<1>4. CountInv'
    BY <1>2, <1>3 DEF CountInv
<1>5. RejectedInv'
    BY <1>1, <1>2 DEF RejectedInv
<1> QED  BY <1>4, <1>5

(* A step that leaves the failures as they are, and each breaker as it was  *)
(* or less blamed *)
LEMMA MildStep ==
    ASSUME TypeInv, HoldInv, CountInv, RejectedInv,
           NEW r \in Requests, UseStep(r), pc'[r] # "failed",
           breakers'[holds[r]].failures \in {0, breakers[holds[r]].failures},
           breakers'[holds[r]].open => breakers[holds[r]].open,
           breakers'[holds[r]].probing => breakers'[holds[r]].open,
           pc'[r] = "rejected" => breakers[holds[r]].open
    PROVE  CountInv' /\ RejectedInv'
<1>1. /\ UNCHANGED <<key, holds>> /\ pc[r] \in InUse
      /\ pc' = [pc EXCEPT ![r] = pc'[r]]
      /\ holds[r] \in Requests /\ pc[holds[r]] \in After /\ key[holds[r]] = key[r]
      /\ \A b \in Requests : b # holds[r] => breakers'[b] = breakers[b]
    BY UseSteps DEF HoldInv, TypeInv, InUse, After
<1>2. \A p \in Names : FailedOf(p)' = FailedOf(p)
    BY <1>1, FailedStays DEF InUse
<1>3. \A b \in Requests : pc'[b] \in After => pc[b] \in After
    BY <1>1 DEF TypeInv, After
<1>4. \A p \in Names : Cardinality(FailedOf(p)) \in Nat
    BY FS_CardinalityType DEF CountInv
<1>5. ASSUME NEW b \in Requests, NEW p \in Names, pc'[b] \in After, key'[b] = p
      PROVE  Counts(b, p)'
    <2>1. Counts(b, p)
        BY <1>1, <1>3, <1>5 DEF CountInv
    <2>2. CASE b # holds[r]
        BY <1>1, <1>2, <2>1, <2>2 DEF Counts
    <2>3. CASE b = holds[r]
        <3>1. Cardinality(FailedOf(p))' \in Nat /\ FailedOf(p)' = FailedOf(p)
            BY <1>2, <1>4
        <3> QED  BY <2>1, <2>3, <3>1 DEF Counts
    <2> QED  BY <2>2, <2>3
<1>6. CountInv'
    BY <1>2, <1>5 DEF CountInv
<1>7. ASSUME NEW q \in Requests, NEW p \in Names, pc'[q] = "rejected", key'[q] = p
      PROVE  Cardinality(FailedOf(p))' >= failure_threshold
    <2>1. CASE q # r
        BY <1>1, <1>2, <1>7, <2>1 DEF RejectedInv, TypeInv
    <2>2. CASE q = r
        <3>1. Counts(holds[r], p) /\ breakers[holds[r]].open
            BY <1>1, <1>7, <2>2 DEF CountInv
        <3> QED  BY <1>2, <3>1 DEF Counts
    <2> QED  BY <2>1, <2>2
<1> QED  BY <1>6, <1>7 DEF RejectedInv

(* A failure is one more on its breaker and one more of its provider. *)
LEMMA FailStep ==
    ASSUME TypeInv, HoldInv, CountInv, RejectedInv, NEW r \in Requests, Fails(r)
    PROVE  CountInv' /\ RejectedInv'
<1>0. PICK q \in Names : q = key[r]
    <2>1. pc[r] = "calling"
        BY DEF Fails, Goto
    <2> QED  BY <2>1 DEF TypeInv
<1> DEFINE h == holds[r]
<1>1. /\ UNCHANGED <<key, holds>> /\ pc[r] = "calling"
      /\ pc' = [pc EXCEPT ![r] = "failed"]
      /\ h \in Requests /\ pc[h] \in After /\ key[h] = q
      /\ \A b \in Requests : b # h => breakers'[b] = breakers[b]
    <2>1. pc[r] = "calling" /\ pc' = [pc EXCEPT ![r] = "failed"]
        BY DEF Fails, Goto
    <2> QED  BY <1>0, <2>1, UseSteps DEF HoldInv, TypeInv, UseStep, After
<1>2. /\ breakers'[h].failures = breakers[h].failures + 1
      /\ breakers'[h].open <=> \/ breakers[h].open \/ breakers[h].probing
                               \/ breakers[h].failures + 1 >= failure_threshold
      /\ breakers'[h].probing => breakers[h].probing
    <2> DEFINE n == breakers[h].failures + 1
               trips == breakers[h].probing \/ n >= failure_threshold
               state == [failures |-> n,
                         open     |-> breakers[h].open \/ trips,
                         probing  |-> breakers[h].probing /\ ~trips]
    <2>1. breakers' = [breakers EXCEPT ![h] = state]
        BY DEF Fails, Record, Breaker
    <2>2. breakers'[h] = state
        BY <1>1, <2>1, Zenon DEF TypeInv
    <2>3. state.failures = n /\ (state.open <=> breakers[h].open \/ trips)
          /\ (state.probing <=> breakers[h].probing /\ ~trips)
        BY Zenon
    <2> QED  BY <2>2, <2>3, Zenon
<1>3. /\ FailedOf(q)' = FailedOf(q) \cup {r} /\ r \notin FailedOf(q)
      /\ \A p \in Names : p # q => FailedOf(p)' = FailedOf(p)
    BY <1>0, <1>1, FailedAdds DEF FailedOf
<1>4. \A p \in Names : IsFiniteSet(FailedOf(p)) /\ Cardinality(FailedOf(p)) \in Nat
    BY FS_CardinalityType DEF CountInv
<1>5. /\ IsFiniteSet(FailedOf(q))' /\ Cardinality(FailedOf(q))' = Cardinality(FailedOf(q)) + 1
      /\ Cardinality(FailedOf(q))' \in Nat
    <2>1. /\ IsFiniteSet(FailedOf(q) \cup {r})
          /\ Cardinality(FailedOf(q) \cup {r}) = Cardinality(FailedOf(q)) + 1
        BY <1>3, <1>4, FS_AddElement
    <2> QED  BY <1>3, <1>4, <2>1
<1>10. ASSUME NEW p \in Names
       PROVE  /\ IsFiniteSet(FailedOf(p))'
              /\ Cardinality(FailedOf(p))' >= Cardinality(FailedOf(p))
              /\ Cardinality(FailedOf(p)) \in Nat /\ Cardinality(FailedOf(p))' \in Nat
    <2>1. CASE p = q
        <3>1. Cardinality(FailedOf(p)) \in Nat
            BY <1>4
        <3> QED  BY <1>5, <2>1, <3>1
    <2>2. CASE p # q
        <3>1. FailedOf(p)' = FailedOf(p)
            BY <1>3, <2>2
        <3>2. IsFiniteSet(FailedOf(p)) /\ Cardinality(FailedOf(p)) \in Nat
            BY <1>4
        <3> QED  BY <3>1, <3>2
    <2> QED  BY <2>1, <2>2
<1> HIDE DEF h
<1>6. \A b \in Requests : /\ pc'[b] \in After <=> pc[b] \in After
                          /\ pc'[b] = "rejected" <=> pc[b] = "rejected"
    BY <1>1 DEF TypeInv, After, InUse
<1>7. ASSUME NEW b \in Requests, NEW p \in Names, pc'[b] \in After, key'[b] = p
      PROVE  Counts(b, p)'
    <2>1. Counts(b, p)
        BY <1>1, <1>6, <1>7 DEF CountInv
    <2>2. CASE b # h
        <3>1. /\ Cardinality(FailedOf(p))' >= Cardinality(FailedOf(p))
              /\ Cardinality(FailedOf(p)) \in Nat /\ Cardinality(FailedOf(p))' \in Nat
            BY <1>10
        <3>2. breakers[b].failures \in Nat /\ failure_threshold \in Nat
            BY TableAssumption DEF TypeInv
        <3> QED  BY <1>1, <2>1, <2>2, <3>1, <3>2 DEF Counts
    <2>3. CASE b = h
        <3>1. p = q
            BY <1>1, <1>7, <2>3
        <3>2. /\ Cardinality(FailedOf(p))' = Cardinality(FailedOf(p)) + 1
              /\ Cardinality(FailedOf(p)) \in Nat
            BY <1>4, <1>5, <3>1
        <3>3. breakers[b].failures \in Nat /\ failure_threshold \in Nat
            BY TableAssumption DEF TypeInv
        <3> QED  BY <1>2, <2>1, <2>3, <3>2, <3>3 DEF Counts
    <2> QED  BY <2>2, <2>3
<1>8. CountInv'
    BY <1>7, <1>10 DEF CountInv
<1>9. ASSUME NEW s \in Requests, NEW p \in Names, pc'[s] = "rejected", key'[s] = p
      PROVE  Cardinality(FailedOf(p))' >= failure_threshold
    <2>1. Cardinality(FailedOf(p)) >= failure_threshold
        BY <1>1, <1>6, <1>9 DEF RejectedInv
    <2> QED  BY <1>10, <2>1, TableAssumption
<1> QED  BY <1>8, <1>9 DEF RejectedInv

(* Every step keeps the counts below the failures that happened. *)
LEMMA CountSteps ==
    ASSUME TypeInv, HoldInv, CountInv, RejectedInv, [Next]_vars, TypeInv', HoldInv'
    PROVE  CountInv' /\ RejectedInv'
<1>1. ASSUME UNCHANGED <<pc, key, breakers>>
      PROVE  CountInv' /\ RejectedInv'
    BY <1>1 DEF CountInv, RejectedInv, Counts, FailedOf
<1>2. ASSUME NEW r \in Requests,
             Leave(r) \/ Allowed(r) \/ Rejected(r) \/ Answers(r)
      PROVE  CountInv' /\ RejectedInv'
    <2>1. /\ UseStep(r) /\ holds[r] \in Requests /\ pc[holds[r]] \in After
          /\ key[holds[r]] \in Names
        BY <1>2, UseSteps DEF UseStep, TypeInv, After, InUse, Ended
    <2>2. pc'[r] # "failed" /\ (pc'[r] = "rejected" => breakers[holds[r]].open)
        BY <1>2 DEF Leave, Allowed, Rejected, Answers, Goto, Breaker, TypeInv
    <2>3. breakers[holds[r]].probing => breakers[holds[r]].open
        BY <2>1 DEF CountInv, Counts
    <2>4. /\ breakers'[holds[r]].failures \in {0, breakers[holds[r]].failures}
          /\ breakers'[holds[r]].open => breakers[holds[r]].open
          /\ breakers'[holds[r]].probing => breakers'[holds[r]].open
        <3>1. CASE Leave(r) \/ Rejected(r)
            <4>1. breakers'[holds[r]] = breakers[holds[r]]
                BY <2>1, <3>1 DEF Leave, Rejected, Record, Breaker, TypeInv
            <4> QED  BY <2>3, <4>1
        <3>2. CASE Allowed(r)
            <4>1. breakers'[holds[r]] = [Breaker(r) EXCEPT !.probing = Breaker(r).open]
                BY <2>1, <3>2 DEF Allowed, Record, TypeInv
            <4>2. Breaker(r) \in [failures : Nat, open : BOOLEAN, probing : BOOLEAN]
                BY <2>1 DEF Breaker, TypeInv
            <4>3. /\ breakers'[holds[r]].failures = Breaker(r).failures
                  /\ breakers'[holds[r]].open = Breaker(r).open
                  /\ breakers'[holds[r]].probing = Breaker(r).open
                BY <4>1, <4>2
            <4> QED  BY <4>3 DEF Breaker
        <3>3. CASE Answers(r)
            <4>1. breakers'[holds[r]] = Fresh
                BY <2>1, <3>3 DEF Answers, Record, TypeInv
            <4> QED  BY <4>1 DEF Fresh
        <3> QED  BY <1>2, <3>1, <3>2, <3>3
    <2> QED  BY <2>1, <2>2, <2>4, MildStep
<1> QED
    BY <1>1, <1>2, WayStep, FailStep DEF Next, vars, reset_breakers

-----------------------------------------------------------------------------
IInv == TypeInv /\ HoldInv /\ KeyInv /\ CountInv /\ RejectedInv /\ LateInv

(* The table starts with the invariant. *)
LEMMA InitInv == Init => IInv
<1> SUFFICES ASSUME Init PROVE IInv
    OBVIOUS
<1> USE TableAssumption DEF Init
<1>1. TypeInv
    <2>1. Fresh \in [failures : Nat, open : BOOLEAN, probing : BOOLEAN]
        BY DEF Fresh
    <2> QED  BY <2>1 DEF TypeInv
<1>2. HoldInv
    BY DEF HoldInv, After, InUse, Waiting
<1>3. \A p \in Names : FailedOf(p) = {}
    BY DEF FailedOf
<1>4. CountInv
    BY <1>3, FS_EmptySet DEF CountInv, After, InUse
<1>5. RejectedInv /\ LateInv /\ KeyInv
    BY DEF RejectedInv, LateInv, KeyInv
<1> QED  BY <1>1, <1>2, <1>4, <1>5 DEF IInv

(* The invariant holds of every execution, whoever races for a breaker. *)
THEOREM Invariance == Spec => []IInv
<1>1. IInv /\ [Next]_vars => IInv'
    BY TypeSteps, HoldSteps, KeySteps, LateSteps, CountSteps DEF IInv
<1> QED  BY <1>1, InitInv, PTL DEF Spec

(* Every breaker serves one provider, and its slot is taken only while it   *)
(* is open.                                                                 *)
THEOREM Typed == Spec => []TypeOK
<1>1. IInv => TypeOK
    <2> SUFFICES ASSUME IInv PROVE TypeOK
        OBVIOUS
    <2>1. \A b \in Requests : breakers[b].probing => breakers[b].open
        <3> SUFFICES ASSUME NEW b \in Requests PROVE breakers[b].probing => breakers[b].open
            OBVIOUS
        <3>1. CASE pc[b] \in Waiting
            BY <3>1 DEF IInv, HoldInv, Fresh
        <3>2. CASE pc[b] \notin Waiting
            <4>1. pc[b] \in After /\ key[b] \in Names
                BY <3>2 DEF IInv, TypeInv, Waiting, After, InUse, Ended
            <4> QED  BY <4>1 DEF IInv, CountInv, Counts
        <3> QED  BY <3>1, <3>2
    <2> QED  BY <2>1 DEF IInv, TypeInv, HoldInv, KeyInv, TypeOK
<1> QED  BY <1>1, Invariance, PTL

(* A question is rejected only after failure_threshold failures of its      *)
(* own provider, whichever breakers were raced for.                         *)
THEOREM NoOtherProviderBlocks == Spec => []FailuresStayWithProvider
<1>1. IInv => FailuresStayWithProvider
    <2> SUFFICES ASSUME IInv, NEW r \in Requests, pc[r] = "rejected"
                 PROVE  Cardinality({s \in Requests : pc[s] = "failed" /\ key[s] = key[r]})
                            >= failure_threshold
        BY DEF FailuresStayWithProvider
    <2>1. PICK p \in Names : p = key[r]
        BY DEF IInv, TypeInv
    <2>2. Cardinality(FailedOf(p)) >= failure_threshold
        BY <2>1 DEF IInv, RejectedInv
    <2> QED  BY <2>1, <2>2, Zenon DEF FailedOf
<1> QED  BY <1>1, Invariance, PTL

(* Of the requests that find no breaker of their provider being made, those *)
(* that use the one in the table under its name are all questions, and the  *)
(* health checks of a setting in lower case.                                *)
THEOREM LateCallersShare == Spec => []OnlyFirstCallersStray
<1>1. ASSUME IInv, NEW r \in late, pc[r] \in InUse
      PROVE  holds[r] = Shared(r) <=> r \in asking \/ Lower[llm_provider] = llm_provider
    <2>1. holds[r] = table[key[r]]
        BY <1>1 DEF IInv, LateInv
    <2>2. r \in Requests /\ pc[r] \notin {"new", "unknown"} /\ pc[r] \in After
        BY <1>1 DEF IInv, TypeInv, InUse, After
    <2>3. key[r] \in IF r \in asking THEN Known ELSE {llm_provider}
        BY <1>1, <2>2 DEF IInv, KeyInv
    <2>4. key[r] \in Names /\ Lower[key[r]] \in Names
        BY <1>1, <2>2, NamesAssumption DEF IInv, TypeInv
    <2>5. CASE Lower[key[r]] = key[r]
        <3>1. r \in asking \/ Lower[llm_provider] = llm_provider
            BY <2>3, <2>5
        <3> QED  BY <2>1, <2>5, <3>1 DEF Shared
    <2>6. CASE Lower[key[r]] # key[r]
        <3>1. r \notin asking /\ Lower[llm_provider] # llm_provider
            BY <2>3, <2>6, NamesAssumption
        <3>2. holds[r] # None /\ key[holds[r]] = key[r]
            BY <1>1, <2>2 DEF IInv, HoldInv
        <3>3. Shared(r) # None => key[Shared(r)] = Lower[key[r]]
            BY <1>1, <2>4 DEF IInv, HoldInv, Shared
        <3>4. holds[r] # Shared(r)
            BY <2>6, <3>2, <3>3
        <3> QED  BY <3>1, <3>4
    <2> QED  BY <2>5, <2>6
<1>2. IInv => OnlyFirstCallersStray
    BY <1>1 DEF OnlyFirstCallersStray
<1> QED  BY <1>2, Invariance, PTL
==============================================================================
