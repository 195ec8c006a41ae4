----------------------------- MODULE BreakerTable -----------------------------
(***************************************************************************)
(* The breakers of all providers: breaker_for() of gateway/circuit.py, as  *)
(* /ask and /health of api/routes.py call it, with the choice of the       *)
(* provider in llm/factory.py.                                             *)
(*                                                                         *)
(* A provider has one name and many spellings.  /ask looks its breaker up  *)
(* by the name, /health by LLM_PROVIDER as it is spelled.                  *)
(*                                                                         *)
(* A thread can be suspended in the constructor of a breaker, between the  *)
(* test that a provider has none and the assignment; from there to the     *)
(* return of breaker_for() no other thread runs.  A breaker is named after *)
(* the request that made it.  Its methods are single steps here, and a     *)
(* cooldown may end at any time; PolicyAsk shows them step by step.        *)
(***************************************************************************)
EXTENDS Integers, FiniteSets

CONSTANTS
    Requests,           \* to /ask and /health
    Names,              \* the spellings that requests and LLM_PROVIDER use
    Lower,              \* spelling -> the spelling in lower case
    failure_threshold,
    None

Known == {"claude", "ollama", "fake"}

ASSUME TableAssumption ==
    None \notin Requests /\ None \notin Names /\ failure_threshold \in Nat \ {0}

ASSUME NamesAssumption ==
    /\ Lower \in [Names -> Names]
    /\ \A n \in Names : Lower[Lower[n]] = Lower[n]
    /\ \A p \in Known : p \in Names /\ Lower[p] = p

VARIABLES
    llm_provider,   \* the setting, read once from the environment
    pc,             \* where each request is
    asking,         \* the requests to /ask with a provider
    key,            \* the name each looks its breaker up by, None before
    holds,          \* the breaker it uses, None before
    table,          \* _BREAKERS: name -> breaker, or None
    breakers,       \* the state of each breaker
    late            \* history: requests that found a breaker nobody was replacing

vars == <<llm_provider, pc, asking, key, holds, table, breakers, late>>

Fresh == [failures |-> 0, open |-> FALSE, probing |-> FALSE]
InUse == {"holding", "calling"}
Ended == {"unknown", "done", "rejected", "failed"}

Init ==
    /\ llm_provider \in Names
    /\ pc = [r \in Requests |-> "new"]
    /\ asking = {}
    /\ key = [r \in Requests |-> None]
    /\ holds = [r \in Requests |-> None]
    /\ table = [n \in Names |-> None]
    /\ breakers = [b \in Requests |-> Fresh]
    /\ late = {}

Goto(r, from, to) == pc[r] = from /\ pc' = [pc EXCEPT ![r] = to]
Creating(n) == \E r \in Requests : pc[r] = "creating" /\ key[r] = n

(* /ask: get_provider takes the name of the request, or else llm_provider,  *)
(* in any case; guarded_ask goes on with the name of the provider's class.  *)
Ask_raw(r) ==
    /\ Goto(r, "new", "lookup")
    /\ \E n \in Names : Lower[n] \in Known /\ key' = [key EXCEPT ![r] = n]
    /\ asking' = asking \cup {r}
    /\ UNCHANGED <<llm_provider, holds, table, breakers, late>>

Ask(r) ==
    /\ Goto(r, "new", "lookup")
    /\ \E n \in Names : Lower[n] \in Known /\ key' = [key EXCEPT ![r] = Lower[n]]
    /\ asking' = asking \cup {r}
    /\ UNCHANGED <<llm_provider, holds, table, breakers, late>>

(* ValueError: the reply is a 422. *)
Unknown(r) ==
    /\ Goto(r, "new", "unknown")
    /\ \E n \in Names : Lower[n] \notin Known
    /\ UNCHANGED <<llm_provider, asking, key, holds, table, breakers, late>>

(* /health: the setting as it is, known or not. *)
Health(r) ==
    /\ Goto(r, "new", "lookup")
    /\ key' = [key EXCEPT ![r] = llm_provider]
    /\ UNCHANGED <<llm_provider, asking, holds, table, breakers, late>>

-----------------------------------------------------------------------------
(* breaker_for(provider_name)                                               *)

Key_one_for_all(r) == "ollama"
Key(r) == key[r]

Found(r) ==
    /\ Goto(r, "lookup", "holding")
    /\ table[Key(r)] # None
    /\ holds' = [holds EXCEPT ![r] = table[Key(r)]]
    /\ late' = IF Creating(Key(r)) THEN late ELSE late \cup {r}
    /\ UNCHANGED <<llm_provider, asking, key, table, breakers>>

Missing(r) ==
    /\ Goto(r, "lookup", "creating")
    /\ table[Key(r)] = None
    /\ UNCHANGED <<llm_provider, asking, key, holds, table, breakers, late>>

(* The table is not looked at again: a breaker stored meanwhile is lost. *)
Create(r) ==
    /\ Goto(r, "creating", "holding")
    /\ table' = [table EXCEPT ![Key(r)] = r]
    /\ holds' = [holds EXCEPT ![r] = r]
    /\ UNCHANGED <<llm_provider, asking, key, breakers, late>>

(* The tests empty the table between two of them. *)
reset_breakers ==
    /\ \A r \in Requests : pc[r] \in {"new"} \cup Ended
    /\ table' = [n \in Names |-> None]
    /\ UNCHANGED <<llm_provider, pc, asking, key, holds, breakers, late>>

-----------------------------------------------------------------------------
(* What the request does with its breaker.                                  *)

Breaker(r) == breakers[holds[r]]
Record(r, state) ==
    /\ breakers' = [breakers EXCEPT ![holds[r]] = state]
    /\ UNCHANGED <<llm_provider, asking, key, holds, table, late>>

(* /health has read the state, or the retrieval of /ask failed. *)
Leave(r) == Goto(r, "holding", "done") /\ Record(r, Breaker(r))

Allowed(r) ==
    /\ r \in asking
    /\ Goto(r, "holding", "calling")
    /\ ~Breaker(r).probing
    /\ Record(r, [Breaker(r) EXCEPT !.probing = Breaker(r).open])

Rejected(r) ==
    /\ r \in asking
    /\ Goto(r, "holding", "rejected")
    /\ Breaker(r).open
    /\ Record(r, Breaker(r))

Answers(r) == Goto(r, "calling", "done") /\ Record(r, Fresh)

(* The fake provider does not fail. *)
Fails(r) ==
    LET failures == Breaker(r).failures + 1
        trips == Breaker(r).probing \/ failures >= failure_threshold
    IN  /\ Goto(r, "calling", "failed")
        /\ key[r] # "fake"
        /\ Record(r, [failures |-> failures,
                      open     |-> Breaker(r).open \/ trips,
                      probing  |-> Breaker(r).probing /\ ~trips])

Next ==
    \/ reset_breakers
    \/ \E r \in Requests :
          \/ Ask(r) \/ Unknown(r) \/ Health(r) \/ Found(r) \/ Missing(r) \/ Create(r)
          \/ Leave(r) \/ Allowed(r) \/ Rejected(r) \/ Answers(r) \/ Fails(r)

Spec == Init /\ [][Next]_vars

-----------------------------------------------------------------------------
(***************************************************************************)
(* Properties.                                                             *)
(***************************************************************************)

(* Every variable has its type, a question is counted under the name of a   *)
(* known provider, a breaker is used under one name only, and its slot is   *)
(* taken only while it is open.                                             *)
TypeOK ==
    /\ llm_provider \in Names
    /\ pc \in [Requests -> {"new", "lookup", "creating"} \cup InUse \cup Ended]
    /\ \A r \in Requests :
          IF pc[r] \in {"new", "unknown"} THEN key[r] = None
          ELSE key[r] \in IF r \in asking THEN Known ELSE {llm_provider}
    /\ \A n \in Names : table[n] # None => key[table[n]] = n
    /\ \A r \in Requests : holds[r] # None => key[holds[r]] = key[r]
    /\ breakers \in [Requests -> [failures : Nat, open : BOOLEAN, probing : BOOLEAN]]
    /\ \A b \in Requests : breakers[b].probing => breakers[b].open
    /\ asking \subseteq Requests /\ late \subseteq Requests

(* One provider being down does not block another, nor itself too early: a  *)
(* question is rejected only after failure_threshold calls of its provider  *)
(* have failed, whichever breakers the first requests raced to make.        *)
FailuresStayWithProvider ==
    \A r \in Requests : pc[r] = "rejected" =>
        Cardinality({s \in Requests : pc[s] = "failed" /\ key[s] = key[r]})
            >= failure_threshold

(* The breaker in the table for the provider that a request is about,       *)
(* however its name was spelled                                             *)
Shared(r) == table[Lower[key[r]]]

(* Two first callers may count on two breakers, but only they may: every    *)
(* question that comes when no breaker of its provider is being made holds  *)
(* the one in the table as long as it uses it, whatever the spelling it     *)
(* named the provider by.  A health check does so exactly where             *)
(* LLM_PROVIDER is in lower case: under any other spelling of the provider  *)
(* it reads the state of a breaker on which no question is counted.         *)
OnlyFirstCallersStray ==
    \A r \in late : pc[r] \in InUse =>
        (holds[r] = Shared(r) <=> r \in asking \/ Lower[llm_provider] = llm_provider)
==============================================================================
