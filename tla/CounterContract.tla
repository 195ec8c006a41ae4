--------------------------- MODULE CounterContract ---------------------------
(***************************************************************************)
(* What a registry of counters promises to the callers that share it,      *)
(* without a lock or a read that precedes a store:                         *)
(*                                                                         *)
(*   - a call of inc() takes effect once, as a whole, before it returns,   *)
(*     on its own counter and no other;                                    *)
(*   - nothing else changes a counter but a reset, which clears them all;  *)
(*   - a page shows metric after metric, each as it is at one moment.      *)
(*                                                                         *)
(* A page as a whole is not of one moment, and a call whose caller has     *)
(* died inside inc() need not take effect.                                 *)
(***************************************************************************)
EXTENDS Naturals, Sequences

CONSTANTS
    Callers,
    Readers,
    n_names,    \* metrics, in the order of a page
    Labels,     \* label sets of a metric
    Amounts,
    NoPage      \* a reader that has not asked yet

VARIABLES
    counters,
    calling,    \* callers whose inc() has not taken effect
    call,       \* the counter and the amount of a caller's last call
    pages       \* what each reader has been shown

contractVars == <<counters, calling, call, pages>>

Series == (1..n_names) \X Labels
Calls == Series \X Amounts
Cleared == [s \in Series |-> 0]

Init ==
    /\ counters = Cleared
    /\ calling = {}
    /\ call \in [Callers -> Calls]
    /\ pages = [r \in Readers |-> NoPage]

Invoke(c) ==
    /\ c \notin calling
    /\ calling' = calling \cup {c}
    /\ \E request \in Calls : call' = [call EXCEPT ![c] = request]
    /\ UNCHANGED <<counters, pages>>

TakeEffect(c) ==
    /\ c \in calling
    /\ calling' = calling \ {c}
    /\ counters' = [counters EXCEPT ![call[c][1]] = @ + call[c][2]]
    /\ UNCHANGED <<call, pages>>

Clear ==
    /\ counters' = Cleared
    /\ UNCHANGED <<calling, call, pages>>

Ask(r) ==
    /\ pages' = [pages EXCEPT ![r] = <<>>]
    /\ UNCHANGED <<counters, calling, call>>

Metric(n) == [l \in Labels |-> counters[<<n, l>>]]

Show(r) ==
    /\ pages[r] # NoPage
    /\ Len(pages[r]) < n_names
    /\ pages' = [pages EXCEPT ![r] = Append(@, Metric(Len(@) + 1))]
    /\ UNCHANGED <<counters, calling, call>>

Next ==
    \/ \E c \in Callers : Invoke(c) \/ TakeEffect(c)
    \/ Clear
    \/ \E r \in Readers : Ask(r) \/ Show(r)

Spec == Init /\ [][Next]_contractVars
==============================================================================
