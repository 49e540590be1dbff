------------------------------ MODULE InOrderMap ------------------------------
(* What parallel.rs promises its callers: each item of a call is evaluated once, *)
(* and the call answers with the values in the order of the items.               *)
EXTENDS Naturals

CONSTANTS Calls, N, Results, None

VARIABLES
    value,  \* the value of each evaluated item of each call, or None
    answer  \* what each call has returned, or None

Items == 0..(N - 1)

Init ==
    /\ value = [c \in Calls |-> [i \in Items |-> None]]
    /\ answer = [c \in Calls |-> None]

Evaluate(c, i, r) ==
    /\ value[c][i] = None
    /\ value' = [value EXCEPT ![c][i] = r]
    /\ UNCHANGED answer

Return(c) ==
    /\ answer[c] = None
    /\ \A i \in Items : value[c][i] # None
    /\ answer' = [answer EXCEPT ![c] = [k \in 1..N |-> value[c][k - 1]]]
    /\ UNCHANGED value

Next ==
    \E c \in Calls :
        \/ \E i \in Items, r \in Results : Evaluate(c, i, r)
        \/ Return(c)

Spec == Init /\ [][Next]_<<value, answer>>
=============================================================================
