------------------------- MODULE SettlementContract -------------------------
(***************************************************************************)
(* What the settlement engine promises its callers, without requests,      *)
(* reads or retries: a batch takes items nobody else holds, and then       *)
(* either pays them all or gives them all back, once.                      *)
(***************************************************************************)
CONSTANTS Items, Batches

VARIABLES
    phase,     \* of each batch: none, open, paid or released
    members    \* the items a batch was started with

contractVars == <<phase, members>>

\* An item is out of reach while an open batch holds it and for ever once a
\* batch has paid it.
Taken(i) == \E b \in Batches : phase[b] \in {"open", "paid"} /\ i \in members[b]

Init == /\ phase = [b \in Batches |-> "none"]
        /\ members = [b \in Batches |-> {}]

Start(b, S) == /\ phase[b] = "none"
               /\ S # {}
               /\ \A i \in S : ~Taken(i)
               /\ phase' = [phase EXCEPT ![b] = "open"]
               /\ members' = [members EXCEPT ![b] = S]

End(b, as) == /\ phase[b] = "open"
              /\ phase' = [phase EXCEPT ![b] = as]
              /\ UNCHANGED members

Next == \E b \in Batches : \/ \E S \in SUBSET Items : Start(b, S)
                           \/ \E as \in {"paid", "released"} : End(b, as)

Spec == Init /\ [][Next]_contractVars

=============================================================================
