------------------------- MODULE MCSettlementEngine -------------------------
(***************************************************************************)
(* Small instances of the settlement engine.  Items and requests are       *)
(* interchangeable: nothing orders them but the rows they have written.    *)
(***************************************************************************)
EXTENDS SettlementEngine, TLC

Symmetry == Permutations(Items) \cup Permutations(Actors)

(***************************************************************************)
(* The recovery instance: one item of one minor unit and others of the     *)
(* full amount, becoming eligible one after the other, so that a           *)
(* receivable on one of them is recovered in parts by the batches of the   *)
(* rest, the last of which could pay more than is still owed.  The failure *)
(* lane, which writes no receivable, is left to the other instance.        *)
(***************************************************************************)
RecoveryInit ==
    /\ Init
    /\ Cardinality({i \in Items : item[i].amount < MaxAmount}) = 1

RecoveryNext ==
    \/ \E i \in Items : EvaluateEligible(i)
    \/ \E i \in Items, amount \in 1..MaxAmount : RecordRefund(i, amount)
    \/ \E a \in Actors : \/ Assembly(a) \/ Supersession(a) \/ Closing(a)
                         \/ GiveUp(a)

RecoverySpec == RecoveryInit /\ [][RecoveryNext]_vars
=============================================================================
