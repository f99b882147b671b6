--------------------- MODULE MCSettlementAuthorization ----------------------
(***************************************************************************)
(* Small instances of the authorisation of closes.  Ann proposes; Sue is   *)
(* senior; any of the operators may execute.                               *)
(***************************************************************************)
EXTENDS SettlementAuthorization

CONSTANTS ann, sue, bob, b1, b2

MCSeniors == {sue}
MCProposer == [b \in Batches |-> ann]

\* One batch above T2: the votes and their lapse.
LargeMagnitude == [b \in Batches |-> T2 + 1]
NoZeroNet == {}

\* Two batches that exceed T2 only together, the second one with a zero net.
SplitMagnitude == [b \in Batches |-> T2]
SplitZeroNet == {b2}
=============================================================================
