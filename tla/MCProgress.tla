----------------------------- MODULE MCProgress -----------------------------
(***************************************************************************)
(* What must eventually happen, on small instances: a closed batch gets    *)
(* its statement and its notes, a silent receiver's gift gets an address,  *)
(* a dispatched campaign comes to an end.  They share no row below, so a   *)
(* behaviour works on one of them: `focus' says which.  The fairness of    *)
(* the other two asks nothing of it: none of its actions is enabled in     *)
(* their initial states, where they stay.                                  *)
(*                                                                         *)
(* Of the batches one is remitted and one is closed without a transfer;    *)
(* they recover a note in turn, the first one another note as well.        *)
(***************************************************************************)
EXTENDS SettlementCompletion, GiftFulfilment, CorporateCampaign, TLC

CONSTANTS b1, b2, n1, n2

MCRecovers == b1 :> <<n1, n2>> @@ b2 :> <<n2>>
MCZeroNet == {b2}

VARIABLE focus

MCInit == /\ Init /\ GiftInit /\ CampaignInit
          /\ focus \in {"chain", "gift", "wave"}

MCNext ==
    \/ focus = "chain" /\ Next /\ UNCHANGED <<giftVars, campaignVars, focus>>
    \/ focus = "gift" /\ GiftNext /\ UNCHANGED <<vars, campaignVars, focus>>
    \/ focus = "wave" /\ CampaignNext /\ export' = export /\ UNCHANGED <<vars, giftVars, focus>>

MCSpec == /\ MCInit /\ [][MCNext]_<<vars, giftVars, campaignVars, focus>>
          /\ Fairness /\ GiftFairness /\ CampaignFairness
=============================================================================
