-------------------------- MODULE MCRefundRequests --------------------------
(***************************************************************************)
(* Small instances of the refund maker-checker: two requests of the same   *)
(* amount compete for the same evidence.                                   *)
(***************************************************************************)
EXTENDS RefundRequests

MCAmount == [q \in RefundIds |-> 1]
=============================================================================
