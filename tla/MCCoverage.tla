----------------------------- MODULE MCCoverage -----------------------------
(***************************************************************************)
(* The money of one invoice, on small instances: receipts, credits and     *)
(* refunds racing its coverage, or, to more parts and larger amounts than  *)
(* the races allow, a series of refunds.  `focus' says which of the two.   *)
(***************************************************************************)
EXTENDS InvoiceCoverage, RefundSeries

VARIABLE focus

MCInit ==
    /\ Init /\ SeriesInit
    /\ focus \in {"coverage", "series"}
    /\ focus = "coverage" => invoice = Invoice
    /\ focus = "series" => kind = "corporate_invoice"

MCNext ==
    \/ focus = "coverage" /\ Next /\ UNCHANGED <<seriesVars, focus>>
    \/ focus = "series" /\ SeriesNext /\ UNCHANGED <<vars, focus>>

MCSpec == MCInit /\ [][MCNext]_<<vars, seriesVars, focus>>
=============================================================================
