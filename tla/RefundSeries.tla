--------------------------- MODULE RefundSeries -----------------------------
(***************************************************************************)
(* A series of partial refunds of one invoice, each freezing the split of  *)
(* its amount into VAT and net that the next one builds on.                *)
(***************************************************************************)
EXTENDS VatArithmetic

CONSTANTS
    MaxCharge,  \* bound on the amount charged, in minor units
    MaxParts    \* bound on the number of refunds of one invoice

ASSUME SeriesAssumption == MaxCharge \in Nat \ {0} /\ MaxParts \in Nat \ {0}

VARIABLES
    invoice,    \* the frozen VAT and total
    refunded,   \* sum of the refunds
    back,       \* sum of their VAT components
    parts       \* number of refunds

seriesVars == <<invoice, refunded, back, parts>>

SeriesInit == /\ invoice \in {Taxed(c, i) : c \in 1..MaxCharge, i \in BOOLEAN}
              /\ refunded = 0
              /\ back = 0
              /\ parts = 0

Refund(amount) ==
    /\ parts < MaxParts
    /\ refunded + amount <= invoice.total
    /\ refunded' = refunded + amount
    /\ back' = back + VatComponent(invoice, refunded, back, amount)
    /\ parts' = parts + 1
    /\ UNCHANGED invoice

SeriesNext == \E amount \in 1..(2 * MaxCharge) : Refund(amount)

SeriesSpec == SeriesInit /\ [][SeriesNext]_seriesVars

-----------------------------------------------------------------------------
FullyRefunded == refunded = invoice.total

\* A part of the VAT is never negative, and the parts of a split refund never
\* reverse more VAT than the invoice carries, nor more net than was refunded.
VatWithinFrozen == back \in 0..Min({invoice.vat, refunded})

\* The rounding of a few parts is small enough for the last one to absorb:
\* a reversal in at most four parts returns the frozen VAT exactly.
ExactInFourParts == FullyRefunded /\ parts <= 4 => back = invoice.vat

\* Halving up never drifts: after any number of parts the VAT returned is
\* within half a minor unit per part below its exact share.
DriftBounded == ~FullyRefunded =>
    2 * (refunded * invoice.vat - back * invoice.total) <= parts * invoice.total

\* The VAT a series of partial refunds reverses is the VAT it should.
ReversalIsSound == VatWithinFrozen /\ ExactInFourParts /\ DriftBounded

\* "full reversal must reverse the frozen VAT exactly" (recordFeeRefund).  Not
\* so in five parts (README, section 6).
FullReversalExact == FullyRefunded => back = invoice.vat

\* "execution re-derives authoritatively and refuses on drift"
\* (requestRefund): the VAT a refund reverses is the VAT that was approved.
\* Not so: the two are not compared (README, section 6).
ExecutedAsApproved ==
    [][back' - back = SnapshotVat(invoice, refunded' - refunded)]_seriesVars

=============================================================================
