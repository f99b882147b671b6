--------------------------- MODULE VatArithmetic ----------------------------
(***************************************************************************)
(* The integer arithmetic of VAT: on an invoice (tax-engine.ts), and the   *)
(* part of it a refund reverses (settlement-refunds.service.ts; goods and  *)
(* fee refunds use the same formula).                                      *)
(***************************************************************************)
EXTENDS Integers, FiniteSetsExt

CONSTANT RateBp     \* the VAT rate in basis points

ASSUME RateAssumption == RateBp \in Nat

RateScale == 10000

\* Division of naturals, half-up: quotient plus one when the remainder is at
\* least half the divisor.
HalfUp(n, d) == (n \div d) + (IF 2 * (n % d) >= d THEN 1 ELSE 0)

\* vatOnMinor: VAT added on top of an amount without VAT.
VatOn(base) == HalfUp(base * RateBp, RateScale)

\* extractNetMinor: the amount without VAT inside one that includes it.
NetInside(gross) == HalfUp(gross * RateScale, RateScale + RateBp)

\* computeTax: VAT and total of a charge, on top of it or inside it.
Taxed(charge, inclusive) ==
    IF inclusive THEN [vat |-> charge - NetInside(charge), total |-> charge]
    ELSE [vat |-> VatOn(charge), total |-> charge + VatOn(charge)]

\* What is left of the frozen VAT.
Remaining(invoice, back) == Max({0, invoice.vat - back})

\* Faulty variant: no cap at the remaining VAT.
PartialVatUncapped(invoice, back, amount) ==
    (amount * invoice.vat + invoice.total \div 2) \div invoice.total

\* Faulty variant: truncates instead of rounding half-up.
PartialVatTruncated(invoice, back, amount) ==
    Min({(amount * invoice.vat) \div invoice.total, Remaining(invoice, back)})

PartialVat(invoice, back, amount) ==
    Min({(amount * invoice.vat + invoice.total \div 2) \div invoice.total,
         Remaining(invoice, back)})

\* Faulty variant: the completing refund is taken for VAT as a whole.
VatComponentWhole(invoice, refunded, back, amount) ==
    IF refunded + amount = invoice.total THEN amount
    ELSE PartialVat(invoice, back, amount)

\* vatComponentMinor: the refund that completes the reversal takes what is
\* left of the VAT.
VatComponent(invoice, refunded, back, amount) ==
    IF refunded + amount = invoice.total THEN Min({amount, Remaining(invoice, back)})
    ELSE PartialVat(invoice, back, amount)

\* requestRefund: the VAT of the snapshot that is approved, without regard to
\* earlier refunds.
SnapshotVat(invoice, amount) ==
    Min({(amount * invoice.vat + invoice.total \div 2) \div invoice.total, invoice.vat})

=============================================================================
