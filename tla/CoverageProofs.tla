--------------------------- MODULE CoverageProofs ---------------------------
(***************************************************************************)
(* The money of an invoice, for every charge, amount, number of requests   *)
(* and interleaving: what a series of refunds reverses of its VAT, and     *)
(* what receipts, credits and refunds make of its coverage.                *)
(***************************************************************************)
EXTENDS InvoiceCoverage, RefundSeries, SumTheorems

-----------------------------------------------------------------------------
(***************************************************************************)
(* The arithmetic of VAT.                                                  *)
(***************************************************************************)
\* The larger of two numbers.
LEMMA MaxOfTwo == ASSUME NEW x \in Int, NEW y \in Int
                  PROVE  Max({x, y}) \in {x, y} /\ Max({x, y}) >= x /\ Max({x, y}) >= y
<1>1. \E m \in {x, y} : \A n \in {x, y} : m >= n
  OBVIOUS
<1> QED
  BY <1>1 DEF Max

\* The smaller of two numbers.
LEMMA MinOfTwo == ASSUME NEW x \in Int, NEW y \in Int
                  PROVE  Min({x, y}) \in {x, y} /\ Min({x, y}) <= x /\ Min({x, y}) <= y
<1>1. \E m \in {x, y} : \A n \in {x, y} : m <= n
  OBVIOUS
<1> QED
  BY <1>1 DEF Min

\* What a division leaves.
LEMMA Divides == ASSUME NEW n \in Nat, NEW d \in Nat, d > 0
                 PROVE  /\ n \div d \in Nat
                        /\ d * (n \div d) <= n /\ n < d * (n \div d) + d
<1>1. n \div d \in Int /\ n \div d >= 0
  OBVIOUS
<1>2. d * (n \div d) <= n
  OBVIOUS
<1>3. n < d * (n \div d) + d
  OBVIOUS
<1> QED
  BY <1>1, <1>2, <1>3

\* Products of naturals are ordered as their factors.
LEMMA ProductsOrdered == ASSUME NEW a \in Nat, NEW x \in Nat, NEW y \in Nat, x <= y
                         PROVE  a * x <= a * y /\ a * x \in Nat /\ a * y \in Nat
  OBVIOUS

\* A quotient is small when the dividend is.
LEMMA QuotientBelow ==
    ASSUME NEW n \in Nat, NEW d \in Nat, d > 0, NEW k \in Nat, n < d * (k + 1)
    PROVE  n \div d <= k
<1> DEFINE q == n \div d
<1>1. q \in Nat /\ d * q <= n
  BY Divides
<1> HIDE DEF q
<1>2. ASSUME k + 1 <= q PROVE FALSE
  <2>1. d * (k + 1) <= d * q
    BY <1>1, <1>2, ProductsOrdered
  <2>2. d * (k + 1) \in Nat /\ d * q \in Nat
    BY <1>1
  <2> QED
    BY <1>1, <2>1, <2>2
<1>3. q <= k
  BY <1>1, <1>2
<1> QED
  BY <1>3 DEF q

\* An invoice as the tax engine freezes it: the VAT is within the total.
Frozen(inv) == inv.vat \in Nat /\ inv.total \in Nat /\ inv.total > 0 /\ inv.vat <= inv.total

\* Rounding a share half-up.
Rounded(inv, amount) == (amount * inv.vat + inv.total \div 2) \div inv.total

\* The share of an amount is no more than the amount, and less than half a unit
\* below its exact value.
LEMMA RoundedFits ==
    ASSUME NEW inv, Frozen(inv), NEW amount \in Nat
    PROVE  /\ Rounded(inv, amount) \in Nat /\ Rounded(inv, amount) <= amount
           /\ 2 * (amount * inv.vat) <= 2 * (inv.total * Rounded(inv, amount)) + inv.total
<1> DEFINE v == inv.vat
           t == inv.total
           h == t \div 2
           p == amount * v
           n == p + h
           q == n \div t
<1>1. v \in Nat /\ t \in Nat /\ t > 0 /\ v <= t /\ q = Rounded(inv, amount)
  BY DEF Frozen, Rounded
<1>2. p = inv.vat * amount /\ p = amount * inv.vat
  BY <1>1
<1> HIDE DEF v, t
<1>3. h \in Nat /\ 2 * h <= t /\ t <= 2 * h + 1
  BY <1>1
<1> HIDE DEF h
<1>4. p \in Nat /\ p <= amount * t /\ amount * t \in Nat
  BY <1>1, ProductsOrdered
<1> HIDE DEF p
<1>5. n \in Nat
  BY <1>3, <1>4
<1>6. n < t * (amount + 1)
  <2>1. t * (amount + 1) = amount * t + t
    BY <1>1
  <2> QED
    BY <1>1, <1>3, <1>4, <2>1
<1> HIDE DEF n
<1>7. q \in Nat /\ n < t * q + t
  BY <1>1, <1>5, Divides
<1>8. q <= amount
  BY <1>1, <1>5, <1>6, QuotientBelow
<1> HIDE DEF q
<1>9. t * q \in Nat
  BY <1>1, <1>7
<1>10. 2 * p <= 2 * (t * q) + t
  BY <1>1, <1>3, <1>4, <1>7, <1>9 DEF n
<1> QED
  BY <1>1, <1>2, <1>7, <1>8, <1>10 DEF t, v

\* Within half a unit of a quotient.
Near(h, n, d) == h \in Nat /\ 2 * (d * h) <= 2 * n + d /\ 2 * n < 2 * (d * h) + d

\* Half-up is within half a unit of the exact quotient.
LEMMA HalfUpIsNear == \A n, d \in Nat : d > 0 => Near(HalfUp(n, d), n, d)
<1> SUFFICES ASSUME NEW n \in Nat, NEW d \in Nat, d > 0
             PROVE  Near(HalfUp(n, d), n, d)
  OBVIOUS
<1> DEFINE q == n \div d
           r == n % d
<1>1. q \in Nat /\ d * q \in Nat
  BY Divides
<1>2. r = n - d * q
  OBVIOUS
<1>3. d * q <= n /\ n < d * q + d
  BY Divides
<1>4. HalfUp(n, d) = IF 2 * r >= d THEN q + 1 ELSE q
  BY <1>1 DEF HalfUp
<1> HIDE DEF q, r
<1>5. d * (q + 1) = d * q + d
  BY <1>1
<1>6. CASE 2 * r >= d
  <2>1. HalfUp(n, d) = q + 1 /\ d * HalfUp(n, d) = d * q + d
    BY <1>4, <1>5, <1>6
  <2> QED
    BY <1>1, <1>2, <1>3, <1>6, <2>1 DEF Near
<1>7. CASE ~(2 * r >= d)
  <2>1. HalfUp(n, d) = q
    BY <1>4, <1>7
  <2> QED
    BY <1>1, <1>2, <1>3, <1>7, <2>1 DEF Near
<1> QED
  BY <1>6, <1>7

\* The VAT of a charge is within its total, on top of it or inside it.
LEMMA TaxedIsFrozen ==
    ASSUME NEW c \in Nat, c > 0, NEW inclusive \in BOOLEAN
    PROVE  Frozen(Taxed(c, inclusive))
<1>1. CASE ~inclusive
  <2> DEFINE p == c * RateBp
  <2>1. p \in Nat
    BY RateAssumption
  <2> HIDE DEF p
  <2>2. HalfUp(p, 10000) \in Nat
    BY <2>1, HalfUpIsNear DEF Near
  <2>3. VatOn(c) \in Nat
    BY <2>2 DEF VatOn, RateScale, p
  <2> QED
    BY <1>1, <2>3 DEF Taxed, Frozen
<1>2. CASE inclusive
  <2> DEFINE den == 10000 + RateBp
             num == c * 10000
             net == HalfUp(num, den)
  <2>1. den \in Nat /\ den > 0 /\ den >= 10000 /\ num \in Nat /\ net = NetInside(c)
    BY RateAssumption DEF NetInside, RateScale
  <2>2. num <= c * den /\ c * den = den * c /\ c * den \in Nat
    BY <2>1, ProductsOrdered
  <2> HIDE DEF den, num
  <2>. Near(net, num, den)
    BY <2>1, HalfUpIsNear
  <2>3. net \in Nat /\ 2 * (den * net) <= 2 * num + den
    BY DEF Near
  <2> HIDE DEF net
  <2>4. ASSUME c + 1 <= net PROVE FALSE
    <3>1. den * (c + 1) <= den * net /\ den * (c + 1) = den * c + den /\ den * net \in Nat
      BY <2>1, <2>3, <2>4, ProductsOrdered
    <3> QED
      BY <2>1, <2>2, <2>3, <3>1
  <2>5. net <= c
    BY <2>3, <2>4
  <2> QED
    BY <1>2, <2>1, <2>3, <2>5 DEF Taxed, Frozen
<1> QED
  BY <1>1, <1>2

\* Up to a rate of one third the VAT is less than half of the total.
LEMMA LowRateIsLow ==
    ASSUME 3 * RateBp <= RateScale, NEW c \in Nat, c > 0, NEW inclusive \in BOOLEAN
    PROVE  2 * Taxed(c, inclusive).vat < Taxed(c, inclusive).total
<1>1. CASE ~inclusive
  <2> DEFINE p == c * RateBp
  <2>1. p \in Nat /\ 3 * p <= c * 10000
    <3>1. c * (3 * RateBp) <= c * 10000
      BY RateAssumption, ProductsOrdered DEF RateScale
    <3>2. c * (3 * RateBp) = 3 * p /\ p \in Nat
      BY RateAssumption
    <3> QED
      BY <3>1, <3>2
  <2> HIDE DEF p
  <2>2. /\ HalfUp(p, 10000) \in Nat
        /\ 2 * (10000 * HalfUp(p, 10000)) <= 2 * p + 10000
    <3>1. 10000 \in Nat /\ 10000 > 0
      OBVIOUS
    <3>2. Near(HalfUp(p, 10000), p, 10000)
      BY <2>1, <3>1, HalfUpIsNear
    <3> QED
      BY <3>2 DEF Near
  <2>3. VatOn(c) = HalfUp(p, 10000)
    BY DEF VatOn, RateScale, p
  <2>4. VatOn(c) \in Nat /\ VatOn(c) < c
    BY <2>1, <2>2, <2>3
  <2> QED
    BY <1>1, <2>4 DEF Taxed
<1>2. CASE inclusive
  <2> DEFINE den == 10000 + RateBp
             num == c * 10000
             net == HalfUp(num, den)
  <2>1. /\ den \in Nat /\ den > 0 /\ den >= 10000 /\ den <= 13333
        /\ num = 10000 * c /\ num \in Nat /\ net = NetInside(c)
    BY RateAssumption DEF NetInside, RateScale
  <2> HIDE DEF den, num
  <2>. Near(net, num, den)
    BY <2>1, HalfUpIsNear
  <2>2. net \in Nat /\ 2 * num < 2 * (den * net) + den
    BY DEF Near
  <2> HIDE DEF net
  <2>3. ASSUME 2 * net <= c PROVE FALSE
    <3>1. den * (2 * net) <= den * c /\ den * (2 * net) = 2 * (den * net) /\ den * c = c * den
      BY <2>1, <2>2, <2>3, ProductsOrdered
    <3>2. c * den <= c * 13333
      BY <2>1, ProductsOrdered
    <3>3. 20000 * c < 13333 * c + den
      BY <2>1, <2>2, <3>1, <3>2
    <3>4. c = 1
      BY <2>1, <3>3
    <3>5. net = 0
      BY <2>2, <2>3, <3>4
    <3> QED
      BY <2>1, <2>2, <3>4, <3>5
  <2> QED
    BY <1>2, <2>1, <2>2, <2>3 DEF Taxed
<1> QED
  BY <1>1, <1>2

\* The VAT a refund reverses: no more than its amount, nor than is left; unless
\* the cap or the completion decides, the rounded share.
LEMMA ComponentFits ==
    ASSUME NEW inv, Frozen(inv), NEW before \in Nat, NEW returned \in Nat, NEW amount \in Nat
    PROVE  LET c == VatComponent(inv, before, returned, amount)
               left == IF returned <= inv.vat THEN inv.vat - returned ELSE 0
           IN  /\ c \in Nat /\ c <= amount /\ c <= left
               /\ before + amount = inv.total => c \in {amount, left}
               /\ before + amount # inv.total => c \in {Rounded(inv, amount), left}
<1> DEFINE c == VatComponent(inv, before, returned, amount)
           left == IF returned <= inv.vat THEN inv.vat - returned ELSE 0
           x == IF before + amount = inv.total THEN amount ELSE Rounded(inv, amount)
<1>1. left \in Nat /\ Remaining(inv, returned) = left
  <2>1. inv.vat \in Nat /\ inv.vat - returned \in Int
    BY DEF Frozen
  <2> DEFINE y == inv.vat - returned
  <2>2. Remaining(inv, returned) = Max({0, y}) /\ 0 \in Int
    BY DEF Remaining
  <2> HIDE DEF y
  <2>3. Max({0, y}) \in {0, y} /\ Max({0, y}) >= 0 /\ Max({0, y}) >= y
    BY <2>1, <2>2, MaxOfTwo, Zenon DEF y
  <2> QED
    BY <2>1, <2>2, <2>3 DEF y
<1>2. x \in Nat /\ x <= amount
  BY RoundedFits
<1>3. c = Min({x, left})
  BY <1>1 DEF VatComponent, PartialVat, Rounded
<1> HIDE DEF left
<1>4. Min({x, left}) \in {x, left} /\ Min({x, left}) <= x /\ Min({x, left}) <= left
  <2> HIDE DEF x
  <2> QED
    BY <1>1, <1>2, MinOfTwo
<1>5. /\ c \in Nat /\ c <= amount /\ c <= left
      /\ c \in {x, left}
  <2> HIDE DEF c, x
  <2> QED
    BY <1>1, <1>2, <1>3, <1>4
<1> QED
  BY <1>5 DEF left

-----------------------------------------------------------------------------
(***************************************************************************)
(* A series of partial refunds.                                            *)
(***************************************************************************)
\* What every refund of the series leaves, at any rate.
SeriesInv == /\ Frozen(invoice)
             /\ refunded \in Nat /\ back \in Nat /\ parts \in Nat
             /\ refunded <= invoice.total
             /\ back <= invoice.vat /\ back <= refunded
             /\ DriftBounded

\* A rounded part adds at most half a unit to the drift.
LEMMA DriftAdds ==
    ASSUME NEW v \in Nat, NEW t \in Nat, NEW r \in Nat, NEW b \in Nat, NEW k \in Nat,
           NEW a \in Nat, NEW c \in Nat,
           2 * (r * v - b * t) <= k * t,
           2 * (a * v) <= 2 * (t * c) + t
    PROVE  2 * ((r + a) * v - (b + c) * t) <= (k + 1) * t
<1>1. (r + a) * v = r * v + a * v /\ (b + c) * t = b * t + t * c /\ (k + 1) * t = k * t + t
  OBVIOUS
<1>2. r * v \in Int /\ a * v \in Int /\ b * t \in Int /\ t * c \in Int /\ k * t \in Int
  OBVIOUS
<1> QED
  BY <1>1, <1>2

\* Once all the VAT is back nothing is owed.
LEMMA NoDriftLeft ==
    ASSUME NEW v \in Nat, NEW t \in Nat, NEW r \in Nat, NEW k \in Nat, r <= t
    PROVE  2 * (r * v - v * t) <= k * t
<1>1. v * r <= v * t /\ v * r = r * v /\ v * r \in Nat /\ v * t \in Nat
  BY ProductsOrdered
<1>2. k * t \in Nat
  OBVIOUS
<1> QED
  BY <1>1, <1>2

\* The last of four parts can take what is left of the VAT, when the VAT is less
\* than half of the total.
LEMMA LastPartAbsorbs ==
    ASSUME NEW v \in Nat, NEW t \in Nat, NEW r \in Nat, NEW b \in Nat, NEW k \in Nat,
           NEW a \in Nat, a > 0, r + a = t, b <= v, k <= 3, 2 * v < t,
           2 * (r * v - b * t) <= k * t
    PROVE  v - b <= a
<1> SUFFICES ASSUME a + 1 <= v - b PROVE FALSE
  OBVIOUS
<1> DEFINE left == v - b
<1>1. left \in Nat /\ b = v - left
  OBVIOUS
<1>2. r * v = t * v - a * v
  <2>1. r = t - a
    OBVIOUS
  <2> QED
    BY <2>1
<1>3. b * t = t * v - t * left
  BY <1>1
<1> HIDE DEF left
<1>4. t * (a + 1) <= t * left /\ t * (a + 1) = t * a + t
  <2>1. a + 1 <= left /\ a + 1 \in Nat
    BY DEF left
  <2> QED
    BY <1>1, <2>1, ProductsOrdered
<1>5. a * (2 * v + 1) <= a * t /\ a * (2 * v + 1) = 2 * (a * v) + a /\ a * t = t * a
  <2>1. 2 * v + 1 <= t /\ 2 * v + 1 \in Nat
    OBVIOUS
  <2> QED
    BY <2>1, ProductsOrdered
<1>6. k * t <= 3 * t
  <2>1. t * k <= t * 3 /\ t * k = k * t
    BY ProductsOrdered
  <2> QED
    BY <2>1
<1>7. t <= a * t
  <2>1. t * 1 <= t * a
    BY ProductsOrdered
  <2> QED
    BY <2>1
<1>8. /\ t * a \in Int /\ t * v \in Int /\ a * v \in Int /\ t * left \in Int
      /\ k * t \in Int
  BY <1>1
<1> QED
  BY <1>2, <1>3, <1>4, <1>5, <1>6, <1>7, <1>8

\* A refund keeps it.
LEMMA RefundKeeps ==
    ASSUME SeriesInv, NEW amount \in Nat, amount > 0, Refund(amount)
    PROVE  /\ SeriesInv'
           /\ 2 * invoice.vat < invoice.total => ExactInFourParts'
<1> DEFINE v == invoice.vat
           t == invoice.total
           c == VatComponent(invoice, refunded, back, amount)
           left == IF back <= invoice.vat THEN invoice.vat - back ELSE 0
<1>1. /\ Frozen(invoice)
      /\ v \in Nat /\ t \in Nat /\ t > 0 /\ v <= t
      /\ refunded \in Nat /\ back \in Nat /\ parts \in Nat
      /\ refunded <= t /\ back <= v /\ back <= refunded
  BY DEF SeriesInv, Frozen
<1>2. /\ refunded + amount <= t
      /\ invoice' = invoice /\ refunded' = refunded + amount
      /\ back' = back + c /\ parts' = parts + 1
  BY DEF Refund
<1>3. left = v - back
  BY <1>1
<1>4. /\ c \in Nat /\ c <= amount /\ c <= left
      /\ refunded + amount = t => c \in {amount, left}
      /\ refunded + amount # t => c \in {Rounded(invoice, amount), left}
  BY <1>1, ComponentFits
<1>5. 2 * (refunded * v - back * t) <= parts * t
  BY <1>1, <1>2 DEF SeriesInv, DriftBounded, FullyRefunded
<1>6. 2 * (amount * v) <= 2 * (t * Rounded(invoice, amount)) + t
  BY <1>1, RoundedFits
<1> HIDE DEF v, t, c, left
<1>7. /\ refunded' \in Nat /\ back' \in Nat /\ parts' \in Nat
      /\ refunded' <= t /\ back' <= v /\ back' <= refunded'
  BY <1>1, <1>2, <1>3, <1>4
<1>8. refunded' # t => 2 * (refunded' * v - back' * t) <= parts' * t
  <2> SUFFICES ASSUME refunded + amount # t
               PROVE  2 * ((refunded + amount) * v - (back + c) * t) <= (parts + 1) * t
    BY <1>2
  <2>1. CASE c = Rounded(invoice, amount)
    <3>1. 2 * (amount * v) <= 2 * (t * c) + t
      BY <1>6, <2>1
    <3> QED
      BY <1>1, <1>4, <1>5, <3>1, DriftAdds
  <2>2. CASE c = left
    <3>1. back + c = v
      BY <1>1, <1>3, <2>2
    <3>2. 2 * ((refunded + amount) * v - v * t) <= (parts + 1) * t
      <4>1. refunded + amount \in Nat /\ parts + 1 \in Nat
        BY <1>1
      <4> QED
        BY <1>1, <1>2, <4>1, NoDriftLeft
    <3> QED
      BY <3>1, <3>2
  <2> QED
    BY <1>4, <2>1, <2>2
<1>9. SeriesInv'
  BY <1>1, <1>2, <1>7, <1>8 DEF SeriesInv, DriftBounded, FullyRefunded, v, t
<1>10. ASSUME 2 * v < t, refunded' = t, parts' <= 4
       PROVE  back' = v
  <2>1. refunded + amount = t /\ parts <= 3
    BY <1>1, <1>2, <1>10
  <2>2. v - back <= amount
    BY <1>1, <1>5, <1>10, <2>1, LastPartAbsorbs
  <2> QED
    BY <1>1, <1>2, <1>3, <1>4, <2>1, <2>2
<1> QED
  BY <1>2, <1>9, <1>10 DEF ExactInFourParts, FullyRefunded, v, t

\* Any rate: no part reverses VAT that is not there or not in its amount, and the
\* rounding never drifts by more than half a minor unit per part
\* (settlement-refunds.service.ts, the VAT component of each refund).
THEOREM SeriesHolds == SeriesSpec => []SeriesInv
<1>1. SeriesInit => SeriesInv
  <2> SUFFICES ASSUME SeriesInit PROVE SeriesInv
    OBVIOUS
  <2>1. PICK c \in 1..MaxCharge, i \in BOOLEAN : invoice = Taxed(c, i)
    BY DEF SeriesInit
  <2>2. Frozen(invoice)
    <3>1. c \in Nat /\ c > 0
      BY SeriesAssumption
    <3> QED
      BY <2>1, <3>1, TaxedIsFrozen
  <2>3. 2 * (0 * invoice.vat - 0 * invoice.total) <= 0 * invoice.total
    BY <2>2 DEF Frozen
  <2> QED
    BY <2>2, <2>3 DEF SeriesInit, SeriesInv, DriftBounded, Frozen
<1>2. SeriesInv /\ [SeriesNext]_seriesVars => SeriesInv'
  <2> SUFFICES ASSUME SeriesInv, [SeriesNext]_seriesVars PROVE SeriesInv'
    OBVIOUS
  <2>1. CASE SeriesNext
    <3>1. PICK amount \in 1..(2 * MaxCharge) : Refund(amount)
      BY <2>1 DEF SeriesNext
    <3>2. amount \in Nat /\ amount > 0
      BY SeriesAssumption
    <3> QED
      BY <3>1, <3>2, RefundKeeps
  <2>2. CASE UNCHANGED seriesVars
    BY <2>2 DEF seriesVars, SeriesInv, DriftBounded, FullyRefunded
  <2> QED
    BY <2>1, <2>2
<1> QED
  BY <1>1, <1>2, PTL DEF SeriesSpec

\* Up to a VAT rate of one third a reversal in at most four parts returns exactly
\* the frozen VAT; with SeriesHolds, all that ReversalIsSound asks.  (The rate in
\* force is fifteen hundredths.)
THEOREM ReversalsSound ==
    ASSUME 3 * RateBp <= RateScale
    PROVE  SeriesSpec => []ReversalIsSound
<1> DEFINE Inv == SeriesInv /\ 2 * invoice.vat < invoice.total /\ ExactInFourParts
<1>1. SeriesInit /\ SeriesInv => Inv
  <2> SUFFICES ASSUME SeriesInit, SeriesInv PROVE Inv
    OBVIOUS
  <2>1. PICK c \in 1..MaxCharge, i \in BOOLEAN : invoice = Taxed(c, i)
    BY DEF SeriesInit
  <2>2. 2 * invoice.vat < invoice.total
    <3>1. c \in Nat /\ c > 0
      BY SeriesAssumption
    <3> QED
      BY <2>1, <3>1, LowRateIsLow
  <2>3. ~FullyRefunded
    BY DEF SeriesInit, SeriesInv, Frozen, FullyRefunded
  <2> QED
    BY <2>2, <2>3 DEF ExactInFourParts
<1>2. Inv /\ [SeriesNext]_seriesVars => Inv'
  <2> SUFFICES ASSUME Inv, [SeriesNext]_seriesVars PROVE Inv'
    OBVIOUS
  <2>1. CASE SeriesNext
    <3>1. PICK amount \in 1..(2 * MaxCharge) : Refund(amount)
      BY <2>1 DEF SeriesNext
    <3>2. amount \in Nat /\ amount > 0 /\ invoice' = invoice
      BY <3>1, SeriesAssumption DEF Refund
    <3>3. SeriesInv' /\ ExactInFourParts'
      BY <3>1, <3>2, RefundKeeps
    <3> QED
      BY <3>2, <3>3
  <2>2. CASE UNCHANGED seriesVars
    BY <2>2 DEF seriesVars, SeriesInv, DriftBounded, ExactInFourParts, FullyRefunded
  <2> QED
    BY <2>1, <2>2
<1>3. Inv => ReversalIsSound
  <2> SUFFICES ASSUME Inv PROVE ReversalIsSound
    OBVIOUS
  <2> DEFINE v == invoice.vat
  <2>1. /\ v \in Nat /\ refunded \in Nat /\ back \in Nat
        /\ back <= v /\ back <= refunded
    BY DEF SeriesInv, Frozen
  <2>2. VatWithinFrozen
    <3> HIDE DEF v
    <3>1. Min({v, refunded}) \in {v, refunded}
      <4>1. v \in Int /\ refunded \in Int
        BY <2>1
      <4> QED
        BY <4>1, MinOfTwo
    <3> QED
      BY <2>1, <3>1 DEF VatWithinFrozen, v
  <2> QED
    BY <2>2 DEF ReversalIsSound, SeriesInv
<1> HIDE DEF Inv
<1> QED
  BY <1>1, <1>2, <1>3, SeriesHolds, PTL DEF SeriesSpec

-----------------------------------------------------------------------------
(***************************************************************************)
(* Sums over the rows of an invoice.                                       *)
(***************************************************************************)
\* The weights a sum over rows adds up.
AmountOf(S) == [r \in S |-> r.amount]
VatOf(S) == [r \in S |-> r.vat]
NetOf(S) == [r \in S |-> r.amount - r.vat]

AddsAmounts(g, S) ==
    g = [s \in SUBSET S |-> IF s = {} THEN 0 ELSE Chosen(s).amount + g[s \ {Chosen(s)}]]
AddsVats(g, S) ==
    g = [s \in SUBSET S |-> IF s = {} THEN 0 ELSE Chosen(s).vat + g[s \ {Chosen(s)}]]
AddsNets(g, S) ==
    g = [s \in SUBSET S |-> IF s = {} THEN 0
                            ELSE (Chosen(s).amount - Chosen(s).vat) + g[s \ {Chosen(s)}]]

\* The total of some rows is the sum of their amounts.
LEMMA SumAddsAmounts ==
    ASSUME NEW S, IsFiniteSet(S), NEW w, \A r \in S : w[r] = r.amount
    PROVE  Sum(S) = SumOf(w, S)
<1> DEFINE g == CHOOSE h : AddsAmounts(h, S)
<1>1. Sum(S) = g[S]
  BY DEF Sum, MapThenSumSet, MapThenFoldSet, AddsAmounts, Chosen
<1>2. ASSUME NEW h PROVE AddsAmounts(h, S) <=> Unfolds(h, w, S)
  <2> DEFINE A(s) == IF s = {} THEN 0 ELSE Chosen(s).amount + h[s \ {Chosen(s)}]
             U(s) == IF s = {} THEN 0 ELSE w[Chosen(s)] + h[s \ {Chosen(s)}]
  <2>1. \A s \in SUBSET S : A(s) = U(s)
    BY ChosenInSet
  <2>2. [s \in SUBSET S |-> A(s)] = [s \in SUBSET S |-> U(s)]
    <3> HIDE DEF A, U
    <3> QED
      BY <2>1
  <2> QED
    BY <2>2 DEF AddsAmounts, Unfolds
<1>3. \E h : AddsAmounts(h, S)
  BY <1>2, UnfoldsExist
<1>4. AddsAmounts(g, S)
  BY <1>3, Zenon
<1> HIDE DEF g
<1> QED
  BY <1>1, <1>2, <1>4, SumIsUnfolded

\* The VAT of some refunds is the sum of their VAT components.
LEMMA SumAddsVats ==
    ASSUME NEW S, IsFiniteSet(S), NEW w, \A r \in S : w[r] = r.vat
    PROVE  VatSum(S) = SumOf(w, S)
<1> DEFINE g == CHOOSE h : AddsVats(h, S)
<1>1. VatSum(S) = g[S]
  BY DEF VatSum, MapThenSumSet, MapThenFoldSet, AddsVats, Chosen
<1>2. ASSUME NEW h PROVE AddsVats(h, S) <=> Unfolds(h, w, S)
  <2> DEFINE A(s) == IF s = {} THEN 0 ELSE Chosen(s).vat + h[s \ {Chosen(s)}]
             U(s) == IF s = {} THEN 0 ELSE w[Chosen(s)] + h[s \ {Chosen(s)}]
  <2>1. \A s \in SUBSET S : A(s) = U(s)
    BY ChosenInSet
  <2>2. [s \in SUBSET S |-> A(s)] = [s \in SUBSET S |-> U(s)]
    <3> HIDE DEF A, U
    <3> QED
      BY <2>1
  <2> QED
    BY <2>2 DEF AddsVats, Unfolds
<1>3. \E h : AddsVats(h, S)
  BY <1>2, UnfoldsExist
<1>4. AddsVats(g, S)
  BY <1>3, Zenon
<1> HIDE DEF g
<1> QED
  BY <1>1, <1>2, <1>4, SumIsUnfolded

\* The net of some refunds is the sum of what their VAT leaves.
LEMMA SumAddsNets ==
    ASSUME NEW S, IsFiniteSet(S), NEW w, \A r \in S : w[r] = r.amount - r.vat
    PROVE  NetSum(S) = SumOf(w, S)
<1> DEFINE g == CHOOSE h : AddsNets(h, S)
<1>1. NetSum(S) = g[S]
  BY DEF NetSum, MapThenSumSet, MapThenFoldSet, AddsNets, Chosen
<1>2. ASSUME NEW h PROVE AddsNets(h, S) <=> Unfolds(h, w, S)
  <2> DEFINE A(s) == IF s = {} THEN 0
                     ELSE (Chosen(s).amount - Chosen(s).vat) + h[s \ {Chosen(s)}]
             U(s) == IF s = {} THEN 0 ELSE w[Chosen(s)] + h[s \ {Chosen(s)}]
  <2>1. \A s \in SUBSET S : A(s) = U(s)
    BY ChosenInSet
  <2>2. [s \in SUBSET S |-> A(s)] = [s \in SUBSET S |-> U(s)]
    <3> HIDE DEF A, U
    <3> QED
      BY <2>1
  <2> QED
    BY <2>2 DEF AddsNets, Unfolds
<1>3. \E h : AddsNets(h, S)
  BY <1>2, UnfoldsExist
<1>4. AddsNets(g, S)
  BY <1>3, Zenon
<1> HIDE DEF g
<1> QED
  BY <1>1, <1>2, <1>4, SumIsUnfolded

\* Rows whose amounts add up.
Countable(S) == IsFiniteSet(S) /\ \A r \in S : r.amount \in Nat /\ r.amount > 0

\* A total is a natural, zero of no row, positive of any.
LEMMA SumOfRows ==
    ASSUME NEW S, Countable(S)
    PROVE  Sum(S) \in Nat /\ (S = {} <=> Sum(S) = 0)
<1> DEFINE w == AmountOf(S)
<1>1. IsFiniteSet(S) /\ \A r \in S : w[r] = r.amount /\ w[r] \in Nat /\ w[r] > 0
  BY DEF Countable, AmountOf
<1> HIDE DEF w
<1>2. Sum(S) = SumOf(w, S) /\ SumOf(w, S) \in Nat
  BY <1>1, SumAddsAmounts, SumIsNatural
<1>3. CASE S = {}
  BY <1>2, <1>3, SumEmpty
<1>4. CASE S # {}
  <2>1. PICK e \in S : TRUE
    BY <1>4
  <2>2. SumOf(w, S) = w[e] + SumOf(w, S \ {e})
    BY <1>1, <2>1, SumRemove
  <2>3. SumOf(w, S \ {e}) \in Nat
    <3>1. IsFiniteSet(S \ {e}) /\ \A r \in S \ {e} : w[r] \in Nat
      BY <1>1, FS_Subset
    <3> QED
      BY <3>1, SumIsNatural
  <2> QED
    BY <1>1, <1>2, <1>4, <2>1, <2>2, <2>3
<1> QED
  BY <1>2, <1>3, <1>4

\* More rows, larger total.
LEMMA SumGrows ==
    ASSUME NEW S, Countable(S), NEW R \in SUBSET S
    PROVE  Countable(R) /\ Sum(R) <= Sum(S)
<1> DEFINE w == AmountOf(S)
<1>1. /\ IsFiniteSet(S) /\ IsFiniteSet(R)
      /\ \A r \in S : w[r] = r.amount /\ w[r] \in Nat
  BY FS_Subset DEF Countable, AmountOf
<1> HIDE DEF w
<1>2. Sum(S) = SumOf(w, S) /\ Sum(R) = SumOf(w, R)
  BY <1>1, SumAddsAmounts
<1>3. SumOf(w, R) <= SumOf(w, S)
  BY <1>1, SumMonotone
<1> QED
  BY <1>1, <1>2, <1>3 DEF Countable

\* A new row adds its amount.
LEMMA SumOfOneMore ==
    ASSUME NEW S, Countable(S), NEW e, e \notin S, e.amount \in Nat, e.amount > 0
    PROVE  Countable(S \cup {e}) /\ Sum(S \cup {e}) = Sum(S) + e.amount
<1> DEFINE R == S \cup {e}
           w == AmountOf(R)
<1>1. /\ IsFiniteSet(S) /\ IsFiniteSet(R)
      /\ \A r \in R : w[r] = r.amount /\ w[r] \in Nat
  BY FS_AddElement DEF Countable, AmountOf
<1>2. Countable(R)
  BY <1>1 DEF Countable
<1> HIDE DEF w
<1>3. Sum(S) = SumOf(w, S) /\ Sum(R) = SumOf(w, R)
  BY <1>1, SumAddsAmounts
<1>4. SumOf(w, S \cup {e}) = SumOf(w, S) + w[e]
  BY <1>1, SumAdd
<1> QED
  BY <1>1, <1>2, <1>3, <1>4

\* The VAT and the net of refunds that fit are naturals.
LEMMA PartsOfRows ==
    ASSUME NEW S, Countable(S), \A r \in S : r.vat \in Nat /\ r.vat <= r.amount
    PROVE  /\ VatSum(S) \in Nat
           /\ NetSum(S) \in Nat
<1> DEFINE w == VatOf(S)
           n == NetOf(S)
<1>1. /\ IsFiniteSet(S)
      /\ \A r \in S : w[r] = r.vat /\ w[r] \in Nat
      /\ \A r \in S : n[r] = r.amount - r.vat /\ n[r] \in Nat
  BY DEF Countable, VatOf, NetOf
<1> HIDE DEF w, n
<1>2. VatSum(S) = SumOf(w, S) /\ SumOf(w, S) \in Nat
  BY <1>1, SumAddsVats, SumIsNatural
<1>3. NetSum(S) = SumOf(n, S) /\ SumOf(n, S) \in Nat
  BY <1>1, SumAddsNets, SumIsNatural
<1> QED
  BY <1>2, <1>3

-----------------------------------------------------------------------------
(***************************************************************************)
(* The coverage of an invoice.                                             *)
(***************************************************************************)
\* What holds of the rows, whatever the requests in flight.
RowsTyped ==
    /\ status \in {"issued", "paid"}
    /\ balance \in {"open", "partially_credited", "closed_by_credit", "closed_by_payment"}
    /\ receipt \subseteq [ref : References, amount : Amounts]
    /\ refund \subseteq [ref : References, amount : Amounts, vat : 0..Invoice.vat,
                         cash : BOOLEAN]
    /\ revenue \subseteq 1..Charge
    /\ item \in BOOLEAN
    /\ IsFiniteSet(receipt) /\ IsFiniteSet(refund)
    /\ RefundsFit

RowsHold == RowsTyped /\ NeverOverCollected /\ PaidByMoneyOnly /\ RevenueIsEarned

\* What holds of a request.
RequestFits(r) == (r.pc = "idle" => r = NoRequest) /\ StillHolds(r)
RequestsFit == request \in [Actors -> RequestRows] /\ \A a \in Actors : RequestFits(request[a])

\* Amounts are positive.
LEMMA AmountsPositive == \A n \in Amounts : n \in Nat /\ n > 0
  BY CoverageAssumption

\* What a covered invoice is owed, as an invoice of the tax engine.
LEMMA InvoiceIsFrozen ==
    /\ Frozen(Invoice) /\ Invoice.vat \in Nat /\ Invoice.total \in Nat
    /\ Invoice.total = Charge + Invoice.vat /\ Charge \in Nat
<1>1. Charge \in Nat /\ Charge > 0
  BY CoverageAssumption
<1>2. Frozen(Invoice)
  BY <1>1, TaxedIsFrozen DEF Invoice
<1>3. Invoice.total = Charge + Invoice.vat
  BY DEF Invoice, Taxed
<1> QED
  BY <1>1, <1>2, <1>3 DEF Frozen

\* The totals over the rows.
RowSums ==
    /\ Countable(receipt) /\ Countable(refund) /\ Countable(Credits)
    /\ Countable({r \in refund : r.cash})
    /\ Received \in Nat /\ (receipt = {} <=> Received = 0)
    /\ Credited \in Nat /\ CashBack \in Nat /\ Sum(refund) \in Nat
    /\ Credited <= Sum(refund) /\ (~Corporate => Credited = 0)
    /\ Owed = Invoice.total - Credited /\ Owed \in Int
    /\ Earned \in 0..Charge

\* They follow from the shape of the rows.
LEMMA SumsOfRows == RowsTyped => RowSums
<1> SUFFICES ASSUME RowsTyped PROVE RowSums
  OBVIOUS
<1>1. \A n \in Amounts : n \in Nat /\ n > 0
  BY AmountsPositive
<1>2. Countable(receipt)
  <2>1. \A r \in receipt : r.amount \in Amounts
    BY DEF RowsTyped
  <2> QED
    BY <1>1, <2>1 DEF RowsTyped, Countable
<1>3. Countable(refund)
  <2>1. \A r \in refund : r.amount \in Amounts
    BY DEF RowsTyped
  <2> QED
    BY <1>1, <2>1 DEF RowsTyped, Countable
<1>4. /\ Countable(Credits) /\ Sum(Credits) <= Sum(refund)
      /\ Countable({r \in refund : r.cash})
  <2>1. Credits \in SUBSET refund /\ {r \in refund : r.cash} \in SUBSET refund
    BY DEF Credits
  <2> QED
    BY <1>3, <2>1, SumGrows
<1>5. Received \in Nat /\ (receipt = {} <=> Received = 0)
  BY <1>2, SumOfRows DEF Received
<1>6. Credited \in Nat /\ CashBack \in Nat /\ Sum(refund) \in Nat
  BY <1>3, <1>4, SumOfRows DEF Credited, CashBack
<1>7. ~Corporate => Credited = 0
  <2>1. ASSUME ~Corporate PROVE Credits = {}
    BY <2>1 DEF RowsTyped, RefundsFit, Credits
  <2> QED
    BY <1>4, <2>1, SumOfRows DEF Credited
<1>8. Owed = Invoice.total - Credited /\ Owed \in Int
  BY <1>6, <1>7, InvoiceIsFrozen DEF Owed
<1>9. Earned \in 0..Charge
  <2> DEFINE n == NetSum(Credits)
             x == Charge - n
  <2>1. n \in Nat
    <3>1. \A r \in Credits : r.vat \in Nat /\ r.vat <= r.amount
      BY InvoiceIsFrozen DEF Credits, RowsTyped, RefundsFit
    <3> QED
      BY <1>4, <3>1, PartsOfRows
  <2>2. Earned = Max({0, x})
    BY DEF Earned
  <2> HIDE DEF n
  <2>3. x \in Int /\ 0 \in Int /\ x <= Charge /\ Charge \in Nat
    BY <2>1, InvoiceIsFrozen
  <2> HIDE DEF x
  <2>4. Max({0, x}) \in {0, x} /\ Max({0, x}) >= 0
    BY <2>3, MaxOfTwo
  <2> QED
    BY <2>2, <2>3, <2>4
<1> QED
  BY <1>2, <1>3, <1>4, <1>5, <1>6, <1>7, <1>8, <1>9 DEF RowSums, Credited

\* The invariant is about the rows and about the requests.
LEMMA InvInHalves ==
    ASSUME CoverageInv
    PROVE  /\ RowsHold /\ request \in [Actors -> RequestRows]
           /\ \A a \in Actors : RequestFits(request[a])
  BY DEF CoverageInv, CoverageIsEarned, TypeOK, RowsHold, RowsTyped, RequestFits

\* A revenue posting is one amount.
LEMMA RevenueIsOne == RevenueIsEarned => Cardinality(revenue) <= 1
<1> SUFFICES ASSUME RevenueIsEarned PROVE Cardinality(revenue) <= 1
  OBVIOUS
<1>1. CASE revenue = {}
  BY <1>1, FS_EmptySet
<1>2. CASE revenue # {}
  <2>1. revenue = {Earned}
    BY <1>2 DEF RevenueIsEarned
  <2> QED
    BY <2>1, FS_Singleton
<1> QED
  BY <1>1, <1>2

\* And the other way round.
LEMMA HalvesMakeInv == RowsHold /\ RequestsFit => CoverageInv
  BY RevenueIsOne
     DEF CoverageInv, CoverageIsEarned, TypeOK, RowsHold, RowsTyped, RequestsFit, RequestFits

\* A request that has ended asks nothing of the rows.
LEMMA NoRequestFits == NoRequest \in RequestRows /\ RequestFits(NoRequest) /\ RequestFits(NoRequest)'
  BY DEF NoRequest, RequestRows, Labels, RequestFits, StillHolds

\* Before the first receipt.
LEMMA InitEstablishesInv == Init => CoverageInv
<1> SUFFICES ASSUME Init PROVE CoverageInv
  OBVIOUS
<1>1. RowsTyped
  BY FS_EmptySet DEF Init, RowsTyped, RefundsFit
<1>2. Received = 0 /\ Credited = 0 /\ CashBack = 0 /\ Invoice.total \in Nat
  <2>1. Countable({}) /\ Sum({}) = 0
    BY FS_EmptySet, SumOfRows DEF Countable
  <2>2. receipt = {} /\ Credits = {} /\ {r \in refund : r.cash} = {}
    BY DEF Init, Credits
  <2> QED
    BY <2>1, <2>2, InvoiceIsFrozen DEF Received, Credited, CashBack
<1>3. NeverOverCollected /\ PaidByMoneyOnly /\ RevenueIsEarned
  BY <1>2 DEF Init, NeverOverCollected, PaidByMoneyOnly, RevenueIsEarned
<1>4. RequestsFit
  BY NoRequestFits DEF Init, RequestsFit
<1> QED
  BY <1>1, <1>3, <1>4, HalvesMakeInv DEF RowsHold

\* What no step undoes: receipts and credits only grow, paid stays paid.
Grows ==
    /\ kind' = kind /\ receipt \subseteq receipt'
    /\ status = "paid" => status' = "paid"
    /\ Received <= Received' /\ Owed' <= Owed
    /\ Credited = Invoice.total => Credited' = Invoice.total

\* So nothing a request acts on is taken from it by another.
LEMMA FitsSurvives ==
    ASSUME RowSums, RowSums', Grows, NEW r \in RequestRows, RequestFits(r)
    PROVE  RequestFits(r)'
<1>1. Received \in Int /\ Received' \in Int /\ Owed \in Int /\ Owed' \in Int /\ r.got \in Nat
  BY DEF RowSums, RequestRows
<1>2. Corporate' = Corporate
  BY DEF Grows, Corporate
<1>3. r.pc = "credits" => r.got <= Received'
  BY <1>1 DEF RequestFits, StillHolds, Grows
<1>4. r.pc = "flip" => receipt' # {} /\ Received' >= Owed'
  BY <1>1 DEF RequestFits, StillHolds, Grows
<1> QED
  BY <1>2, <1>3, <1>4 DEF RequestFits, StillHolds, Grows

\* One request has moved to where it may stand.
Moves(a) ==
    /\ request' \in [Actors -> RequestRows]
    /\ \A c \in Actors : c # a => request'[c] = request[c]
    /\ \A r \in RequestRows : r = request'[a] => RequestFits(r)'

\* A step of one request that only adds to the rows.
LEMMA StepKeepsInv ==
    ASSUME CoverageInv, NEW a \in Actors, Moves(a), Grows, RowsHold'
    PROVE  CoverageInv'
<1>1. request \in [Actors -> RequestRows] /\ \A c \in Actors : RequestFits(request[c])
  BY InvInHalves
<1>2. RowSums /\ RowSums'
  <2>1. RowsTyped /\ RowsTyped'
    BY InvInHalves DEF RowsHold
  <2> QED
    BY <2>1, SumsOfRows, PTL
<1>3. \A c \in Actors : RequestFits(request[c])'
  <2> SUFFICES ASSUME NEW c \in Actors PROVE RequestFits(request[c])'
    OBVIOUS
  <2>1. \A r \in RequestRows : RequestFits(r) => RequestFits(r)'
    BY <1>2, FitsSurvives
  <2>2. request'[c] \in RequestRows
    BY DEF Moves
  <2>3. \A r \in RequestRows : r = request'[c] => RequestFits(r)'
    BY <1>1, <2>1 DEF Moves
  <2>4. \A r \in RequestRows : r = request'[c] => RequestFits(request[c])'
    BY <2>3 DEF RequestFits, StillHolds
  <2> QED
    BY <2>2, <2>4
<1>4. RowsHold' /\ RequestsFit'
  BY <1>3 DEF RequestsFit, Moves
<1> QED
  BY <1>4, HalvesMakeInv, PTL

\* The totals of rows that stay.
LEMMA SumsStand ==
    /\ receipt' = receipt => Received' = Received
    /\ kind' = kind => Corporate' = Corporate
    /\ refund' = refund => /\ Credits' = Credits /\ Credited' = Credited
                           /\ CashBack' = CashBack /\ Earned' = Earned
    /\ kind' = kind /\ refund' = refund => Owed' = Owed
<1>1. kind' = kind => Corporate' = Corporate
  BY DEF Corporate
<1>2. receipt' = receipt => Received' = Received
  BY DEF Received
<1>3. ASSUME refund' = refund
      PROVE  /\ Credits' = Credits /\ Credited' = Credited
             /\ CashBack' = CashBack /\ Earned' = Earned
  <2>1. Credits' = Credits
    BY <1>3 DEF Credits
  <2>2. Credited' = Credited
    BY <2>1 DEF Credited
  <2>3. Earned' = Earned
    BY <2>1 DEF Earned
  <2> QED
    BY <1>3, <2>1, <2>2, <2>3 DEF CashBack
<1> QED
  BY <1>1, <1>2, <1>3 DEF Owed

\* The rows stay as they are.
LEMMA RowsStand ==
    ASSUME CoverageInv, UNCHANGED <<kind, money>>
    PROVE  RowsHold' /\ Grows
<1>1. RowsHold /\ RowSums
  BY InvInHalves, SumsOfRows DEF RowsHold
<1>2. /\ Received' = Received /\ Credited' = Credited /\ CashBack' = CashBack /\ Owed' = Owed
      /\ Earned' = Earned /\ Corporate' = Corporate
  BY SumsStand DEF money
<1>3. RowsTyped'
  BY <1>1 DEF money, RowsHold, RowsTyped, RefundsFit, Corporate
<1>4. (NeverOverCollected /\ PaidByMoneyOnly /\ RevenueIsEarned)'
  BY <1>1, <1>2 DEF money, RowsHold, NeverOverCollected, PaidByMoneyOnly, RevenueIsEarned
<1>5. Grows
  BY <1>1, <1>2 DEF money, Grows, RowSums
<1> QED
  BY <1>3, <1>4, <1>5 DEF RowsHold

\* A request ends.
LEMMA DoneMoves ==
    ASSUME CoverageInv, NEW a \in Actors, Done(a)
    PROVE  Moves(a)
<1>1. request \in [Actors -> RequestRows] /\ request' = [request EXCEPT ![a] = NoRequest]
  BY InvInHalves DEF Done
<1> QED
  BY <1>1, NoRequestFits DEF Moves

\* A request goes on to a step whose ground holds.
LEMMA GotoMoves ==
    ASSUME CoverageInv, NEW a \in Actors,
           NEW label \in Labels \ {"idle", "receipt", "refund", "credits"},
           Goto(a, label), Grows,
           label = "credit_close" => Credited' = Invoice.total,
           label = "flip" => receipt' # {} /\ Received' >= Owed',
           label \in {"paid_audit", "artifacts", "heal_artifacts"} => status' = "paid"
    PROVE  Moves(a)
<1> DEFINE q == [request[a] EXCEPT !.pc = label]
<1>1. request \in [Actors -> RequestRows] /\ RequestFits(request[a])
  BY InvInHalves
<1>2. request' = [request EXCEPT ![a] = q] /\ q \in RequestRows
  BY <1>1 DEF Goto, RequestRows
<1>3. q.pc = label /\ q.loaded = request[a].loaded
  BY <1>1 DEF RequestRows
<1>4. q.loaded = "paid" => status' = "paid"
  BY <1>1, <1>3 DEF RequestFits, StillHolds, Grows
<1> HIDE DEF q
<1>5. ASSUME NEW r, r = q PROVE RequestFits(r)'
  BY <1>3, <1>4, <1>5 DEF RequestFits, StillHolds
<1> QED
  BY <1>1, <1>2, <1>5 DEF Moves

\* A derivation ends, or hands over to the rest of a retried refund.
LEMMA DerivedMoves ==
    ASSUME CoverageInv, NEW a \in Actors, Derived(a), Grows
    PROVE  Moves(a)
<1>1. CASE request[a].then = "idle"
  BY <1>1, DoneMoves DEF Derived
<1>2. CASE request[a].then # "idle"
  <2> DEFINE q == [request[a] EXCEPT !.pc = request[a].then, !.then = "idle"]
  <2>1. request \in [Actors -> RequestRows] /\ RequestFits(request[a])
    BY InvInHalves
  <2>2. request[a] \in RequestRows /\ request[a].then = "refund_reaudit"
    BY <1>2, <2>1 DEF RequestRows
  <2>3. request' = [request EXCEPT ![a] = q] /\ q \in RequestRows
    BY <1>2, <2>1, <2>2 DEF Derived, RequestRows, Labels
  <2>4. q.pc = "refund_reaudit" /\ q.loaded = request[a].loaded
    BY <2>2 DEF RequestRows
  <2>5. q.loaded = "paid" => status' = "paid"
    BY <2>1, <2>4 DEF RequestFits, StillHolds, Grows
  <2> HIDE DEF q
  <2>6. ASSUME NEW r, r = q PROVE RequestFits(r)'
    BY <2>4, <2>5, <2>6 DEF RequestFits, StillHolds
  <2> QED
    BY <2>1, <2>3, <2>6 DEF Moves
<1> QED
  BY <1>1, <1>2

\* A request arrives: what it loaded is the status as it is.
LEMMA BeginKeepsInv ==
    ASSUME CoverageInv, NEW a \in Actors, NEW ref \in References, NEW amount \in Amounts,
           ReceiptBegin(a, ref, amount) \/ RefundBegin(a, ref, amount)
    PROVE  CoverageInv'
<1> DEFINE label == IF ReceiptBegin(a, ref, amount) THEN "receipt" ELSE "refund"
           rows == IF ReceiptBegin(a, ref, amount) THEN receipt ELSE refund
           q == [pc |-> label, ref |-> ref, amount |-> amount, loaded |-> status,
                 got |-> 0, known |-> Recorded(rows, ref), then |-> "idle"]
<1>1. /\ request' = [request EXCEPT ![a] = q] /\ UNCHANGED <<kind, money>>
      /\ label \in {"receipt", "refund"} /\ (label = "refund" => Corporate)
  BY DEF ReceiptBegin, RefundBegin, Begin, Keep
<1>2. RowsHold /\ request \in [Actors -> RequestRows]
  BY InvInHalves
<1>3. RowsHold' /\ Grows
  BY <1>1, RowsStand
<1>4. status \in {"issued", "paid"} /\ status' = status /\ Corporate' = Corporate
  BY <1>1, <1>2, SumsStand DEF RowsHold, RowsTyped, money
<1>5. q \in RequestRows
  <2>1. Recorded(rows, ref) \in BOOLEAN
    BY DEF Recorded
  <2> QED
    BY <1>1, <1>4, <2>1 DEF RequestRows, Labels
<1>6. /\ q.pc = label /\ q.loaded = status /\ q.ref \in References /\ q.amount \in Amounts
  OBVIOUS
<1> HIDE DEF q, label
<1>7. ASSUME NEW r, r = q PROVE RequestFits(r)'
  BY <1>1, <1>4, <1>6, <1>7 DEF RequestFits, StillHolds
<1>8. Moves(a)
  BY <1>1, <1>2, <1>5, <1>7 DEF Moves
<1> QED
  BY <1>3, <1>8, StepKeepsInv

\* Steps that only read, audit, or find what has been done.
LEMMA PlainStepsKeepInv ==
    ASSUME CoverageInv, NEW a \in Actors,
           \/ ReceiptReplay(a) \/ ReceiptAudit(a) \/ NoteAudit(a) \/ RefundAudit(a)
           \/ CreditAudit(a) \/ PaidAudit(a) \/ Refuse(a) \/ Crash(a)
    PROVE  CoverageInv'
<1>1. UNCHANGED <<kind, money>>
  BY DEF ReceiptReplay, ReceiptAudit, NoteAudit, RefundAudit, CreditAudit, PaidAudit, Refuse,
         Crash, Keep
<1>2. RowsHold' /\ Grows /\ status' = status
  BY <1>1, RowsStand DEF money
<1>3. \/ Done(a) \/ Derived(a)
      \/ \E label \in {"derive", "receipt_audit", "refund_audit", "heal_stamp"} : Goto(a, label)
      \/ request[a].pc = "paid_audit" /\ Goto(a, "artifacts")
  BY DEF ReceiptReplay, ReceiptAudit, NoteAudit, RefundAudit, CreditAudit, PaidAudit, Refuse, Crash
<1>4. Moves(a)
  <2>1. ASSUME NEW label \in {"derive", "receipt_audit", "refund_audit", "heal_stamp"},
               Goto(a, label)
        PROVE  Moves(a)
    BY <1>2, <2>1, GotoMoves DEF Labels
  <2>2. CASE request[a].pc = "paid_audit" /\ Goto(a, "artifacts")
    <3>1. status' = "paid"
      BY <1>2, <2>2, InvInHalves DEF RequestFits, StillHolds
    <3> QED
      BY <1>2, <2>2, <3>1, GotoMoves DEF Labels
  <2> QED
    BY <1>2, <1>3, <2>1, <2>2, DoneMoves, DerivedMoves
<1> QED
  BY <1>2, <1>4, StepKeepsInv

\* A refund that is there already: a credit derives the coverage again.
LEMMA RefundReplayKeepsInv ==
    ASSUME CoverageInv, NEW a \in Actors, RefundReplay(a)
    PROVE  CoverageInv'
<1> DEFINE label == IF CreditRef(request[a].ref) THEN "derive" ELSE "refund_reaudit"
           after == IF CreditRef(request[a].ref) THEN "refund_reaudit" ELSE "idle"
           q == [request[a] EXCEPT !.pc = label, !.then = after]
<1>1. RowsHold' /\ Grows
  BY RowsStand DEF RefundReplay, Keep
<1>2. request \in [Actors -> RequestRows] /\ RequestFits(request[a])
  BY InvInHalves
<1>3. request' = [request EXCEPT ![a] = q]
  BY <1>2 DEF RefundReplay
<1>4. label \in {"derive", "refund_reaudit"} /\ after \in {"refund_reaudit", "idle"}
  OBVIOUS
<1> HIDE DEF label, after
<1>5. q \in RequestRows /\ q.pc = label /\ q.loaded = request[a].loaded
  <2>1. request[a] \in RequestRows /\ label \in Labels
    BY <1>2, <1>4 DEF Labels
  <2> QED
    BY <1>4, <2>1 DEF RequestRows
<1>6. q.loaded = "paid" => status' = "paid"
  BY <1>1, <1>2, <1>5 DEF RequestFits, StillHolds, Grows
<1> HIDE DEF q
<1>7. ASSUME NEW r, r = q PROVE RequestFits(r)'
  BY <1>4, <1>5, <1>6, <1>7 DEF RequestFits, StillHolds
<1>8. Moves(a)
  BY <1>2, <1>3, <1>5, <1>7 DEF Moves
<1> QED
  BY <1>1, <1>8, StepKeepsInv

\* The derivation loads the invoice, then the receipts.
LEMMA ReadsKeepInv ==
    ASSUME CoverageInv, NEW a \in Actors, DeriveLoad(a) \/ DeriveReceipts(a)
    PROVE  CoverageInv'
<1>1. UNCHANGED <<kind, money>> /\ RowsHold' /\ Grows
  BY RowsStand DEF DeriveLoad, DeriveReceipts, Keep
<1>2. /\ request \in [Actors -> RequestRows] /\ request[a] \in RequestRows
      /\ RequestFits(request[a]) /\ RowsHold /\ RowSums
  BY InvInHalves, SumsOfRows DEF RowsHold
<1>3. /\ status \in {"issued", "paid"} /\ status' = status /\ Received' = Received
      /\ Received \in Nat
  BY <1>1, <1>2, SumsStand DEF RowsHold, RowsTyped, money, RowSums
<1>4. CASE DeriveLoad(a)
  <2> DEFINE q == [request[a] EXCEPT !.pc = "receipts", !.loaded = status]
  <2>1. request' = [request EXCEPT ![a] = q]
    BY <1>2, <1>4 DEF DeriveLoad
  <2>2. q \in RequestRows /\ q.pc = "receipts" /\ q.loaded = status
    BY <1>2, <1>3 DEF RequestRows, Labels
  <2> HIDE DEF q
  <2>3. ASSUME NEW r, r = q PROVE RequestFits(r)'
    BY <1>3, <2>2, <2>3 DEF RequestFits, StillHolds
  <2>4. Moves(a)
    BY <1>2, <2>1, <2>2, <2>3 DEF Moves
  <2> QED
    BY <1>1, <2>4, StepKeepsInv
<1>5. CASE DeriveReceipts(a)
  <2> DEFINE q == [request[a] EXCEPT !.pc = "credits", !.got = Received]
  <2>1. request' = [request EXCEPT ![a] = q]
    BY <1>2, <1>5 DEF DeriveReceipts
  <2>2. /\ q \in RequestRows /\ q.pc = "credits" /\ q.got = Received
        /\ q.loaded = request[a].loaded
    BY <1>2, <1>3 DEF RequestRows, Labels
  <2>3. q.got <= Received' /\ (q.loaded = "paid" => status' = "paid")
    BY <1>2, <1>3, <2>2 DEF RequestFits, StillHolds
  <2> HIDE DEF q
  <2>4. ASSUME NEW r, r = q PROVE RequestFits(r)'
    BY <2>2, <2>3, <2>4 DEF RequestFits, StillHolds
  <2>5. Moves(a)
    BY <1>2, <2>1, <2>2, <2>4 DEF Moves
  <2> QED
    BY <1>1, <2>5, StepKeepsInv
<1> QED
  BY <1>4, <1>5

\* The branch rests on receipts that are still there and credits read now.
LEMMA DeriveCreditsKeepsInv ==
    ASSUME CoverageInv, NEW a \in Actors, DeriveCredits(a)
    PROVE  CoverageInv'
<1> DEFINE label == Branch(request[a].loaded, request[a].got)
           got == request[a].got
<1>1. UNCHANGED <<kind, money>> /\ RowsHold' /\ Grows
  BY RowsStand DEF DeriveCredits, Keep
<1>2. /\ request[a] \in RequestRows /\ RequestFits(request[a]) /\ RowsHold /\ RowSums
      /\ request[a].pc = "credits"
  BY InvInHalves, SumsOfRows DEF RowsHold, DeriveCredits
<1>3. /\ status' = status /\ Received' = Received /\ Credited' = Credited /\ Owed' = Owed
      /\ receipt' = receipt
  BY <1>1, SumsStand DEF money
<1>4. /\ got \in Nat /\ got <= Received
      /\ request[a].loaded = "paid" => status = "paid"
  BY <1>2 DEF RequestFits, StillHolds, RequestRows
<1>5. label \in {"credit_close", "mark_partial", "heal_artifacts", "flip", "idle"}
  BY DEF Branch
<1>6. label = "credit_close" => Credited = Invoice.total
  <2>1. label = "credit_close" => Owed <= 0
    BY DEF Branch, CoveredByCredit
  <2> QED
    BY <1>2, <2>1, InvoiceIsFrozen DEF RowSums, RowsHold, NeverOverCollected
<1>7. label = "flip" => receipt # {} /\ Received >= Owed
  <2>1. label = "flip" => got > 0 /\ got >= Owed
    BY DEF Branch, CoveredByPayment
  <2> HIDE DEF label, got
  <2> QED
    BY <1>2, <1>4, <2>1 DEF RowSums
<1>8. label = "heal_artifacts" => status = "paid"
  BY <1>4 DEF Branch
<1>9. Derived(a) \/ (label # "idle" /\ Goto(a, label))
  BY DEF DeriveCredits
<1> HIDE DEF label
<1>10. Moves(a)
  <2>1. CASE Derived(a)
    BY <1>1, <2>1, DerivedMoves
  <2>2. CASE label # "idle" /\ Goto(a, label)
    BY <1>1, <1>3, <1>5, <1>6, <1>7, <1>8, <2>2, GotoMoves DEF Labels
  <2> QED
    BY <1>9, <2>1, <2>2
<1> QED
  BY <1>1, <1>10, StepKeepsInv

\* Steps that write to the invoice or its artifacts only.
LEMMA InvoiceWritesKeepInv ==
    ASSUME CoverageInv, NEW a \in Actors,
           CreditClose(a) \/ MarkPartial(a) \/ Flip(a) \/ Artifacts(a) \/ HealStamp(a)
    PROVE  CoverageInv'
<1>1. /\ RowsTyped /\ NeverOverCollected /\ PaidByMoneyOnly /\ RevenueIsEarned /\ RowSums
      /\ StillHolds(request[a])
  BY InvInHalves, SumsOfRows DEF RowsHold, RequestFits
<1>2. UNCHANGED <<kind, receipt, refund>>
  BY DEF CreditClose, MarkPartial, Flip, Artifacts, HealStamp, Keep
<1>3. /\ Received' = Received /\ Credited' = Credited /\ CashBack' = CashBack /\ Owed' = Owed
      /\ Earned' = Earned /\ Corporate' = Corporate
  BY <1>2, SumsStand
<1>4. NeverOverCollected' /\ RefundsFit'
  BY <1>1, <1>2, <1>3 DEF NeverOverCollected, RowsTyped, RefundsFit
<1>5. status = "paid" => status' = "paid"
  BY <1>1 DEF CreditClose, MarkPartial, Flip, Artifacts, HealStamp, Keep, RowsTyped
<1>6. Grows
  BY <1>1, <1>2, <1>3, <1>5 DEF Grows, RowSums
<1>7. CASE CreditClose(a)
  <2>1. UNCHANGED <<status, revenue, item>> /\ balance' \in {balance, "closed_by_credit"}
    BY <1>7 DEF CreditClose, Keep
  <2>2. balance' # balance => /\ status = "issued" /\ balance' = "closed_by_credit"
                              /\ Credited = Invoice.total
    BY <1>1, <1>7 DEF CreditClose, StillHolds
  <2>3. Credited = Invoice.total => receipt = {}
    BY <1>1, InvoiceIsFrozen DEF NeverOverCollected, RowSums
  <2>4. RowsTyped'
    BY <1>1, <1>2, <1>4, <2>1 DEF RowsTyped
  <2>5. PaidByMoneyOnly' /\ RevenueIsEarned'
    BY <1>1, <1>2, <1>3, <2>1, <2>2, <2>3 DEF PaidByMoneyOnly, RevenueIsEarned
  <2>6. Moves(a)
    <3>1. Goto(a, "credit_audit") \/ Derived(a)
      BY <1>7 DEF CreditClose
    <3> QED
      BY <1>6, <3>1, GotoMoves, DerivedMoves DEF Labels
  <2> QED
    BY <1>4, <1>6, <2>4, <2>5, <2>6, StepKeepsInv DEF RowsHold
<1>8. CASE MarkPartial(a)
  <2>1. UNCHANGED <<status, revenue, item>> /\ balance' \in {balance, "partially_credited"}
    BY <1>8 DEF MarkPartial, Keep
  <2>2. balance' # balance => balance = "open"
    BY <1>8 DEF MarkPartial
  <2>3. RowsTyped'
    BY <1>1, <1>2, <1>4, <2>1 DEF RowsTyped
  <2>4. PaidByMoneyOnly' /\ RevenueIsEarned'
    BY <1>1, <1>2, <1>3, <2>1, <2>2 DEF PaidByMoneyOnly, RevenueIsEarned
  <2>5. Moves(a)
    <3>1. Derived(a) \/ (Goto(a, "heal_artifacts") /\ status' = "paid")
      BY <1>1, <1>8, <2>1 DEF MarkPartial, StillHolds
    <3> QED
      BY <1>6, <3>1, GotoMoves, DerivedMoves DEF Labels
  <2> QED
    BY <1>4, <1>6, <2>3, <2>4, <2>5, StepKeepsInv DEF RowsHold
<1>9. CASE Flip(a)
  <2>1. /\ UNCHANGED <<revenue, item>> /\ status' = "paid"
        /\ receipt # {} /\ Received >= Owed
        /\ balance' \in {balance, "closed_by_payment"}
    BY <1>1, <1>9 DEF Flip, Keep, StillHolds, RowsTyped
  <2>2. /\ Corporate => balance' = "closed_by_payment"
        /\ ~Corporate => balance' = balance
    BY <1>1, <1>9 DEF Flip, PaidByMoneyOnly, RowsTyped
  <2>3. RowsTyped'
    BY <1>1, <1>2, <1>4, <2>1 DEF RowsTyped
  <2>4. PaidByMoneyOnly'
    BY <1>1, <1>2, <1>3, <2>1, <2>2 DEF PaidByMoneyOnly
  <2>5. RevenueIsEarned'
    BY <1>1, <1>3, <2>1 DEF RevenueIsEarned
  <2>6. Moves(a)
    <3>1. Goto(a, "paid_audit") \/ Goto(a, "artifacts")
      BY <1>9 DEF Flip
    <3> QED
      BY <1>6, <2>1, <3>1, GotoMoves DEF Labels
  <2> QED
    BY <1>4, <1>6, <2>3, <2>4, <2>5, <2>6, StepKeepsInv DEF RowsHold
<1>10. CASE Artifacts(a)
  <2>1. /\ UNCHANGED <<status, balance>> /\ status = "paid" /\ item' \in BOOLEAN
        /\ revenue' = revenue \/ (revenue' = {Earned} /\ Earned > 0)
    BY <1>1, <1>10 DEF Artifacts, Keep, StillHolds, RowsTyped
  <2>2. revenue' \subseteq 1..Charge
    <3>1. Earned \in 0..Charge /\ Charge \in Nat /\ revenue \subseteq 1..Charge
      BY <1>1, InvoiceIsFrozen DEF RowsTyped, RowSums
    <3>2. ASSUME Earned > 0 PROVE {Earned} \subseteq 1..Charge
      BY <3>1, <3>2
    <3> QED
      BY <2>1, <3>1, <3>2
  <2>3. RowsTyped'
    BY <1>1, <1>2, <1>4, <2>1, <2>2 DEF RowsTyped
  <2>4. PaidByMoneyOnly'
    BY <1>1, <1>2, <1>3, <2>1 DEF PaidByMoneyOnly
  <2>5. RevenueIsEarned'
    BY <1>1, <1>3, <2>1 DEF RevenueIsEarned
  <2>6. Moves(a)
    <3>1. Derived(a) \/ Goto(a, "heal_audit")
      BY <1>10 DEF Artifacts
    <3> QED
      BY <1>6, <3>1, GotoMoves, DerivedMoves DEF Labels
  <2> QED
    BY <1>4, <1>6, <2>3, <2>4, <2>5, <2>6, StepKeepsInv DEF RowsHold
<1>11. CASE HealStamp(a)
  <2>1. UNCHANGED <<status, revenue, item>> /\ balance' = balance
    BY <1>1, <1>11 DEF HealStamp, Keep, PaidByMoneyOnly
  <2>2. RowsTyped'
    BY <1>1, <1>2, <1>4, <2>1 DEF RowsTyped
  <2>3. PaidByMoneyOnly' /\ RevenueIsEarned'
    BY <1>1, <1>2, <1>3, <2>1 DEF PaidByMoneyOnly, RevenueIsEarned
  <2>4. Moves(a)
    BY <1>6, <1>11, DerivedMoves DEF HealStamp
  <2> QED
    BY <1>4, <1>6, <2>2, <2>3, <2>4, StepKeepsInv DEF RowsHold
<1> QED
  BY <1>7, <1>8, <1>9, <1>10, <1>11

\* A receipt is taken within what is owed now.
LEMMA ReceiptNewKeepsInv ==
    ASSUME CoverageInv, NEW a \in Actors, ReceiptNew(a)
    PROVE  CoverageInv'
<1> DEFINE ref == request[a].ref
           amount == request[a].amount
           e == [ref |-> ref, amount |-> amount]
<1>1. /\ RowsTyped /\ NeverOverCollected /\ PaidByMoneyOnly /\ RevenueIsEarned /\ RowSums
      /\ StillHolds(request[a])
  BY InvInHalves, SumsOfRows DEF RowsHold, RequestFits
<1>2. /\ ref \in References /\ amount \in Amounts /\ amount \in Nat /\ amount > 0
  <2>1. request[a].pc = "receipt"
    BY DEF ReceiptNew
  <2>2. ref \in References /\ amount \in Amounts
    BY <1>1, <2>1 DEF StillHolds
  <2> QED
    BY <2>2, AmountsPositive
<1>3. /\ ~Recorded(receipt, ref) /\ Received + amount <= Owed
      /\ receipt' = receipt \cup {e}
      /\ UNCHANGED <<kind, status, balance, refund, revenue, item>>
  BY DEF ReceiptNew, Keep
<1>4. /\ Credited' = Credited /\ CashBack' = CashBack /\ Owed' = Owed
      /\ Earned' = Earned /\ Corporate' = Corporate
  BY <1>3, SumsStand
<1>5. e.ref = ref /\ e.amount = amount /\ e \in [ref : References, amount : Amounts]
  BY <1>2
<1>6. e \notin receipt
  BY <1>3, <1>5 DEF Recorded
<1> HIDE DEF e, ref, amount
<1>7. Countable(receipt') /\ Received' = Received + amount
  <2>1. Countable(receipt \cup {e}) /\ Sum(receipt \cup {e}) = Sum(receipt) + e.amount
    BY <1>1, <1>2, <1>5, <1>6, SumOfOneMore DEF RowSums
  <2> QED
    BY <1>3, <1>5, <2>1 DEF Received
<1>8. RowsTyped'
  <2>1. RefundsFit'
    BY <1>1, <1>3, <1>4 DEF RowsTyped, RefundsFit
  <2>2. receipt' \subseteq [ref : References, amount : Amounts] /\ IsFiniteSet(receipt')
    BY <1>1, <1>3, <1>5, <1>7 DEF RowsTyped, Countable
  <2> QED
    BY <1>1, <1>3, <2>1, <2>2 DEF RowsTyped
<1>9. Received' + Credited <= Invoice.total /\ CashBack <= Received' /\ Received' >= Received
  BY <1>1, <1>2, <1>3, <1>7, InvoiceIsFrozen DEF RowSums, NeverOverCollected
<1>10. NeverOverCollected'
  <2>1. \A r, s \in receipt' : r.ref = s.ref => r = s
    BY <1>1, <1>3, <1>5 DEF NeverOverCollected, Recorded
  <2> QED
    BY <1>4, <1>9, <2>1 DEF NeverOverCollected
<1>11. balance # "closed_by_credit"
  BY <1>1, <1>2, <1>3, InvoiceIsFrozen DEF PaidByMoneyOnly, RowSums
<1>12. status = "paid" => Received' >= Owed
  BY <1>1, <1>2, <1>7 DEF PaidByMoneyOnly, RowSums
<1>13. PaidByMoneyOnly'
  BY <1>1, <1>3, <1>4, <1>11, <1>12 DEF PaidByMoneyOnly
<1>14. RevenueIsEarned'
  BY <1>1, <1>3, <1>4 DEF RevenueIsEarned
<1>15. Grows
  BY <1>1, <1>3, <1>4, <1>9 DEF Grows, RowSums
<1>16. Moves(a)
  BY <1>15, GotoMoves DEF ReceiptNew, Labels
<1> QED
  BY <1>8, <1>10, <1>13, <1>14, <1>15, <1>16, StepKeepsInv DEF RowsHold

\* A fee refund, a credit or cash, with its part of the VAT.
LEMMA RefundNewKeepsInv ==
    ASSUME CoverageInv, NEW a \in Actors, RefundNew(a)
    PROVE  CoverageInv'
<1> DEFINE ref == request[a].ref
           amount == request[a].amount
           cash == request[a].loaded = "paid"
           vat == VatComponent(Invoice, Sum(refund), VatSum(refund), amount)
           e == [ref |-> ref, amount |-> amount, vat |-> vat, cash |-> cash]
           Cash == {r \in refund : r.cash}
<1>1. /\ RowsTyped /\ NeverOverCollected /\ PaidByMoneyOnly /\ RevenueIsEarned /\ RowSums
      /\ StillHolds(request[a])
  BY InvInHalves, SumsOfRows DEF RowsHold, RequestFits
<1>2. /\ ref \in References /\ amount \in Amounts /\ amount \in Nat /\ amount > 0 /\ Corporate
  <2>1. request[a].pc = "refund"
    BY DEF RefundNew
  <2>2. ref \in References /\ amount \in Amounts /\ Corporate
    BY <1>1, <2>1 DEF StillHolds
  <2> QED
    BY <2>2, AmountsPositive
<1>3. /\ ~Recorded(refund, ref) /\ refund' = refund \cup {e}
      /\ UNCHANGED <<kind, status, balance, receipt, revenue, item>>
  BY DEF RefundNew, Keep
<1>4. /\ cash => CashBack + amount <= Received
      /\ ~cash => Sum(refund) + amount <= Invoice.total - Received
  BY DEF RefundNew, CashWithinCollected, CreditWithinUnpaid
<1>5. vat \in 0..Invoice.vat /\ vat <= amount
  <2> DEFINE returned == VatSum(refund)
             before == Sum(refund)
  <2>1. returned \in Nat /\ before \in Nat
    <3>1. \A r \in refund : r.vat \in Nat /\ r.vat <= r.amount
      BY <1>1, InvoiceIsFrozen DEF RowsTyped, RefundsFit
    <3> QED
      BY <1>1, <3>1, PartsOfRows DEF RowSums
  <2> HIDE DEF returned, before, amount
  <2> DEFINE left == IF returned <= Invoice.vat THEN Invoice.vat - returned ELSE 0
             c == VatComponent(Invoice, before, returned, amount)
  <2>2. c \in Nat /\ c <= amount /\ c <= left
    BY <1>2, <2>1, InvoiceIsFrozen, ComponentFits
  <2>3. left <= Invoice.vat /\ left \in Nat
    BY <2>1, InvoiceIsFrozen
  <2> HIDE DEF left, c
  <2>4. c \in 0..Invoice.vat /\ c <= amount
    BY <1>2, <2>2, <2>3, InvoiceIsFrozen
  <2> QED
    BY <2>4 DEF c, returned, before, amount
<1> HIDE DEF vat
<1>6. cash \in BOOLEAN
  OBVIOUS
<1> HIDE DEF cash
<1>7. /\ e.ref = ref /\ e.amount = amount /\ e.vat = vat /\ e.cash = cash
      /\ e \in [ref : References, amount : Amounts, vat : 0..Invoice.vat, cash : BOOLEAN]
  BY <1>2, <1>5, <1>6
<1>8. e \notin refund
  BY <1>3, <1>7 DEF Recorded
<1> HIDE DEF e, ref, amount
<1>9. Received' = Received /\ Corporate' = Corporate
  BY <1>3, SumsStand
<1>10. Countable(refund') /\ Countable(refund)
  <2>1. Countable(refund \cup {e})
    BY <1>1, <1>2, <1>7, <1>8, SumOfOneMore DEF RowSums
  <2> QED
    BY <1>1, <1>3, <2>1 DEF RowSums
<1>11. RowsTyped'
  <2>1. refund' \subseteq [ref : References, amount : Amounts, vat : 0..Invoice.vat,
                           cash : BOOLEAN]
    BY <1>1, <1>3, <1>7 DEF RowsTyped
  <2>2. RefundsFit'
    BY <1>1, <1>2, <1>3, <1>5, <1>7, <1>9 DEF RowsTyped, RefundsFit
  <2> QED
    BY <1>1, <1>3, <1>10, <2>1, <2>2 DEF RowsTyped, Countable
<1>12. CASE cash
  <2>1. Credits' = Credits /\ Cash' = Cash \cup {e}
    BY <1>3, <1>7, <1>12 DEF Credits
  <2>2. Credited' = Credited /\ Earned' = Earned
    BY <2>1 DEF Credited, Earned
  <2>3. CashBack' = CashBack + amount
    <3>1. Countable(Cash) /\ e \notin Cash
      BY <1>1, <1>8 DEF RowSums
    <3>2. CashBack' = Sum(Cash') /\ CashBack = Sum(Cash)
      BY DEF CashBack
    <3> HIDE DEF Cash
    <3>3. Sum(Cash \cup {e}) = Sum(Cash) + e.amount
      BY <1>2, <1>7, <3>1, SumOfOneMore
    <3> QED
      BY <1>7, <2>1, <3>2, <3>3
  <2>4. Owed' = Owed
    BY <1>9, <2>2 DEF Owed
  <2>5. NeverOverCollected'
    BY <1>1, <1>3, <1>4, <1>9, <1>12, <2>2, <2>3 DEF NeverOverCollected
  <2>6. PaidByMoneyOnly' /\ RevenueIsEarned'
    BY <1>1, <1>3, <1>9, <2>2, <2>4 DEF PaidByMoneyOnly, RevenueIsEarned
  <2>7. Grows
    BY <1>1, <1>3, <1>9, <2>2, <2>4 DEF Grows, RowSums
  <2>8. Moves(a)
    BY <2>7, GotoMoves DEF RefundNew, Labels
  <2> QED
    BY <1>11, <2>5, <2>6, <2>7, <2>8, StepKeepsInv DEF RowsHold
<1>13. CASE ~cash
  <2>1. Credits' = Credits \cup {e} /\ Cash' = Cash
    BY <1>3, <1>7, <1>13 DEF Credits
  <2>2. Credited' = Credited + amount
    <3>1. Countable(Credits) /\ e \notin Credits
      BY <1>1, <1>8 DEF RowSums, Credits
    <3>2. Sum(Credits \cup {e}) = Sum(Credits) + e.amount
      BY <1>2, <1>7, <3>1, SumOfOneMore
    <3> QED
      BY <1>7, <2>1, <3>2 DEF Credited
  <2>3. CashBack' = CashBack
    BY <2>1 DEF CashBack
  <2>4. /\ Received \in Nat /\ Credited \in Nat /\ Sum(refund) \in Nat /\ Invoice.total \in Nat
        /\ Credited <= Sum(refund) /\ Owed = Invoice.total - Credited
    BY <1>1, InvoiceIsFrozen DEF RowSums
  <2>5. Received + Credited + amount <= Invoice.total
    BY <1>2, <1>4, <1>13, <2>4
  <2>6. status = "issued" /\ balance # "closed_by_credit" /\ Credited # Invoice.total
    BY <1>1, <1>2, <2>4, <2>5 DEF PaidByMoneyOnly, RowsTyped
  <2>7. revenue = {}
    BY <1>1, <2>6 DEF RevenueIsEarned
  <2>8. Owed' <= Owed
    BY <1>2, <1>9, <2>2, <2>4 DEF Owed
  <2>9. NeverOverCollected'
    BY <1>1, <1>2, <1>3, <1>9, <2>2, <2>3, <2>4, <2>5 DEF NeverOverCollected
  <2>10. PaidByMoneyOnly' /\ RevenueIsEarned'
    BY <1>1, <1>3, <1>9, <2>6, <2>7 DEF PaidByMoneyOnly, RevenueIsEarned
  <2>11. Grows
    BY <1>3, <1>9, <2>4, <2>6, <2>8 DEF Grows
  <2>12. Moves(a)
    BY <2>11, GotoMoves DEF RefundNew, Labels
  <2> QED
    BY <1>11, <2>9, <2>10, <2>11, <2>12, StepKeepsInv DEF RowsHold
<1> QED
  BY <1>12, <1>13

\* One step of a request, or none.
LEMMA NextKeepsInv == CoverageInv /\ [Next]_vars => CoverageInv'
<1> SUFFICES ASSUME CoverageInv, [Next]_vars PROVE CoverageInv'
  OBVIOUS
<1>1. CASE UNCHANGED vars
  <2>1. RowsHold'
    BY <1>1, RowsStand DEF vars, money
  <2>2. RequestsFit'
    <3>1. request \in [Actors -> RequestRows] /\ \A c \in Actors : RequestFits(request[c])
      BY InvInHalves
    <3>2. /\ Received' = Received /\ Credited' = Credited /\ Owed' = Owed
          /\ Corporate' = Corporate
      BY <1>1, SumsStand DEF vars, money
    <3> QED
      BY <1>1, <3>1, <3>2 DEF vars, RequestsFit, RequestFits, StillHolds
  <2> QED
    BY <2>1, <2>2, HalvesMakeInv, PTL
<1>2. ASSUME NEW a \in Actors, NEW ref \in References, NEW amount \in Amounts,
             ReceiptBegin(a, ref, amount) \/ RefundBegin(a, ref, amount)
      PROVE  CoverageInv'
  BY <1>2, BeginKeepsInv
<1>3. ASSUME NEW a \in Actors,
             Receiving(a) \/ Refunding(a) \/ Derivation(a) \/ Refuse(a) \/ Crash(a)
      PROVE  CoverageInv'
  BY <1>3, PlainStepsKeepInv, RefundReplayKeepsInv, ReadsKeepInv, DeriveCreditsKeepsInv,
     InvoiceWritesKeepInv, ReceiptNewKeepsInv, RefundNewKeepsInv
     DEF Receiving, Refunding, Derivation
<1> QED
  BY <1>1, <1>2, <1>3 DEF Next

\* However receipts, fee refunds and derivations overlap and die, the rows agree
\* and every request still stands on what it has read.
THEOREM CoverageInvariant == Spec => []CoverageInv
  BY InitEstablishesInv, NextKeepsInv, PTL DEF Spec

\* The money of an invoice is what its rows say: money collected and credit
\* granted never exceed it, cash returned never exceeds cash collected, paid means
\* receipts reached what is owed, a balance closed by credit is all credit, and
\* the revenue posted is what the credits have left of the fee, for ever.
THEOREM CoverageEarned == Spec => []CoverageIsEarned
<1>1. CoverageInv => CoverageIsEarned
  BY DEF CoverageInv
<1> QED
  BY <1>1, CoverageInvariant, PTL
=============================================================================
