---------------------------- MODULE RevenueAnalytics ----------------------------
(***************************************************************************)
(* What the console reports of the payments while their events come in:    *)
(* the queries of the revenue page over the rows of PaymentEvents, for one *)
(* application, environment and currency, and a period that the order, of  *)
(* one line item, and its payments fall in.                                *)
(***************************************************************************)
EXTENDS PaymentEvents

CONSTANTS
  UnitAmount,     \* order_items.unit_amount_minor
  Quantity        \* order_items.quantity

\* The checkout totals the items it writes.
ASSUME SaleAssumption ==
  /\ UnitAmount \in Nat \ {0} /\ Quantity \in Nat \ {0}
  /\ UnitAmount * Quantity = OrderTotal

WithStatus(s) == {p \in Payments : pay[p] = s}

\* getRevenueAnalyticsV1, the report of a period.  Its product breakdown adds
\* up the unit amounts of the items, whatever their quantity.
volumeByCurrency == Total(paid, WithStatus("succeeded"))
byProduct == IF order = "paid" THEN [amountMinor |-> UnitAmount, units |-> Quantity]
             ELSE [amountMinor |-> 0, units |-> 0]

paymentOutcomes(s) == Cardinality(WithStatus(s))
attempted == paymentOutcomes("succeeded") + paymentOutcomes("failed")

\* getRevenueAnalytics, the trend: what each item came to.
productRevenue == IF order = "paid" THEN UnitAmount * Quantity ELSE 0

\* Every event received names the order and its refund, and is settled.
AllTold == \A e \in Events : inbox[e] # "none" => Settled(e) /\ Complete(e) /\ notice[e].order

\* The breakdowns of revenue are read from different rows, the payments and
\* the order's items, and agree once every event of a sale has settled, in
\* whatever order they came: what was sold is in all of them, or in none and
\* counted as refunded once, and no attempt that failed before still counts
\* against the success rate.  The trend reports the volume itself.  The amount
\* that the report of a period gives for the product is that of one unit, so
\* it agrees with the volume of the same report only for a quantity of one.
ReportsAgree ==
  AllTold /\ (\A p \in Payments : Exists(p) => Sold(p))
    => /\ volumeByCurrency = productRevenue
       /\ volumeByCurrency = Quantity * byProduct.amountMinor
       /\ byProduct.units = IF volumeByCurrency = 0 THEN 0 ELSE Quantity
       /\ attempted = paymentOutcomes("succeeded")
       /\ paymentOutcomes("refunded") =
            Cardinality({p \in Payments : Exists(p) /\ PaidBack(p) = OrderTotal})
===============================================================================
