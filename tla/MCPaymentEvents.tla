---------------------------- MODULE MCPaymentEvents ----------------------------
(* PaymentEvents for TLC: a handful of events, whose ids are interchangeable, *)
(* as are the workers and the refund ids.                                     *)
EXTENDS RevenueAnalytics, TLC

\* What the adapters' refund events carry: always an id (creem.ts:588,
\* paypal.ts:666), with or without the order's metadata and the amount.
NamedNotices == [order : BOOLEAN, named : {TRUE}, amount : BOOLEAN]

\* With the amount, which a refund that comes before its sale needs.
PricedNotices == {shape \in NamedNotices : shape.amount}

\* The contract lets an adapter leave the id out.
UnnamedNotices == [order : {TRUE}, named : {FALSE}, amount : {TRUE}]
AnyNotice == NamedNotices \cup UnnamedNotices

IdSymmetry ==
  Permutations(Events) \cup Permutations(Refunds) \cup Permutations(Workers)
===============================================================================
