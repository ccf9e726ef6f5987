# A verification of MonetPlane in TLA+

MonetPlane (`src/`) is a control plane for billing: host applications open
checkouts through it, payment providers report to it by webhook, and it grants
entitlements and credits, spends credits for the applications, refunds
payments, and tells developers what happened. All state is in PostgreSQL; the
concurrency is that of its transactions, of several server processes, of cron
jobs, of the providers' own retries, and of the pages operators have open.

This directory models the parts of it where an interleaving, a crash, a replay
or a stale read could break a rule, checks small instances with TLC, and proves
most of the rules for instances of every size with TLAPS. Paths below are
relative to the repository root (`src/` is its source directory, `docs/` its
documentation); `PROJECT.json` maps every definition to its lines.

## 1. Inventory

| Component | State it keeps | What is hard about it | Modules |
|---|---|---|---|
| Credit ledger (`src/modules/credits/service.ts`) | accounts, append-only transactions with unique keys, reservations | keyed retries, capture racing release, reservations that outlive the credits behind them | `CreditLedger`, `CreditAccount`, `Totals` |
| Credit buckets and expiry (`buckets.ts`) | what each grant still holds, until when | expiry in stages, an unlocked scan, overlapping sweeps | `CreditLedger` |
| Clawback (`revocation.ts`) | the same rows | unlocked discovery, bounded by the balance | `CreditLedger`, `SubscriptionEvents` |
| Configured grants (`credits/commerce.ts`) | none of its own | keys by period, refusals, conflicts | `SubscriptionEvents`, `PaymentEvents` |
| Webhook inbox (`src/modules/commerce/webhook.ts`) | `webhook_events` by provider event id | redelivery, concurrent deliveries, a failure mark after a rollback | `PaymentEvents`, `SubscriptionEvents` |
| Payment events (`webhook-payment-events.ts`) | payments, orders, refunds | lost and reordered events, partial refunds, several names for one refund | `PaymentEvents` |
| Subscription events (`webhook-subscription-events.ts`) | subscriptions, their items | late events, clawback racing a grant, partial dates | `SubscriptionEvents` |
| Entitlements (`src/modules/entitlements/service.ts`) | grants by key | a replay with another date is a conflict | both event modules |
| Checkout and router (`checkout.ts`, `router.ts`) | sessions, orders, routing of products | reads that are stale when the session opens | `Checkout` |
| Billing-operation journal (`src/server/control-plane/billing-operation-actions.ts`) | `billing_operations` | uncertain outcomes, webhook and journal reporting one refund | `RefundJournal`, `Cancellations`, `SubscriptionEvents` |
| Developer events and deliveries (`billing-events.ts`, `src/modules/webhooks/service.ts`) | deliveries by (endpoint, event) | concurrent sweepers, lost results, bounded attempts | `DeveloperDeliveries`, `PaymentEvents` |
| Catalog provisioning and adoption (`src/modules/providers/catalog-*.ts`) | the mapping row with its intent | attempt tokens, late answers, parking | `CatalogProvisioning`, `CatalogPanel` |
| Usage metering (`src/modules/usage/service.ts`) | meters, usage events | keyed replays, periods that close | `UsageMetering` |
| Host-read limiter (`host-read-guards.ts`) | windows in memory | eviction at the cap | `HostReadLimiter` |
| Team (`src/modules/team/service.ts`) | operators, members, invitations | decisions on stale reads | `Team` |
| Customers and read tokens (`src/modules/customers/`) | tokens with scope and expiry | revocation and expiry beside a read | `ReadTokens` |
| Portal sessions (`src/modules/portal/service.ts`) | sessions | an old page, an ended session | `Cancellations` |
| Provider adapters and runtime (`src/modules/providers/`) | connections, a token cache | what a call is taken to have done; what an event becomes | `ProviderCalls`, `ProviderEvents`, `Checkout` |
| Applications (`src/modules/applications/`, `components/developer/ApiKeyManager.tsx`) | keys of the hosts | a rotation from pages whose requests overlap | `ApiKeys` |
| Audit log (`src/server/control-plane/audit.ts`) | append-only entries | an entry that is missing or doubled | `Cancellations`, `ApiKeys` |
| Analytics and console | none of their own | rows that move at different times; a form that outlives its page | `RevenueAnalytics`, `CatalogPanel`, `ProductWizard` |
| SDK (`src/sdk/`) | none | lost answers | `UsageMetering`, `ReadTokens` |

How they interact: a provider's webhook enters the inbox, which calls the
payment or the subscription family in the same transaction; these call the
entitlement service, the configured grants and the clawback, which call the
credit ledger, all in that transaction. Host applications call the ledger, the
usage meters and the read routes directly. The cron calls the expiry sweep and
the delivery sweeper. Operators and customers call the journal, which calls a
provider and then writes the rows the event families also write. After a webhook
is applied, the developer publisher writes deliveries. What could go wrong is
listed, with its line and the properties that would catch it, under `hazards` in
`PROJECT.json`.

## 2. The modules and the code

The grain of a step is a commit: one database transaction, or one statement
outside a transaction, is one action; between two of them every other process
may act. A request that dies is a request that takes no more steps, or an
explicit `Crash`. Payloads are reduced to what the code branches on.

### Credits
`Totals`: the sum of a function over a finite set, a fold of the community
modules. `CreditLedger`: one `credit_accounts` row with its buckets, reservations
and ledger rows. Every operation of `service.ts` locks that row first, so one
transaction is one step: `Grant`, `Debit`, `Reserve`, `RejectReserve`, `Capture`,
`Release`. Two operations read before they lock and are split there: `SweepScan`
and `SweepBucket`, `ClawbackDiscover` and `ClawbackApply`. A call whose key is
known, or that throws, changes nothing and is no step. A reservation that is
refused *returns*, so the inline expiry it ran before commits (`RejectReserve`).
Grant sources are collapsed to the two the code tells apart; buckets are
consumed by expiry, then creation, which the bucket ids stand for.
`CreditAccount` states what a caller is promised: credits that arrive, leave, or
are set aside until they are settled once. `KeepsPromise` is the refinement,
under `credits <- available, hold <- held, state <- resStatus`.

### Payments
`PaymentEvents`: one provider connection and one-time orders whose product grants
an entitlement. A worker is one HTTP request of the provider (`route.ts`,
`processProviderWebhook`): `Receive` or `Redeliver` (the inbox row), then one
transaction, `Apply`, `Ignore`, `Replay` or `Reject`, then `Publish` or, after a
rollback, `MarkFailed`. `Abort` and `Crash` cut a request anywhere, bounded
together by `MaxFaults`. The pure part follows `applyPaymentEvent`: `AmountFrom`,
`Recorded`, `Upgrades`, `Aligned`, `Counted`, `Headroom`, `Applied`,
`FullyRefunds`, `Ignorable`, `Invalid`. The provider is honest: `made` is what it
paid back under each refund id, and refund events report it, with or without the
order, the refund id and the amount (`RefundNotices`). What an event says is
chosen at its first delivery; losing and reordering events is therefore free, and
repeating one is `Redeliver`. A NULL amount is `NoAmount` (-1). Abstracted:
currencies and metadata checks, free orders, the checkout session, the credits
and the customer mapping of the success event. `RevenueAnalytics` states the
revenue queries over the same rows and one item of the order, with its unit
amount (`UnitAmount`) and `Quantity`: the volume (`volumeByCurrency`), the product
breakdown of the same report (`byProduct`, which adds up unit amounts) and that of
the trend (`productRevenue`, which multiplies).

`RefundJournal` extends it with the journal's refunds. A clerk is one request of
an operator: `StartRefund`/`StartRetry` (the reads up to the insert), `Create`
(the unique key), the provider's `Accept` or `Refuse` with the adapter's answer or
its loss, `RecordAnswer` or `RecordFailure`, `Reread`, `Settle`, and
`SettleAborts` followed by `MarkStuck`. `Resume` is a later request that finds an
unsettled operation. `Replies` says what the adapter answers: PayPal and Waffo the
refund's own id and the amount asked for, Creem a status only, for which the
adapter makes up the id (`Synthetic`).

### Subscriptions
`SubscriptionEvents`: one subscription, its items, its entitlements and credits
by period, its inbox rows and the journaled cancellation of it. The transaction
of an event reads the subscription without a lock, and the upsert that follows
locks it; what is written is decided by the row as it was read. The journal reads
the subscription before its transaction opens and settles it after. The host
spends the credits meanwhile: `held` is what its open reservations hold, a grant
is one credit in one bucket, and the account has no others. The clawback takes
what is available (`Available`), from the buckets that expire first; the rest stays
in active buckets until its reservations are captured or released. Accounts with
larger amounts and other credits, and expiry by the clock, are `CreditLedger`'s.
`kept` remembers what was held when the subscription was last ended at once; no
action reads it.
`ProviderEvents` is in front of it: the provider's own record of a subscription
(`plan`) and what each of the three adapters makes of an event, for PayPal sales
from what its API answers at the time of the delivery. Its `Inbound` steps are
those of `SubscriptionEvents`. `Cancellations` has the people instead: portal
sessions with pages of any age, operators who cancel, retry and reconcile, the
attempts of the journal with their keys (`cancel:<id>`, `retry:<attempt>`), the
provider's call and the audit log. It over-approximates what the connection
answers, leaves the redirect's own audit entry out, and takes a provider's
"cancelled" answer as an end at once (`creem.ts:356`, `paypal.ts:199`,
`waffo.ts:559`).

### Deliveries
`DeveloperDeliveries`: publishing inserts one row per endpoint, each a commit, and
then sends; the sweepers take what stayed pending and is `ripe`; an operator
redelivers what failed. An attempt is read, claim, post and record, and may die
between any two.

### Catalog, wizard and checkout
`CatalogProvisioning`: the mapping row is the intent; requests move it by
conditional updates with the provider's call between them; `old` and `whole`
stand for `STALE_IN_FLIGHT_MS` and for the precision of `updated_at`. A provider
product keeps its terms, so a preview and the link it is for are one step.
`CatalogPanel`: the page that verifies a pair and links it, with answers of any
age. `ProductWizard`: the five steps, with another tab that changes the cookie.
`Checkout`: routing, the checks before and after it, the order and the provider's
call, with console edits between any two reads.

### Providers, hosts and operators
`ProviderCalls`: one connection's calls with their tokens, repeats, odd bodies and
lost answers, and how the adapters classify them. `HostReadLimiter`: the window
map, its cap, pruning and refusal. `UsageMetering`: reports under a key until one
is answered, and invoices by period. `ApiKeys`: create, rotate and revoke from
pages whose buttons one flag disables, with audit entries that can fail; operators
follow the page's notice, and pages may be arbitrarily stale. `ReadTokens`: issue,
expiry, revocation and use of a token (the tier that only names a host is
`HostReadLimiter`). `Team`: first login, invitations, changes, removals and
password rotation by requests that read without a lock and write at the end.

### Compositions
Each `MC` module executes one component per behaviour: a variable chosen in the
initial state says which, and the others stay where they begin. Components that
share no row need no product of their state spaces; the run then costs the sum.
`MCCreditLedger` is the ledger, `MCPaymentEvents` the payments with the revenue
queries, `MCRefundJournal` the journal or the team, `MCSubscriptionEvents` the
events, the adapters or the cancellations of a subscription, `MCConsole` ten
components of console and host, and `MCLiveness` what must happen in the end.
Components that do share rows are composed: `RefundJournal` extends
`PaymentEvents`, and `ProviderEvents` drives `SubscriptionEvents`.

## 3. The runs

| Run | Instance | What it shows |
|---|---|---|
| `ledger_safety` | 5 client keys, 2 buckets, 2 sweeps, 1 clawback, amounts to 2, clock to 1 | buckets back the balances (`BucketsBackBalance`), reservations are held and always settlable (`ReservedIsHeld`, `SettlementNeverStuck`), the ledger explains the balance, reversal keys never repeat, expired credits are not spent or reserved (`SpendsLiveCredits`), the promise is kept (`KeepsPromise`) |
| `payments_safety` | 1 payment of 2 units, 3 events, 2 refunds, 2 requests, 1 fault, every kind of notice | access needs a standing payment; refunds add up; refunded is final; complete reports end the same in any order; the breakdowns of revenue agree, for an item of quantity 2 |
| `journal_safety` | 1 payment, 2 events, 1 refund, 2 clerks, 2 attempts, 2 faults, any reply; 2 operators, 1 invitation, 2 requests, 3 hashes | the provider is asked once (`NeverAskedTwice`), a reported refund holds (`RefundsHold`); owners come from owners and no reported password change is undone |
| `subscriptions_safety` | 2 events, 2 requests, 1 fault, clock to 3; the same with 1 request at a time and 2 credits on hold; 3 providers, 2 cycles; 2 sessions, 2 attempts | an ended subscription keeps no feature and no more credits than open reservations held, a renewal delivers its own cycle, cycles match payments whatever the adapter makes of the events, completed cancellations are audited once |
| `console_safety` | see below | ten components, each in behaviours of its own; one property for each, and the type invariant of all |
| `liveness` | 2 payments, 2 payment events, 1 request, 2 faults; 3 subscription events; 2 keys, 2 buckets; 1 delivery | every sale settles but a second payment of its order, a crash before publication heals, refused subscription events heal, due buckets expire, pending deliveries settle |
| `journal_fact`, `deliveries_shared`, `subscriptions_regrant`, `catalog_stale`, `team_lastowner`, `cycles_paypal` | smallest that shows it | the six findings of section 5 |

**Bounds.** Two of everything that can collide is the smallest instance in which
it does: two sweeps over two buckets, two requests for one event, two clerks
for one payment, two operators on one key, two editors of one routing. Five keys
are two grants, a reservation, and two settlements that race. Three events are a
sale and two refunds, or a refund reported twice. Amounts to 2 give a partial and
a full refund, a partial and a full capture, and a split over two buckets. One
tick separates live from expired; each bucket's expiry may be 1 or `Never`. In
`console_safety`: 1 endpoint and event with 2 sweeps, 2 attempts, 1 manual attempt
and 1 fault; 3 provisioning requests, 2 products and 2 parameter sets; 2 prices
for one product on the panel; 2 connections, 2 prices, 2 editors and 1 request at
checkout; 2 clients on 1 window slot with a limit of 2 and a clock to 4; 2 provider
jobs with 2 attempts; a wizard with 2 places; 2 units of usage that share a key in
two environments, 2 periods and 4 meters; 2 operators, 2 requests and 3 keys; 1
token, 2 customers, 2 environments and a clock to 2. Ids are symmetric where
nothing orders them; the racers of all components are one symmetry set.
Symmetry is not used with liveness; instead the first payment event to come is
always the same id, of the same payment (`Numbered`), since ids are interchangeable.
Two payments of one order are what makes a sale run into the grant of another. To
keep them small, `PricedNotices` has the refunds of that run state their amount; a
refund without one is in `payments_safety`. The subscription's events run twice in
`subscriptions_safety`: with two requests and a host that holds no credits, and with
one request at a time while the host reserves, captures and releases; a transaction
holds the account's lock, so what two requests add to that is the order of their
commits. A quantity of 2 at unit amount 1 is the smallest sale on which the two
product breakdowns differ. Deadlock is not checked: an account, an order
or a form on which nothing more happens is a normal end.

**Fairness.** `SweepFairness`: the cron calls the expiry and the delivery sweep
every few minutes and the sweep works through its list; clients owe nothing.
`DeliveryFairness` (and `Fairness` of the subscription): a request that is not
killed runs on (weak fairness of its steps), and a provider delivers again what
was not answered with 2xx (strong fairness, since the answer may be lost again
and again). `RequestFairness` in `CatalogProvisioning`, for the finding
`catalog_stale`: a request that is not killed runs on. Nothing is assumed of
operators: the journal has no job that settles operations, so no liveness is
stated for it. `DeliveryHeals` concerns events that state their cycle with the
same dates each time.

The branches of `applyPaymentEvent` that confirm a pending row or supersede a
made-up id can only be reached with the journal's rows; the runs of
`RefundJournal` exercise them.

## 4. What is proved

For every value of the constants, under the named assumptions of the modules
(`LedgerAssumption`, `PaymentAssumption`, `SaleAssumption`, `JournalAssumption`, and those that
`ConsoleAssumption` and the MC modules gather): finiteness of the id sets,
disjointness of ids and their "none", and what the code fixes, such as that a
basket's first price is one of its items. TLC evaluates them in the runs.
Each proof is an inductive invariant that is stronger than the property; what
makes it stronger is named here.

**Credits** (`CreditLedgerProofs`, `CreditPromiseProofs`).
`TypeCorrect`, `BucketsAlwaysBack`, `ReservedAlwaysHeld`: `BucketsBackBalance` sums
over the active buckets, and a step changes which are active; the inductive
`BalanceInv` sums over all buckets and adds that a closed one is empty. A step then
takes from the buckets exactly what it takes from the balances (`TakeRows`).
`LedgerAlwaysExplains`: a new ledger row changes one of the sums by its amount, the
rows of the reversals have keys of their own, and buckets correspond to grant rows
one to one. `SettlementAlwaysPossible`: a reservation can be captured in part or in
full whatever has expired since. The loop over the buckets is given in closed
form (what a bucket gives up is determined by those before it), and one numbers
credits in loop order: the numbering is injective into a set of the same size, so
no credit is missing. No induction over the buckets is needed.
`OnlyLiveCreditsSpent`: the same closed form never reaches an expired bucket before
the live ones cover the amount. `PromiseKept`: every step is a step of
`CreditAccount` or a stutter. `ReversalsNeverCollide`: reversal keys strictly
decrease per bucket.

**Payments** (`PaymentProofs`): `PaymentsTypeCorrect`, `AccessAlwaysPaid`,
`NeverOverRefunded`, `RefundedStays`, `NamedRefundsCover`, `RefundsAlwaysAddUp`. The
inductive `PaymentInv` adds that refund rows left by webhooks are confirmed and have
an amount (`Clean`), that a payment without a row has none, that access comes
from a grant (`Granted`), and that a request works on an event of the inbox
(`Working`). Only `Apply` moves the business rows (`OnlyApplyMoves`); a refund
books no more than the headroom (`AppliedFits`), and the sum of the confirmed
rows moves by what it books (`RefundedStep`). `NamedRefundsCover` uses that the
inbox never changes what it has recorded (`NoticesStay`). These hold for
webhooks alone; the journal writes pending rows and rows without an amount, so
`Clean` does not survive the composition.

`BooksMatchProvider`, `DeliveryOrderNeverMatters`, `ReportsAlwaysAgree`: that the order of
delivery does not matter is not proved by comparing orders. The provider's own books
(`made`) are what all orders have in common, and `HistoryInv` relates each row to
them while every refund received so far was told under its id and for its order
(`Explicit`, which no step regains once it is lost): a refund that was made was
reported (`Known`), every payment on record is of the order's total (`Whole`), a
refund row carries what the provider made and nothing else is booked (`Exact`), a
payment is refunded exactly when its rows reach the total (`Closed`), and what has
settled is on record (`Entered`, `Standing`). A refund that is not booked still has
room (`BookedFits`), so it is never cut to the headroom nor ignored. This holds for
any number of payments. Access and the reports need one payment for the order
(`OnePayment`, the hypothesis of the last two, and TLC's instance): of two, a refund
of the payment that gave access takes it from the other, whose sale was ignored
because the order was paid already.

**Journal** (`JournalProofs`): `AskedOnce`, `RefundsAlwaysHold`, `AccessStillPaid`.
An attempt follows refused attempts only (`Chain`); the clerk between the insert and
the record of the outcome is the only one for its row, which says
`pending_provider` (`Owning`, `Alone`); so no refused row ever changes again, and two
attempts that were not refused cannot be ordered. The refunds need the webhooks and
the journal in one invariant (`RefundInv`), whose hardest case is a row that one of
the two left and the other meets:
- a pending or failed refund row was left by the journal and repeats its answer
  (`Rows`, `Settles`), of which a payment has one (`OneAnswer`, from `Chain`);
- an answer and a notice each say what the provider has made (`Answers`, `Reports`),
  and the provider never pays back more than the order's total (`Spent`); so when
  the journal's answer covers the payment, no refund but that one exists, and the
  event that meets its row confirms or supersedes it and closes the payment;
- a payment whose rows add up to what was paid is refunded (`Full`); and
- a refund is asked for only of a payment that gave access (`Starting`, `Ungranted`).
  The journal may set a refund back to pending (finding 1), but not the payment; and
  the first grant being spent, no later event gives the access back.

**Team** (`JournalProofs`): `OwnersAlwaysFromOwners`, `RotationsAlwaysKept`, and with the
journal `OperatorsAlwaysTyped`. `TeamInv`: a request that gives the role of an owner was
made by one (`Entitled`), and so was a standing invitation to be one (`Tendered`); the
rows a request has read of still exist (`Rooted`, `Peopled`); hashes are numbered, and
a replaced password is older than the one in use (`Numbered`, `Outdated`).

**Subscriptions** (`SubscriptionProofs`): `AllSubscriptionsTyped`,
`EndedAlwaysLeavesOnlyHeld`, `RenewalAlwaysDelivers`, `CyclesAlwaysMatch`,
`CancellationsAlwaysAudited`. For the events: a request knows its event
(`Working`), grants are keyed by a period or by an event of their own
(`KeyedByEvent`). For an end at once: the clawback reverses as many buckets as are
available (`DrainTakes`, `RevokeTakes`), so the account's reservations are backed by
exactly what stays (`AppliedEnds`); until an event grants access again no event adds
a bucket or a feature, and what is settled after the end only takes buckets away
(`EndedStep`). For the adapters: the provider's records of an event have a last
paid cycle (`Kept`), and every notice that may open access is `Genuine`: it states
a paid cycle of its own and, for Creem and Waffo, is what the adapter makes of
the event whatever the API answers now. For the cancellations: an attempt is made
only after all before it were rejected (`Turn`), and what a request was told and
what is filed agree with the operation (`Informed`, `Filed`, `Alone`,
`Answering`).

**Deliveries** (`DeliveryProofs`): `DeliveriesTypeCorrect`, `OutcomesTrue`: a
delivery that says succeeded was taken, and one that says failed was refused,
unanswered, disabled or tried as often as it may be, however attempts overlap.

**Console and hosts** (`ConsoleProofs`), each for its component of `MCConsole`:
- `AccessAlwaysFollowsGrants`: a secret is in one place at a time (`Hand`, `Apart`),
  keys in a hand were never used and used keys are never in one, the next key is
  fresh (`Counted`), and the key in use is active and not being ended (`InUse`).
  For tokens: a request began after its token was issued (`Begun`) and reads what
  that token names (`Scoped`).
- `PanelAlwaysSound`: the kept verification is of what its request asked, and a
  flag that says verifying has a live request behind it.
- `ProductsAreAsReviewed`: the form does not change while a request is under way,
  and each step of the wizard has checked what the later ones rely on.
- `OutcomesAlwaysHonest`: before the last answer nothing was done (`Fine`), except
  that PayPal's cancellation is done in the first of its two calls.
- `CheckoutAlwaysCanBill`: what is known of a sale grows with its step (`Checked`);
  a routing stays in its environment, and so does what an editor has read of it
  (`Routed`).
- `WordAlwaysKept`, `BindingsAlwaysVerified`: a call that may be made and is not
  settled holds the row (`Unsettled` implies `Holds`), so there is one at most; what
  a request knows of the row is still so while nobody has written (`Word`); a
  synced row points at a product that matches (`Bound`), and no write moves it.
- `ReadsAlwaysBounded`: the times of a client's reads are partitioned into windows that
  do not overlap and hold at most the limit each (`Fall`, `InWindows`). The window
  itself may be gone from the map, pruned or never stored; the one that is there is
  the last, and its count is what the last window holds (`Taken`). `2 * Limit` reads
  after a given one the window is another one twice over, hence more than a
  window's length later.
- `UsageAlwaysBilledOnce`: the key determines the stored event, what the host was told
  is the time of that event, and an invoice's events are still stored (`BilledWell`).
  A time lies in one period only (`OnePeriod`), and what the host had heard of when it
  billed a period was stored by then. An event whose row was built in a period and
  inserted after its invoice is on none; the host hears of it too late or never.
- `ConsoleAlwaysTyped`: `ConsoleTypeOK` is not inductive either. It needs the invariants
  above, and for the calls that PayPal's cancellation acts at most once in an attempt
  (`Repeated`), which bounds what a provider has done by the attempts.

Every invariant and every action property of the passing runs is thus proved for
every value of the constants that the assumptions allow, two of the payments'
only under `OnePayment`. None of them needs induction over data, since sums
are the cardinalities of sets of units (`Totals`, `UsageMetering!Quantity`) and the
loops over buckets are in closed form. All of `liveness` is only model-checked:
fairness and `ENABLED` are out of the prover's reach.

## 5. Findings

Each is a run that TLC finds violated, quoted with its lines in `PROJECT.json`.

1. `journal_fact` (`billing-operation-actions.ts:713`): the journal's settlement
   writes its recorded answer over whatever the refund row says, so a succeeded
   refund may go back to pending. With the journal running, refunds then need not
   be covered, and the order of delivery matters.
2. `deliveries_shared` (`webhooks/service.ts:505`): two sweepers that read one
   candidate both claim and send it.
3. `subscriptions_regrant` (`commerce/webhook.ts:294`): the failure mark of a
   rolled-back request re-arms an event that was processed since; a renewal
   without boundaries grants again. For payments it lets one partial refund
   without an id be counted twice.
4. `catalog_stale` (`catalog-provisioning.ts:160`): a row whose `updated_at` is the
   table's default is never equal to the date that was read; parking it fails for
   ever.
5. `team_lastowner` (`team/service.ts:632`): two removals that each count the other
   owner leave none.
6. `cycles_paypal` (`paypal.ts:769`): a sale delivered late is booked on the
   period PayPal is in by then.

Disagreements met while modelling, which the models reproduce or note but no run
of its own shows:

- *Payments.* A payment that is refunded in full leaves the revenue volume
  (`analytics.ts:67`; `docs/analytics-definitions.md:33-35` says that refunds do not
  subtract from it). The product breakdown of the period report adds up unit amounts
  without the quantity (`analytics.ts:78`), that of the trend multiplies (`:504`), and it
  is the one the revenue page shows (`revenue/page.tsx:209`): a sale of three units counts as
  one in the first. `ReportsAgree` states both as they are: the trend equals the volume, and the
  first is the volume divided by the quantity. A partial refund that comes before its
  payment and names no order seeds the payment with the refund's amount
  (`webhook-payment-events.ts:205`, `docs/architecture.md:283`). A second payment of
  a paid order conflicts with the first grant at every redelivery (`:484`), the
  permanent retry loop that the comment at `:475-478` sets out to avoid. The `liveness`
  run has two payments and reaches it; `SalesSettle` names it (`BoughtAlready`) and
  says that every other sale settles. A fact repeated under a new event id is ignored and not published
  (`route.ts:111`, against `billing-events.ts:73-75`). The provider
  health average is that of the last group. A crash leaves a checkout session at
  `creating`.
- *Credits.* `docs/credits-ledger.md:357-362` says that until a sweep runs expired
  credits remain spendable and the sum of the active buckets drifts from the balances.
  The code does neither: `consumeBuckets` skips a bucket that is due for new spending
  (`buckets.ts:134-147`), a reservation expires it first (`service.ts:715`), and a due
  bucket that is not swept is still active and still counted, so the sum holds. What
  does go wrong until then is the available balance, which shows credits that a
  debit cannot take. `ledger_safety` has due buckets without a sweep, and
  `BucketsBackBalance` and `SpendsLiveCredits` state what the code does there, against
  that passage. A debit checks a balance that still includes expired credits
  (`service.ts:519`, `docs/credits-ledger.md:355-357`), and a later grant lets the next
  stage of expiry take a reserved residual (`buckets.ts:362`, `:347-348`). An
  administrator's grant without a key is granted again when it is retried.
- *Subscriptions.* Creem's late `subscription.active` sets a paid subscription back
  to pending. PayPal's activation without a last payment is refused for ever. An
  activation without an end leaves a permanent bucket, expired events do not claw
  back, and a clawback also takes older permanent buckets. What a reservation holds at
  the end of a subscription stays in active buckets (`revocation.ts:128-150`), and the
  customer may use it again when the reservation is released. One start with two
  ends conflicts for ever. `cancel:<subscription>` is a key for ever, so a
  subscription that was reactivated cannot be cancelled again, and the portal offers a
  cancellation that failed before. A reconcile of an old "active, at period end"
  answer reopens what a webhook cancelled meanwhile, and a period read before
  the transaction (`:776`, `:790`) can overwrite a renewal's. Two settlements at
  once write two audit entries (`portal.ts:380-384`).
- *Provider calls.* PayPal's cancellation is a POST and a GET, and a 4xx of the GET
  is reported as a rejection (`shared.ts:213-224`). PayPal's OAuth failures, a 4xx with
  a broken body and a revoked connection are classified uncertain though nothing
  was sent. Waffo's refund webhook and the journal use different ids. Creem's refund
  ignores the amount.
- *Catalog and wizard.* The runtime asks for `annual_interval` to sell weekly prices
  (`runtime.ts:134`); the wizard, the server and the review page treat weekly prices
  differently (`ProductBuilderWizard.tsx:18-21`, `products.ts:134-140`); a weekly price is
  kept when the provider is changed later; two grants may get one key; a lost answer
  makes the retry a key conflict; another tab's switch puts the product in an
  environment the page does not show. Two edits of routes lose one
  (`products.ts:210-234`).
- *Keys, usage and team.* The page keeps one revealed secret, which an overlapping
  create or rotate replaces. An audit entry that fails loses the secret it was for
  (`api-keys/route.ts:53-61`); revoking again moves `revokedAt`. A usage key reported
  with another customer or quantity returns the first event as a duplicate; it is
  trimmed at the insert and not at the lookup (`usage/service.ts:196`, `:211`); an
  event may be inserted into a period already summed and billed in none; a summary
  over all customers applies one allowance. Two first logins at once are both owners,
  an older invitation replaces an owner's membership, and a removal by an old member
  id disables an operator who came back. The provider route's audit always says
  credentials were rotated.

## 6. What is not modelled

Pages and lists that only read, i18n and team pages; branding, domains and callback
origins (single-row writes); the customer upsert; signatures and cryptography; the
fields of payloads that no branch looks at; HTTP plumbing. The deadlock of two
transactions that lock several accounts shows as a transaction the database may
abort. Each component's status is in `PROJECT.json`.
