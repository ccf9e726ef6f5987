-------------------------- MODULE CatalogProvisioning --------------------------
(***************************************************************************)
(* The mapping of one price of the catalog to a product at the provider:   *)
(* creating the product, recovering from a create whose outcome is not     *)
(* known, and linking a product that exists.                               *)
(*                                                                         *)
(* The mapping row is the intent.  A request reads it without a lock and   *)
(* moves it by conditional updates; the provider is called between them,   *)
(* so every other request and the operator act in the meantime.            *)
(*                                                                         *)
(*   row      the mapping row: token is its attempt_token, frozen the      *)
(*            create parameters of its provisionIntent                     *)
(*   old      the row is unchanged for STALE_IN_FLIGHT_MS                  *)
(*   whole    its updated_at is a whole number of milliseconds: what the   *)
(*            program writes is, what the table fills in at an insert need *)
(*            not be, and a Date that has been read back never holds more  *)
(*   current  the requests that have read the row as it is (updatedAt)     *)
(*   request  what each provisioning request is doing                      *)
(*   product  what the provider holds: a product that matches the price,   *)
(*            or one that does not                                         *)
(*   keyed    the product the row's idempotency key stands for             *)
(*   posted   the requests whose create call has reached the provider      *)
(*   settled  those whose outcome the row has recorded, or the operator    *)
(*            has declared failed                                          *)
(***************************************************************************)
EXTENDS Naturals

CONSTANTS
  Requests,   \* provisioning requests, each one attempt at most
  Products,   \* product ids at the provider
  Params,     \* create parameters a request may ask for
  NoProduct, NoRequest, NoParams

ProvisioningAssumption ==
  /\ NoProduct \notin Products /\ NoRequest \notin Requests
  /\ NoParams \notin Params

VARIABLES row, old, whole, current, request, product, keyed, posted, settled

provider == <<product, keyed>>
history == <<posted, settled>>
mapping == <<row, old, whole, current>>
vars == <<mapping, request, provider, history>>

MapStatus == {"none", "pending", "creating", "synced", "needs_reconciliation", "failed"}
Row == [status : MapStatus, product : Products \cup {NoProduct},
        token : Requests \cup {NoRequest}, frozen : Params \cup {NoParams}]
NoRow == [status |-> "none", product |-> NoProduct,
          token |-> NoRequest, frozen |-> NoParams]

TypeOK ==
  /\ row \in Row
  /\ row.status = "synced" => row.product \in Products
  /\ old \in BOOLEAN /\ whole \in BOOLEAN
  /\ current \subseteq Requests
  /\ request \in [Requests ->
       [at : {"idle", "over"}]
       \cup [at : {"begin", "claim", "call", "rejected", "uncertain"}, asks : Params]
       \cup [at : {"decide"}, asks : Params, seen : Row, stale : BOOLEAN]
       \cup [at : {"created", "verify"}, asks : Params, made : Products]]
  /\ product \in [Products -> {"none", "matching", "other"}]
  /\ keyed \in Products \cup {NoProduct}
  /\ posted \subseteq Requests /\ settled \subseteq Requests

-------------------------------------------------------------------------------
Init ==
  /\ row = NoRow /\ old = FALSE /\ whole = FALSE /\ current = {}
  /\ request = [a \in Requests |-> [at |-> "idle"]]
  /\ product \in [Products -> {"none", "matching"}]
  /\ keyed = NoProduct
  /\ posted = {} /\ settled = {}

At(a, step) == request[a].at = step
Goes(a, to) == request' = [request EXCEPT ![a] = to]
Over(a) == Goes(a, [at |-> "over"])
On(a, step) == [at |-> step, asks |-> request[a].asks]

\* A write of the row: it is young again and nobody has read it yet.
Write(r) ==
  /\ row' = r /\ old' = FALSE /\ current' = {}
  /\ whole' \in IF row.status = "none" THEN BOOLEAN ELSE {TRUE}

(* External: a request of the console, for these create parameters.        *)
Ask(a, p) ==
  /\ At(a, "idle")
  /\ Goes(a, [at |-> "begin", asks |-> p])
  /\ UNCHANGED <<mapping, provider, history>>

(* beginProvision reads the row.                                           *)
ReadRow(a) ==
  /\ At(a, "begin")
  /\ current' = current \cup {a}
  /\ Goes(a, [at |-> "decide", asks |-> request[a].asks, seen |-> row, stale |-> old])
  /\ UNCHANGED <<row, old, whole, provider, history>>

Mut_AnyParams(a) == TRUE
\* A retry sends the same key, so it must ask for what was asked first.
SameIntent(a) ==
  request[a].seen.frozen # NoParams => request[a].asks = request[a].seen.frozen

(* No row was read: the intent is inserted, unless another request has     *)
(* been faster.                                                            *)
Insert(a) ==
  /\ At(a, "decide") /\ request[a].seen.status = "none"
  /\ IF row.status = "none"
     THEN /\ Write([NoRow EXCEPT !.status = "pending", !.frozen = request[a].asks])
          /\ Goes(a, On(a, "claim"))
     ELSE UNCHANGED mapping /\ Over(a)
  /\ UNCHANGED <<provider, history>>

\* A read row that ends the request: it is synced, it was asked for something
\* else, another attempt is running, or a person has to look at it.
TurnedAway(a) ==
  LET seen == request[a].seen IN
  \/ seen.status = "synced"
  \/ seen.status # "none" /\ ~SameIntent(a)
  \/ seen.status \in {"pending", "creating"} /\ ~request[a].stale
  \/ seen.status = "needs_reconciliation"
TurnAway(a) ==
  /\ At(a, "decide") /\ TurnedAway(a)
  /\ Over(a)
  /\ UNCHANGED <<mapping, provider, history>>

\* Whatever the attempt has written stays, its token included.
Parked(a) == [row EXCEPT !.status = "needs_reconciliation"]

(* A crashed attempt is parked, if nothing has touched it since: if its    *)
(* updated_at equals the Date that was read.  The row is read again        *)
(* otherwise.                                                              *)
parkStaleInFlight(a) ==
  /\ At(a, "decide") /\ SameIntent(a)
  /\ request[a].seen.status \in {"pending", "creating"} /\ request[a].stale
  /\ IF a \in current /\ whole
     THEN Write(Parked(a)) /\ Over(a)
     ELSE UNCHANGED mapping /\ Goes(a, On(a, "begin"))
  /\ UNCHANGED <<provider, history>>

(* A failed intent is retried: the same row, hence the same key.           *)
Reset(a) ==
  /\ At(a, "decide") /\ SameIntent(a) /\ request[a].seen.status = "failed"
  /\ IF row.status = "failed"
     THEN Write([row EXCEPT !.status = "pending"]) /\ Goes(a, On(a, "claim"))
     ELSE UNCHANGED mapping /\ Goes(a, On(a, "begin"))
  /\ UNCHANGED <<provider, history>>

(* One request takes a pending row and owns the call; its token marks      *)
(* every later write as its own.                                           *)
Claim(a) ==
  /\ At(a, "claim")
  /\ IF row.status = "pending"
     THEN /\ Write([row EXCEPT !.status = "creating", !.token = a])
          /\ Goes(a, On(a, "call"))
     ELSE UNCHANGED mapping /\ Over(a)
  /\ UNCHANGED <<provider, history>>

-------------------------------------------------------------------------------
(* The call.  External: the provider may create the product, or find the   *)
(* one that its key stands for, and its answer may be lost.                *)

Make(p, quality) ==
  IF keyed = NoProduct
  THEN /\ product[p] = "none" /\ keyed' = p
       /\ product' = [product EXCEPT ![p] = quality]
  ELSE p = keyed /\ UNCHANGED provider

Created(a, p, quality) ==
  /\ At(a, "call") /\ Make(p, quality)
  /\ \/ Goes(a, [at |-> "created", asks |-> request[a].asks, made |-> p])
     \/ Goes(a, On(a, "uncertain"))
  /\ posted' = posted \cup {a}
  /\ UNCHANGED <<mapping, settled>>

\* Nothing has come of it: refused, or lost on the way there.
NotCreated(a) ==
  /\ At(a, "call")
  /\ \/ Goes(a, On(a, "rejected")) \/ Goes(a, On(a, "uncertain"))
  /\ posted' = posted \cup {a}
  /\ UNCHANGED <<mapping, provider, settled>>

-------------------------------------------------------------------------------
(* finishProvision.                                                        *)

Mut_AnyStatus(a) == row.token = a
Owns(a) == row.status \in {"creating", "needs_reconciliation"} /\ row.token = a

Settle(a, status) ==
  /\ IF Owns(a)
     THEN /\ Write([row EXCEPT !.status = status])
          /\ settled' = IF status = "failed" THEN settled \cup {a} ELSE settled
     ELSE UNCHANGED <<mapping, settled>>
  /\ Over(a)

FinishRejected(a) ==
  /\ At(a, "rejected") /\ Settle(a, "failed")
  /\ UNCHANGED <<provider, posted>>

FinishUncertain(a) ==
  /\ At(a, "uncertain") /\ Settle(a, "needs_reconciliation")
  /\ UNCHANGED <<provider, posted>>

(* The created id is written before it is verified.                        *)
PersistCreatedId(a) ==
  /\ At(a, "created")
  /\ IF Owns(a)
     THEN /\ Write([row EXCEPT !.product = request[a].made])
          /\ Goes(a, [request[a] EXCEPT !.at = "verify"])
     ELSE UNCHANGED mapping /\ Over(a)
  /\ UNCHANGED <<provider, history>>

Matches(a) == product[request[a].made] = "matching"

\* The product was read again and compared, or could not be read.
Verify(a) ==
  /\ At(a, "verify")
  /\ IF Owns(a)
     THEN /\ \E read \in BOOLEAN :
               IF read /\ Matches(a)
               THEN Write([row EXCEPT !.product = request[a].made,
                                      !.status = "synced", !.frozen = NoParams])
               ELSE Write([row EXCEPT !.product = request[a].made,
                                      !.status = "needs_reconciliation"])
          /\ settled' = IF row'.status = "synced" THEN settled \cup {a} ELSE settled
     ELSE UNCHANGED <<mapping, settled>>
  /\ Over(a)
  /\ UNCHANGED <<provider, posted>>

-------------------------------------------------------------------------------
(* The operator.                                                           *)

failNeedsReconciliationIntent ==
  /\ row.status = "needs_reconciliation"
  /\ Write([row EXCEPT !.status = "failed"])
  /\ settled' = settled \cup ({row.token} \ {NoRequest})
  /\ UNCHANGED <<request, provider, posted>>

Adoptable == {"needs_reconciliation", "failed"}

\* A product of the provider keeps its terms here, so that what a preview
\* finds stands until the link it is for is written, in the same step.
previewProviderCatalogLink(p) == product[p] = "matching"

\* A price without a mapping is linked, a link is verified again, and an
\* intent that is not running adopts the product.
linkProviderCatalogProduct(p) ==
  /\ \/ row.status = "none"
     \/ row.status = "synced" /\ row.product = p
     \/ row.status \in Adoptable
  /\ Write([row EXCEPT !.status = "synced", !.product = p, !.frozen = NoParams])

linkProviderCatalogProductFromConsole(p) ==
  /\ previewProviderCatalogLink(p)
  /\ linkProviderCatalogProduct(p)
  /\ settled' = settled \cup ({row.token} \ {NoRequest})
  /\ UNCHANGED <<request, provider, posted>>

Elapse ==
  /\ row.status \in {"pending", "creating"} /\ ~old
  /\ old' = TRUE
  /\ UNCHANGED <<row, whole, current, request, provider, history>>

Die(a) ==
  /\ request[a].at \notin {"idle", "over"}
  /\ Over(a)
  /\ UNCHANGED <<mapping, provider, history>>

Begins(a) == ReadRow(a) \/ Insert(a) \/ TurnAway(a) \/ parkStaleInFlight(a) \/ Reset(a)
Finishes(a) == FinishRejected(a) \/ FinishUncertain(a) \/ PersistCreatedId(a) \/ Verify(a)

Next ==
  \/ \E a \in Requests :
       \/ \E p \in Params : Ask(a, p)
       \/ Begins(a) \/ Claim(a) \/ NotCreated(a) \/ Finishes(a) \/ Die(a)
       \/ \E p \in Products, quality \in {"matching", "other"} : Created(a, p, quality)
  \/ failNeedsReconciliationIntent
  \/ \E p \in Products : linkProviderCatalogProductFromConsole(p)
  \/ Elapse

Spec == Init /\ [][Next]_vars

\* A request that is not killed goes on, and a call ends in a time.
RequestFairness ==
  \A a \in Requests :
    WF_vars(Begins(a) \/ Claim(a) \/ NotCreated(a) \/ Finishes(a))
FairSpec == Spec /\ RequestFairness

-------------------------------------------------------------------------------
(* A synced mapping points at a product that was compared with the price.  *)
SyncedWasVerified == row.status = "synced" => product[row.product] = "matching"

(* A price that checkout sends to one product is never sent to another: no *)
(* late answer and no second link moves a synced mapping.                  *)
CheckoutNeverSwitches ==
  [][row.status = "synced" => /\ row'.status = "synced"
                              /\ row'.product = row.product]_vars

(* A create call is not sent while an earlier one may still have created   *)
(* the product: each call but one is settled, by its own outcome or by the *)
(* operator, who may give up an attempt that is not sent until later.      *)
NothingUncertainIsSentAgain ==
  \A a, b \in posted : a # b => a \in settled \/ b \in settled

(* All the calls that carry the key of one intent ask for the same product *)
(* as long as that intent is open.                                         *)
OneKeyOneRequest ==
  \A a \in Requests :
    request[a].at \in {"claim", "call"} /\ row.status \in {"pending", "creating"}
      => request[a].asks = row.frozen

(* The id of a created product is never lost: while its attempt owns the   *)
(* intent, a row parked as stale still carries it.                         *)
CreatedIdKept ==
  \A a \in Requests :
    At(a, "verify") /\ Owns(a) => row.product = request[a].made

(* "Stale attempts are parked automatically on the next request": a        *)
(* request that meets one does not go round for ever.                      *)
StaleIsParked ==
  \A a \in Requests : At(a, "begin") ~> At(a, "over")
===============================================================================
