-------------------------------- MODULE MCConsole --------------------------------
(* The components operators and hosts work with, for TLC.  They             *)
(* share no row, so an execution is one of a component and the others stay  *)
(* in their initial state:                                                  *)
(*   deliveries     DeveloperDeliveries                                     *)
(*   provisioning   CatalogProvisioning                                     *)
(*   panel          CatalogPanel                                            *)
(*   checkout       Checkout, with the console's catalog and routes         *)
(*   reads          HostReadLimiter                                         *)
(*   calls          ProviderCalls                                           *)
(*   wizard         ProductWizard                                           *)
(*   usage          UsageMetering                                           *)
(*   keys           ApiKeys                                                 *)
(*   tokens         ReadTokens                                              *)
(* They share model values, so that one symmetry group serves all of them:  *)
(* the racers are two requests of whatever kind.                           *)
EXTENDS DeveloperDeliveries, Integers, TLC

CONSTANTS
  t1, t2, Nothing,
  Racers, Later,                        \* requests that race, and others
  MadeIds, AskedParams,                 \* provisioning
  Places, Prices, ProductIds, Matching, \* the panel, the tokens; of a sale
  Connections, SoldProducts, ProviderOf, ModeOf, ProductOf, TermsOf, Baskets,
  Limit, MaxWindows, Window, MaxTime,   \* the limiter
  Weekly, ProjectOf, ProductTypes, Intervals, Grants, \* the wizard
  Units, Meters, Periods, Length,       \* metered usage
  KeyOperators, MaxKeys,                \* the keys of the hosts
  Tokens, Customers, Ttls, MinTtl, MaxTtl, MaxClock \* read tokens

VARIABLES component,
  mapping, old, whole, current, attempt, product, keyed, posted, settled,
  place, pair, shown, verification, verifying, verifyAbort, preview, writing,
  connection, routing, price, editing, checkout,
  now, windows, reads, alarms,
  provider, reachable, cached, job, made,
  cookie, connections, rendered, step, form, submission, created,
  credential, audited, installed, page, stored, retired, keyRequest,
  clock, meter, metered, report, answered, invoice,
  token, known, told, read, answers

provisioned == <<mapping, old, whole, current, attempt, product, keyed, posted, settled>>
panel == <<place, pair, shown, verification, verifying, verifyAbort, preview, writing>>
sales == <<connection, routing, price, editing, checkout>>
limiter == <<now, windows, reads, alarms>>
callVars == <<provider, reachable, cached, job, made>>
builder == <<cookie, connections, rendered, step, form, submission, created>>
keyVars == <<credential, audited, installed, page, stored, retired, keyRequest>>
usage == <<meter, metered, report, answered, invoice>>
tokenVars == <<token, known, told, read, answers>>
console == <<vars, provisioned, panel, sales, limiter, callVars, builder>>

\* The events are of one type, and an endpoint subscribes to everything or
\* to the other type.
OneType == [v \in Events |-> t1]
AnySubscription == {{}, {t2}}

\* Of two prices, one matches the product here and the other one there.
MCMatching ==
  {[place |-> "test", pair |-> [price |-> "p1", product |-> "x1"]],
   [place |-> "live", pair |-> [price |-> "p2", product |-> "x1"]]}

\* A sandbox connection and a live one, of one project; two monthly prices of
\* one product, one with a trial.  One basket names a connection, one has two
\* items.
MCProviderOf == "c1" :> "creem" @@ "c2" :> "paypal"
MCModeOf == "c1" :> "test" @@ "c2" :> "live"
MCProjectOf == [l \in {"test", "live"} |-> "a"]
MCProductOf == [p \in {"p1", "p2"} |-> "a"]
MCTermsOf == [p \in {"p1", "p2"} |-> [interval |-> "month", trial |-> p = "p2"]]
Basket(items, first, env, named) ==
  [items |-> items, first |-> first, env |-> env, named |-> named]
MCBaskets ==
       {Basket({"p1"}, "p1", env, Nothing) : env \in {"test", "live"}}
  \cup {Basket({"p2"}, "p2", "absent", named) : named \in {Nothing, "c1"}}
  \cup {Basket({"p1", "p2"}, "p1", "test", "c1")}

\* One key in two environments; an allowance and a price per unit, and one of
\* each without its amount.
MCUnits ==
  {[key |-> "k", environment |-> "live", customer |-> "a", quantity |-> 1],
   [key |-> "k", environment |-> "test", customer |-> "a", quantity |-> 3]}
MCMeters ==
  {[billingScheme |-> scheme, includedQuantity |-> 2,
    perUnitAmountMinor |-> amount, overageUnitAmountMinor |-> amount] :
     scheme \in {"per_unit", "included_overage"}, amount \in {-1, 3}}

Provisioning == INSTANCE CatalogProvisioning WITH
  Requests <- Racers \cup Later, Products <- MadeIds, Params <- AskedParams,
  NoProduct <- Nothing, NoRequest <- Nothing, NoParams <- Nothing,
  row <- mapping, request <- attempt

Panel == INSTANCE CatalogPanel WITH
  Requests <- Racers, mapping <- shown, request <- preview

Sales == INSTANCE Checkout WITH
  Products <- SoldProducts, Requests <- Later, Editors <- Racers,
  NoConnection <- Nothing

Limiter == INSTANCE HostReadLimiter WITH Clients <- Racers, MaxClock <- MaxTime

ProviderJobs == INSTANCE ProviderCalls WITH Jobs <- Racers, active <- reachable

Wizard == INSTANCE ProductWizard WITH
  PlaceOf <- ModeOf, Types <- ProductTypes,
  place <- cookie, active <- connections, shown <- rendered,
  request <- submission, product <- created

Usage == INSTANCE UsageMetering WITH
  Requests <- Racers, NoMeter <- Nothing,
  now <- clock, events <- metered, heard <- answered

HostKeys == INSTANCE ApiKeys WITH
  Operators <- KeyOperators, Requests <- Racers, NoKey <- Nothing,
  request <- keyRequest

BrowserReads == INSTANCE ReadTokens WITH
  Requests <- Racers, Environments <- Places, Unsaid <- Nothing, now <- clock

ASSUME ConsoleAssumption ==
  /\ Provisioning!ProvisioningAssumption /\ Panel!PanelAssumption
  /\ Sales!CheckoutAssumption /\ Limiter!LimiterAssumption
  /\ ProviderJobs!CallsAssumption /\ Wizard!WizardAssumption
  /\ Usage!UsageAssumption /\ HostKeys!KeysAssumption /\ BrowserReads!TokensAssumption

SomeOf(S) == CHOOSE x \in S : TRUE

(* Each component begins as it does by itself, and the same each time when  *)
(* it is not the one that runs.                                             *)
MCInit ==
  /\ component \in {"deliveries", "provisioning", "panel", "checkout", "reads",
                    "calls", "wizard", "usage", "keys", "tokens"}
  /\ Init /\ Provisioning!Init /\ Panel!Init /\ Sales!Init /\ Limiter!Init
  /\ ProviderJobs!Init /\ Wizard!Init /\ Usage!Init /\ HostKeys!Init /\ BrowserReads!Init
  /\ component # "deliveries" => tests = {}
  /\ component # "provisioning" => product = [p \in MadeIds |-> "none"]
  /\ component # "panel" => place = SomeOf(Places) /\ pair.price = SomeOf(Prices)
  /\ component # "calls" => provider = "creem"
  /\ component # "wizard" => cookie = SomeOf(Places)

ConsoleNext ==
  \/ /\ component = "deliveries" /\ Next
     /\ UNCHANGED <<provisioned, panel, sales, limiter, callVars, builder>>
  \/ /\ component = "provisioning" /\ Provisioning!Next
     /\ UNCHANGED <<vars, panel, sales, limiter, callVars, builder>>
  \/ /\ component = "panel" /\ Panel!Next
     /\ UNCHANGED <<vars, provisioned, sales, limiter, callVars, builder>>
  \/ /\ component = "checkout" /\ Sales!Next
     /\ UNCHANGED <<vars, provisioned, panel, limiter, callVars, builder>>
  \/ /\ component = "reads" /\ Limiter!Next
     /\ UNCHANGED <<vars, provisioned, panel, sales, callVars, builder>>
  \/ /\ component = "calls" /\ ProviderJobs!Next
     /\ UNCHANGED <<vars, provisioned, panel, sales, limiter, builder>>
  \/ /\ component = "wizard" /\ Wizard!Next
     /\ UNCHANGED <<vars, provisioned, panel, sales, limiter, callVars>>

HostNext ==
  \/ /\ component = "usage" /\ Usage!Next
     /\ UNCHANGED <<keyVars, tokenVars>>
  \/ /\ component = "keys" /\ HostKeys!Next
     /\ UNCHANGED <<clock, usage, tokenVars>>
  \/ /\ component = "tokens" /\ BrowserReads!Next
     /\ UNCHANGED <<usage, keyVars>>

MCNext ==
  /\ component' = component
  /\ \/ ConsoleNext /\ UNCHANGED <<clock, usage, keyVars, tokenVars>>
     \/ HostNext /\ UNCHANGED console

MCSpec ==
  MCInit /\ [][MCNext]_<<component, console, clock, usage, keyVars, tokenVars>>

Symmetry == Permutations(Racers)

(* Every row and every request of the component is well formed.            *)
ConsoleTypeOK ==
  CASE component = "deliveries"   -> TypeOK
    [] component = "provisioning" -> Provisioning!TypeOK
    [] component = "panel"        -> Panel!TypeOK
    [] component = "checkout"     -> Sales!TypeOK
    [] component = "reads"        -> Limiter!TypeOK
    [] component = "calls"        -> ProviderJobs!TypeOK
    [] component = "wizard"       -> Wizard!TypeOK
    [] component = "usage"        -> Usage!TypeOK
    [] component = "keys"         -> HostKeys!TypeOK
    [] component = "tokens"       -> BrowserReads!TypeOK

(* What a provider was asked to create stands: of the calls that have been *)
(* sent one at most is neither answered nor given up by the operator (one  *)
(* he gave up before it was sent may still be sent), the calls of an open  *)
(* intent ask for the same, and a product id that came back is not lost.   *)
IntentKeepsItsWord ==
  component = "provisioning" =>
    /\ Provisioning!NothingUncertainIsSentAgain
    /\ Provisioning!OneKeyOneRequest /\ Provisioning!CreatedIdKept

(* A product the catalog is bound to was compared with the price, and a    *)
(* synced binding never moves to another product.                          *)
BindingsAreVerified ==
  /\ [](component = "provisioning" => Provisioning!SyncedWasVerified)
  /\ Provisioning!CheckoutNeverSwitches

(* Only what the server has compared is sent to be linked, and a panel     *)
(* that says it is verifying waits for a live request.                     *)
PanelIsSound == component = "panel" => Panel!PanelIsSound

(* An open session's connection can bill its terms, and every route stays  *)
(* in its environment.                                                     *)
CheckoutCanBill ==
  component = "checkout" =>
    Sales!OpenSessionCanBill /\ Sales!RoutesStayInTheirEnvironment

(* A client reads at most twice the limit in any span of a window.         *)
ReadsAreBounded == component = "reads" => Limiter!ReadsAreBounded

(* What is reported as rejected was not done, and what as done was.        *)
OutcomesAreHonest == component = "calls" => ProviderJobs!OutcomesAreHonest

(* A product is where the wizard said, with what its type must have.       *)
CreatedAsReviewed == component = "wizard" => Wizard!CreatedAsReviewed

(* No unit of usage is billed twice, and the invoice of a period counts    *)
(* what the host had been told, by then, falls in it.                      *)
UsageBilledOnce == component = "usage" => Usage!UsageBilledOnce

(* A host keeps its access through a rotation of its key, and a browser    *)
(* reads only what its token was issued for while the token stands.        *)
AccessFollowsGrants ==
  /\ component = "keys" => HostKeys!RotationIsSafe
  /\ component = "tokens" => BrowserReads!ReadsStayScoped
===============================================================================
