-------------------------------- MODULE Checkout --------------------------------
(***************************************************************************)
(* A checkout: which connection it is routed to, the order and session it  *)
(* leaves, and the call of the provider; next to it the console changes    *)
(* what the route was decided on.  Every read is a statement of its own.   *)
(*                                                                         *)
(*   connection  provider_connections.status                               *)
(*   routing     products.metadata.monetplane.providerRouting              *)
(*   price       prices.status                                             *)
(*   editing     the routings the console is changing, as it read them     *)
(*   checkout    the requests; at: how far one is, or what its session is  *)
(***************************************************************************)
EXTENDS Naturals, FiniteSets

CONSTANTS
  Connections, Products, Prices,
  ProviderOf, ModeOf,    \* of a connection
  ProductOf, TermsOf,    \* of a price
  Requests, Editors,
  Baskets,               \* what may be asked for
  NoConnection

Environments == {"test", "live"}
Maybe == Connections \cup {NoConnection}
\* The prices of the items and which of them is the first, the environment
\* that is asked for, a connection that is named.
Basket == [items : SUBSET Prices, first : Prices,
           env : Environments \cup {"absent"}, named : Maybe]
Providers == {"creem", "paypal", "waffo"}
Terms == [interval : {"once", "week", "month", "year"}, trial : BOOLEAN]

CheckoutAssumption ==
  /\ NoConnection \notin Connections
  /\ ProviderOf \in [Connections -> Providers]
  /\ ModeOf \in [Connections -> Environments]
  /\ ProductOf \in [Prices -> Products]
  /\ TermsOf \in [Prices -> Terms]
  /\ \A p \in Prices : TermsOf[p].interval = "once" => ~TermsOf[p].trial
  /\ Baskets \subseteq Basket
  /\ \A b \in Baskets : IsFiniteSet(b.items) /\ b.first \in b.items

VARIABLES connection, routing, price, editing, checkout

console == <<connection, routing, price, editing>>
vars == <<console, checkout>>

Routing == [Environments -> Maybe]
Unrouted == [e \in Environments |-> NoConnection]
Idle == [at |-> "idle"]

TypeOK ==
  /\ connection \in [Connections -> {"none", "active", "revoked"}]
  /\ routing \in [Products -> Routing]
  /\ price \in [Prices -> {"none", "active", "archived"}]
  /\ editing \in [Editors -> {Idle} \cup
       [at : {"editing"}, product : Products, env : Environments,
        to : Connections, seen : Routing]]
  /\ \A k \in Requests :
       LET c == checkout[k] IN
       c = Idle \/ /\ c.basket \in Baskets
                   /\ c.active \subseteq Connections /\ c.to \in Maybe
                   /\ c.at \in {"asked", "listed", "chosen", "creating", "calling",
                                "answered", "refused", "open", "failed"}

Init ==
  /\ connection = [c \in Connections |-> "none"]
  /\ routing = [p \in Products |-> Unrouted]
  /\ price = [p \in Prices |-> "none"]
  /\ editing = [d \in Editors |-> Idle]
  /\ checkout = [k \in Requests |-> Idle]

-------------------------------------------------------------------------------
(* What the providers can do.                                              *)

CREEM_CAPABILITIES == {"month", "year"}
PAYPAL_CAPABILITIES == {"week", "month", "year", "trial"}
WAFFO_CAPABILITIES == {"week", "month", "year", "trial"}

getProviderCapabilities(c) ==
  CASE ProviderOf[c] = "creem" -> CREEM_CAPABILITIES
    [] ProviderOf[c] = "paypal" -> PAYPAL_CAPABILITIES
    [] ProviderOf[c] = "waffo" -> WAFFO_CAPABILITIES

Mut_IntervalOnly(c, p) ==
  TermsOf[p].interval = "once" \/ TermsOf[p].interval \in getProviderCapabilities(c)
\* The terms of the first price, the ones the provider is asked for.
Supports(c, p) ==
  TermsOf[p].interval # "once" =>
    /\ TermsOf[p].interval \in getProviderCapabilities(c)
    /\ TermsOf[p].trial => "trial" \in getProviderCapabilities(c)

-------------------------------------------------------------------------------
(* The console.                                                            *)

createProviderConnection(c) ==
  /\ connection[c] = "none"
  /\ connection' = [connection EXCEPT ![c] = "active"]
  /\ UNCHANGED <<routing, price, editing, checkout>>

revokeProviderConnection(c) ==
  /\ connection[c] # "none"
  /\ connection' = [connection EXCEPT ![c] = "revoked"]
  /\ UNCHANGED <<routing, price, editing, checkout>>

assertProviderForEnvironment(c, env) == connection[c] = "active" /\ ModeOf[c] = env

\* A product with its price, routed in the environment of the console.
createProductFromBuilder(p, c) ==
  /\ \A q \in Prices : ProductOf[q] = ProductOf[p] => price[q] = "none"
  /\ TermsOf[p].interval # "week" /\ ~TermsOf[p].trial
  /\ assertProviderForEnvironment(c, ModeOf[c])
  /\ routing' = [routing EXCEPT ![ProductOf[p]] = [Unrouted EXCEPT ![ModeOf[c]] = c]]
  /\ price' = [price EXCEPT ![p] = "active"]
  /\ UNCHANGED <<connection, editing, checkout>>

\* Any other price comes to a product, which may have no route.
createPrice(p) ==
  /\ price[p] = "none"
  /\ price' = [price EXCEPT ![p] = "active"]
  /\ UNCHANGED <<connection, routing, editing, checkout>>

archivePrice(p) ==
  /\ price[p] = "active"
  /\ price' = [price EXCEPT ![p] = "archived"]
  /\ UNCHANGED <<connection, routing, editing, checkout>>

setProductProviderRoute(d, product, env, c) ==
  /\ editing[d] = Idle
  /\ assertProviderForEnvironment(c, env)
  /\ editing' = [editing EXCEPT ![d] =
       [at |-> "editing", product |-> product, env |-> env, to |-> c,
        seen |-> routing[product]]]
  /\ UNCHANGED <<connection, routing, price, checkout>>

\* The routes of both environments are written, as they were read.
WriteRoute(d) ==
  /\ editing[d] # Idle
  /\ routing' = [routing EXCEPT ![editing[d].product] =
                   [editing[d].seen EXCEPT ![editing[d].env] = editing[d].to]]
  /\ editing' = [editing EXCEPT ![d] = Idle]
  /\ UNCHANGED <<connection, price, checkout>>

-------------------------------------------------------------------------------
(* The checkout.                                                           *)

At(k, step) == checkout[k].at = step
Goes(k, step) ==
  /\ checkout' = [checkout EXCEPT ![k] = step]
  /\ UNCHANGED console
To(k, step) == [checkout[k] EXCEPT !.at = step]

Recurring(p) == TermsOf[p].interval # "once"

\* Active prices, one-time or recurring ones; a named connection is active.
Ask(k, basket) ==
  /\ checkout[k] = Idle
  /\ \A p \in basket.items :
       price[p] = "active" /\ (Recurring(p) <=> Recurring(basket.first))
  /\ basket.named # NoConnection => connection[basket.named] = "active"
  /\ Goes(k, [at |-> IF basket.named = NoConnection THEN "asked" ELSE "chosen",
              basket |-> basket, active |-> {}, to |-> basket.named])

EnvironmentOf(basket) == IF basket.env = "absent" THEN "test" ELSE basket.env

loadActiveConnections(k) ==
  /\ At(k, "asked")
  /\ Goes(k, [To(k, "listed") EXCEPT !.active =
       {c \in Connections : connection[c] = "active"
                            /\ ModeOf[c] = EnvironmentOf(checkout[k].basket)}])

Routes(k) ==
  {routing[ProductOf[p]][EnvironmentOf(checkout[k].basket)] :
     p \in checkout[k].basket.items} \ {NoConnection}

\* A connection is checked after the routes were read, and never becomes
\* active again: both reads may be taken as one.
resolveCheckoutProviderRoute(k) ==
  /\ At(k, "listed")
  /\ \E c \in checkout[k].active :
       /\ \/ Routes(k) = {c}
          \/ Routes(k) = {} /\ checkout[k].active = {c}
       /\ connection[c] = "active"
       /\ Supports(c, checkout[k].basket.first)
       /\ Goes(k, [To(k, "chosen") EXCEPT !.to = c])

\* The order, its items and the session are one transaction.
CreateOrder(k) ==
  LET b == checkout[k].basket
      c == checkout[k].to IN
  /\ At(k, "chosen")
  /\ connection[c] = "active"
  /\ b.env \in {ModeOf[c], "absent"}
  /\ b.named # NoConnection => Supports(c, b.first)
  /\ \A p \in b.items : TermsOf[p].interval = TermsOf[b.first].interval
  /\ Goes(k, To(k, "creating"))

\* What is refused has written nothing.
Refuse(k) ==
  /\ checkout[k].at \in {"asked", "listed", "chosen"}
  /\ Goes(k, To(k, "refused"))

RuntimeAllows(c, p) ==
  \/ TermsOf[p].interval \in {"once", "month"}
  \/ "year" \in getProviderCapabilities(c)

\* The connection is loaded once more, and a checkout is of one product.
createProviderCheckout(k) ==
  LET b == checkout[k].basket
      c == checkout[k].to IN
  /\ At(k, "creating")
  /\ connection[c] = "active" /\ RuntimeAllows(c, b.first)
  /\ Cardinality(b.items) = 1
  /\ Goes(k, To(k, "calling"))

(* External: the provider makes the checkout and answers.                  *)
Answer(k) == At(k, "calling") /\ Goes(k, To(k, "answered"))

SetOpen(k) == At(k, "answered") /\ Goes(k, To(k, "open"))

\* The runtime or the provider refuses, or no answer comes.  A process that
\* dies instead leaves the session as it is, "creating".
SetFailed(k) ==
  /\ checkout[k].at \in {"creating", "calling", "answered"}
  /\ Goes(k, To(k, "failed"))

Next ==
  \/ \E c \in Connections :
       createProviderConnection(c) \/ revokeProviderConnection(c)
  \/ \E p \in Prices :
       \/ createPrice(p) \/ archivePrice(p)
       \/ \E c \in Connections : createProductFromBuilder(p, c)
  \/ \E d \in Editors :
       \/ WriteRoute(d)
       \/ \E p \in Products, e \in Environments, c \in Connections :
            setProductProviderRoute(d, p, e, c)
  \/ \E k \in Requests :
       \/ \E basket \in Baskets : Ask(k, basket)
       \/ loadActiveConnections(k) \/ resolveCheckoutProviderRoute(k)
       \/ CreateOrder(k) \/ Refuse(k) \/ createProviderCheckout(k)
       \/ Answer(k) \/ SetOpen(k) \/ SetFailed(k)

Spec == Init /\ [][Next]_vars

-------------------------------------------------------------------------------
(* A customer can only be sent to a checkout of the environment that was   *)
(* asked for, at a provider that bills every price in it as it is sold,    *)
(* interval and trial, whoever chose the connection: the product, the      *)
(* default, or the caller.                                                 *)
OpenSessionCanBill ==
  \A k \in Requests : At(k, "open") =>
    LET b == checkout[k].basket
        c == checkout[k].to IN
    /\ b.env \in {ModeOf[c], "absent"}
    /\ \A p \in b.items :
         LET sold == TermsOf[p] IN
         /\ sold.interval = "week" => ProviderOf[c] # "creem"
         /\ sold.trial => ProviderOf[c] # "creem"

(* A product is routed, in each environment, to a connection of that       *)
(* environment, whatever the editors overwrote of each other.              *)
RoutesStayInTheirEnvironment ==
  \A p \in Products, e \in Environments :
    routing[p][e] # NoConnection =>
      ModeOf[routing[p][e]] = e /\ connection[routing[p][e]] # "none"
===============================================================================
