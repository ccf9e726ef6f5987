------------------------------ MODULE ProductWizard ------------------------------
(***************************************************************************)
(* The console's product builder: five steps in a browser, and the request  *)
(* that creates the product, its price and its grants.  The project and the *)
(* environment are a cookie, which another tab may change; the page shows   *)
(* them as they were when it was rendered, and the form is kept when it is  *)
(* rendered again.                                                         *)
(*                                                                         *)
(*   place     the project and environment of the cookie                   *)
(*   active    the connections that are active                             *)
(*   shown     the place the page was rendered for, and its providers      *)
(*   step      the step the wizard is at                                   *)
(*   form      what the operator has entered                               *)
(*   request   the request under way, with what was sent of it             *)
(*   product   the product of the form's key in each project               *)
(***************************************************************************)
EXTENDS Naturals

CONSTANTS
  Connections,
  Places,             \* projects in their environments
  PlaceOf,            \* of a connection
  Weekly,             \* the connections that can bill weekly
  ProjectOf,          \* of a place
  Types, Intervals, Grants,   \* what an operator enters
  Nothing

WizardAssumption ==
  /\ PlaceOf \in [Connections -> Places]
  /\ Weekly \subseteq Connections
  /\ DOMAIN ProjectOf = Places
  /\ Types \subseteq {"one_time", "subscription", "credit_pack", "usage_based"}
  /\ Intervals \subseteq {"week", "month", "year"}
  /\ Grants \subseteq {"none", "blank", "twice", "good"}
  /\ Nothing \notin Connections
  /\ "subscription" \in Types /\ "month" \in Intervals /\ "none" \in Grants

VARIABLES place, active, shown, step, form, request, product

console == <<place, active>>
vars == <<console, shown, step, form, request, product>>

\* Of the grants: no row, a row without key or quantity, two rows of one key,
\* or proper ones.
Form == [type : Types, named : BOOLEAN, priced : BOOLEAN, interval : Intervals,
         grants : Grants, provider : Connections \cup {Nothing}]
None == [at |-> "none"]

TypeOK ==
  /\ place \in Places /\ active \subseteq Connections
  /\ shown \in [place : Places, providers : SUBSET Connections]
  /\ step \in 0 .. 4
  /\ form \in Form
  /\ request \in {None, [at |-> "left"]}
       \cup [at : {"sent", "created", "refused"}, shown : Places,
             selected : BOOLEAN, place : Places]
  /\ \A p \in DOMAIN product :
       product[p] \in {None} \cup
         [type : Types, interval : Intervals \cup {Nothing}, grants : Grants,
          provider : Connections, place : Places, shown : Places, selected : BOOLEAN]

isRecurring(f) == f.type \in {"subscription", "usage_based"}
requiresCredits(f) == f.type \in {"credit_pack", "usage_based"}

getBuilderProviderOptions == {c \in active : PlaceOf[c] = place}

Init ==
  /\ place \in Places
  /\ active = Connections
  /\ shown = [place |-> place, providers |-> getBuilderProviderOptions]
  /\ step = 0
  /\ \E first \in getBuilderProviderOptions :
       form = [type |-> "subscription", named |-> FALSE, priced |-> FALSE,
               interval |-> "month", grants |-> "none", provider |-> first]
  /\ request = None
  /\ product = [p \in {ProjectOf[l] : l \in Places} |-> None]

-------------------------------------------------------------------------------
(* Around the wizard.                                                      *)

SelectPlace(l) ==
  /\ place' = l
  /\ UNCHANGED <<active, shown, step, form, request, product>>

revokeProviderConnection(c) ==
  /\ active' = active \ {c}
  /\ UNCHANGED <<place, shown, step, form, request, product>>

\* The page is rendered again: new properties, the same state.
Render ==
  /\ shown' = [place |-> place, providers |-> getBuilderProviderOptions]
  /\ UNCHANGED <<console, step, form, request, product>>

-------------------------------------------------------------------------------
(* The steps.  A panel is there at its step only.  What is entered while a *)
(* request is under way does not go with it: it is taken to be entered      *)
(* after the answer, when the wizard is still there.                       *)

Open == request = None

Enter(at, entered) ==
  /\ Open /\ step = at
  /\ form' = entered
  /\ UNCHANGED <<console, shown, step, request, product>>

SetProductType(t) == Enter(0, [form EXCEPT !.type = t])
SetName(ok) == Enter(0, [form EXCEPT !.named = ok])
SetAmount(ok) == Enter(1, [form EXCEPT !.priced = ok])

selectedProvider == form.provider \in shown.providers
weeklySupported == selectedProvider /\ form.provider \in Weekly

SetRecurringInterval(i) ==
  /\ isRecurring(form)
  /\ i = "week" => weeklySupported
  /\ Enter(1, [form EXCEPT !.interval = i])

SetGrants(g) == Enter(2, [form EXCEPT !.grants = g])

SetProviderConnectionId(c) ==
  /\ c \in shown.providers
  /\ Enter(3, [form EXCEPT !.provider = c])

ValidAt(s) ==
  CASE s = 0 -> form.named
    [] s = 1 -> form.priced
    [] s = 2 -> form.grants # "blank" /\ (requiresCredits(form) => form.grants # "none")
    [] s = 3 -> form.provider # Nothing
    [] s = 4 -> TRUE

GoesTo(s) ==
  /\ step' = s
  /\ UNCHANGED <<console, shown, form, request, product>>

next == Open /\ step < 4 /\ ValidAt(step) /\ GoesTo(step + 1)
back == Open /\ step > 0 /\ GoesTo(step - 1)
\* The list of the steps leads back to any of them.
Jump(s) == Open /\ s < step /\ GoesTo(s)

-------------------------------------------------------------------------------
(* The creation.                                                           *)

\* The cookie goes with the request.
submit ==
  /\ Open /\ step = 4 /\ form.priced
  /\ shown.providers # {}
  /\ request' = [at |-> "sent", shown |-> shown.place,
                 selected |-> selectedProvider, place |-> place]
  /\ UNCHANGED <<console, shown, step, form, product>>

assertBenefits(f) ==
  /\ f.grants # "blank"
  /\ requiresCredits(f) => f.grants # "none"

Mut_AnyEnvironment(l, c) == c \in active /\ ProjectOf[PlaceOf[c]] = ProjectOf[l]
assertProviderForEnvironment(l, c) == c \in active /\ PlaceOf[c] = l

Accepts(l, f) ==
  /\ assertBenefits(f) /\ f.grants # "twice"
  /\ assertProviderForEnvironment(l, f.provider)
  /\ isRecurring(f) => f.interval # "week"
  /\ product[ProjectOf[l]] = None

Configured(f, r) ==
  [type |-> f.type, interval |-> IF isRecurring(f) THEN f.interval ELSE Nothing,
   grants |-> f.grants, provider |-> f.provider,
   place |-> r.place, shown |-> r.shown, selected |-> r.selected]

\* Everything is written in one transaction, under the product's unique key;
\* the reads before it may be taken as one with it.
createProductFromBuilder ==
  /\ request.at = "sent"
  /\ \/ /\ Accepts(request.place, form)
        /\ request' = [request EXCEPT !.at = "created"]
        /\ product' = [product EXCEPT ![ProjectOf[request.place]] =
                         Configured(form, request)]
     \/ /\ ~Accepts(request.place, form)
        /\ request' = [request EXCEPT !.at = "refused"]
        /\ product' = product
  /\ UNCHANGED <<console, shown, step, form>>

\* The page of the product is opened.
Created ==
  /\ request.at = "created"
  /\ request' = [at |-> "left"]
  /\ UNCHANGED <<console, shown, step, form, product>>

\* An error, or no answer: the wizard stays as it is.
NotCreated ==
  /\ request.at \in {"sent", "created", "refused"}
  /\ request' = None
  /\ UNCHANGED <<console, shown, step, form, product>>

Next ==
  \/ \E l \in Places : SelectPlace(l)
  \/ \E c \in Connections : revokeProviderConnection(c) \/ SetProviderConnectionId(c)
  \/ Render
  \/ \E t \in Types : SetProductType(t)
  \/ \E ok \in BOOLEAN : SetName(ok) \/ SetAmount(ok)
  \/ \E i \in Intervals : SetRecurringInterval(i)
  \/ \E g \in Grants : SetGrants(g)
  \/ next \/ back \/ \E s \in 0 .. 3 : Jump(s)
  \/ submit \/ createProductFromBuilder \/ Created \/ NotCreated

Spec == Init /\ [][Next]_vars

-------------------------------------------------------------------------------
(* A product whose review named its provider is where the wizard said it    *)
(* would be, although another tab has changed the project or the            *)
(* environment meanwhile or the page was rendered again for another one.    *)
(* Every product is sold through a connection of its place, in an interval  *)
(* that the checkout knows, and grants what its type must.                 *)
CreatedAsReviewed ==
  \A p \in DOMAIN product : product[p] # None =>
    LET made == product[p] IN
    /\ made.selected => made.place = made.shown
    /\ PlaceOf[made.provider] = made.place /\ ProjectOf[made.place] = p
    /\ isRecurring(made) => made.interval \in {"month", "year"}
    /\ requiresCredits(made) => made.grants = "good"
===============================================================================
