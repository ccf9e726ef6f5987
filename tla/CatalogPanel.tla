------------------------------ MODULE CatalogPanel ------------------------------
(***************************************************************************)
(* The console's panel that binds a price to a product of the provider.    *)
(* An operator verifies a pair and may then link it; the answers of the    *)
(* server come at any time, while the operator picks another price, types  *)
(* another product, or moves to another environment or connection.         *)
(* A handler runs to its next await in one step.                           *)
(*                                                                         *)
(*   place         the environment and routed connection that are shown    *)
(*   pair          the chosen price and the typed product                  *)
(*   mapping       the mapping statuses, as the page last had them         *)
(*   verification  the preview that is kept, with what it is of            *)
(*   verifying     the flag of that name                                   *)
(*   verifyAbort   the request whose controller the panel holds            *)
(*   request       the preview requests                                    *)
(*   writing       what is being written, and of what                      *)
(***************************************************************************)
EXTENDS Naturals

CONSTANTS
  Places, Prices, ProductIds, Requests,
  Matching,   \* the identities the server says to match
  Nothing

VARIABLES place, pair, mapping, verification, verifying, verifyAbort, request,
          writing

shown == <<place, pair, mapping>>
asking == <<verification, verifying, verifyAbort, request>>
vars == <<shown, asking, writing>>

Pair == [price : Prices, product : ProductIds \cup {Nothing}]
Identity == [place : Places, pair : Pair]
Statuses == {"unconfigured", "pending", "synced", "needs_reconciliation", "failed"}
None == [at |-> "none"]

PanelAssumption ==
  /\ Nothing \notin ProductIds \cup Requests
  /\ Matching \subseteq [place : Places, pair : Pair]

TypeOK ==
  /\ place \in Places /\ pair \in Pair
  /\ mapping \in [Places -> [Prices -> Statuses]]
  /\ verification \in {None} \cup [at : {"shown"}, of : Identity, ok : BOOLEAN]
  /\ verifying \in BOOLEAN
  /\ verifyAbort \in Requests \cup {Nothing}
  /\ request \in [Requests -> {None} \cup [at : {"sent", "aborted"}, of : Identity]]
  /\ writing \in {None} \cup [at : {"linking", "creating", "failing"}, of : Identity]

Init ==
  /\ place \in Places
  /\ pair \in [price : Prices, product : {Nothing}]
  /\ mapping = [l \in Places |-> [p \in Prices |-> "unconfigured"]]
  /\ verification = None
  /\ verifying = FALSE
  /\ verifyAbort = Nothing
  /\ request = [q \in Requests |-> None]
  /\ writing = None

Shown == [place |-> place, pair |-> pair]
mappingStatus == mapping[place][pair.price]
showLinkForm == mappingStatus \in {"unconfigured", "needs_reconciliation", "failed"}
showCreate == mappingStatus \in {"unconfigured", "failed"}

verificationIsCurrent == verification # None /\ verification.of = Shown

canLink == verificationIsCurrent /\ verification.ok /\ writing = None

Aborted ==
  [q \in Requests |-> IF q = verifyAbort THEN [request[q] EXCEPT !.at = "aborted"]
                      ELSE request[q]]

Mut_LeaveTheFlag ==
  /\ request' = Aborted /\ verifyAbort' = Nothing
  /\ verifying' = verifying /\ verification' = None
invalidateVerification ==
  /\ request' = Aborted /\ verifyAbort' = Nothing
  /\ verifying' = FALSE /\ verification' = None

-------------------------------------------------------------------------------
(* What the operator does.                                                 *)

SelectPrice(p) ==
  /\ p # pair.price
  /\ pair' = [pair EXCEPT !.price = p]
  /\ invalidateVerification
  /\ UNCHANGED <<place, mapping, writing>>

TypeProduct(x) ==
  /\ showLinkForm /\ x # pair.product
  /\ pair' = [pair EXCEPT !.product = x]
  /\ invalidateVerification
  /\ UNCHANGED <<place, mapping, writing>>

\* Another environment, or another connection in the route editor: the panel
\* gets new properties and keeps its state.
Move(p) ==
  /\ p # place
  /\ place' = p
  /\ UNCHANGED <<pair, mapping, asking, writing>>

verify(q) ==
  /\ showLinkForm /\ ~verifying /\ writing = None /\ pair.product # Nothing
  /\ request[q] = None
  /\ request' = [Aborted EXCEPT ![q] = [at |-> "sent", of |-> Shown]]
  /\ verifyAbort' = q /\ verifying' = TRUE /\ verification' = None
  /\ UNCHANGED <<shown, writing>>

\* Only the request whose controller is held resets the flag.
Settled(q) ==
  /\ request' = [request EXCEPT ![q] = None]
  /\ verifyAbort' = IF verifyAbort = q THEN Nothing ELSE verifyAbort
  /\ verifying' = (verifying /\ verifyAbort # q)

Lands(q) == request[q].at = "sent" /\ request[q].of.place = place

(* The preview of request q comes: it is kept when the request has not     *)
(* been aborted and the panel is where it was.                             *)
Previewed(q) ==
  /\ request[q] # None
  /\ Settled(q)
  /\ verification' = IF Lands(q)
                     THEN [at |-> "shown", of |-> request[q].of,
                           ok |-> request[q].of \in Matching]
                     ELSE verification
  /\ UNCHANGED <<shown, writing>>

\* An aborted fetch, an error of the server or no answer at all.
NotPreviewed(q) ==
  /\ request[q] # None
  /\ Settled(q)
  /\ UNCHANGED <<shown, verification, writing>>

Writes(what) ==
  /\ writing' = [at |-> what, of |-> Shown]
  /\ UNCHANGED <<shown, asking>>

link == showLinkForm /\ canLink /\ Writes("linking")
createInProvider == showCreate /\ writing = None /\ Writes("creating")
markFailedForRetry ==
  /\ mappingStatus = "needs_reconciliation" /\ writing = None
  /\ Writes("failing")

\* External: what the server can have made of the mapping.
Outcomes == [linking  |-> {"synced"},
             creating |-> {"synced", "pending", "needs_reconciliation", "failed"},
             failing  |-> {"failed"}]

(* The write ends.  The page is loaded again if it succeeded.              *)
Written ==
  /\ writing # None
  /\ writing' = None
  /\ \/ mapping' = mapping
     \/ \E s \in Outcomes[writing.at] :
          mapping' = [mapping EXCEPT ![writing.of.place][writing.of.pair.price] = s]
  /\ UNCHANGED <<place, pair, asking>>

Next ==
  \/ \E p \in Prices : SelectPrice(p)
  \/ \E x \in ProductIds \cup {Nothing} : TypeProduct(x)
  \/ \E p \in Places : Move(p)
  \/ \E q \in Requests :
       verify(q) \/ Previewed(q) \/ NotPreviewed(q)
  \/ link \/ createInProvider \/ markFailedForRetry \/ Written

Spec == Init /\ [][Next]_vars

-------------------------------------------------------------------------------
(* Only a price and a product that the server has said to match, in that   *)
(* environment and on that connection, can be sent to be linked, however   *)
(* late or out of order the answers came.                                  *)
OnlyVerifiedIsLinked == writing # None /\ writing.at = "linking" => writing.of \in Matching

(* The button that says "verifying" has a live request to wait for: it is  *)
(* never left disabled by a request that was aborted.                      *)
VerifyingHasARequest ==
  verifying => /\ verifyAbort # Nothing /\ request[verifyAbort] # None
               /\ request[verifyAbort].at = "sent"

PanelIsSound == OnlyVerifiedIsLinked /\ VerifyingHasARequest
===============================================================================
