-------------------------------- MODULE ApiKeys --------------------------------
(***************************************************************************)
(* The keys a host's backend calls with, and the console page they are     *)
(* made, rotated and revoked on.  A secret is in one answer and nowhere    *)
(* else.  The page disables its buttons by one busy flag, which the end of *)
(* any request clears, so that requests of a page overlap.                 *)
(*                                                                         *)
(*   credential  application_credentials: the status of each key           *)
(*   audited     the keys whose creation or rotation is in the audit log   *)
(*   installed   the key the host calls with                               *)
(*   page        per operator: what is busy, the secret that is revealed   *)
(*               and the key it replaces                                   *)
(*   stored      per operator: the secrets kept, with what they replace    *)
(*   retired     per operator: the keys whose replacement was deployed     *)
(*   request     the requests to the routes of the keys                    *)
(***************************************************************************)
EXTENDS Integers, FiniteSets

CONSTANTS
  Operators,
  Requests,
  MaxKeys,     \* a bound: the keys that are ever issued
  NoKey

KeysAssumption == MaxKeys \in Nat \ {0} /\ NoKey \notin Nat

VARIABLES credential, audited, installed, page, stored, retired, request
vars == <<credential, audited, installed, page, stored, retired, request>>

Keys == 1 .. MaxKeys
Secret == [key : Keys, replaces : Keys \cup {NoKey}]
NoSecret == [key |-> NoKey, replaces |-> NoKey]
Idle == [op |-> "none", at |-> "idle", by |-> NoKey, key |-> NoKey, result |-> NoKey]
Issued == {k \in Keys : credential[k] # "free"}
Active == {k \in Keys : credential[k] = "active"}

\* External: the project's first key was made and deployed.
Init ==
  /\ credential = [k \in Keys |-> IF k = 1 THEN "active" ELSE "free"]
  /\ audited = {1}
  /\ installed = 1
  /\ page = [o \in Operators |-> [busy |-> "no", revealed |-> NoSecret]]
  /\ stored = [o \in Operators |-> {}]
  /\ retired = [o \in Operators |-> {}]
  /\ request = [r \in Requests |-> Idle]

-------------------------------------------------------------------------------
(* The page.                                                               *)

Ask(o, r, op, k, busy) ==
  /\ request[r] = Idle
  /\ request' = [request EXCEPT ![r] =
       [op |-> op, at |-> "guard", by |-> o, key |-> k, result |-> NoKey]]
  /\ page' = [page EXCEPT ![o].busy = busy]
  /\ UNCHANGED <<credential, audited, installed, stored, retired>>

createKey(o, r) == page[o].busy # "create" /\ Ask(o, r, "create", NoKey, "create")

\* A page may list a key that was revoked since.  An operator replaces the
\* key that is in use.
rotateKey(o, r, k) ==
  page[o].busy = "no" /\ k = installed /\ Ask(o, r, "rotate", k, "row")

\* The notice: the old key stays until it is revoked after the deployment.
revokeKey(o, r, k) ==
  page[o].busy = "no" /\ k \in retired[o] /\ Ask(o, r, "revoke", k, "row")

\* The answer to the request, or the failure of it, ends it for the page.
Land(r) ==
  /\ request[r].at \in {"answer", "error"}
  /\ page' = [page EXCEPT ![request[r].by] =
       [busy |-> "no",
        revealed |-> IF request[r].at = "error" \/ request[r].op = "revoke" THEN @.revealed
                     ELSE [key |-> request[r].result, replaces |-> request[r].key]]]
  /\ request' = [request EXCEPT ![r] = Idle]
  /\ UNCHANGED <<credential, audited, installed, stored, retired>>

Store(o) ==
  /\ page[o].revealed # NoSecret
  /\ stored' = [stored EXCEPT ![o] = @ \cup {page[o].revealed}]
  /\ page' = [page EXCEPT ![o].revealed = NoSecret]
  /\ UNCHANGED <<credential, audited, installed, retired, request>>

\* External: an operator deploys a key it stored, which ends what it replaces.
Deploy(o, s) ==
  /\ s \in stored[o]
  /\ installed' = s.key
  /\ stored' = [stored EXCEPT ![o] = @ \ {s}]
  /\ retired' = [retired EXCEPT ![o] = @ \cup ({s.replaces} \ {NoKey})]
  /\ UNCHANGED <<credential, audited, page, request>>

-------------------------------------------------------------------------------
(* The routes.                                                             *)

Reach(r, at) == request' = [request EXCEPT ![r].at = at]
NextKey == Cardinality(Issued) + 1

\* Only an active key can be rotated; the key is issued in a second step.
FindKey(r) ==
  /\ request[r].at = "guard"
  /\ Reach(r, IF request[r].op = "rotate" /\ request[r].key \notin Active
              THEN "error" ELSE "write")
  /\ UNCHANGED <<credential, audited, installed, page, stored, retired>>

Mut_RevokesPrevious(r) ==
  /\ NextKey \in Keys
  /\ credential' = [k \in Keys |-> CASE k = NextKey -> "active"
                                     [] k = request[r].key -> "revoked"
                                     [] OTHER -> credential[k]]
  /\ request' = [request EXCEPT ![r].at = "audit", ![r].result = NextKey]
issueApplicationCredential(r) ==
  /\ NextKey \in Keys
  /\ credential' = [credential EXCEPT ![NextKey] = "active"]
  /\ request' = [request EXCEPT ![r].at = "audit", ![r].result = NextKey]

revokeApplicationCredential(r) ==
  /\ credential' = [credential EXCEPT ![request[r].key] = "revoked"]
  /\ request' = [request EXCEPT ![r].at = "audit", ![r].result = request[r].key]

Write(r) ==
  /\ request[r].at = "write"
  /\ IF request[r].op = "revoke" THEN revokeApplicationCredential(r)
     ELSE issueApplicationCredential(r)
  /\ UNCHANGED <<audited, installed, page, stored, retired>>

\* The entry is written after the key and by itself: when that fails the
\* answer is an error and the secret of an active key is gone.
Audit(r) ==
  /\ request[r].at = "audit"
  /\ \/ /\ audited' = IF request[r].op = "revoke" THEN audited
                        ELSE audited \cup {request[r].result}
        /\ Reach(r, "answer")
     \/ UNCHANGED audited /\ Reach(r, "error")
  /\ UNCHANGED <<credential, installed, page, stored, retired>>

\* External: the process dies, or its answer is lost on the way.
Lose(r) ==
  /\ request[r].at \in {"guard", "write", "audit", "answer"}
  /\ Reach(r, "error")
  /\ UNCHANGED <<credential, audited, installed, page, stored, retired>>

Next ==
  \/ \E o \in Operators :
       \/ Store(o) \/ \E s \in stored[o] : Deploy(o, s)
       \/ \E r \in Requests :
            createKey(o, r) \/ \E k \in Issued : rotateKey(o, r, k) \/ revokeKey(o, r, k)
  \/ \E r \in Requests : FindKey(r) \/ Write(r) \/ Audit(r) \/ Land(r) \/ Lose(r)

Spec == Init /\ [][Next]_vars

-------------------------------------------------------------------------------
TypeOK ==
  /\ credential \in [Keys -> {"free", "active", "revoked"}]
  /\ audited \subseteq Keys /\ installed \in Keys
  /\ \A o \in Operators :
       /\ page[o].busy \in {"no", "create", "row"}
       /\ page[o].revealed \in Secret \cup {NoSecret}
       /\ stored[o] \subseteq Secret /\ retired[o] \subseteq Keys
  /\ \A r \in Requests :
       /\ request[r].op \in {"none", "create", "rotate", "revoke"}
       /\ request[r].at \in {"idle", "guard", "write", "audit", "answer", "error"}

\* authenticateApplicationCredential: a key's calls are answered.
Accepted(k) == k \in Active

Held(o) == {s.key : s \in stored[o] \cup ({page[o].revealed} \ {NoSecret})}

(* Operators who follow the notice never lock the host out, whatever they  *)
(* do at the same time, whatever answers are lost and whichever steps fail:*)
(* the key in use is accepted.  A secret an operator has in hand is one    *)
(* that works, that is audited and that no one else holds.                 *)
RotationIsSafe ==
  /\ Accepted(installed)
  /\ \A o \in Operators :
       /\ \A k \in Held(o) : Accepted(k) /\ k \in audited
       /\ \A p \in Operators \ {o} : Held(o) \cap Held(p) = {}
===============================================================================
