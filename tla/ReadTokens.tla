------------------------------ MODULE ReadTokens ------------------------------
(***************************************************************************)
(* Customer read tokens: a backend has one issued for a customer and an    *)
(* environment, hands it to the customer's browser and revokes it by its   *)
(* id; the routes of balances and entitlements resolve it and then read.   *)
(*                                                                         *)
(*   now      the clock                                                    *)
(*   token    customer_read_tokens, or NoToken                             *)
(*   known    the tokens whose answer the backend received                 *)
(*   told     the tokens whose revocation was confirmed to the backend     *)
(*   read     the requests of browsers: the token, the customer and the    *)
(*            environment they name, when they began and what was told by  *)
(*            then, and once resolved whose data they read                 *)
(*   answers  the reads that were answered                                 *)
(***************************************************************************)
EXTENDS Integers, FiniteSets

CONSTANTS
  Tokens, Requests, Customers, Environments,
  Ttls,              \* the lives backends ask for
  MinTtl, MaxTtl,    \* READ_TOKEN_MIN_TTL_SECONDS, READ_TOKEN_MAX_TTL_SECONDS
  MaxClock,
  Unsaid             \* a field a request leaves out

TokensAssumption ==
  {MinTtl, MaxTtl, MaxClock} \subseteq Nat /\ Ttls \subseteq Int
  /\ Unsaid \notin Customers \cup Environments

VARIABLES now, token, known, told, read, answers
vars == <<now, token, known, told, read, answers>>

Row == [customer : Customers, environment : Environments, expiresAt : Nat, revoked : BOOLEAN]
NoToken == [customer |-> Unsaid, environment |-> Unsaid, expiresAt |-> 0, revoked |-> TRUE]
Idle == [at |-> "idle"]

Init ==
  /\ now = 0
  /\ token = [t \in Tokens |-> NoToken]
  /\ known = {} /\ told = {}
  /\ read = [r \in Requests |-> Idle]
  /\ answers = {}

issueCustomerReadToken(t, c, e, ttl) ==
  /\ token[t] = NoToken
  /\ MinTtl <= ttl /\ ttl <= MaxTtl
  /\ token' = [token EXCEPT ![t] =
       [customer |-> c, environment |-> e, expiresAt |-> now + ttl, revoked |-> FALSE]]

\* The answer may be lost, and with it the token, which is stored as a hash.
createCustomerReadToken(t) == known' \in {known, known \cup {t}}

PostToken(t, c, e, ttl) ==
  /\ issueCustomerReadToken(t, c, e, ttl)
  /\ createCustomerReadToken(t)
  /\ UNCHANGED <<now, told, read, answers>>

\* A token that is revoked already is not found.
revokeCustomerReadToken(t) ==
  /\ ~token[t].revoked
  /\ token' = [token EXCEPT ![t].revoked = TRUE]

\* By the id the backend received with the token; the answer may be lost.
Confirm(t) == t \in known /\ told' \in {told, told \cup {t}}

DeleteToken(t) ==
  /\ revokeCustomerReadToken(t)
  /\ Confirm(t)
  /\ UNCHANGED <<now, known, read, answers>>

-------------------------------------------------------------------------------
(* A read.                                                                 *)

\* External: a browser asks, with or without naming customer and environment.
Ask(r, t, c, e) ==
  /\ read[r] = Idle /\ t \in known
  /\ read' = [read EXCEPT ![r] =
       [at |-> "resolve", token |-> t, customer |-> c, environment |-> e,
        began |-> now, revoked |-> t \in told]]
  /\ UNCHANGED <<now, token, known, told, answers>>

Usable(t) == ~token[t].revoked /\ token[t].expiresAt > now

Names(said, has) == said \in {Unsaid, has}

\* The customer and the environment are the token's, never the request's.
resolveCustomerReadToken(r) ==
  /\ read[r].at = "resolve"
  /\ LET row == token[read[r].token]
     IN read' = [read EXCEPT ![r] =
          IF /\ Usable(@.token)
             /\ Names(@.customer, row.customer) /\ Names(@.environment, row.environment)
          THEN [@ EXCEPT !.at = "read", !.customer = row.customer,
                         !.environment = row.environment]
          ELSE Idle]
  /\ UNCHANGED <<now, token, known, told, answers>>

\* The balance or the entitlement is read after that, in a query of its own.
Read(r) ==
  /\ read[r].at = "read"
  /\ answers' = answers \cup {[read[r] EXCEPT !.at = "answer"]}
  /\ read' = [read EXCEPT ![r] = Idle]
  /\ UNCHANGED <<now, token, known, told>>

Tick ==
  /\ now < MaxClock
  /\ now' = now + 1
  /\ UNCHANGED <<token, known, told, read, answers>>

Next ==
  \/ Tick
  \/ \E t \in Tokens :
       \/ DeleteToken(t)
       \/ \E c \in Customers, e \in Environments, ttl \in Ttls :
            PostToken(t, c, e, ttl)
  \/ \E r \in Requests :
       \/ \E t \in Tokens, c \in Customers \cup {Unsaid}, e \in Environments \cup {Unsaid} :
            Ask(r, t, c, e)
       \/ resolveCustomerReadToken(r) \/ Read(r)

Spec == Init /\ [][Next]_vars

-------------------------------------------------------------------------------
TypeOK ==
  /\ now \in 0 .. MaxClock
  /\ token \in [Tokens -> Row \cup {NoToken}]
  /\ told \subseteq known /\ known \subseteq Tokens
  /\ \A r \in Requests : read[r] = Idle \/ read[r].token \in Tokens

(* A read is answered with the data of the customer and the environment    *)
(* its token was issued for, and only if it began before the token expired *)
(* and before the backend was told that the token is revoked.              *)
ReadsStayScoped ==
  \A a \in answers :
    /\ a.customer = token[a.token].customer /\ a.environment = token[a.token].environment
    /\ a.began < token[a.token].expiresAt /\ ~a.revoked
===============================================================================
