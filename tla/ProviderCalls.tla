------------------------------ MODULE ProviderCalls ------------------------------
(***************************************************************************)
(* What a call to a provider is taken to have done.  One connection, its    *)
(* adapter, and jobs that use it at the same time: a checkout, a            *)
(* cancellation, a refund, the creation of a catalog product, or a lookup.  *)
(* The journal and the catalog ask again only after "rejected"; an          *)
(* "outcome_uncertain" is for an operator to look into.                     *)
(*                                                                         *)
(*   provider  whose adapter it is                                         *)
(*   active    provider_connections.status                                 *)
(*   cached    PayPal's tokenCache holds a token for the connection        *)
(*   job       what is asked, the calls left of it, how often the call at  *)
(*             hand and the whole were repeated, and what became of it     *)
(*   made      how often the provider did what the job asks for            *)
(***************************************************************************)
EXTENDS Naturals, Sequences

CONSTANTS
  Jobs,
  MaxAttempts   \* how often an operator asks for one thing

CallsAssumption == MaxAttempts \in Nat \ {0}

VARIABLES provider, active, cached, job, made

vars == <<provider, active, cached, job, made>>

Providers == {"creem", "paypal", "waffo"}
Operations == {"checkout", "cancel", "refund", "create", "lookup"}
Outcomes == {"done", "declined", "rejected", "outcome_uncertain"}
Calls == {"read", "shell", "act"}
RetryDelays == 2

Idle == [at |-> "idle"]

TypeOK ==
  /\ provider \in Providers /\ active \in BOOLEAN /\ cached \in BOOLEAN
  /\ cached => provider = "paypal"
  /\ made \in [Jobs -> 0 .. MaxAttempts]
  /\ \A j \in Jobs :
       LET k == job[j] IN
       k = Idle \/ /\ k.at \in Outcomes \cup {"asked", "loaded", "authorized"}
                   /\ k.op \in Operations
                   /\ k.left \in Seq(Calls) /\ Len(k.left) <= 2
                   /\ k.again \in 0 .. RetryDelays
                   /\ k.attempt \in 1 .. MaxAttempts

Init ==
  /\ provider \in Providers
  /\ active = TRUE
  /\ cached = FALSE
  /\ job = [j \in Jobs |-> Idle]
  /\ made = [j \in Jobs |-> 0]

-------------------------------------------------------------------------------
(* The adapters.                                                           *)

\* What an adapter does not offer is refused before anything is sent: a
\* capability it has not, or a method that only throws so.
Capable(op) ==
  CASE op = "refund" -> provider # "waffo"
    [] op = "create" -> provider = "creem"
    [] op = "lookup" -> provider # "waffo"
    [] OTHER -> TRUE

\* The calls an operation consists of.  PayPal reads the capture before it
\* refunds an amount, and the subscription after it cancelled it; Waffo makes
\* a product shell for every checkout.
CallsOf(op) ==
  CASE op = "lookup" -> <<"read">>
    [] op = "checkout" /\ provider = "waffo" -> <<"shell", "act">>
    [] op = "refund" /\ provider = "paypal" -> <<"read", "act">>
    [] op = "cancel" /\ provider = "paypal" -> <<"act", "read">>
    [] OTHER -> <<"act">>

\* An answer without what it should hold is an answer all the same to
\* Creem's refund, which becomes "pending", to PayPal's cancellation, whose
\* body is not read, to the capture, which is taken to be in dollars, and to
\* Waffo's cancellation, which is taken to be still active.
TakesAnyBody(op, call) ==
  \/ op = "refund" /\ provider = "creem"
  \/ op = "refund" /\ call = "read"
  \/ op = "cancel" /\ provider = "paypal" /\ call = "act"
  \/ op = "cancel" /\ provider = "waffo"

Mut_RejectsServerErrors(status) ==
  IF status \in {"4xx", "401", "429", "5xx"} THEN "rejected" ELSE "outcome_uncertain"
classifyHttpFailure(status) ==
  IF status \in {"4xx", "401", "429"} THEN "rejected" ELSE "outcome_uncertain"

\* Errors that are not of the classes below are of an uncertain outcome; the
\* console knows one more, a connection that is gone, for a creation.
Classified(error, op) ==
  CASE error \in {"UnsupportedProviderCapability", "ApplicationMismatch",
                  "MissingCredential", "Preflight"} -> "rejected"
    [] error = "ConnectionNotFound" /\ op = "create" -> "rejected"
    [] OTHER -> "outcome_uncertain"

-------------------------------------------------------------------------------
(* The jobs.                                                               *)

At(j, step) == job[j].at = step
Goes(j, step) == job' = [job EXCEPT ![j].at = step]
Fails(j, error) == Goes(j, Classified(error, job[j].op))

Ask(j, op) ==
  /\ At(j, "idle")
  /\ job' = [job EXCEPT ![j] =
       [at |-> "asked", op |-> op, left |-> <<>>, again |-> 0, attempt |-> 1]]
  /\ UNCHANGED <<provider, active, cached, made>>

\* Only what was rejected is asked for again.
Retry(j) ==
  /\ At(j, "rejected")
  /\ job[j].op \in {"cancel", "refund", "create"}
  /\ job[j].attempt < MaxAttempts
  /\ job' = [job EXCEPT ![j].at = "asked", ![j].attempt = @ + 1, ![j].again = 0]
  /\ UNCHANGED <<provider, active, cached, made>>

revokeProviderConnection ==
  /\ active' = FALSE
  /\ UNCHANGED <<provider, cached, job, made>>

\* What an operation is refused for before its first call.
RefusedFor(j) ==
  LET op == job[j].op IN
  IF ~active THEN {"ConnectionNotFound"}
  ELSE IF ~Capable(op) THEN {"UnsupportedProviderCapability"}
  ELSE {"MissingCredential"}
       \cup (IF op = "create" THEN {"Preflight"} ELSE {})
       \cup (IF op # "checkout" THEN {}
             ELSE IF provider = "waffo" THEN {"UnsupportedProviderCapability"}
             ELSE {"CatalogMappingMissing"})

Refuse(j) ==
  /\ At(j, "asked")
  /\ \E error \in RefusedFor(j) : Fails(j, error)
  /\ UNCHANGED <<provider, active, cached, made>>

Load(j) ==
  /\ At(j, "asked")
  /\ active /\ Capable(job[j].op)
  /\ job' = [job EXCEPT ![j].at = "loaded", ![j].left = CallsOf(job[j].op)]
  /\ UNCHANGED <<provider, active, cached, made>>

\* PayPal's bearer token comes from the cache or from one more call, whose
\* failure is an unclassified error.
accessToken(j) ==
  /\ At(j, "loaded") /\ provider = "paypal"
  /\ \/ cached' = TRUE /\ Goes(j, "authorized")
     \/ ~cached /\ cached' = cached /\ Fails(j, "OAuthFailed")
  /\ UNCHANGED <<provider, active, made>>

TokenExpires ==
  /\ cached
  /\ cached' = FALSE
  /\ UNCHANGED <<provider, active, job, made>>

Ready(j) == At(j, IF provider = "paypal" THEN "authorized" ELSE "loaded")

(* External: what comes back of a call, if anything, and whether the       *)
(* provider did what it was asked: a refusal is none, and of an error of    *)
(* the server, or of silence, nobody knows.                                 *)
Statuses == {"2xx", "401", "4xx", "429", "5xx", "none"}
Bodies == {"good", "odd", "invalid"}
Answers ==
  {a \in [status : Statuses, body : Bodies, executed : BOOLEAN] :
     /\ a.status = "none" => a.body = "invalid"
     /\ a.status = "2xx" /\ a.body # "invalid" => a.executed
     /\ a.status \in {"401", "4xx", "429"} => ~a.executed}

Counts(j, executed) ==
  made' = [made EXCEPT ![j] =
             IF executed /\ Head(job[j].left) = "act" THEN @ + 1 ELSE @]

\* One more time, with a new token after a 401, or later after a 429.
Repeats(j, a) ==
  \/ provider = "paypal" /\ a.status = "401" /\ job[j].again = 0
  \/ job[j].op = "create" /\ a.status = "429" /\ job[j].again < RetryDelays

Repeat(j, a) ==
  /\ Ready(j) /\ a.body # "invalid" /\ Repeats(j, a)
  /\ job' = [job EXCEPT ![j].again = @ + 1,
                        ![j].at = IF a.status = "429" THEN "asked" ELSE "loaded"]
  /\ cached' = (cached /\ a.status # "401")
  /\ Counts(j, a.executed)
  /\ UNCHANGED <<provider, active>>

\* Waffo's SDK has an error with the status; the others parse the body first.
Failure(j, a) ==
  IF (provider # "waffo" /\ a.body = "invalid") \/ a.status = "2xx"
  THEN "outcome_uncertain" ELSE classifyHttpFailure(a.status)

Fail(j, a) ==
  /\ Ready(j)
  /\ a.body = "invalid" \/ ~Repeats(j, a)
  /\ \/ a.status # "2xx"
     \/ a.body = "invalid"
     \/ (a.body = "odd" /\ ~TakesAnyBody(job[j].op, Head(job[j].left)))
  /\ Goes(j, Failure(j, a))
  /\ Counts(j, a.executed)
  /\ UNCHANGED <<provider, active, cached>>

Succeed(j, a) ==
  LET k == job[j] IN
  /\ Ready(j)
  /\ a.status = "2xx"
  /\ a.body = "good" \/ (a.body = "odd" /\ TakesAnyBody(k.op, Head(k.left)))
  /\ job' = [job EXCEPT ![j] =
       [k EXCEPT !.left = Tail(k.left), !.again = 0,
                 !.at = IF Tail(k.left) = <<>> THEN "done" ELSE "loaded"]]
  /\ Counts(j, a.executed)
  /\ UNCHANGED <<provider, active, cached>>

\* A refund may be answered by saying that it is not made.
Decline(j) ==
  /\ Ready(j) /\ job[j].op = "refund" /\ Head(job[j].left) = "act"
  /\ Goes(j, "declined")
  /\ UNCHANGED <<provider, active, cached, made>>

Next ==
  \/ revokeProviderConnection \/ TokenExpires
  \/ \E j \in Jobs :
       \/ \E op \in Operations : Ask(j, op)
       \/ Retry(j) \/ Refuse(j) \/ Load(j) \/ accessToken(j) \/ Decline(j)
       \/ \E a \in Answers : Repeat(j, a) \/ Fail(j, a) \/ Succeed(j, a)

Spec == Init /\ [][Next]_vars

-------------------------------------------------------------------------------
(* PayPal's cancellation is read back, and a refusal of that reading is    *)
(* reported as a refusal of the cancellation.                              *)
ReadsBack(j) == provider = "paypal" /\ job[j].op = "cancel"

(* Whatever answers, odd bodies, expired tokens and repeated calls there   *)
(* were: what is reported as rejected, and may so be asked for again, was  *)
(* not done; what is reported as done was; and no number of retries does a *)
(* thing twice.                                                            *)
OutcomesAreHonest ==
  \A j \in Jobs : job[j] # Idle =>
    /\ job[j].at = "rejected" /\ ~ReadsBack(j) => made[j] = 0
    /\ job[j].at = "done" /\ job[j].op # "lookup" => made[j] > 0
    /\ made[j] > 1 => ReadsBack(j)
===============================================================================
