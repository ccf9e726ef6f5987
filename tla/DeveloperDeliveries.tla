-------------------------- MODULE DeveloperDeliveries --------------------------
(***************************************************************************)
(* Developer webhooks: how an event of the control plane reaches the       *)
(* endpoints an application has registered.                                *)
(*                                                                         *)
(* Publishing inserts one row per endpoint, each a commit of its own, and  *)
(* then sends the rows it inserted, all at once.  The cron's sweepers send *)
(* again what a dead process left pending, an operator what has failed.    *)
(* Every attempt reads the row, claims it, posts it and writes the result, *)
(* and may die between any two of these.                                   *)
(*                                                                         *)
(*   tests       the events that are tests sent by operators; never changes *)
(*   endpoint    webhook_endpoints: status, subscribed types               *)
(*   row         webhook_deliveries by (endpoint, event id)                *)
(*   born        the order of the rows' born_at, from 1; 0: no row       *)
(*   ripe        the rows whose waiting time is over (born_at or        *)
(*               last_attempt_at is far enough in the past)                *)
(*   publishing  what each publisher has still to insert, and has inserted *)
(*   sweep       the candidates each sweeper has read and not handled      *)
(*   flight      the attempts that are being made                          *)
(*   heard       history: what each endpoint has made of each delivery     *)
(*   claims      history: claims of each delivery, up to MaxAttempts       *)
(***************************************************************************)
EXTENDS Naturals, FiniteSets

CONSTANTS
  Endpoints, Events,
  Types,          \* event types; TypeOf gives each event's
  TypeOf,
  Subscriptions,  \* the sets of types an endpoint may be born with
  Publishers, Sweepers, Operators,   \* requests of each kind at a time
  MaxAttempts,    \* PENDING_DELIVERY_MAX_ATTEMPTS
  BatchSize,      \* the sweeper's limit
  MaxManual,      \* bound: retries by operators
  MaxFaults       \* bound: attempts, publications and sweeps that die

Wildcard == "*"

ASSUME DeliveryAssumption ==
  /\ TypeOf \in [Events -> Types]
  /\ Wildcard \notin Types
  /\ Subscriptions \subseteq SUBSET (Types \cup {Wildcard})
  /\ MaxAttempts \in Nat \ {0} /\ BatchSize \in Nat \ {0}
  /\ MaxManual \in Nat /\ MaxFaults \in Nat
  /\ IsFiniteSet(Endpoints) /\ IsFiniteSet(Events)
  /\ Publishers \cap Sweepers = {} /\ Publishers \cap Operators = {}
  /\ Sweepers \cap Operators = {}

VARIABLES tests, endpoint, row, born, ripe, publishing, sweep, flight, heard, claims,
  manual, faults

rows == <<row, born, ripe>>
history == <<heard, claims>>
bounds == <<tests, manual, faults>>
vars == <<endpoint, rows, publishing, sweep, flight, history, bounds>>

Deliveries == Endpoints \X Events
Callers == Publishers \cup Sweepers \cup Operators

\* Idle publishers have nothing to insert.
Idle == [event |-> "none", todo |-> {}, fresh |-> {}]

NoRow == [status |-> "none", attempts |-> 0]
Pending == [status |-> "pending", attempts |-> 0]
Row == [status : {"none", "pending", "succeeded", "failed"}, attempts : Nat]

Endpoint == [status : {"none", "active", "disabled"},
             types : SUBSET (Types \cup {Wildcard})]

\* An attempt: who makes it, how far it is, the attempt count it has read,
\* and whether it was answered with success.
Flight == [by : Callers, of : Deliveries,
           at : {"read", "claim", "check", "send", "record"},
           seen : Nat, ok : BOOLEAN]
Take(c, d) == [by |-> c, of |-> d, at |-> "read", seen |-> 0, ok |-> FALSE]

Candidate == [of : Deliveries, seen : Nat, ripe : BOOLEAN]

TypeOK ==
  /\ tests \in SUBSET Events
  /\ endpoint \in [Endpoints -> Endpoint]
  /\ row \in [Deliveries -> Row]
  /\ born \in [Deliveries -> Nat]
  /\ ripe \in SUBSET Deliveries
  /\ publishing \in [Publishers -> [event : Events \cup {"none"},
                                    todo : SUBSET Endpoints, fresh : SUBSET Endpoints]]
  /\ sweep \in [Sweepers -> SUBSET Candidate]
  /\ flight \in SUBSET Flight
  /\ heard \in [Deliveries -> SUBSET {"taken", "declined"}]
  /\ claims \in [Deliveries -> 0 .. MaxAttempts]
  /\ manual \in 0 .. MaxManual
  /\ faults \in 0 .. MaxFaults

-------------------------------------------------------------------------------
(* Endpoints.                                                              *)

Active(e) == endpoint[e].status = "active"

\* endpointAccepts.
Accepts(e, v) == endpoint[e].types \cap {Wildcard, TypeOf[v]} # {}

\* createWebhookEndpoint: no types means all of them.
CreateEndpoint(e, types) ==
  /\ endpoint[e].status = "none"
  /\ endpoint' = [endpoint EXCEPT ![e] =
       [status |-> "active", types |-> IF types = {} THEN {Wildcard} ELSE types]]
  /\ UNCHANGED <<rows, publishing, sweep, flight, history, bounds>>

\* disableWebhookEndpoint.
Disable(e) ==
  /\ Active(e)
  /\ endpoint' = [endpoint EXCEPT ![e].status = "disabled"]
  /\ UNCHANGED <<rows, publishing, sweep, flight, history, bounds>>

-------------------------------------------------------------------------------
(* Publishing: dispatchWebhookEvent.                                       *)

Insert(d) ==
  /\ row' = [row EXCEPT ![d] = Pending]
  /\ born' = [born EXCEPT ![d] = Cardinality({x \in Deliveries : row[x] # NoRow}) + 1]

\* The endpoints are read once; without one there is nothing to do.
Publish(p, v) ==
  LET matching == {e \in Endpoints : Active(e) /\ Accepts(e, v)} IN
  /\ v \notin tests
  /\ publishing[p] = Idle
  /\ matching # {}
  /\ publishing' = [publishing EXCEPT ![p] = [event |-> v, todo |-> matching, fresh |-> {}]]
  /\ UNCHANGED <<endpoint, rows, sweep, flight, history, bounds>>

\* One insert per endpoint, which does nothing if the row exists; after the
\* last one, what was inserted is sent, all rows at the same time.
InsertNext(p, e) ==
  LET v == publishing[p].event
      d == <<e, v>>
      isNew == row[d] = NoRow
      fresh == publishing[p].fresh \cup IF isNew THEN {e} ELSE {} IN
  /\ e \in publishing[p].todo
  /\ IF isNew THEN Insert(d) ELSE UNCHANGED <<row, born>>
  /\ IF publishing[p].todo = {e}
     THEN /\ publishing' = [publishing EXCEPT ![p] = Idle]
          /\ flight' = flight \cup {Take(p, <<x, v>>) : x \in fresh}
     ELSE /\ publishing' = [publishing EXCEPT ![p].todo = @ \ {e}, ![p].fresh = fresh]
          /\ UNCHANGED flight
  /\ UNCHANGED <<endpoint, ripe, sweep, history, bounds>>

\* createTestWebhookDelivery: a row of its own for one endpoint.
SendTest(o, e, v) ==
  /\ v \in tests
  /\ Active(e)
  /\ (\A x \in Endpoints : row[<<x, v>>] = NoRow)
  /\ \A f \in flight : f.by # o
  /\ manual < MaxManual /\ manual' = manual + 1
  /\ Insert(<<e, v>>)
  /\ flight' = flight \cup {Take(o, <<e, v>>)}
  /\ UNCHANGED <<endpoint, ripe, publishing, sweep, history, tests, faults>>

\* retryWebhookDelivery: only what has failed.
Retry(o, d) ==
  /\ row[d].status = "failed"
  /\ \A f \in flight : f.by # o
  /\ manual < MaxManual /\ manual' = manual + 1
  /\ flight' = flight \cup {Take(o, d)}
  /\ UNCHANGED <<endpoint, rows, publishing, sweep, history, tests, faults>>

-------------------------------------------------------------------------------
(* An attempt: deliverWebhookDelivery and performWebhookDelivery.          *)

Advance(f, g) == flight' = (flight \ {f}) \cup {g}
Finish(f) == flight' = flight \ {f}
Claimed(d) ==
  /\ claims' = [claims EXCEPT ![d] = IF @ < MaxAttempts THEN @ + 1 ELSE @]
  /\ UNCHANGED heard

\* The row is read with its endpoint, which must be active.
ReadRow(f) ==
  LET e == f.of[1] IN
  /\ f.at = "read"
  /\ IF Active(e)
     THEN Advance(f, [f EXCEPT !.at = "claim", !.seen = row[f.of].attempts])
     ELSE Finish(f)
  /\ UNCHANGED <<endpoint, rows, publishing, sweep, history, bounds>>

Mut_ClaimSending(f) ==
  /\ f.at = "claim"
  /\ row' = [row EXCEPT ![f.of] = [status |-> "sending", attempts |-> f.seen + 1]]
  /\ ripe' = ripe \ {f.of}
  /\ Advance(f, [f EXCEPT !.at = "send"])
  /\ Claimed(f.of)
  /\ UNCHANGED <<endpoint, born, publishing, sweep, bounds>>
Claim(f) ==
  /\ f.at = "claim"
  /\ row' = [row EXCEPT ![f.of] = [status |-> "pending", attempts |-> f.seen + 1]]
  /\ ripe' = ripe \ {f.of}
  /\ Advance(f, [f EXCEPT !.at = "send"])
  /\ Claimed(f.of)
  /\ UNCHANGED <<endpoint, born, publishing, sweep, bounds>>

\* The endpoint takes the post or not; its answer may be lost or come after
\* the timeout.
Respond(f) ==
  /\ f.at = "send"
  /\ \E taken, answered \in BOOLEAN :
       /\ heard' = [heard EXCEPT ![f.of] =
            @ \cup (IF taken THEN {"taken"} ELSE {})
              \cup (IF taken /\ answered THEN {} ELSE {"declined"})]
       /\ Advance(f, [f EXCEPT !.at = "record", !.ok = taken /\ answered])
  /\ UNCHANGED <<endpoint, rows, publishing, sweep, claims, bounds>>

Mut_AnyAnswerSucceeds(f) ==
  /\ f.at = "record"
  /\ row' = [row EXCEPT ![f.of].status = "succeeded"]
  /\ Finish(f)
  /\ UNCHANGED <<endpoint, born, ripe, publishing, sweep, history, bounds>>
\* The result overwrites whatever the row says by now.
Record(f) ==
  /\ f.at = "record"
  /\ row' = [row EXCEPT ![f.of].status = IF f.ok THEN "succeeded" ELSE "failed"]
  /\ Finish(f)
  /\ UNCHANGED <<endpoint, born, ripe, publishing, sweep, history, bounds>>

-------------------------------------------------------------------------------
(* The sweeper: sweepPendingWebhookDeliveries.                             *)

\* The time since the last attempt, or the insert, reaches its limit.
Elapse(d) ==
  /\ row[d].status = "pending"
  /\ d \notin ripe
  /\ ripe' = ripe \cup {d}
  /\ UNCHANGED <<endpoint, row, born, publishing, sweep, flight, history, bounds>>

Sweeping(s) == sweep[s] # {} \/ \E f \in flight : f.by = s

\* The oldest pending rows, with what the sweeper will decide by.
SweepScan(s) ==
  LET pending == {d \in Deliveries : row[d].status = "pending"} IN
  /\ ~Sweeping(s)
  /\ \E batch \in SUBSET pending :
       /\ batch # {} /\ Cardinality(batch) <= BatchSize
       /\ batch # pending =>
            /\ Cardinality(batch) = BatchSize
            /\ \A d \in batch, x \in pending \ batch : born[d] < born[x]
       /\ sweep' = [sweep EXCEPT ![s] =
            {[of |-> d, seen |-> row[d].attempts, ripe |-> d \in ripe] : d \in batch}]
  /\ UNCHANGED <<endpoint, rows, publishing, flight, history, bounds>>

\* The sweeper turns to its next candidate when the last one is done.
TakeUp(s, c) ==
  /\ c \in sweep[s] /\ \A x \in sweep[s] : born[c.of] <= born[x.of]
  /\ \A f \in flight : f.by # s
  /\ sweep' = [sweep EXCEPT ![s] = @ \ {c}]

StillPending(c) == row[c.of].status = "pending"

\* Too many attempts: parked as failed, if it is still pending.
SweepPark(s, c) ==
  /\ TakeUp(s, c)
  /\ c.seen >= MaxAttempts
  /\ row' = IF StillPending(c) THEN [row EXCEPT ![c.of].status = "failed"] ELSE row
  /\ UNCHANGED <<endpoint, born, ripe, publishing, flight, history, bounds>>

SweepSkip(s, c) ==
  /\ TakeUp(s, c)
  /\ c.seen < MaxAttempts
  /\ ~c.ripe \/ ~StillPending(c)
  /\ UNCHANGED <<endpoint, rows, publishing, flight, history, bounds>>

Mut_ClaimAttempted(s, c) ==
  /\ TakeUp(s, c)
  /\ c.seen \in 1 .. MaxAttempts - 1 /\ c.ripe
  /\ StillPending(c)
  /\ row' = [row EXCEPT ![c.of].attempts = c.seen + 1]
  /\ ripe' = ripe \ {c.of}
  /\ flight' = flight \cup {[Take(s, c.of) EXCEPT !.at = "check"]}
  /\ Claimed(c.of)
  /\ UNCHANGED <<endpoint, born, publishing, bounds>>
\* The claim checks that the row is pending, and nothing else.
SweepClaim(s, c) ==
  /\ TakeUp(s, c)
  /\ c.seen < MaxAttempts /\ c.ripe
  /\ StillPending(c)
  /\ row' = [row EXCEPT ![c.of].attempts = c.seen + 1]
  /\ ripe' = ripe \ {c.of}
  /\ flight' = flight \cup {[Take(s, c.of) EXCEPT !.at = "check"]}
  /\ Claimed(c.of)
  /\ UNCHANGED <<endpoint, born, publishing, bounds>>

\* The endpoint is read after the claim.
SweepCheck(f) ==
  LET e == f.of[1] IN
  /\ f.at = "check"
  /\ IF Active(e)
     THEN /\ Advance(f, [f EXCEPT !.at = "send"])
          /\ UNCHANGED row
     ELSE /\ Finish(f)
          /\ row' = [row EXCEPT ![f.of].status = "failed"]
  /\ UNCHANGED <<endpoint, born, ripe, publishing, sweep, history, bounds>>

-------------------------------------------------------------------------------
(* What dies takes no more steps, and leaves its commits behind.           *)

Fault == faults < MaxFaults /\ faults' = faults + 1

AttemptDies(f) ==
  /\ Fault
  /\ f.by \notin Sweepers
  /\ Finish(f)
  /\ UNCHANGED <<endpoint, rows, publishing, sweep, history, tests, manual>>

PublisherDies(p) ==
  /\ Fault
  /\ publishing[p] # Idle
  /\ publishing' = [publishing EXCEPT ![p] = Idle]
  /\ UNCHANGED <<endpoint, rows, sweep, flight, history, tests, manual>>

SweeperDies(s) ==
  /\ Fault
  /\ Sweeping(s)
  /\ sweep' = [sweep EXCEPT ![s] = {}]
  /\ flight' = {f \in flight : f.by # s}
  /\ UNCHANGED <<endpoint, rows, publishing, history, tests, manual>>

-------------------------------------------------------------------------------

Init ==
  /\ tests \in SUBSET Events
  /\ endpoint = [e \in Endpoints |-> [status |-> "none", types |-> {}]]
  /\ row = [d \in Deliveries |-> NoRow]
  /\ born = [d \in Deliveries |-> 0]
  /\ ripe = {}
  /\ publishing = [p \in Publishers |-> Idle]
  /\ sweep = [s \in Sweepers |-> {}]
  /\ flight = {}
  /\ heard = [d \in Deliveries |-> {}]
  /\ claims = [d \in Deliveries |-> 0]
  /\ manual = 0
  /\ faults = 0

EndpointStep ==
  \E e \in Endpoints :
    \/ \E types \in Subscriptions : CreateEndpoint(e, types)
    \/ Disable(e)

PublisherStep ==
  \E p \in Publishers :
    \/ PublisherDies(p)
    \/ \E v \in Events : Publish(p, v)
    \/ \E e \in Endpoints : InsertNext(p, e)

OperatorStep ==
  \E o \in Operators, e \in Endpoints, v \in Events : SendTest(o, e, v) \/ Retry(o, <<e, v>>)

Proceed(f) == ReadRow(f) \/ Claim(f) \/ Respond(f) \/ Record(f) \/ SweepCheck(f)
AttemptStep == \E f \in flight : Proceed(f) \/ AttemptDies(f)

Handle(s, c) == SweepPark(s, c) \/ SweepSkip(s, c) \/ SweepClaim(s, c)
SweepProceeds(s) ==
  \/ SweepScan(s)
  \/ \E c \in sweep[s] : Handle(s, c)
  \/ \E f \in flight : f.by = s /\ Proceed(f)
SweeperStep ==
  \E s \in Sweepers :
    \/ SweeperDies(s)
    \/ SweepScan(s)
    \/ \E c \in sweep[s] : Handle(s, c)

Next ==
  \/ EndpointStep \/ PublisherStep \/ OperatorStep
  \/ AttemptStep \/ SweeperStep
  \/ \E d \in Deliveries : Elapse(d)

\* The cron starts a sweep every few minutes, a sweep works through its
\* list, and time passes.
SweepFairness ==
  /\ \A s \in Sweepers : WF_vars(SweepProceeds(s))
  /\ \A d \in Deliveries : WF_vars(Elapse(d))

Spec == Init /\ [][Next]_vars
FairSpec == Spec /\ SweepFairness

-------------------------------------------------------------------------------

\* A delivery that says succeeded was taken by its endpoint at least once,
\* whichever attempts overlap and whose result is written last.
SucceededWasTaken ==
  \A d \in Deliveries : row[d].status = "succeeded" => "taken" \in heard[d]

\* Nobody gives up on an endpoint it has not asked: a delivery that failed
\* was refused or not answered, or its endpoint was disabled, or it was
\* claimed as often as the sweeper may, although a late claim may write a
\* smaller count over a larger one.
FailedWasTried ==
  \A d \in Deliveries : row[d].status = "failed" =>
    \/ "declined" \in heard[d]
    \/ endpoint[d[1]].status = "disabled"
    \/ claims[d] >= MaxAttempts

\* What a settled delivery says of itself is what happened.
OutcomesAreTrue == SucceededWasTaken /\ FailedWasTried

\* What is pending is settled in the end, whatever died: before its first
\* attempt, in an attempt, or in the sweep that took it over.
PendingSettles ==
  \A d \in Deliveries : row[d].status = "pending" ~> row[d].status # "pending"

\* "Concurrent sweepers never double-deliver."
SweepersShareNothing ==
  \A f, g \in flight : f.by \in Sweepers /\ g.by \in Sweepers /\ f.of = g.of => f = g
===============================================================================
