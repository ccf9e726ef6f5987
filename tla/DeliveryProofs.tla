---------------------------- MODULE DeliveryProofs ----------------------------
(***************************************************************************)
(* That a delivery says what became of it, for any number of endpoints,    *)
(* events, publishers, sweepers and operators: succeeded only if it was    *)
(* taken, failed only if it was tried.                                     *)
(***************************************************************************)
EXTENDS DeveloperDeliveries, FiniteSetTheorems, TLAPS

\* An attempt records the answer its endpoint gave.
Answered ==
  \A f \in flight : f.at = "record"
    => (IF f.ok THEN "taken" ELSE "declined") \in heard[f.of]

\* A count that a row says, or that someone has read, was reached by claims.
Reached(d, n) == n <= claims[d] \/ claims[d] = MaxAttempts
RowsCounted == \A d \in Deliveries : Reached(d, row[d].attempts)
FlightsCounted == \A f \in flight : f.at = "claim" => Reached(f.of, f.seen)
SweepsCounted == \A s \in Sweepers : \A c \in sweep[s] : Reached(c.of, c.seen)

\* What is published, stored or sent is for an endpoint that was created.
Created(e) == endpoint[e].status # "none"
Known ==
  /\ \A d \in Deliveries : row[d].status # "none" => Created(d[1])
  /\ \A f \in flight : Created(f.of[1])
  /\ \A p \in Publishers : publishing[p].todo \cup publishing[p].fresh # {}
       => publishing[p].event \in Events
            /\ \A e \in publishing[p].todo \cup publishing[p].fresh : Created(e)

DeliveryInv ==
  /\ TypeOK /\ Answered /\ RowsCounted /\ FlightsCounted /\ SweepsCounted /\ Known
  /\ SucceededWasTaken /\ FailedWasTried

USE DEF history, bounds, rows

-------------------------------------------------------------------------------

LEMMA CountIsNat ==
  ASSUME DeliveryAssumption
  PROVE  Cardinality({x \in Deliveries : row[x] # NoRow}) + 1 \in Nat
<1>1. IsFiniteSet(Deliveries)
  BY FS_Product DEF Deliveries, DeliveryAssumption
<1>2. IsFiniteSet({x \in Deliveries : row[x] # NoRow})
  BY <1>1, FS_Subset
<1>. QED BY <1>2, FS_CardinalityType

LEMMA InitHolds ==
  ASSUME DeliveryAssumption, Init
  PROVE  DeliveryInv
BY DEF Init, DeliveryAssumption, DeliveryInv, TypeOK, Answered, RowsCounted, FlightsCounted,
   SweepsCounted, Known, SucceededWasTaken, FailedWasTried, Reached, Endpoint, Row, NoRow, Idle

LEMMA CreateKeeps ==
  ASSUME DeliveryAssumption, DeliveryInv, NEW e \in Endpoints, NEW types \in Subscriptions, CreateEndpoint(e, types)
  PROVE  DeliveryInv'
<1>. USE DEF DeliveryInv
<1>a. /\ endpoint' \in [Endpoints -> Endpoint]
      /\ \A x \in Endpoints : Created(x) => Created(x)' /\ (endpoint'[x].status = endpoint[x].status \/ x = e)
      /\ endpoint[e].status = "none"
      /\ endpoint'[e].status = "active"
  BY DEF CreateEndpoint, TypeOK, Endpoint, DeliveryAssumption, Created
<1>b. UNCHANGED <<rows, publishing, sweep, flight, history, bounds>>
  BY DEF CreateEndpoint
<1>c. \A d \in Deliveries : d[1] \in Endpoints
  BY DEF Deliveries
<1>d. \A f \in flight : f.of \in Deliveries
  BY DEF TypeOK, Flight
<1>e. \A p \in Publishers : publishing[p].todo \cup publishing[p].fresh \subseteq Endpoints
  BY DEF TypeOK
<1>1. TypeOK'
  BY <1>a, <1>b, <1>c, <1>d, <1>e DEF TypeOK
<1>2. Answered'
  BY <1>a, <1>b, <1>c, <1>d, <1>e DEF TypeOK, Answered
<1>3. RowsCounted'
  BY <1>a, <1>b, <1>c, <1>d, <1>e DEF TypeOK, RowsCounted, Reached
<1>4. FlightsCounted'
  BY <1>a, <1>b, <1>c, <1>d, <1>e DEF TypeOK, FlightsCounted, RowsCounted, Reached
<1>5. SweepsCounted'
  BY <1>a, <1>b, <1>c, <1>d, <1>e DEF TypeOK, SweepsCounted, RowsCounted, Reached
<1>6. Known'
  BY <1>a, <1>b, <1>c, <1>d, <1>e DEF TypeOK, Known, Created
<1>7. SucceededWasTaken'
  BY <1>a, <1>b, <1>c, <1>d, <1>e DEF TypeOK, SucceededWasTaken, Answered
<1>8. FailedWasTried'
  BY <1>a, <1>b, <1>c DEF TypeOK, FailedWasTried, Known, Created, Row
<1>. QED BY <1>1, <1>2, <1>3, <1>4, <1>5, <1>6, <1>7, <1>8

LEMMA DisableKeeps ==
  ASSUME DeliveryAssumption, DeliveryInv, NEW e \in Endpoints, Disable(e)
  PROVE  DeliveryInv'
<1>. USE DEF DeliveryInv
<1>a. /\ endpoint' \in [Endpoints -> Endpoint]
      /\ \A x \in Endpoints : (Created(x) => Created(x)') /\ (endpoint'[x].status = endpoint[x].status \/ x = e)
      /\ endpoint[e].status = "active"
      /\ endpoint'[e].status = "disabled"
  BY DEF Disable, Active, TypeOK, Endpoint, Created
<1>b. UNCHANGED <<rows, publishing, sweep, flight, history, bounds>>
  BY DEF Disable
<1>c. \A d \in Deliveries : d[1] \in Endpoints
  BY DEF Deliveries
<1>d. \A f \in flight : f.of \in Deliveries
  BY DEF TypeOK, Flight
<1>e. \A p \in Publishers : publishing[p].todo \cup publishing[p].fresh \subseteq Endpoints
  BY DEF TypeOK
<1>1. TypeOK'
  BY <1>a, <1>b, <1>c, <1>d, <1>e DEF TypeOK
<1>2. Answered'
  BY <1>a, <1>b, <1>c, <1>d, <1>e DEF TypeOK, Answered
<1>3. RowsCounted'
  BY <1>a, <1>b, <1>c, <1>d, <1>e DEF TypeOK, RowsCounted, Reached
<1>4. FlightsCounted'
  BY <1>a, <1>b, <1>c, <1>d, <1>e DEF TypeOK, FlightsCounted, RowsCounted, Reached
<1>5. SweepsCounted'
  BY <1>a, <1>b, <1>c, <1>d, <1>e DEF TypeOK, SweepsCounted, RowsCounted, Reached
<1>6. Known'
  BY <1>a, <1>b, <1>c, <1>d, <1>e DEF TypeOK, Known, Created
<1>7. SucceededWasTaken'
  BY <1>a, <1>b, <1>c, <1>d, <1>e DEF TypeOK, SucceededWasTaken, Answered
<1>8. FailedWasTried'
  BY <1>a, <1>b, <1>c, <1>d, <1>e DEF TypeOK, FailedWasTried, Answered
<1>. QED BY <1>1, <1>2, <1>3, <1>4, <1>5, <1>6, <1>7, <1>8

LEMMA PublishKeeps ==
  ASSUME DeliveryAssumption, DeliveryInv, NEW p \in Publishers, NEW v \in Events, Publish(p, v)
  PROVE  DeliveryInv'
<1>. USE DEF DeliveryInv
<1>1. TypeOK'
  BY DEF TypeOK, Endpoint, Row, Flight, Candidate, Callers, Publish, Active
<1>2. Answered'
  BY DEF TypeOK, Endpoint, Row, Flight, Candidate, Callers, Answered, Publish, Active
<1>3. RowsCounted'
  BY DEF TypeOK, Endpoint, Row, Flight, Candidate, Callers, RowsCounted, Reached, Publish, Active
<1>4. FlightsCounted'
  BY DEF TypeOK, Endpoint, Row, Flight, Candidate, Callers, FlightsCounted, RowsCounted, Reached, Publish, Active
<1>5. SweepsCounted'
  BY DEF TypeOK, Endpoint, Row, Flight, Candidate, Callers, SweepsCounted, RowsCounted, Reached, Publish, Active
<1>6. Known'
  BY DEF TypeOK, Endpoint, Row, Flight, Candidate, Callers, Known, Created, Publish, Active
<1>7. SucceededWasTaken'
  BY DEF TypeOK, Endpoint, Row, Flight, Candidate, Callers, SucceededWasTaken, Answered, Publish, Active
<1>8. FailedWasTried'
  BY DEF TypeOK, Endpoint, Row, Flight, Candidate, Callers, FailedWasTried, Answered, Publish, Active
<1>. QED BY <1>1, <1>2, <1>3, <1>4, <1>5, <1>6, <1>7, <1>8

\* Inserting a row and taking up attempts for rows that exist.
LEMMA InsertedKeeps ==
  ASSUME DeliveryAssumption, DeliveryInv, NEW d \in Deliveries, NEW new \in SUBSET Flight,
         Created(d[1]),
         \/ UNCHANGED <<row, born>>
         \/ row[d] = NoRow /\ Insert(d),
         flight' = flight \cup new,
         \A f \in new : f.at = "read" /\ Created(f.of[1]),
         UNCHANGED <<endpoint, ripe, sweep, history>>
  PROVE  /\ row' \in [Deliveries -> Row] /\ born' \in [Deliveries -> Nat]
         /\ flight' \in SUBSET Flight
         /\ Answered' /\ RowsCounted' /\ FlightsCounted' /\ SweepsCounted'
         /\ SucceededWasTaken' /\ FailedWasTried'
         /\ \A x \in Deliveries : row'[x].status # "none" => Created(x[1])
         /\ \A f \in flight' : Created(f.of[1])
<1>. USE DEF DeliveryInv
<1>1. CASE UNCHANGED <<row, born>>
  BY <1>1 DEF TypeOK, Answered, RowsCounted, FlightsCounted, SweepsCounted, Known,
              SucceededWasTaken, FailedWasTried, Reached
<1>2. CASE row[d] = NoRow /\ Insert(d)
  <2>1. /\ row' \in [Deliveries -> Row] /\ born' \in [Deliveries -> Nat]
        /\ \A x \in Deliveries : x # d => row'[x] = row[x]
        /\ row'[d].status = "pending" /\ row'[d].attempts = 0
    BY <1>2, CountIsNat DEF Insert, Pending, Row, TypeOK
  <2>2. claims \in [Deliveries -> Nat]
    BY DEF TypeOK, DeliveryAssumption
  <2>. QED
    BY <2>1, <2>2 DEF TypeOK, Answered, RowsCounted, FlightsCounted, SweepsCounted, Known,
                 SucceededWasTaken, FailedWasTried, Reached
<1>. QED BY <1>1, <1>2

LEMMA InsertNextKeeps ==
  ASSUME DeliveryAssumption, DeliveryInv, NEW p \in Publishers, NEW e \in Endpoints,
         InsertNext(p, e)
  PROVE  DeliveryInv'
<1>. USE DEF DeliveryInv
<1>. DEFINE v == publishing[p].event
            d == <<e, v>>
            fresh == publishing[p].fresh \cup IF row[d] = NoRow THEN {e} ELSE {}
            new == IF publishing[p].todo = {e} THEN {Take(p, <<x, v>>) : x \in fresh} ELSE {}
<1>1. /\ v \in Events /\ d \in Deliveries /\ d[1] = e
      /\ e \in publishing[p].todo /\ Created(e)
      /\ fresh \subseteq Endpoints /\ \A x \in fresh : Created(x)
      /\ \A x \in publishing[p].todo : Created(x)
  BY DEF InsertNext, Known, TypeOK, Deliveries
<1>2. /\ UNCHANGED <<row, born>> \/ (row[d] = NoRow /\ Insert(d))
      /\ flight' = flight \cup new
      /\ UNCHANGED <<endpoint, ripe, sweep, history, bounds>>
  BY DEF InsertNext
<1>3. new \in SUBSET Flight /\ \A f \in new : f.at = "read" /\ Created(f.of[1])
  <2>1. \A x \in fresh : Take(p, <<x, v>>) \in Flight
    <3>. TAKE x \in fresh
    <3>1. <<x, v>> \in Deliveries /\ p \in Callers
      BY <1>1 DEF Deliveries, Callers
    <3>. QED BY <3>1 DEF Take, Flight
  <2>2. \A x \in fresh : Take(p, <<x, v>>).at = "read" /\ Take(p, <<x, v>>).of[1] = x
    BY DEF Take
  <2>. HIDE DEF fresh, v
  <2>3. \A f \in new : \E x \in fresh : f = Take(p, <<x, v>>)
    OBVIOUS
  <2>. HIDE DEF new
  <2>4. ASSUME NEW f \in new
        PROVE  f \in Flight /\ f.at = "read" /\ Created(f.of[1])
    <3>1. PICK x \in fresh : f = Take(p, <<x, v>>)
      BY <2>3
    <3>2. f \in Flight /\ f.at = "read" /\ f.of[1] = x
      BY <2>1, <2>2, <3>1
    <3>. QED BY <1>1, <3>2
  <2>. QED BY <2>4
<1>4. /\ publishing' = [publishing EXCEPT ![p] = publishing'[p]]
      /\ \/ publishing'[p] = Idle
         \/ publishing'[p] = [event |-> v, todo |-> publishing[p].todo \ {e}, fresh |-> fresh]
  BY DEF InsertNext, TypeOK
<1>5. /\ row' \in [Deliveries -> Row] /\ born' \in [Deliveries -> Nat]
      /\ flight' \in SUBSET Flight
      /\ Answered' /\ RowsCounted' /\ FlightsCounted' /\ SweepsCounted'
      /\ SucceededWasTaken' /\ FailedWasTried'
      /\ \A x \in Deliveries : row'[x].status # "none" => Created(x[1])
      /\ \A f \in flight' : Created(f.of[1])
  <2>. HIDE DEF new, d
  <2>. QED BY <1>1, <1>2, <1>3, InsertedKeeps DEF bounds
<1>6. TypeOK'
  <2>. HIDE DEF fresh, v, new
  <2>1. publishing'[p] \in [event : Events \cup {"none"}, todo : SUBSET Endpoints, fresh : SUBSET Endpoints]
    <3>1. publishing[p].todo \in SUBSET Endpoints
      BY DEF TypeOK
    <3>. QED BY <1>1, <1>4, <3>1 DEF Idle
  <2>2. publishing' \in [Publishers -> [event : Events \cup {"none"}, todo : SUBSET Endpoints,
                                        fresh : SUBSET Endpoints]]
    BY <1>4, <2>1 DEF TypeOK
  <2>. QED BY <1>2, <1>5, <2>2 DEF TypeOK
<1>7. Known'
  <2>. HIDE DEF fresh, new
  <2>1. \A q \in Publishers : publishing'[q].todo \cup publishing'[q].fresh # {}
          => publishing'[q].event \in Events
               /\ \A x \in publishing'[q].todo \cup publishing'[q].fresh : Created(x)
    BY <1>1, <1>4 DEF Known, TypeOK, Idle
  <2>. QED BY <1>2, <1>5, <2>1 DEF Known, Created
<1>. QED BY <1>5, <1>6, <1>7

LEMMA ManualKeeps ==
  ASSUME DeliveryAssumption, DeliveryInv, NEW o \in Operators, NEW e \in Endpoints,
         NEW v \in Events, SendTest(o, e, v) \/ Retry(o, <<e, v>>)
  PROVE  DeliveryInv'
<1>. USE DEF DeliveryInv
<1>. DEFINE d == <<e, v>>
<1>1. d \in Deliveries /\ d[1] = e /\ Created(e)
  BY DEF SendTest, Retry, Active, Created, Known, Deliveries
<1>2. /\ UNCHANGED <<row, born>> \/ (row[d] = NoRow /\ Insert(d))
      /\ flight' = flight \cup {Take(o, d)}
      /\ UNCHANGED <<endpoint, ripe, publishing, sweep, history, tests, faults>>
      /\ manual < MaxManual /\ manual' = manual + 1
  BY DEF SendTest, Retry
<1>3. {Take(o, d)} \in SUBSET Flight /\ \A f \in {Take(o, d)} : f.at = "read" /\ Created(f.of[1])
  BY <1>1 DEF Take, Flight, Callers
<1>4. /\ row' \in [Deliveries -> Row] /\ born' \in [Deliveries -> Nat]
      /\ flight' \in SUBSET Flight
      /\ Answered' /\ RowsCounted' /\ FlightsCounted' /\ SweepsCounted'
      /\ SucceededWasTaken' /\ FailedWasTried'
      /\ \A x \in Deliveries : row'[x].status # "none" => Created(x[1])
      /\ \A f \in flight' : Created(f.of[1])
  <2>. HIDE DEF d
  <2>. QED BY <1>1, <1>2, <1>3, InsertedKeeps
<1>. HIDE DEF d
<1>5. TypeOK'
  BY <1>2, <1>4 DEF TypeOK, DeliveryAssumption
<1>6. Known'
  BY <1>2, <1>4 DEF Known, Created
<1>. QED BY <1>4, <1>5, <1>6

LEMMA ReadRowKeeps ==
  ASSUME DeliveryAssumption, DeliveryInv, NEW f \in flight, ReadRow(f)
  PROVE  DeliveryInv'
<1>. USE DEF DeliveryInv
<1>. DEFINE g == [f EXCEPT !.at = "claim", !.seen = row[f.of].attempts]
<1>a. f \in Flight /\ f.of \in Deliveries
  BY DEF TypeOK, Flight
<1>b. g \in Flight /\ g.of = f.of /\ g.at = "claim" /\ g.seen = row[f.of].attempts
  BY <1>a DEF Flight, TypeOK, Row
<1>c. /\ flight' \subseteq flight \cup {g}
      /\ UNCHANGED <<endpoint, rows, publishing, sweep, history, bounds>>
  BY DEF ReadRow, Advance, Finish
<1>. HIDE DEF g
<1>1. TypeOK'
  BY <1>a, <1>b, <1>c DEF TypeOK
<1>2. Answered'
  BY <1>a, <1>b, <1>c DEF TypeOK, Answered
<1>3. RowsCounted'
  BY <1>a, <1>b, <1>c DEF TypeOK, RowsCounted, Reached
<1>4. FlightsCounted'
  BY <1>a, <1>b, <1>c DEF TypeOK, FlightsCounted, RowsCounted, Reached
<1>5. SweepsCounted'
  BY <1>a, <1>b, <1>c DEF TypeOK, SweepsCounted, RowsCounted, Reached
<1>6. Known'
  BY <1>a, <1>b, <1>c DEF TypeOK, Known, Created
<1>7. SucceededWasTaken'
  BY <1>a, <1>b, <1>c DEF TypeOK, SucceededWasTaken, Answered
<1>8. FailedWasTried'
  BY <1>a, <1>b, <1>c DEF TypeOK, FailedWasTried, Answered
<1>. QED BY <1>1, <1>2, <1>3, <1>4, <1>5, <1>6, <1>7, <1>8

LEMMA ClaimKeeps ==
  ASSUME DeliveryAssumption, DeliveryInv, NEW f \in flight, Claim(f)
  PROVE  DeliveryInv'
<1>. USE DEF DeliveryInv
<1>. DEFINE g == [f EXCEPT !.at = "send"]
<1>a. f \in Flight /\ f.of \in Deliveries /\ f.seen \in Nat
  BY DEF TypeOK, Flight
<1>b. g \in Flight /\ g.of = f.of /\ g.at = "send"
  BY <1>a DEF Flight
<1>c. /\ flight' \subseteq flight \cup {g}
      /\ UNCHANGED <<endpoint, born, publishing, sweep, heard, bounds>>
      /\ ripe' \subseteq ripe
  BY DEF Claim, Claimed, Advance
<1>d. /\ row' \in [Deliveries -> Row]
      /\ row'[f.of].status = "pending" /\ row'[f.of].attempts = f.seen + 1
      /\ \A x \in Deliveries : x # f.of => row'[x] = row[x]
  BY <1>a DEF Claim, TypeOK, Row
<1>e. /\ claims' \in [Deliveries -> 0 .. MaxAttempts]
      /\ claims'[f.of] = IF claims[f.of] < MaxAttempts THEN claims[f.of] + 1 ELSE claims[f.of]
      /\ \A x \in Deliveries : x # f.of => claims'[x] = claims[x]
  BY <1>a DEF Claim, Claimed, TypeOK, DeliveryAssumption
<1>f. \A x \in Deliveries, n \in Nat : Reached(x, n) => Reached(x, n)'
  BY <1>e DEF Reached, TypeOK, DeliveryAssumption
<1>g. Reached(f.of, f.seen + 1)'
  BY <1>a, <1>e DEF Reached, FlightsCounted, Claim, TypeOK, DeliveryAssumption
<1>. HIDE DEF g
<1>1. TypeOK'
  BY <1>a, <1>b, <1>c, <1>d, <1>e DEF TypeOK
<1>2. Answered'
  BY <1>a, <1>b, <1>c, <1>d, <1>e DEF TypeOK, Answered
<1>3. RowsCounted'
  BY <1>a, <1>d, <1>f, <1>g DEF RowsCounted, TypeOK, Row
<1>4. FlightsCounted'
  BY <1>a, <1>b, <1>c, <1>f DEF FlightsCounted, TypeOK, Flight
<1>5. SweepsCounted'
  BY <1>c, <1>f DEF SweepsCounted, TypeOK, Candidate
<1>6. Known'
  BY <1>a, <1>b, <1>c, <1>d DEF Known, Created
<1>7. SucceededWasTaken'
  BY <1>a, <1>b, <1>c, <1>d, <1>e DEF TypeOK, SucceededWasTaken, Answered
<1>8. FailedWasTried'
  BY <1>c, <1>d, <1>e DEF FailedWasTried, TypeOK, DeliveryAssumption
<1>. QED BY <1>1, <1>2, <1>3, <1>4, <1>5, <1>6, <1>7, <1>8

LEMMA RespondKeeps ==
  ASSUME DeliveryAssumption, DeliveryInv, NEW f \in flight, Respond(f)
  PROVE  DeliveryInv'
<1>. USE DEF DeliveryInv
<1>a. f \in Flight /\ f.of \in Deliveries
  BY DEF TypeOK, Flight
<1>0. PICK taken \in BOOLEAN, answered \in BOOLEAN :
        /\ heard' = [heard EXCEPT ![f.of] =
             @ \cup (IF taken THEN {"taken"} ELSE {})
               \cup (IF taken /\ answered THEN {} ELSE {"declined"})]
        /\ Advance(f, [f EXCEPT !.at = "record", !.ok = taken /\ answered])
  BY DEF Respond
<1>. DEFINE g == [f EXCEPT !.at = "record", !.ok = taken /\ answered]
<1>b. g \in Flight /\ g.of = f.of /\ g.at = "record" /\ g.ok = (taken /\ answered)
  BY <1>a DEF Flight
<1>c. /\ flight' \subseteq flight \cup {g}
      /\ UNCHANGED <<endpoint, rows, publishing, sweep, claims, bounds>>
  BY <1>0 DEF Respond, Advance
<1>d. /\ heard' \in [Deliveries -> SUBSET {"taken", "declined"}]
      /\ \A x \in Deliveries : heard[x] \subseteq heard'[x]
      /\ (IF taken /\ answered THEN "taken" ELSE "declined") \in heard'[f.of]
  BY <1>0, <1>a DEF TypeOK
<1>. HIDE DEF g
<1>1. TypeOK'
  BY <1>a, <1>b, <1>c, <1>d DEF TypeOK
<1>2. Answered'
  BY <1>a, <1>b, <1>c, <1>d DEF Answered, TypeOK, Flight
<1>3. RowsCounted'
  BY <1>a, <1>b, <1>c, <1>d DEF TypeOK, RowsCounted, Reached
<1>4. FlightsCounted'
  BY <1>a, <1>b, <1>c, <1>d DEF TypeOK, FlightsCounted, RowsCounted, Reached
<1>5. SweepsCounted'
  BY <1>a, <1>b, <1>c, <1>d DEF TypeOK, SweepsCounted, RowsCounted, Reached
<1>6. Known'
  BY <1>a, <1>b, <1>c, <1>d DEF TypeOK, Known, Created
<1>7. SucceededWasTaken'
  BY <1>a, <1>b, <1>c, <1>d DEF TypeOK, SucceededWasTaken, Answered
<1>8. FailedWasTried'
  BY <1>a, <1>b, <1>c, <1>d DEF TypeOK, FailedWasTried, Answered
<1>. QED BY <1>1, <1>2, <1>3, <1>4, <1>5, <1>6, <1>7, <1>8

LEMMA RecordKeeps ==
  ASSUME DeliveryAssumption, DeliveryInv, NEW f \in flight, Record(f)
  PROVE  DeliveryInv'
<1>. USE DEF DeliveryInv
<1>0. f.of \in Deliveries /\ f \in Flight
  BY DEF TypeOK, Flight
<1>1. TypeOK'
  BY <1>0 DEF TypeOK, Endpoint, Row, Flight, Candidate, Callers, Record, Finish
<1>2. Answered'
  BY <1>0 DEF TypeOK, Endpoint, Row, Flight, Candidate, Callers, Answered, Record, Finish
<1>3. RowsCounted'
  BY <1>0 DEF TypeOK, Endpoint, Row, Flight, Candidate, Callers, RowsCounted, Reached, Record, Finish
<1>4. FlightsCounted'
  BY <1>0 DEF TypeOK, Endpoint, Row, Flight, Candidate, Callers, FlightsCounted, RowsCounted, Reached, Record, Finish
<1>5. SweepsCounted'
  BY <1>0 DEF TypeOK, Endpoint, Row, Flight, Candidate, Callers, SweepsCounted, RowsCounted, Reached, Record, Finish
<1>6. Known'
  BY <1>0 DEF TypeOK, Endpoint, Row, Flight, Candidate, Callers, Known, Created, Record, Finish
<1>7. SucceededWasTaken'
  BY <1>0 DEF TypeOK, Endpoint, Row, Flight, Candidate, Callers, SucceededWasTaken, Answered, Record, Finish
<1>8. FailedWasTried'
  BY <1>0 DEF TypeOK, Endpoint, Row, Flight, Candidate, Callers, FailedWasTried, Answered, Record, Finish
<1>. QED BY <1>1, <1>2, <1>3, <1>4, <1>5, <1>6, <1>7, <1>8

LEMMA SweepCheckKeeps ==
  ASSUME DeliveryAssumption, DeliveryInv, NEW f \in flight, SweepCheck(f)
  PROVE  DeliveryInv'
<1>. USE DEF DeliveryInv
<1>. DEFINE g == [f EXCEPT !.at = "send"]
<1>a. f \in Flight /\ f.of \in Deliveries /\ f.of[1] \in Endpoints
  BY DEF TypeOK, Flight, Deliveries
<1>b. g \in Flight /\ g.of = f.of /\ g.at = "send"
  BY <1>a DEF Flight
<1>c. /\ flight' \subseteq flight \cup {g}
      /\ UNCHANGED <<endpoint, born, ripe, publishing, sweep, history, bounds>>
  BY DEF SweepCheck, Advance, Finish
<1>d. /\ row' \in [Deliveries -> Row]
      /\ \A x \in Deliveries : row'[x].attempts = row[x].attempts
      /\ \A x \in Deliveries : row'[x] = row[x] \/ (x = f.of /\ row'[x].status = "failed"
                                                    /\ endpoint[f.of[1]].status = "disabled")
  <2>1. row \in [Deliveries -> Row] /\ endpoint[f.of[1]].status \in {"active", "disabled"}
    BY <1>a DEF TypeOK, Endpoint, Known, Created
  <2>2. row' = row \/ (row' = [row EXCEPT ![f.of].status = "failed"]
                      /\ endpoint[f.of[1]].status = "disabled")
    BY <2>1 DEF SweepCheck, Active
  <2>. QED BY <1>a, <2>1, <2>2 DEF Row
<1>. HIDE DEF g
<1>1. TypeOK'
  BY <1>a, <1>b, <1>c, <1>d DEF TypeOK
<1>2. Answered'
  BY <1>a, <1>b, <1>c, <1>d DEF TypeOK, Answered
<1>3. RowsCounted'
  BY <1>a, <1>b, <1>c, <1>d DEF TypeOK, RowsCounted, Reached
<1>4. FlightsCounted'
  BY <1>a, <1>b, <1>c, <1>d DEF TypeOK, FlightsCounted, RowsCounted, Reached
<1>5. SweepsCounted'
  BY <1>a, <1>b, <1>c, <1>d DEF TypeOK, SweepsCounted, RowsCounted, Reached
<1>6. Known'
  BY <1>a, <1>b, <1>c, <1>d DEF TypeOK, Known, Created
<1>7. SucceededWasTaken'
  BY <1>a, <1>b, <1>c, <1>d DEF TypeOK, SucceededWasTaken, Answered
<1>8. FailedWasTried'
  BY <1>a, <1>b, <1>c, <1>d DEF TypeOK, FailedWasTried, Answered
<1>. QED BY <1>1, <1>2, <1>3, <1>4, <1>5, <1>6, <1>7, <1>8

LEMMA ElapseKeeps ==
  ASSUME DeliveryAssumption, DeliveryInv, NEW d \in Deliveries, Elapse(d)
  PROVE  DeliveryInv'
<1>. USE DEF DeliveryInv
<1>1. TypeOK'
  BY DEF TypeOK, Endpoint, Row, Flight, Candidate, Callers, Elapse
<1>2. Answered'
  BY DEF TypeOK, Endpoint, Row, Flight, Candidate, Callers, Answered, Elapse
<1>3. RowsCounted'
  BY DEF TypeOK, Endpoint, Row, Flight, Candidate, Callers, RowsCounted, Reached, Elapse
<1>4. FlightsCounted'
  BY DEF TypeOK, Endpoint, Row, Flight, Candidate, Callers, FlightsCounted, RowsCounted, Reached, Elapse
<1>5. SweepsCounted'
  BY DEF TypeOK, Endpoint, Row, Flight, Candidate, Callers, SweepsCounted, RowsCounted, Reached, Elapse
<1>6. Known'
  BY DEF TypeOK, Endpoint, Row, Flight, Candidate, Callers, Known, Created, Elapse
<1>7. SucceededWasTaken'
  BY DEF TypeOK, Endpoint, Row, Flight, Candidate, Callers, SucceededWasTaken, Answered, Elapse
<1>8. FailedWasTried'
  BY DEF TypeOK, Endpoint, Row, Flight, Candidate, Callers, FailedWasTried, Answered, Elapse
<1>. QED BY <1>1, <1>2, <1>3, <1>4, <1>5, <1>6, <1>7, <1>8

LEMMA ScanKeeps ==
  ASSUME DeliveryAssumption, DeliveryInv, NEW s \in Sweepers, SweepScan(s)
  PROVE  DeliveryInv'
<1>. USE DEF DeliveryInv
<1>1. TypeOK'
  <2>1. sweep' \in [Sweepers -> SUBSET Candidate]
    <3>1. PICK batch \in SUBSET Deliveries :
            sweep' = [sweep EXCEPT ![s] = {[of |-> d, seen |-> row[d].attempts,
                                            ripe |-> d \in ripe] : d \in batch}]
      BY DEF SweepScan
    <3>2. \A d \in batch : [of |-> d, seen |-> row[d].attempts, ripe |-> d \in ripe] \in Candidate
      BY DEF TypeOK, Row, Candidate
    <3>. QED BY <3>1, <3>2 DEF TypeOK
  <2>. QED BY <2>1 DEF SweepScan, TypeOK
<1>2. Answered'
  BY DEF TypeOK, Endpoint, Row, Flight, Candidate, Callers, Answered, SweepScan
<1>3. RowsCounted'
  BY DEF TypeOK, Endpoint, Row, Flight, Candidate, Callers, RowsCounted, Reached, SweepScan
<1>4. FlightsCounted'
  BY DEF TypeOK, Endpoint, Row, Flight, Candidate, Callers, FlightsCounted, RowsCounted, Reached, SweepScan
<1>5. SweepsCounted'
  BY DEF TypeOK, Endpoint, Row, Flight, Candidate, Callers, SweepsCounted, RowsCounted, Reached, SweepScan
<1>6. Known'
  BY DEF TypeOK, Endpoint, Row, Flight, Candidate, Callers, Known, Created, SweepScan
<1>7. SucceededWasTaken'
  BY DEF TypeOK, Endpoint, Row, Flight, Candidate, Callers, SucceededWasTaken, Answered, SweepScan
<1>8. FailedWasTried'
  BY DEF TypeOK, Endpoint, Row, Flight, Candidate, Callers, FailedWasTried, Answered, SweepScan
<1>. QED BY <1>1, <1>2, <1>3, <1>4, <1>5, <1>6, <1>7, <1>8

LEMMA ParkKeeps ==
  ASSUME DeliveryAssumption, DeliveryInv, NEW s \in Sweepers, NEW c \in sweep[s], SweepPark(s, c) \/ SweepSkip(s, c)
  PROVE  DeliveryInv'
<1>. USE DEF DeliveryInv
<1>a. c.of \in Deliveries /\ c \in Candidate /\ c.seen \in Nat
  BY DEF TypeOK, Candidate
<1>c. /\ UNCHANGED <<endpoint, born, ripe, publishing, flight, history, bounds>>
      /\ sweep' = [sweep EXCEPT ![s] = @ \ {c}]
  BY DEF SweepPark, SweepSkip, TakeUp
<1>d. /\ row' \in [Deliveries -> Row]
      /\ \A x \in Deliveries : row'[x].attempts = row[x].attempts
      /\ \A x \in Deliveries : row'[x] = row[x] \/ (x = c.of /\ row'[x].status = "failed"
                                                    /\ row[x].status = "pending"
                                                    /\ c.seen >= MaxAttempts)
  <2>1. row \in [Deliveries -> Row]
    BY DEF TypeOK
  <2>2. row' = row \/ (row' = [row EXCEPT ![c.of].status = "failed"]
                      /\ row[c.of].status = "pending" /\ c.seen >= MaxAttempts)
    BY DEF SweepPark, SweepSkip, StillPending
  <2>. QED BY <1>a, <2>1, <2>2 DEF Row
<1>e. c.seen >= MaxAttempts => claims[c.of] >= MaxAttempts
  BY <1>a DEF SweepsCounted, Reached, TypeOK, DeliveryAssumption
<1>1. TypeOK'
  BY <1>a, <1>c, <1>d, <1>e DEF TypeOK
<1>2. Answered'
  BY <1>a, <1>c, <1>d, <1>e DEF TypeOK, Answered
<1>3. RowsCounted'
  BY <1>a, <1>c, <1>d, <1>e DEF TypeOK, RowsCounted, Reached
<1>4. FlightsCounted'
  BY <1>a, <1>c, <1>d, <1>e DEF TypeOK, FlightsCounted, RowsCounted, Reached
<1>5. SweepsCounted'
  BY <1>a, <1>c, <1>d, <1>e DEF TypeOK, SweepsCounted, RowsCounted, Reached
<1>6. Known'
  BY <1>a, <1>c, <1>d, <1>e DEF TypeOK, Known, Created
<1>7. SucceededWasTaken'
  BY <1>a, <1>c, <1>d, <1>e DEF TypeOK, SucceededWasTaken, Answered
<1>8. FailedWasTried'
  BY <1>a, <1>c, <1>d, <1>e DEF TypeOK, FailedWasTried, Answered
<1>. QED BY <1>1, <1>2, <1>3, <1>4, <1>5, <1>6, <1>7, <1>8

LEMMA SweepClaimKeeps ==
  ASSUME DeliveryAssumption, DeliveryInv, NEW s \in Sweepers, NEW c \in sweep[s], SweepClaim(s, c)
  PROVE  DeliveryInv'
<1>. USE DEF DeliveryInv
<1>. DEFINE g == [Take(s, c.of) EXCEPT !.at = "check"]
<1>a. c.of \in Deliveries /\ c \in Candidate /\ c.seen \in Nat
  BY DEF TypeOK, Candidate
<1>b. g \in Flight /\ g.of = c.of /\ g.at = "check"
  BY <1>a DEF Flight, Take, Callers
<1>c. /\ UNCHANGED <<endpoint, born, publishing, heard, bounds>>
      /\ ripe' \subseteq ripe
      /\ flight' = flight \cup {g}
      /\ sweep' = [sweep EXCEPT ![s] = @ \ {c}]
  BY DEF SweepClaim, TakeUp, Claimed
<1>d. /\ row' \in [Deliveries -> Row]
      /\ row[c.of].status = "pending"
      /\ row'[c.of].status = "pending" /\ row'[c.of].attempts = c.seen + 1
      /\ \A x \in Deliveries : x # c.of => row'[x] = row[x]
  BY <1>a DEF SweepClaim, TypeOK, Row, StillPending
<1>e. /\ claims' \in [Deliveries -> 0 .. MaxAttempts]
      /\ claims'[c.of] = IF claims[c.of] < MaxAttempts THEN claims[c.of] + 1 ELSE claims[c.of]
      /\ \A x \in Deliveries : x # c.of => claims'[x] = claims[x]
  BY <1>a DEF SweepClaim, Claimed, TypeOK, DeliveryAssumption
<1>f. \A x \in Deliveries, n \in Nat : Reached(x, n) => Reached(x, n)'
  BY <1>e DEF Reached, TypeOK, DeliveryAssumption
<1>g. Reached(c.of, c.seen + 1)'
  BY <1>a, <1>e DEF Reached, SweepsCounted, TypeOK, DeliveryAssumption
<1>. HIDE DEF g
<1>1. TypeOK'
  BY <1>a, <1>b, <1>c, <1>d, <1>e DEF TypeOK
<1>2. Answered'
  BY <1>a, <1>b, <1>c, <1>d, <1>e DEF TypeOK, Answered
<1>3. RowsCounted'
  BY <1>a, <1>d, <1>f, <1>g DEF RowsCounted, TypeOK, Row
<1>4. FlightsCounted'
  BY <1>a, <1>b, <1>c, <1>f DEF FlightsCounted, TypeOK, Flight
<1>5. SweepsCounted'
  BY <1>c, <1>f DEF SweepsCounted, TypeOK, Candidate
<1>6. Known'
  BY <1>a, <1>b, <1>c, <1>d DEF Known, Created
<1>7. SucceededWasTaken'
  BY <1>a, <1>b, <1>c, <1>d, <1>e DEF TypeOK, SucceededWasTaken, Answered
<1>8. FailedWasTried'
  BY <1>c, <1>d, <1>e DEF FailedWasTried, TypeOK, DeliveryAssumption
<1>. QED BY <1>1, <1>2, <1>3, <1>4, <1>5, <1>6, <1>7, <1>8

\* What dies is dropped, and no row changes.
LEMMA DeathKeeps ==
  ASSUME DeliveryAssumption, DeliveryInv,
         \/ \E f \in flight : AttemptDies(f)
         \/ \E p \in Publishers : PublisherDies(p)
         \/ \E s \in Sweepers : SweeperDies(s)
  PROVE  DeliveryInv'
<1>. USE DEF DeliveryInv
<1>a. /\ UNCHANGED <<endpoint, rows, history, tests, manual>>
      /\ faults < MaxFaults /\ faults' = faults + 1
      /\ flight' \subseteq flight
  BY DEF AttemptDies, PublisherDies, SweeperDies, Finish, Fault
<1>b. /\ publishing' \in [Publishers -> [event : Events \cup {"none"}, todo : SUBSET Endpoints,
                                         fresh : SUBSET Endpoints]]
      /\ \A p \in Publishers : publishing'[p] = publishing[p] \/ publishing'[p] = Idle
  <2>1. publishing' = publishing \/ \E p \in Publishers : publishing' = [publishing EXCEPT ![p] = Idle]
    BY DEF AttemptDies, PublisherDies, SweeperDies
  <2>2. Idle \in [event : Events \cup {"none"}, todo : SUBSET Endpoints, fresh : SUBSET Endpoints]
    BY DEF Idle
  <2>. HIDE DEF Idle
  <2>. QED BY <2>1, <2>2 DEF TypeOK
<1>c. /\ sweep' \in [Sweepers -> SUBSET Candidate]
      /\ \A s \in Sweepers : sweep'[s] \subseteq sweep[s]
  BY DEF AttemptDies, PublisherDies, SweeperDies, TypeOK
<1>1. TypeOK'
  BY <1>a, <1>b, <1>c DEF TypeOK, DeliveryAssumption
<1>2. Answered'
  BY <1>a, <1>b, <1>c DEF TypeOK, DeliveryAssumption, Answered
<1>3. RowsCounted'
  BY <1>a, <1>b, <1>c DEF TypeOK, DeliveryAssumption, RowsCounted, Reached
<1>4. FlightsCounted'
  BY <1>a, <1>b, <1>c DEF TypeOK, DeliveryAssumption, FlightsCounted, RowsCounted, Reached
<1>5. SweepsCounted'
  BY <1>a, <1>b, <1>c DEF TypeOK, DeliveryAssumption, SweepsCounted, RowsCounted, Reached
<1>6. Known'
  BY <1>a, <1>b DEF Known, Created, Idle
<1>7. SucceededWasTaken'
  BY <1>a, <1>b, <1>c DEF TypeOK, DeliveryAssumption, SucceededWasTaken, Answered
<1>8. FailedWasTried'
  BY <1>a, <1>b, <1>c DEF TypeOK, DeliveryAssumption, FailedWasTried, Answered
<1>. QED BY <1>1, <1>2, <1>3, <1>4, <1>5, <1>6, <1>7, <1>8

LEMMA StepKeeps ==
  ASSUME DeliveryAssumption, DeliveryInv, [Next]_vars
  PROVE  DeliveryInv'
<1>1. CASE EndpointStep
  BY <1>1, CreateKeeps, DisableKeeps DEF EndpointStep
<1>2. CASE PublisherStep
  BY <1>2, PublishKeeps, InsertNextKeeps, DeathKeeps DEF PublisherStep
<1>3. CASE OperatorStep
  BY <1>3, ManualKeeps DEF OperatorStep
<1>4. CASE AttemptStep
  BY <1>4, ReadRowKeeps, ClaimKeeps, RespondKeeps, RecordKeeps, SweepCheckKeeps, DeathKeeps
     DEF AttemptStep, Proceed
<1>5. CASE SweeperStep
  BY <1>5, ScanKeeps, ParkKeeps, SweepClaimKeeps, DeathKeeps DEF SweeperStep, Handle
<1>6. CASE \E d \in Deliveries : Elapse(d)
  BY <1>6, ElapseKeeps
<1>7. CASE UNCHANGED vars
  BY <1>7 DEF vars, DeliveryInv, TypeOK, Answered, RowsCounted, FlightsCounted,
     SweepsCounted, Known, Created, SucceededWasTaken, FailedWasTried, Reached
<1>. QED BY <1>1, <1>2, <1>3, <1>4, <1>5, <1>6, <1>7 DEF Next

LEMMA InvHolds ==
  ASSUME DeliveryAssumption
  PROVE  Spec => []DeliveryInv
<1>1. Init => DeliveryInv
  BY InitHolds
<1>2. DeliveryInv /\ [Next]_vars => DeliveryInv'
  BY StepKeeps
<1>. QED BY <1>1, <1>2, PTL DEF Spec

\* The variables keep their types, for any number of everything.
THEOREM DeliveriesTypeCorrect ==
  ASSUME DeliveryAssumption
  PROVE  Spec => []TypeOK
<1>1. DeliveryInv => TypeOK
  BY DEF DeliveryInv
<1>. QED BY <1>1, InvHolds, PTL

\* A delivery that says succeeded was taken by its endpoint.
THEOREM SuccessMeansTaken ==
  ASSUME DeliveryAssumption
  PROVE  Spec => []SucceededWasTaken
<1>1. DeliveryInv => SucceededWasTaken
  BY DEF DeliveryInv
<1>. QED BY <1>1, InvHolds, PTL

\* A delivery that says failed was tried, or could not be.
THEOREM FailureMeansTried ==
  ASSUME DeliveryAssumption
  PROVE  Spec => []FailedWasTried
<1>1. DeliveryInv => FailedWasTried
  BY DEF DeliveryInv
<1>. QED BY <1>1, InvHolds, PTL

\* The outcome of a settled delivery is true either way.
THEOREM OutcomesTrue ==
  ASSUME DeliveryAssumption
  PROVE  Spec => []OutcomesAreTrue
<1>1. SucceededWasTaken /\ FailedWasTried => OutcomesAreTrue
  BY DEF OutcomesAreTrue
<1>. QED BY <1>1, SuccessMeansTaken, FailureMeansTried, PTL
===============================================================================
