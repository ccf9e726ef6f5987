--------------------------- MODULE SubscriptionProofs ---------------------------
(***************************************************************************)
(* That the events of a subscription, lost, repeated, reordered, aborted   *)
(* and cut off by crashes, leave nothing behind when it is ended, deliver  *)
(* each renewal, and open no cycle before its payment: for any number of   *)
(* events and requests, any dates and any number of cycles.                *)
(***************************************************************************)
EXTENDS MCSubscriptionEvents, FiniteSetTheorems, TLAPS

Applying == [at : {"apply"}, event : Events, body : Notice]
Writing == [at : {"write"}, event : Events, body : Notice, seen : Row]
RollingBack == [at : {"rolled back"}, event : Events]

\* What a request is doing tells what it has at hand.
LEMMA AtHand ==
  ASSUME TypeOK, NEW w \in Workers
  PROVE  /\ work[w].at = "apply" => work[w] \in Applying
         /\ work[w].at = "write" => work[w] \in Writing
         /\ work[w].at = "rolled back" => work[w] \in RollingBack
         /\ work[w] # Idle => work[w].event \in Events
         /\ work[w].at # "idle" => work[w] # Idle
<1>1. work[w] = Idle \/ work[w] \in Applying \/ work[w] \in Writing
        \/ work[w] \in RollingBack
  BY DEF TypeOK, Applying, Writing, RollingBack
<1>2. Idle.at = "idle"
  BY DEF Idle
<1>3. \A r \in Applying : r.at = "apply"
  BY DEF Applying
<1>4. \A r \in Writing : r.at = "write"
  BY DEF Writing
<1>5. \A r \in RollingBack : r.at = "rolled back"
  BY DEF RollingBack
<1>6. work[w].at # "idle" => work[w] # Idle
  BY <1>2
<1>7. work[w] # Idle => work[w].event \in Events
  BY <1>1 DEF Applying, Writing, RollingBack
<1> QED BY <1>1, <1>2, <1>3, <1>4, <1>5, <1>6, <1>7

\* What an event makes of the row is a row, with a status of its own.
LEMMA RowType ==
  ASSUME TypeOK, NEW x \in Notice, NEW seen \in Row
  PROVE  /\ inferredStatus(x, seen) \in Statuses
         /\ Start(x, seen) \in Dates /\ End(x, seen) \in Dates
         /\ Subscription(x, seen) \in Row
<1>1. /\ x.status \in Statuses \cup {"absent"} /\ x.type \in Types
      /\ seen.status \in Statuses \cup {"none"}
      /\ x.start \in Dates /\ x.end \in Dates
      /\ seen.start \in Dates /\ seen.end \in Dates /\ seen.atEnd \in BOOLEAN
  BY DEF Notice, Row
<1>2. \A default \in Statuses : Stated(x, default) \in Statuses
  BY <1>1 DEF Stated
<1>3. {"pending", "active", "past_due", "cancelled", "expired"} \subseteq Statuses
  BY DEF Statuses
<1>4. inferredStatus(x, seen) \in Statuses
  <2>1. (IF seen.status = "none" THEN "pending" ELSE seen.status) \in Statuses
    BY <1>1, <1>3
  <2> QED BY <1>2, <1>3, <2>1 DEF inferredStatus
<1>5. Start(x, seen) \in Dates /\ End(x, seen) \in Dates /\ AtEnd(x, seen) \in BOOLEAN
  BY <1>1 DEF Start, End, AtEnd, Or
<1>6. (sub.items \/ (seen.status = "none" /\ x.order)) \in BOOLEAN
  OBVIOUS
<1> QED BY <1>4, <1>5, <1>6 DEF Subscription, Row

\* An event that is not refused and opens a period has both its boundaries,
\* and so a key of its own.
LEMMA KeyType ==
  ASSUME TypeOK, NEW e \in Events, NEW x \in Notice, NEW seen \in Row,
         grantsAccess(x, seen), ~Refused(e, x, seen)
  PROVE  /\ Bounded(x, seen)
         /\ grantPeriodKey(e, x, seen) \in Keys
         /\ grantEntitlement(x, seen) \in
              [status : {"none", "active", "revoked", "expired"},
               from : Dates, until : Dates]
<1>1. Bounded(x, seen)
  BY DEF Refused
<1>2. Start(x, seen) \in Times
  BY <1>1, RowType DEF Bounded, Dates
<1> QED BY <1>1, <1>2, RowType DEF grantPeriodKey, Keys, grantEntitlement

-------------------------------------------------------------------------------

ContractTypes ==
  /\ sub \in Row
  /\ grants \in [Keys -> [status : {"none", "active", "revoked", "expired"},
                          from : Dates, until : Dates]]
  /\ buckets \in [Keys -> Bucket]
  /\ held \in 0 .. MaxHeld /\ Available \in Nat
  /\ bare \subseteq Events
  /\ ended \in BOOLEAN
  /\ kept \in 0 .. MaxHeld

InboxTypes ==
  /\ inbox \in [Events -> {"none", "received", "processed", "failed"}]
  /\ notice \in [Events -> {NoEvent} \cup Notice]
  /\ \A e \in Events : inbox[e] # "none" => notice[e] \in Notice

WorkTypes ==
  work \in [Workers -> {Idle} \cup Applying \cup Writing \cup RollingBack]

OperationTypes ==
  op \in {NoOperation} \cup [at : {"pending_provider"}]
         \cup [at : {"provider_succeeded", "completed"}, result : Answer]
         \cup [at : {"reconciling"}, result : Answer, seen : Row]

LEMMA TypeParts ==
  TypeOK <=> /\ ContractTypes /\ InboxTypes /\ WorkTypes /\ OperationTypes
             /\ sent \in [Events -> {NoEvent} \cup Notice] /\ faults \in 0 .. MaxFaults
  BY DEF TypeOK, ContractTypes, InboxTypes, WorkTypes, OperationTypes,
         Applying, Writing, RollingBack

LEMMA TypeAfter ==
  ASSUME ContractTypes', InboxTypes', WorkTypes', OperationTypes',
         sent' \in [Events -> {NoEvent} \cup Notice], faults' \in 0 .. MaxFaults
  PROVE  TypeOK'
  BY DEF TypeOK, ContractTypes, InboxTypes, WorkTypes, OperationTypes,
         Applying, Writing, RollingBack

\* Ending the access keeps the rows, whatever it does to their status.
LEMMA EndingTypes ==
  ASSUME TypeOK, NEW s \in {"revoked", "expired"}
  PROVE  EndEntitlements(s) \in
           [Keys -> [status : {"none", "active", "revoked", "expired"},
                     from : Dates, until : Dates]]
<1>1. \A k \in Keys : [grants[k] EXCEPT !.status = s] \in
        [status : {"none", "active", "revoked", "expired"},
         from : Dates, until : Dates]
  BY DEF TypeOK
<1> QED BY <1>1 DEF TypeOK, EndEntitlements

\* There are finitely many buckets, and so a number of active ones.
LEMMA Countable == IsFiniteSet(Keys)
<1>1. IsFiniteSet(Times)
  <2>1. MaxTime \in Nat
    BY SubscriptionAssumption
  <2> QED BY <2>1, FS_Interval DEF Times
<1> QED BY <1>1, SubscriptionAssumption, FS_Union DEF Keys

LEMMA ActiveCount ==
  /\ IsFiniteSet(Active) /\ Cardinality(Active) \in Nat
  /\ IsFiniteSet(Active') /\ Cardinality(Active') \in Nat
<1>1. Active \subseteq Keys /\ Active' \subseteq Keys
  BY DEF Active, Keys, Times
<1> QED BY <1>1, Countable, FS_Subset, FS_CardinalityType

LEMMA ContractStays ==
  ASSUME TypeOK, UNCHANGED contract
  PROVE  ContractTypes'
<1>1. UNCHANGED <<sub, grants, buckets, held, bare, ended, kept>>
  BY DEF contract
<1>2. UNCHANGED Available
  BY <1>1 DEF Available, Active, Keys, Times
<1> QED BY <1>1, <1>2, TypeParts DEF ContractTypes

\* Credits are never taken off the record, nor are their terms changed.
Drained ==
  /\ Active' \subseteq Active
  /\ \A k \in Keys : /\ buckets[k].status # "none" => buckets'[k].status # "none"
                     /\ buckets[k].status = "none" => buckets'[k] = buckets[k]
                     /\ buckets'[k].expires = buckets[k].expires
                     /\ buckets'[k].event = buckets[k].event

\* Emptying n of the active buckets leaves the others as they are.
LEMMA DrainTakes ==
  ASSUME buckets \in [Keys -> Bucket], NEW n \in Nat, NEW S \in FirstToExpire(n),
         NEW s \in {"reversed", "consumed"}, Drain(S, s)
  PROVE  /\ buckets' \in [Keys -> Bucket] /\ Drained
         /\ Cardinality(Active') = Cardinality(Active) - n
<1>1. S \subseteq Active /\ Cardinality(S) = n
  BY DEF FirstToExpire
<1>2. buckets' = [k \in Keys |-> IF k \in S THEN [buckets[k] EXCEPT !.status = s]
                                ELSE buckets[k]]
  BY DEF Drain
<1>3. \A k \in Keys : LET b == [buckets[k] EXCEPT !.status = s] IN
        /\ b \in Bucket /\ b.status = s
        /\ b.expires = buckets[k].expires /\ b.event = buckets[k].event
  BY DEF Bucket
<1>4. buckets' \in [Keys -> Bucket]
  BY <1>2, <1>3
<1>5. Active' = Active \ S
  BY <1>1, <1>2, <1>3 DEF Active, Keys, Times
<1>6. \A k \in S : buckets[k].status = "active"
  BY <1>1 DEF Active
<1>7. Drained
  BY <1>2, <1>3, <1>5, <1>6 DEF Drained
<1>8. Cardinality(Active') = Cardinality(Active) - n
  <2>1. Active \cap S = S
    BY <1>1
  <2> QED BY <1>1, <1>5, <2>1, ActiveCount, FS_Difference
<1> QED BY <1>4, <1>7, <1>8

\* The clawback takes what is available, and leaves what is held.
LEMMA RevokeTakes ==
  ASSUME ContractTypes, revokeSubscriptionCredits
  PROVE  /\ buckets' \in [Keys -> Bucket] /\ Drained
         /\ Cardinality(Active') = held
<1>1. buckets \in [Keys -> Bucket] /\ Available \in Nat /\ held \in Int
  BY SubscriptionAssumption DEF ContractTypes
<1>2. PICK S \in FirstToExpire(Available) : Drain(S, "reversed")
  BY DEF revokeSubscriptionCredits
<1>3. PICK n \in Nat : n = Available
  BY <1>1
<1>4. /\ buckets' \in [Keys -> Bucket] /\ Drained
      /\ Cardinality(Active') = Cardinality(Active) - n
  BY <1>1, <1>2, <1>3, DrainTakes
<1>5. Cardinality(Active) - (Cardinality(Active) - held) = held
  BY <1>1, ActiveCount
<1> QED BY <1>3, <1>4, <1>5 DEF Available

\* A grant of credits adds a bucket of its own.
LEMMA GrantAdds ==
  ASSUME buckets \in [Keys -> Bucket], NEW k \in Keys, buckets[k].status = "none",
         NEW b \in Bucket, b.status = "active", buckets' = [buckets EXCEPT ![k] = b]
  PROVE  /\ buckets' \in [Keys -> Bucket]
         /\ Cardinality(Active') >= Cardinality(Active)
<1>1. Active \subseteq Active'
  BY DEF Active, Keys, Times
<1> QED BY <1>1, ActiveCount, FS_Subset

LEMMA ApplyTypes ==
  ASSUME TypeOK, NEW e \in Events, NEW x \in Notice, NEW seen \in Row,
         ~Refused(e, x, seen), Apply(e, x, seen)
  PROVE  ContractTypes'
<1> DEFINE key == grantPeriodKey(e, x, seen)
<1>1. sub' \in Row
  BY RowType DEF Apply
<1>2. grants' \in [Keys -> [status : {"none", "active", "revoked", "expired"},
                           from : Dates, until : Dates]]
  <2>1. CASE grantsAccess(x, seen)
    <3>1. [grants EXCEPT ![key] = grantEntitlement(x, seen)] \in
            [Keys -> [status : {"none", "active", "revoked", "expired"},
                      from : Dates, until : Dates]]
      BY <2>1, KeyType DEF TypeOK
    <3> QED BY <3>1, EndingTypes DEF Apply, TypeOK
  <2>2. CASE ~grantsAccess(x, seen)
    BY <2>2, EndingTypes DEF Apply, TypeOK
  <2> QED BY <2>1, <2>2
<1>3. /\ buckets' \in [Keys -> Bucket] /\ held' \in 0 .. MaxHeld
      /\ Available' \in Nat
  <2>1. /\ buckets \in [Keys -> Bucket] /\ held \in 0 .. MaxHeld /\ Available \in Nat
        /\ UNCHANGED held /\ MaxHeld \in Nat
    BY TypeParts, SubscriptionAssumption DEF ContractTypes, Apply
  <2>2. CASE revokeSubscriptionCredits
    <3>1. buckets' \in [Keys -> Bucket] /\ Cardinality(Active') = held
      BY <2>2, TypeParts, RevokeTakes
    <3> QED BY <2>1, <3>1 DEF Available
  <2>3. CASE UNCHANGED buckets
    BY <2>1, <2>3 DEF Available, Active, Keys, Times
  <2>4. CASE /\ grantsAccess(x, seen) /\ buckets[key].status = "none"
             /\ buckets' = [buckets EXCEPT ![key] =
                              [status |-> "active", expires |-> x.end, event |-> e]]
    <3>1. PICK k \in Keys : k = key
      BY <2>4, KeyType
    <3>2. PICK b \in Bucket : b = [status |-> "active", expires |-> x.end, event |-> e]
      BY DEF Notice, Bucket
    <3>3. /\ buckets[k].status = "none" /\ b.status = "active"
          /\ buckets' = [buckets EXCEPT ![k] = b]
      BY <2>4, <3>1, <3>2
    <3>4. /\ buckets' \in [Keys -> Bucket]
          /\ Cardinality(Active') >= Cardinality(Active)
      BY <2>1, <3>3, GrantAdds
    <3> QED BY <2>1, <3>4, ActiveCount DEF Available
  <2>5. \/ revokeSubscriptionCredits \/ UNCHANGED buckets
        \/ /\ grantsAccess(x, seen) /\ buckets[key].status = "none"
           /\ buckets' = [buckets EXCEPT ![key] =
                            [status |-> "active", expires |-> x.end, event |-> e]]
    BY DEF Apply
  <2> QED BY <2>2, <2>3, <2>4, <2>5
<1>4. bare' \subseteq Events
  BY DEF Apply, TypeOK
<1>5. ended' \in BOOLEAN
  BY DEF Apply, EndsNow
<1>6. kept' \in 0 .. MaxHeld
  <2>1. held \in 0 .. MaxHeld /\ kept \in 0 .. MaxHeld /\ MaxHeld \in Nat
    BY TypeParts, SubscriptionAssumption DEF ContractTypes
  <2>2. kept' = held \/ kept' = kept \/ kept' = 0
    BY DEF Apply
  <2> QED BY <2>1, <2>2
<1> QED BY <1>1, <1>2, <1>3, <1>4, <1>5, <1>6 DEF ContractTypes

LEMMA ReceiveTypes ==
  ASSUME TypeOK, NEW w \in Workers, NEW e \in Events, NEW x \in {NoEvent} \cup Notice,
         NEW body \in Notice, Receive(w, e, x, body)
  PROVE  TypeOK'
<1>1. InboxTypes'
  <2>1. CASE inbox[e] = "none"
    <3>1. /\ inbox' = [inbox EXCEPT ![e] = "received"]
          /\ notice' = [notice EXCEPT ![e] = body]
      BY <2>1 DEF Receive
    <3> QED BY <3>1 DEF TypeOK, InboxTypes
  <2>2. CASE inbox[e] # "none"
    BY <2>2, TypeParts DEF Receive, InboxTypes, delivery
  <2> QED BY <2>1, <2>2
<1>2. WorkTypes'
  <2>1. [at |-> "apply", event |-> e, body |-> body] \in Applying
    BY DEF Applying
  <2> QED BY <2>1, TypeParts DEF Receive, WorkTypes
<1>3. ContractTypes' /\ OperationTypes'
  BY TypeParts, ContractStays DEF Receive, OperationTypes
<1>4. sent' \in [Events -> {NoEvent} \cup Notice]
  <2>1. sent' = [sent EXCEPT ![e] = x]
    BY DEF Receive
  <2> QED BY <2>1 DEF TypeOK
<1>5. faults' \in 0 .. MaxFaults
  BY TypeParts DEF Receive
<1> QED BY <1>1, <1>2, <1>3, <1>4, <1>5, TypeAfter

\* The steps of a request after it has come.
Handling(w) ==
  Begin(w) \/ Commit(w) \/ Reject(w) \/ Abort(w) \/ MarkFailed(w) \/ Crash(w)

LEMMA CommitIsApplied ==
  ASSUME TypeOK, NEW w \in Workers, Commit(w)
  PROVE  \E e \in Events, x \in Notice, seen \in Row :
           /\ work[w] = [at |-> "write", event |-> e, body |-> x, seen |-> seen]
           /\ ~Refused(e, x, seen) /\ Apply(e, x, seen)
           /\ inbox' = [inbox EXCEPT ![e] = "processed"]
           /\ notice' = [notice EXCEPT ![e] = x]
<1>1. work[w] \in Writing
  BY AtHand DEF Commit
<1>2. PICK e \in Events, x \in Notice, seen \in Row :
        work[w] = [at |-> "write", event |-> e, body |-> x, seen |-> seen]
  BY <1>1 DEF Writing
<1>3. work[w].event = e /\ work[w].body = x /\ work[w].seen = seen
  BY <1>2
<1> QED BY <1>2, <1>3 DEF Commit

\* A request works on an event that is in the inbox.
Working == \A w \in Workers : work[w] # Idle => inbox[work[w].event] # "none"

\* The body a transaction begins with.
BodyOf(w, e) == IF inbox[e] = "failed" THEN work[w].body ELSE notice[e]

LEMMA BeginReads ==
  ASSUME TypeOK, Working, NEW w \in Workers, Begin(w)
  PROVE  \E e \in Events :
           /\ work[w] \in Applying /\ work[w].event = e /\ inbox[e] # "none"
           /\ BodyOf(w, e) \in Notice
           /\ \/ inbox[e] = "processed" /\ work' = [work EXCEPT ![w] = Idle]
              \/ /\ inbox[e] # "processed"
                 /\ work' = [work EXCEPT ![w] = [at |-> "write", event |-> e,
                                                seen |-> sub, body |-> BodyOf(w, e)]]
<1>1. work[w] \in Applying
  BY AtHand DEF Begin
<1>2. PICK e \in Events : e = work[w].event
  BY <1>1 DEF Applying
<1>3. work[w] # Idle
  <2>1. Idle.at = "idle"
    BY DEF Idle
  <2> QED BY <2>1 DEF Begin
<1>4. inbox[e] # "none" /\ notice[e] \in Notice /\ work[w].body \in Notice
  BY <1>1, <1>2, <1>3 DEF Working, TypeOK, Applying
<1>5. BodyOf(w, e) \in Notice
  BY <1>4 DEF BodyOf
<1> QED BY <1>1, <1>2, <1>4, <1>5 DEF Begin, Read, BodyOf

LEMMA HandlingTypes ==
  ASSUME TypeOK, Working, NEW w \in Workers, Handling(w)
  PROVE  TypeOK'
<1>0. /\ MaxFaults \in Nat
      /\ \A v \in {Idle} \cup Applying \cup Writing \cup RollingBack :
           work' = [work EXCEPT ![w] = v] => WorkTypes'
  BY TypeParts, SubscriptionAssumption DEF WorkTypes
<1>1. ASSUME UNCHANGED contract PROVE ContractTypes'
  BY <1>1, ContractStays
<1>2. ASSUME UNCHANGED delivery PROVE InboxTypes'
  BY <1>2, TypeParts DEF delivery, InboxTypes
<1>3. ASSUME UNCHANGED op PROVE OperationTypes'
  BY <1>3, TypeParts DEF OperationTypes
<1>4. ASSUME UNCHANGED sent PROVE sent' \in [Events -> {NoEvent} \cup Notice]
  BY <1>4, TypeParts
<1>5. faults' \in 0 .. MaxFaults
  <2>1. faults \in 0 .. MaxFaults
    BY TypeParts
  <2>2. faults' = faults \/ (faults < MaxFaults /\ faults' = faults + 1)
    BY DEF Handling, Begin, Commit, Reject, Abort, MarkFailed, Crash
  <2> QED BY <1>0, <2>1, <2>2
<1>6. CASE Begin(w)
  <2>1. PICK e \in Events :
          /\ BodyOf(w, e) \in Notice
          /\ \/ inbox[e] = "processed" /\ work' = [work EXCEPT ![w] = Idle]
             \/ /\ inbox[e] # "processed"
                /\ work' = [work EXCEPT ![w] = [at |-> "write", event |-> e,
                                               seen |-> sub, body |-> BodyOf(w, e)]]
    BY <1>6, BeginReads
  <2>2. [at |-> "write", event |-> e, seen |-> sub, body |-> BodyOf(w, e)] \in Writing
    BY <2>1 DEF Writing, TypeOK
  <2>3. WorkTypes'
    BY <1>0, <2>1, <2>2
  <2> QED BY <1>1, <1>2, <1>3, <1>4, <1>5, <1>6, <2>3, TypeAfter DEF Begin
<1>7. CASE Commit(w)
  <2>1. PICK e \in Events, x \in Notice, seen \in Row :
           /\ ~Refused(e, x, seen) /\ Apply(e, x, seen)
           /\ inbox' = [inbox EXCEPT ![e] = "processed"]
           /\ notice' = [notice EXCEPT ![e] = x]
    BY <1>7, CommitIsApplied
  <2>2. ContractTypes'
    BY <2>1, ApplyTypes
  <2>3. InboxTypes'
    BY <2>1, TypeParts DEF InboxTypes
  <2>4. WorkTypes'
    BY <1>0, <1>7 DEF Commit
  <2> QED BY <1>3, <1>4, <1>5, <1>7, <2>2, <2>3, <2>4, TypeAfter DEF Commit
<1>8. ASSUME NEW s \in {"write", "rolled back"}, work[w].at = s
      PROVE  /\ work[w].event \in Events
             /\ work' = RolledBack(w) => WorkTypes'
  <2>1. work[w].event \in Events
    BY <1>8, AtHand DEF Writing, RollingBack
  <2>2. [at |-> "rolled back", event |-> work[w].event] \in RollingBack
    BY <2>1 DEF RollingBack
  <2> QED BY <1>0, <2>1, <2>2 DEF RolledBack
<1>9. CASE Reject(w)
  BY <1>1, <1>2, <1>3, <1>4, <1>5, <1>8, <1>9, TypeAfter DEF Reject
<1>10. CASE Abort(w)
  BY <1>1, <1>2, <1>3, <1>4, <1>5, <1>8, <1>10, TypeAfter DEF Abort
<1>11. CASE MarkFailed(w)
  <2>0. PICK e \in Events : e = work[w].event
    BY <1>8, <1>11 DEF MarkFailed
  <2>3. inbox[e] # "none"
    <3>1. work[w] # Idle
      BY <1>11, AtHand DEF MarkFailed
    <3> QED BY <2>0, <3>1 DEF Working
  <2>4. inbox' = [inbox EXCEPT ![e] = "failed"] /\ UNCHANGED notice
    BY <1>11, <2>0 DEF MarkFailed
  <2>1. InboxTypes'
    BY <2>3, <2>4, TypeParts DEF InboxTypes
  <2>2. WorkTypes'
    BY <1>0, <1>11 DEF MarkFailed
  <2> QED BY <1>1, <1>3, <1>4, <1>5, <1>11, <2>1, <2>2, TypeAfter DEF MarkFailed
<1>12. CASE Crash(w)
  <2>1. WorkTypes'
    BY <1>0, <1>12 DEF Crash
  <2> QED BY <1>1, <1>2, <1>3, <1>4, <1>5, <1>12, <2>1, TypeAfter DEF Crash
<1> QED BY <1>6, <1>7, <1>9, <1>10, <1>11, <1>12 DEF Handling

\* The steps of the journal.
Journaling ==
  OpenCancellation \/ AnswerCancellation
    \/ ReconcileRead \/ ReconcileWrite \/ ReconcileFails

\* Each step of the journal but the last one leaves the subscription alone;
\* none touches the inbox or the requests.
LEMMA JournalingTypes ==
  ASSUME TypeOK, Journaling
  PROVE  TypeOK' /\ UNCHANGED <<inbox, notice, work>>
<1>1. UNCHANGED <<inbox, notice, work, sent>>
  BY DEF Journaling, OpenCancellation, AnswerCancellation, ReconcileRead,
         ReconcileWrite, ReconcileFails, delivery
<1>2. InboxTypes' /\ WorkTypes' /\ sent' \in [Events -> {NoEvent} \cup Notice]
  BY <1>1, TypeParts DEF InboxTypes, WorkTypes
<1>3. faults' \in 0 .. MaxFaults
  <2>1. faults \in 0 .. MaxFaults /\ MaxFaults \in Nat
    BY TypeParts, SubscriptionAssumption
  <2>2. faults' = faults \/ (faults < MaxFaults /\ faults' = faults + 1)
    BY DEF Journaling, OpenCancellation, AnswerCancellation, ReconcileRead,
           ReconcileWrite, ReconcileFails
  <2> QED BY <2>1, <2>2
<1>4. ASSUME UNCHANGED contract PROVE ContractTypes'
  BY <1>4, ContractStays
<1>5. /\ op.at \in {"provider_succeeded", "reconciling"} => op.result \in Answer
      /\ op.at = "reconciling" => op.seen \in Row
  <2>1. CASE op \in [at : {"provider_succeeded", "completed"}, result : Answer]
    BY <2>1
  <2>2. CASE op \in [at : {"reconciling"}, result : Answer, seen : Row]
    BY <2>2
  <2>3. CASE op = NoOperation \/ op \in [at : {"pending_provider"}]
    BY <2>3 DEF NoOperation
  <2> QED BY <2>1, <2>2, <2>3, TypeParts DEF OperationTypes
<1>6. CASE OpenCancellation
  <2>1. OperationTypes'
    BY <1>6 DEF OpenCancellation, OperationTypes
  <2> QED BY <1>1, <1>2, <1>3, <1>4, <1>6, <2>1, TypeAfter DEF OpenCancellation
<1>7. CASE AnswerCancellation
  <2>1. \A r \in CancelAnswers : r \in Answer
    BY SubscriptionAssumption
  <2>2. OperationTypes'
    BY <1>7, <2>1 DEF AnswerCancellation, OperationTypes
  <2> QED BY <1>1, <1>2, <1>3, <1>4, <1>7, <2>2, TypeAfter DEF AnswerCancellation
<1>8. CASE ReconcileRead
  <2>1. sub \in Row
    BY TypeParts DEF ContractTypes
  <2>2. OperationTypes'
    BY <1>5, <1>8, <2>1 DEF ReconcileRead, OperationTypes
  <2> QED BY <1>1, <1>2, <1>3, <1>4, <1>8, <2>2, TypeAfter DEF ReconcileRead
<1>9. CASE ReconcileWrite
  <2>1. op.result \in Answer /\ op.seen \in Row /\ sub \in Row
    BY <1>5, <1>9, TypeParts DEF ReconcileWrite, ContractTypes
  <2>2. OperationTypes'
    BY <1>9, <2>1 DEF ReconcileWrite, OperationTypes
  <2>3. sub' \in Row
    BY <1>9, <2>1 DEF ReconcileWrite, Row, Answer, Or
  <2>4. /\ buckets' \in [Keys -> Bucket] /\ held' \in 0 .. MaxHeld
        /\ Available' \in Nat
    <3>1. /\ buckets \in [Keys -> Bucket] /\ held \in 0 .. MaxHeld /\ Available \in Nat
          /\ UNCHANGED held /\ MaxHeld \in Nat
      BY <1>9, TypeParts, SubscriptionAssumption DEF ContractTypes, ReconcileWrite
    <3>2. CASE revokeSubscriptionCredits
      <4>1. buckets' \in [Keys -> Bucket] /\ Cardinality(Active') = held
        BY <3>2, TypeParts, RevokeTakes
      <4> QED BY <3>1, <4>1 DEF Available
    <3>3. CASE UNCHANGED buckets
      BY <3>1, <3>3 DEF Available, Active, Keys, Times
    <3> QED BY <1>9, <3>2, <3>3 DEF ReconcileWrite
  <2>5. /\ grants' \in [Keys -> [status : {"none", "active", "revoked", "expired"},
                               from : Dates, until : Dates]]
        /\ bare' \subseteq Events /\ ended' \in BOOLEAN /\ kept' \in 0 .. MaxHeld
    BY <1>9, EndingTypes, TypeParts DEF ReconcileWrite, ContractTypes
  <2>6. ContractTypes'
    BY <2>3, <2>4, <2>5 DEF ContractTypes
  <2> QED BY <1>1, <1>2, <1>3, <1>9, <2>2, <2>6, TypeAfter DEF ReconcileWrite
<1>10. CASE ReconcileFails
  <2>1. OperationTypes'
    BY <1>5, <1>10 DEF ReconcileFails, OperationTypes
  <2> QED BY <1>1, <1>2, <1>3, <1>4, <1>10, <2>1, TypeAfter DEF ReconcileFails
<1> QED BY <1>1, <1>6, <1>7, <1>8, <1>9, <1>10 DEF Journaling

\* What the host does with the credits touches nothing else.
LEMMA HostTypes ==
  ASSUME TypeOK, Host
  PROVE  /\ TypeOK' /\ Drained
         /\ Cardinality(Active') <= Cardinality(Active)
         /\ UNCHANGED <<sub, grants, bare, ended, kept, inbox, notice, sent, work, op, faults>>
<1>1. UNCHANGED <<sub, grants, bare, ended, kept, inbox, notice, sent, work, op, faults>>
  BY DEF Host, reserveCredits, releaseReservation, captureReservation, Holds, delivery
<1>2. /\ buckets \in [Keys -> Bucket] /\ held \in 0 .. MaxHeld /\ MaxHeld \in Nat
      /\ Available \in Nat /\ Cardinality(Active) \in Nat
  BY TypeParts, SubscriptionAssumption, ActiveCount DEF ContractTypes
<1>3. /\ buckets' \in [Keys -> Bucket] /\ held' \in 0 .. MaxHeld /\ Available' \in Nat
      /\ Drained /\ Cardinality(Active') <= Cardinality(Active)
  <2>1. CASE captureReservation
    <3>1. PICK n \in Nat : n = 1
      OBVIOUS
    <3>2. PICK S \in FirstToExpire(n) : Drain(S, "consumed")
      BY <2>1, <3>1 DEF captureReservation
    <3>3. /\ buckets' \in [Keys -> Bucket] /\ Drained
          /\ Cardinality(Active') = Cardinality(Active) - n
      BY <1>2, <3>2, DrainTakes
    <3>4. held > 0 /\ held' = held - 1
      BY <2>1 DEF captureReservation, Holds
    <3> QED BY <1>2, <3>1, <3>3, <3>4, ActiveCount DEF Available
  <2>2. CASE reserveCredits \/ releaseReservation
    <3>1. UNCHANGED buckets
      BY <2>2 DEF reserveCredits, releaseReservation
    <3>2. Active' = Active /\ Drained
      BY <3>1 DEF Active, Keys, Times, Drained
    <3>3. \/ Available > 0 /\ held < MaxHeld /\ held' = held + 1
          \/ held > 0 /\ held' = held - 1
      BY <2>2 DEF reserveCredits, releaseReservation, Holds
    <3> QED BY <1>2, <3>1, <3>2, <3>3 DEF Available
  <2> QED BY <2>1, <2>2 DEF Host
<1>4. TypeOK'
  BY <1>1, <1>3, TypeParts, TypeAfter
     DEF ContractTypes, InboxTypes, WorkTypes, OperationTypes
<1> QED BY <1>1, <1>3, <1>4

-------------------------------------------------------------------------------
(* The subscription events themselves.                                     *)

SubscriptionInv == TypeOK /\ Working

LEMMA WorkingStays ==
  ASSUME TypeOK, Working, NEW w \in Workers,
         Handling(w) \/ \E e \in Events, x \in {NoEvent} \cup Notice, body \in Notice :
                          Receive(w, e, x, body)
  PROVE  Working'
<1>0. \A v \in Workers \ {w} : work'[v] = work[v]
  BY TypeParts DEF Handling, Begin, Read, Commit, Reject, Abort, MarkFailed, Crash,
                   RolledBack, Receive, WorkTypes
<1>1. \A e \in Events : inbox[e] # "none" => inbox'[e] # "none"
  BY TypeParts DEF Handling, Begin, Commit, Reject, Abort, MarkFailed, Crash,
                   delivery, Receive, InboxTypes
<1>2. work'[w] = Idle \/ inbox'[work'[w].event] # "none"
  <2>1. CASE Begin(w)
    <3>1. PICK e \in Events :
            /\ inbox[e] # "none"
            /\ \/ work' = [work EXCEPT ![w] = Idle]
               \/ work' = [work EXCEPT ![w] = [at |-> "write", event |-> e,
                                              seen |-> sub, body |-> BodyOf(w, e)]]
      BY <2>1, BeginReads
    <3> QED BY <1>1, <3>1, TypeParts DEF WorkTypes
  <2>2. CASE Commit(w) \/ MarkFailed(w) \/ Crash(w)
    BY <2>2, TypeParts DEF Commit, MarkFailed, Crash, WorkTypes
  <2>3. CASE Reject(w) \/ Abort(w)
    <3>1. work[w] # Idle
      BY <2>3, AtHand DEF Reject, Abort
    <3>2. PICK e \in Events : e = work[w].event
      BY <3>1, AtHand
    <3>3. work'[w] = [at |-> "rolled back", event |-> e]
      BY <2>3, <3>2, TypeParts DEF Reject, Abort, RolledBack, WorkTypes
    <3>4. inbox[e] # "none"
      BY <3>1, <3>2 DEF Working
    <3>5. inbox'[e] # "none"
      BY <1>1, <3>2, <3>4
    <3>6. work'[w].event = e
      <4>1. \A a : [at |-> a, event |-> e].event = e
        OBVIOUS
      <4> QED BY <3>3, <4>1
    <3> QED BY <3>5, <3>6
  <2>4. ASSUME NEW e \in Events, NEW x \in {NoEvent} \cup Notice, NEW body \in Notice,
               Receive(w, e, x, body)
        PROVE  inbox'[work'[w].event] # "none"
    <3>1. work'[w] = [at |-> "apply", event |-> e, body |-> body]
      BY <2>4, TypeParts DEF Receive, WorkTypes
    <3>2. inbox'[e] # "none"
      BY <2>4, TypeParts DEF Receive, delivery, InboxTypes
    <3> QED BY <3>1, <3>2
  <2> QED BY <2>1, <2>2, <2>3, <2>4 DEF Handling
<1> QED BY <1>0, <1>1, <1>2, AtHand DEF Working

LEMMA BodyType ==
  ASSUME NEW e \in Events, NEW x \in Notices[e], NEW body \in Bodies(x)
  PROVE  x \in Notice /\ body \in Notice
<1>1. x \in Notice
  BY SubscriptionAssumption
<1>2. PICK s \in {x.start, NoTime}, t \in {x.end, NoTime} :
        body = [x EXCEPT !.start = s, !.end = t]
  BY DEF Bodies
<1>3. s \in Dates /\ t \in Dates
  BY <1>1, <1>2 DEF Notice, Dates
<1> QED BY <1>1, <1>2, <1>3 DEF Notice

LEMMA SubscriptionInvStep == SubscriptionInv /\ [Next]_vars => SubscriptionInv'
<1> SUFFICES ASSUME SubscriptionInv, [Next]_vars PROVE SubscriptionInv'
  OBVIOUS
<1>0. TypeOK /\ Working
  BY DEF SubscriptionInv
<1>1. ASSUME NEW w \in Workers, NEW e \in Events, NEW x \in Notices[e],
             NEW body \in Bodies(x), Receive(w, e, x, body)
      PROVE  SubscriptionInv'
  <2>1. x \in Notice /\ body \in Notice
    BY BodyType
  <2> QED BY <1>0, <1>1, <2>1, ReceiveTypes, WorkingStays DEF SubscriptionInv
<1>2. ASSUME NEW w \in Workers, Handling(w)
      PROVE  SubscriptionInv'
  BY <1>0, <1>2, HandlingTypes, WorkingStays DEF SubscriptionInv
<1>3. ASSUME Journaling
      PROVE  SubscriptionInv'
  <2>1. Working'
    BY <1>0, <1>3, JournalingTypes DEF Working
  <2> QED BY <1>0, <1>3, <2>1, JournalingTypes DEF SubscriptionInv
<1>4. ASSUME Host
      PROVE  SubscriptionInv'
  BY <1>0, <1>4, HostTypes DEF SubscriptionInv, Working
<1>5. CASE UNCHANGED vars
  <2>1. ContractTypes'
    BY <1>0, <1>5, ContractStays DEF vars
  <2>2. TypeOK'
    BY <1>0, <1>5, <2>1, TypeParts, TypeAfter
       DEF vars, delivery, InboxTypes, WorkTypes, OperationTypes
  <2> QED BY <1>0, <1>5, <2>2 DEF SubscriptionInv, Working, vars, delivery
<1> QED BY <1>1, <1>2, <1>3, <1>4, <1>5 DEF Next, Handling, Journaling

LEMMA SubscriptionInvInit == Init => SubscriptionInv
<1> SUFFICES ASSUME Init PROVE SubscriptionInv
  OBVIOUS
<1>0. /\ Active = {} /\ held = 0 /\ MaxHeld \in Nat
      /\ buckets \in [Keys -> Bucket]
  BY SubscriptionAssumption DEF Init, Active, NoBucket, Bucket, Dates
<1>1. ContractTypes
  <2>1. Available \in Nat
    BY <1>0, FS_EmptySet DEF Available
  <2>2. sub \in Row
    BY DEF Init, NoRow, Row, Dates
  <2>3. grants \in [Keys -> [status : {"none", "active", "revoked", "expired"},
                            from : Dates, until : Dates]]
    BY DEF Init, NoGrant, Dates
  <2>4. kept \in 0 .. MaxHeld /\ held \in 0 .. MaxHeld
    <3>1. kept = 0 /\ held = 0
      BY DEF Init
    <3> QED BY <1>0, <3>1
  <2>5. bare \subseteq Events /\ ended \in BOOLEAN
    BY DEF Init
  <2> QED BY <1>0, <2>1, <2>2, <2>3, <2>4, <2>5 DEF ContractTypes
<1>2. InboxTypes /\ WorkTypes /\ OperationTypes
  BY DEF Init, InboxTypes, WorkTypes, OperationTypes
<1>3. sent \in [Events -> {NoEvent} \cup Notice] /\ faults \in 0 .. MaxFaults
  BY SubscriptionAssumption DEF Init
<1>4. Working
  BY DEF Init, Working
<1> QED BY <1>1, <1>2, <1>3, <1>4, TypeParts DEF SubscriptionInv

LEMMA SubscriptionInvariant == Spec => []SubscriptionInv
  BY SubscriptionInvInit, SubscriptionInvStep, PTL DEF Spec

(* Every row, every delivery and every operation of a subscription is well *)
(* typed: a request always knows its event, and a grant is always keyed by *)
(* a period or an event.                                                   *)
THEOREM SubscriptionTypeCorrect == Spec => []TypeOK
<1>1. SubscriptionInv => TypeOK
  BY DEF SubscriptionInv
<1> QED BY <1>1, SubscriptionInvariant, PTL

-------------------------------------------------------------------------------
(* What the end of a subscription leaves: no feature, and of the credits   *)
(* what was held.                                                          *)

LEMMA NothingLeft ==
  ASSUME TypeOK, NEW k \in Keys
  PROVE  EndEntitlements("revoked")[k].status # "active"
<1>1. [grants[k] EXCEPT !.status = "revoked"].status = "revoked"
  BY TypeParts DEF ContractTypes
<1> QED BY <1>1 DEF EndEntitlements

\* Ending the grants makes none of them active.
LEMMA EndingOpensNothing ==
  ASSUME TypeOK, NEW k \in Keys, grants[k].status # "active"
  PROVE  \A s : EndEntitlements(s)[k].status # "active"
  BY DEF EndEntitlements

LEMMA AppliedEnds ==
  ASSUME TypeOK, EndedLeavesOnlyHeld, NEW e \in Events, NEW x \in Notice,
         NEW seen \in Row, Apply(e, x, seen)
  PROVE  EndedLeavesOnlyHeld'
<1> SUFFICES ASSUME ended' = TRUE
             PROVE  /\ \A k \in Keys : grants'[k].status # "active"
                    /\ Cardinality(Active') <= kept'
  BY DEF EndedLeavesOnlyHeld, Keys, Times
<1>1. CASE EndsNow(x, seen)
  <2>1. ~grantsAccess(x, seen)
    BY <1>1 DEF EndsNow, grantsAccess
  <2>2. /\ grants' = EndEntitlements("revoked") /\ revokeSubscriptionCredits
        /\ kept' = held
    <3>1. grants' = EndEntitlements("revoked")
      BY <1>1, <2>1 DEF Apply, EndsNow
    <3>2. revokeSubscriptionCredits
      BY <1>1, <2>1 DEF Apply
    <3>3. kept' = held
      BY <1>1 DEF Apply
    <3> QED BY <3>1, <3>2, <3>3
  <2>3. Cardinality(Active') = held /\ held \in Int
    BY <2>2, TypeParts, RevokeTakes, SubscriptionAssumption DEF ContractTypes
  <2> QED BY <2>2, <2>3, NothingLeft
<1>2. CASE ~EndsNow(x, seen)
  <2>1. ended = TRUE /\ ~grantsAccess(x, seen) /\ kept' = kept
    BY <1>2 DEF Apply
  <2>2. /\ grants' = grants \/ grants' = EndEntitlements("expired")
        /\ buckets' = buckets
    BY <1>2, <2>1 DEF Apply
  <2>3. Active' = Active
    BY <2>2 DEF Active, Keys, Times
  <2>4. /\ \A k \in Keys : grants[k].status # "active"
        /\ Cardinality(Active) <= kept
    BY <2>1 DEF EndedLeavesOnlyHeld
  <2>5. \A k \in Keys : grants'[k].status # "active"
    BY <2>2, <2>4, EndingOpensNothing
  <2> QED BY <2>1, <2>3, <2>4, <2>5
<1> QED BY <1>1, <1>2

LEMMA EndedStep == SubscriptionInv /\ EndedLeavesOnlyHeld /\ [Next]_vars => EndedLeavesOnlyHeld'
<1> SUFFICES ASSUME TypeOK, EndedLeavesOnlyHeld, [Next]_vars PROVE EndedLeavesOnlyHeld'
  BY DEF SubscriptionInv
<1>1. ASSUME UNCHANGED contract PROVE EndedLeavesOnlyHeld'
  BY <1>1 DEF contract, EndedLeavesOnlyHeld, Active, Keys, Times
<1>2. ASSUME NEW w \in Workers, Commit(w) PROVE EndedLeavesOnlyHeld'
  BY <1>2, CommitIsApplied, AppliedEnds
<1>3. CASE ReconcileWrite
  <2>1. SUFFICES ASSUME ended' = TRUE
                 PROVE  /\ \A k \in Keys : grants'[k].status # "active"
                        /\ Cardinality(Active') <= kept'
    BY DEF EndedLeavesOnlyHeld, Keys, Times
  <2>2. CASE /\ grants' = EndEntitlements("revoked")
             /\ revokeSubscriptionCredits /\ kept' = held
    <3>1. Cardinality(Active') = held /\ held \in Int
      BY <2>2, TypeParts, RevokeTakes, SubscriptionAssumption DEF ContractTypes
    <3> QED BY <2>2, <3>1, NothingLeft
  <2>3. CASE UNCHANGED <<grants, buckets, kept>> /\ ended = TRUE
    BY <2>3 DEF EndedLeavesOnlyHeld, Active, Keys, Times
  <2> QED BY <1>3, <2>1, <2>2, <2>3 DEF ReconcileWrite
<1>4. CASE Host
  <2>1. /\ UNCHANGED <<grants, ended, kept>>
        /\ Cardinality(Active') <= Cardinality(Active)
    BY <1>4, HostTypes
  <2>2. kept \in Int
    BY TypeParts, SubscriptionAssumption DEF ContractTypes
  <2>3. SUFFICES ASSUME ended' = TRUE
                 PROVE  /\ \A k \in Keys : grants'[k].status # "active"
                        /\ Cardinality(Active') <= kept'
    BY DEF EndedLeavesOnlyHeld, Keys, Times
  <2>4. /\ \A k \in Keys : grants[k].status # "active"
        /\ Cardinality(Active) <= kept
    BY <2>1, <2>3 DEF EndedLeavesOnlyHeld
  <2> QED BY <2>1, <2>2, <2>4, ActiveCount
<1> QED BY <1>1, <1>2, <1>3, <1>4
        DEF Next, vars, Receive, Begin, Reject, Abort, MarkFailed, Crash,
            OpenCancellation, AnswerCancellation, ReconcileRead, ReconcileFails

(* Once a subscription has been ended at once, and until an event grants   *)
(* access again, no feature of any of its cycles is left and no more       *)
(* credits than open reservations held at the end, however the events, the *)
(* requests, the journal and the host's reservations interleave.           *)
THEOREM EndedAlwaysLeavesOnlyHeld == Spec => []EndedLeavesOnlyHeld
<1>1. Init => EndedLeavesOnlyHeld
  BY DEF Init, EndedLeavesOnlyHeld
<1> QED BY <1>1, EndedStep, SubscriptionInvariant, PTL DEF Spec

-------------------------------------------------------------------------------
(* What a renewal delivers.                                                *)

\* Credits under the key of an event were granted by that event.
KeyedByEvent ==
  \A e \in Events : buckets[e].status # "none" => buckets[e].event = e

\* The journal takes credits at most.
LEMMA JournalDrains ==
  ASSUME TypeOK, Journaling
  PROVE  Drained
<1>1. revokeSubscriptionCredits \/ UNCHANGED buckets
  BY DEF Journaling, OpenCancellation, AnswerCancellation, ReconcileRead,
         ReconcileWrite, ReconcileFails, contract
<1>2. UNCHANGED buckets => Drained
  BY DEF Drained, Active, Keys, Times
<1> QED BY <1>1, <1>2, TypeParts, RevokeTakes

\* An event grants credits under its key, or takes credits at most.
LEMMA AppliedBuckets ==
  ASSUME TypeOK, NEW e, NEW x, NEW seen, Apply(e, x, seen)
  PROVE  LET key == grantPeriodKey(e, x, seen) IN
         \/ Drained
         \/ /\ grantsCredits(x, seen) /\ Subscription(x, seen).items
            /\ buckets[key].status = "none"
            /\ buckets' = [buckets EXCEPT ![key] =
                            [status |-> "active", expires |-> x.end, event |-> e]]
<1> DEFINE key == grantPeriodKey(e, x, seen)
<1>1. \/ revokeSubscriptionCredits \/ UNCHANGED buckets
      \/ /\ grantsCredits(x, seen) /\ Subscription(x, seen).items
         /\ buckets[key].status = "none"
         /\ buckets' = [buckets EXCEPT ![key] =
                         [status |-> "active", expires |-> x.end, event |-> e]]
  BY DEF Apply
<1>2. UNCHANGED buckets => Drained
  BY DEF Drained, Active, Keys, Times
<1> QED BY <1>1, <1>2, TypeParts, RevokeTakes

\* Credits that were granted stay on the record, on their terms.
LEMMA CreditsStay ==
  ASSUME TypeOK, NEW k \in Keys, buckets[k].status # "none",
         NEW e, NEW x, NEW seen, Apply(e, x, seen)
  PROVE  /\ buckets'[k].status # "none"
         /\ buckets'[k].expires = buckets[k].expires
         /\ buckets'[k].event = buckets[k].event
<1> DEFINE key == grantPeriodKey(e, x, seen)
<1>1. CASE Drained
  BY <1>1 DEF Drained
<1>2. CASE /\ buckets[key].status = "none"
           /\ buckets' = [buckets EXCEPT ![key] =
                           [status |-> "active", expires |-> x.end, event |-> e]]
  BY <1>2, TypeParts DEF ContractTypes
<1> QED BY <1>1, <1>2, AppliedBuckets

\* An event that is processed for credits has them under its key, on its
\* own terms.
LEMMA AppliedCredits ==
  ASSUME TypeOK, NEW e \in Events, NEW x \in Notice, NEW seen \in Row,
         ~Refused(e, x, seen), Apply(e, x, seen),
         grantsCredits(x, seen), Subscription(x, seen).items
  PROVE  LET key == grantPeriodKey(e, x, seen) IN
         /\ key \in Keys
         /\ buckets'[key].status # "none" /\ buckets'[key].expires = x.end
         /\ \/ buckets[key].status # "none" /\ buckets' = buckets
            \/ buckets'[key].event = e
<1> DEFINE key == grantPeriodKey(e, x, seen)
<1>0. buckets \in [Keys -> Bucket]
  BY TypeParts DEF ContractTypes
<1>1. grantsAccess(x, seen) /\ ~EndsNow(x, seen)
  BY DEF grantsCredits, grantsAccess, EndsNow
<1>2. Bounded(x, seen) /\ key \in Keys
  BY <1>1, KeyType
<1>3. ~CreditConflict(e, x, seen)
  BY <1>1, <1>2 DEF Refused, CreditsRefused
<1>4. CASE buckets[key].status = "none"
  <2>1. buckets' = [buckets EXCEPT ![key] =
                      [status |-> "active", expires |-> x.end, event |-> e]]
    BY <1>1, <1>4 DEF Apply
  <2> QED BY <1>0, <1>2, <2>1
<1>5. CASE buckets[key].status # "none"
  <2>1. buckets' = buckets
    BY <1>1, <1>5 DEF Apply
  <2> QED BY <1>2, <1>3, <1>5, <2>1 DEF CreditConflict
<1> QED BY <1>4, <1>5

RenewalInv == RenewalDelivers /\ KeyedByEvent

LEMMA AppliedKeyed ==
  ASSUME TypeOK, KeyedByEvent, NEW e \in Events, NEW x \in Notice, NEW seen \in Row,
         ~Refused(e, x, seen), Apply(e, x, seen)
  PROVE  KeyedByEvent'
<1> SUFFICES ASSUME NEW f \in Events, buckets'[f].status # "none"
             PROVE  buckets'[f].event = f
  BY DEF KeyedByEvent
<1>0. f \in Keys
  BY DEF Keys
<1>1. CASE buckets[f].status # "none"
  BY <1>0, <1>1, CreditsStay DEF KeyedByEvent
<1>2. CASE buckets[f].status = "none"
  <2>2. /\ grantsCredits(x, seen) /\ Subscription(x, seen).items
        /\ f = grantPeriodKey(e, x, seen) /\ buckets'[f].event = e
    <3>1. ~Drained
      BY <1>0, <1>2 DEF Drained
    <3>2. PICK key, b : /\ key = grantPeriodKey(e, x, seen)
                        /\ b = [status |-> "active", expires |-> x.end, event |-> e]
      OBVIOUS
    <3>3. /\ grantsCredits(x, seen) /\ Subscription(x, seen).items
          /\ buckets' = [buckets EXCEPT ![key] = b]
      BY <3>1, <3>2, AppliedBuckets
    <3>4. b.event = e
      BY <3>2
    <3> QED BY <1>0, <1>2, <3>2, <3>3, <3>4, TypeParts DEF ContractTypes
  <2>3. f \notin Dates
    BY SubscriptionAssumption
  <2>4. Start(x, seen) \in Dates
    BY RowType
  <2>5. f = e
    BY <2>2, <2>3, <2>4 DEF grantPeriodKey
  <2> QED BY <2>2, <2>5
<1> QED BY <1>1, <1>2

LEMMA RenewalStep == SubscriptionInv /\ RenewalInv /\ [Next]_vars => RenewalInv'
<1> SUFFICES ASSUME TypeOK, RenewalDelivers, KeyedByEvent, [Next]_vars
             PROVE  RenewalInv'
  BY DEF SubscriptionInv, RenewalInv
<1> DEFINE Due(e) == /\ inbox[e] = "processed" /\ notice[e].type = "subscription.renewed"
                     /\ Stated(notice[e], "active") = "active" /\ e \notin bare
           Key(e) == IF notice[e].start = NoTime THEN e ELSE notice[e].start
<1>0. \A e \in Events : inbox[e] # "none" => notice[e] \in Notice /\ Key(e) \in Keys
  BY TypeParts DEF InboxTypes, Notice, Keys, Dates
<1>1. ASSUME NEW w \in Workers, Commit(w)
      PROVE  RenewalInv'
  <2>1. PICK e \in Events, x \in Notice, seen \in Row :
           /\ ~Refused(e, x, seen) /\ Apply(e, x, seen)
           /\ inbox' = [inbox EXCEPT ![e] = "processed"]
           /\ notice' = [notice EXCEPT ![e] = x]
    BY <1>1, CommitIsApplied
  <2>2. KeyedByEvent'
    BY <2>1, AppliedKeyed
  <2>3. ASSUME NEW f \in Events, f # e, Due(f)'
        PROVE  LET b == buckets'[Key(f)'] IN
               /\ b.status # "none" /\ b.expires = notice'[f].end /\ b.expires # NoTime
               /\ notice'[f].start = NoTime => b.event = f
    <3>1. inbox'[f] = inbox[f] /\ notice'[f] = notice[f]
      BY <2>1, <2>3, TypeParts DEF InboxTypes
    <3>2. f \notin bare
      BY <2>1, <2>3 DEF Apply
    <3>3. Due(f) /\ Key(f) \in Keys /\ Key(f)' = Key(f)
      BY <1>0, <2>3, <3>1, <3>2
    <3>4. LET b == buckets[Key(f)] IN
          /\ b.status # "none" /\ b.expires = notice[f].end /\ b.expires # NoTime
          /\ notice[f].start = NoTime => b.event = f
      BY <3>3 DEF RenewalDelivers
    <3> QED BY <2>1, <3>1, <3>3, <3>4, CreditsStay
  <2>4. ASSUME Due(e)'
        PROVE  LET b == buckets'[Key(e)'] IN
               /\ b.status # "none" /\ b.expires = notice'[e].end /\ b.expires # NoTime
               /\ notice'[e].start = NoTime => b.event = e
    <3>1. notice'[e] = x
      BY <2>1, TypeParts DEF InboxTypes
    <3>2. x.type = "subscription.renewed" /\ Stated(x, "active") = "active"
      BY <2>4, <3>1
    <3>3. grantsCredits(x, seen)
      BY <3>2 DEF grantsCredits, grantsAccess, inferredStatus
    <3>4. Subscription(x, seen).items
      BY <2>1, <2>4 DEF Apply
    <3>5. x.end # NoTime
      BY <2>1, <3>2, <3>3, <3>4 DEF Refused, CreditsRefused, grantsCredits
    <3>6. grantPeriodKey(e, x, seen) = Key(e)'
      BY <3>1, <3>2 DEF grantPeriodKey, Start, Or
    <3>7. LET key == grantPeriodKey(e, x, seen) IN
          /\ buckets'[key].status # "none" /\ buckets'[key].expires = x.end
          /\ \/ buckets[key].status # "none" /\ buckets' = buckets
             \/ buckets'[key].event = e
      BY <2>1, <3>3, <3>4, AppliedCredits
    <3>8. notice'[e].start = NoTime => buckets'[e].event = e
      BY <3>1, <3>6, <3>7, <2>2 DEF KeyedByEvent
    <3> QED BY <3>1, <3>5, <3>6, <3>7, <3>8
  <2>5. RenewalDelivers'
    BY <2>3, <2>4 DEF RenewalDelivers
  <2> QED BY <2>2, <2>5 DEF RenewalInv
<1>2. ASSUME UNCHANGED <<buckets, bare>>,
             \A e \in Events : inbox'[e] = "processed" =>
                              inbox[e] = "processed" /\ notice'[e] = notice[e]
      PROVE  RenewalInv'
  BY <1>2 DEF RenewalInv, RenewalDelivers, KeyedByEvent
<1>3. ASSUME Journaling \/ Host
      PROVE  RenewalInv'
  <2>0. Drained
    BY <1>3, JournalDrains, HostTypes
  <2>1. UNCHANGED <<inbox, notice, bare>>
    BY <1>3, JournalingTypes, HostTypes DEF Journaling, OpenCancellation,
             AnswerCancellation, ReconcileRead, ReconcileWrite, ReconcileFails, contract
  <2>2. RenewalDelivers'
    BY <1>0, <2>0, <2>1 DEF RenewalDelivers, Drained
  <2>3. KeyedByEvent'
    BY <2>0 DEF KeyedByEvent, Drained, Keys
  <2> QED BY <2>2, <2>3 DEF RenewalInv
<1>4. ASSUME NEW w \in Workers, NEW e \in Events, NEW x, NEW body, Receive(w, e, x, body)
      PROVE  RenewalInv'
  <2>1. UNCHANGED <<buckets, bare>>
    BY <1>4 DEF Receive, contract
  <2>2. \A f \in Events : inbox'[f] = "processed" =>
                         inbox[f] = "processed" /\ notice'[f] = notice[f]
    BY <1>4, TypeParts DEF Receive, delivery, InboxTypes
  <2> QED BY <1>2, <2>1, <2>2
<1>5. ASSUME NEW w \in Workers,
             Begin(w) \/ Reject(w) \/ Abort(w) \/ MarkFailed(w) \/ Crash(w)
      PROVE  RenewalInv'
  <2>1. UNCHANGED <<buckets, bare, notice>>
    BY <1>5 DEF Begin, Reject, Abort, MarkFailed, Crash, contract, delivery
  <2>2. \A f \in Events : inbox'[f] = "processed" => inbox[f] = "processed"
    BY <1>5, TypeParts DEF Begin, Reject, Abort, MarkFailed, Crash, delivery, InboxTypes
  <2> QED BY <1>2, <2>1, <2>2
<1>6. CASE UNCHANGED vars
  BY <1>2, <1>6 DEF vars, contract, delivery
<1> QED BY <1>1, <1>3, <1>4, <1>5, <1>6 DEF Next, Journaling

(* A renewal that has been processed has granted the credits of its own    *)
(* cycle, with the end of that cycle, whatever its first delivery left out *)
(* and whatever was granted, refused or rolled back before it.             *)
THEOREM RenewalAlwaysDelivers == Spec => []RenewalDelivers
<1>1. Init => RenewalInv
  BY DEF Init, RenewalInv, RenewalDelivers, KeyedByEvent, NoBucket, Keys
<1>2. RenewalInv => RenewalDelivers
  BY DEF RenewalInv
<1> QED BY <1>1, <1>2, RenewalStep, SubscriptionInvariant, PTL DEF Spec

-------------------------------------------------------------------------------
(* The events the providers send of a subscription.                        *)

\* A record the provider can have: an active cycle is paid, and of the paid
\* cycles there is a last one.
Kept(p) ==
  /\ p \in Plan
  /\ p.status \in {"active", "scheduled"} => p.cycle \in p.paid
  /\ p.status = "past_due" => p.cycle \in Cycles
  /\ p.paid \subseteq 1 .. p.cycle
  /\ p.paid # {} => \E m \in p.paid : \A n \in p.paid : n <= m

\* An event made of such a record, not of a later one.
Telling(event) ==
  /\ event \in [name : EventNames, object : Plan]
  /\ event.name \in Tellable(event.object)
  /\ Kept(event.object) /\ event.object.paid \subseteq plan.paid

PlanInv ==
  /\ provider \in {Creem, PayPal, Waffo} /\ Kept(plan)
  /\ told \in [Events -> {NotTold} \cup [name : EventNames, object : Plan]]
  /\ \A e \in Events : told[e] # NotTold => Telling(told[e])

\* A notice that opens access states a start of its own, of a paid cycle.
Sound(x) ==
  /\ x \in Notice
  /\ x.type \in {"subscription.created", "subscription.activated",
                 "subscription.renewed", "subscription.updated"} =>
       /\ x.status # "absent"
       /\ x.status = "active" => x.start \in plan.paid

LEMMA LastIsPaid ==
  ASSUME NEW p, Kept(p), p.paid # {}
  PROVE  LastOf(p.paid) \in p.paid
<1>1. PICK m \in p.paid : \A n \in p.paid : n <= m
  BY DEF Kept
<1> QED BY <1>1 DEF LastOf

LEMMA NormalizedType ==
  ASSUME NEW type \in Types, NEW status \in Statuses \cup {"absent"},
         NEW atEnd \in {"yes", "no", "absent"}, NEW cycle \in {0} \cup Cycles
  PROVE  /\ Normalized(type, status, atEnd, cycle) \in Notice
         /\ Normalized(type, status, atEnd, cycle).type = type
         /\ Normalized(type, status, atEnd, cycle).status = status
         /\ Normalized(type, status, atEnd, cycle).start = cycle
<1>1. cycle \in Dates /\ (IF cycle = 0 THEN NoTime ELSE cycle + 1) \in Dates
  BY ProviderAssumption DEF Cycles, Dates, Times, NoTime
<1> QED BY <1>1 DEF Normalized, Notice

\* Which events a provider makes of a record.
LEMMA Names ==
  ASSUME NEW p
  PROVE  /\ provider = Creem =>
              /\ Tellable(p) \subseteq
                   {"checkout.completed", "subscription.active", "subscription.paid",
                    "subscription.update", "subscription.past_due",
                    "subscription.scheduled_cancel", "subscription.canceled",
                    "subscription.expired"}
              /\ "subscription.paid" \in Tellable(p) => p.status = "active"
              /\ "subscription.scheduled_cancel" \in Tellable(p) => p.status = "scheduled"
         /\ provider = PayPal =>
              /\ Tellable(p) \subseteq
                   {"CREATED", "ACTIVATED", "UPDATED", "CANCELLED", "EXPIRED",
                    "SALE.COMPLETED", "SALE.DENIED"}
              /\ "ACTIVATED" \in Tellable(p) => p.status = "active"
         /\ provider = Waffo =>
              Tellable(p) \subseteq
                {"activated", "renewed", "recovered", "past_due", "canceling", "canceled"}
<1>1. ASSUME provider = Creem
      PROVE  /\ Tellable(p) \subseteq
                   {"checkout.completed", "subscription.active", "subscription.paid",
                    "subscription.update", "subscription.past_due",
                    "subscription.scheduled_cancel", "subscription.canceled",
                    "subscription.expired"}
             /\ "subscription.paid" \in Tellable(p) => p.status = "active"
             /\ "subscription.scheduled_cancel" \in Tellable(p) => p.status = "scheduled"
  BY <1>1 DEF Tellable, PayPal, Creem, Waffo
<1>2. ASSUME provider = PayPal
      PROVE  /\ Tellable(p) \subseteq
                   {"CREATED", "ACTIVATED", "UPDATED", "CANCELLED", "EXPIRED",
                    "SALE.COMPLETED", "SALE.DENIED"}
             /\ "ACTIVATED" \in Tellable(p) => p.status = "active"
  BY <1>2 DEF Tellable, PayPal, Creem, Waffo
<1>3. ASSUME provider = Waffo
      PROVE  Tellable(p) \subseteq
                {"activated", "renewed", "recovered", "past_due", "canceling", "canceled"}
  BY <1>3 DEF Tellable, PayPal, Creem, Waffo
<1> QED BY <1>1, <1>2, <1>3

\* What the status and the cycle of a record become.
LEMMA MappedRecord ==
  ASSUME NEW p, Kept(p)
  PROVE  /\ mapSubscriptionStatus(p) \in Statuses
         /\ CycleOf(p) \in {0} \cup Cycles /\ p.cycle \in {0} \cup Cycles
         /\ mapSubscriptionStatus(p) = "active" =>
              p.cycle \in p.paid /\ CycleOf(p) \in p.paid
<1>1. p.status \in {"none", "pending", "active", "scheduled", "past_due",
                   "cancelled", "expired"}
  BY DEF Kept, Plan
<1>2. /\ mapSubscriptionStatus(p) \in Statuses
      /\ mapSubscriptionStatus(p) = "active" => p.status \in {"active", "scheduled"}
  BY <1>1 DEF mapSubscriptionStatus, Statuses
<1>3. CycleOf(p) = IF provider # PayPal THEN p.cycle
                   ELSE IF p.paid = {} THEN 0 ELSE LastOf(p.paid)
  BY DEF CycleOf, LastOf
<1>4. p.paid \subseteq Cycles /\ p.cycle \in {0} \cup Cycles
  BY DEF Kept, Plan
<1> QED BY <1>2, <1>3, <1>4, LastIsPaid DEF Kept

LEMMA OtherSound ==
  ASSUME NEW type \in {"payment.failed", "subscription.cancelled", "subscription.expired"},
         NEW status \in Statuses \cup {"absent"},
         NEW atEnd \in {"yes", "no", "absent"}, NEW cycle \in {0} \cup Cycles
  PROVE  Sound(Normalized(type, status, atEnd, cycle))
<1>1. type \in Types
  BY DEF Types
<1>2. /\ Normalized(type, status, atEnd, cycle) \in Notice
      /\ Normalized(type, status, atEnd, cycle).type = type
  BY <1>1, NormalizedType
<1> QED BY <1>2 DEF Sound

LEMMA CreemSound ==
  ASSUME PlanInv, provider = Creem, NEW event, Telling(event)
  PROVE  Sound(normalizeCreemWebhook(event.name, event.object))
<1> DEFINE object == event.object
           x == normalizeCreemWebhook(event.name, object)
<1>1. Kept(object) /\ object.paid \subseteq plan.paid /\ event.name \in Tellable(object)
  BY DEF Telling
<1>2. /\ mapSubscriptionStatus(object) \in Statuses
      /\ object.cycle \in {0} \cup Cycles
      /\ mapSubscriptionStatus(object) = "active" => object.cycle \in plan.paid
  BY <1>1, MappedRecord
<1>3. /\ event.name = "subscription.paid" => object.cycle \in plan.paid
      /\ event.name = "subscription.scheduled_cancel" => object.cycle \in plan.paid
  BY <1>1, Names DEF Kept
<1>4. \A b : Flag(b) \in {"yes", "no", "absent"}
  BY DEF Flag
<1>5. /\ {"subscription.created", "subscription.renewed", "payment.failed",
          "subscription.updated", "subscription.cancelled", "subscription.expired"}
            \subseteq Types
      /\ {"pending", "active"} \subseteq Statuses
  BY DEF Types, Statuses
<1>6. event.name \in {"checkout.completed", "subscription.active", "subscription.paid",
         "subscription.update", "subscription.past_due", "subscription.scheduled_cancel",
         "subscription.canceled", "subscription.expired"}
  BY <1>1, Names
<1>7. CASE event.name = "checkout.completed"
  BY <1>5, <1>7, NormalizedType DEF normalizeCreemWebhook, Sound
<1>8. CASE event.name = "subscription.active"
  BY <1>2, <1>5, <1>8, NormalizedType DEF normalizeCreemWebhook, Sound
<1>9. CASE event.name = "subscription.paid"
  BY <1>2, <1>3, <1>4, <1>5, <1>9, NormalizedType DEF normalizeCreemWebhook, Sound
<1>10. CASE event.name = "subscription.past_due"
  BY <1>5, <1>10, NormalizedType DEF normalizeCreemWebhook, Sound
<1>11. CASE event.name = "subscription.scheduled_cancel"
  BY <1>2, <1>3, <1>5, <1>11, NormalizedType DEF normalizeCreemWebhook, Sound
<1>12. CASE event.name = "subscription.update"
  <2>1. mapSubscriptionStatus(object) # "absent"
    BY <1>2 DEF Statuses
  <2> QED BY <1>2, <1>4, <1>5, <1>12, <2>1, NormalizedType
          DEF normalizeCreemWebhook, Sound
<1>13. CASE event.name = "subscription.canceled"
  <2>1. x = Normalized("subscription.cancelled", "absent", "no", object.cycle)
    BY <1>13 DEF normalizeCreemWebhook
  <2> QED BY <1>2, <2>1, OtherSound
<1>14. CASE event.name = "subscription.expired"
  BY <1>2, <1>5, <1>14, NormalizedType DEF normalizeCreemWebhook, Sound
<1> QED BY <1>6, <1>7, <1>8, <1>9, <1>10, <1>11, <1>12, <1>13, <1>14

LEMMA WaffoSound ==
  ASSUME PlanInv, provider = Waffo, NEW event, Telling(event)
  PROVE  Sound(normalizeWaffoPancakeWebhook(event.name, event.object))
<1> DEFINE object == event.object
           status == mapSubscriptionStatus(object)
<1>1. Kept(object) /\ object.paid \subseteq plan.paid /\ event.name \in Tellable(object)
  BY DEF Telling
<1>2. /\ status \in Statuses /\ status # "absent"
      /\ object.cycle \in {0} \cup Cycles
      /\ status = "active" => object.cycle \in plan.paid
  BY <1>1, MappedRecord DEF Statuses
<1>3. \A b : Flag(b) \in {"yes", "no", "absent"}
  BY DEF Flag
<1>4. /\ {"subscription.activated", "subscription.renewed", "subscription.updated",
          "subscription.cancelled"} \subseteq Types
      /\ "cancelled" \in Statuses
  BY DEF Types, Statuses
<1>5. event.name \in {"activated", "renewed", "recovered", "past_due",
                     "canceling", "canceled"}
  BY <1>1, Names
<1> HIDE DEF status
<1>6. CASE event.name = "activated"
  BY <1>2, <1>4, <1>6, NormalizedType DEF normalizeWaffoPancakeWebhook, Sound, status
<1>7. CASE event.name = "renewed"
  BY <1>2, <1>4, <1>7, NormalizedType DEF normalizeWaffoPancakeWebhook, Sound, status
<1>8. CASE event.name \in {"recovered", "past_due", "canceling"}
  BY <1>2, <1>3, <1>4, <1>8, NormalizedType DEF normalizeWaffoPancakeWebhook, Sound, status
<1>9. CASE event.name = "canceled"
  BY <1>2, <1>4, <1>9, NormalizedType DEF normalizeWaffoPancakeWebhook, Sound
<1> QED BY <1>5, <1>6, <1>7, <1>8, <1>9

LEMMA PayPalSound ==
  ASSUME PlanInv, provider = PayPal, NEW event, Telling(event),
         NEW now \in {event.object, plan}
  PROVE  Sound(normalizePayPalWebhook(event.name, event.object, now))
<1> DEFINE object == event.object
           x == normalizePayPalWebhook(event.name, object, now)
<1>1. /\ Kept(object) /\ object.paid \subseteq plan.paid /\ event.name \in Tellable(object)
      /\ Kept(now) /\ now.paid \subseteq plan.paid
  BY DEF Telling, PlanInv
<1>2. \A p \in {object, now} :
        /\ mapSubscriptionStatus(p) \in Statuses /\ mapSubscriptionStatus(p) # "absent"
        /\ CycleOf(p) \in {0} \cup Cycles
        /\ mapSubscriptionStatus(p) = "active" => CycleOf(p) \in plan.paid
  BY <1>1, MappedRecord DEF Statuses
<1>3. event.name = "ACTIVATED" => CycleOf(object) \in plan.paid
  <2>1. event.name = "ACTIVATED" => object.status = "active"
    BY <1>1, Names
  <2>2. object.status = "active" => mapSubscriptionStatus(object) = "active"
    BY DEF mapSubscriptionStatus
  <2> QED BY <1>2, <2>1, <2>2
<1>4. /\ {"subscription.created", "subscription.activated", "subscription.renewed",
          "subscription.updated", "subscription.cancelled", "subscription.expired",
          "payment.failed"} \subseteq Types
      /\ {"pending", "active", "cancelled", "expired"} \subseteq Statuses
  BY DEF Types, Statuses
<1>5. event.name \in {"CREATED", "ACTIVATED", "UPDATED", "CANCELLED", "EXPIRED",
                     "SALE.COMPLETED", "SALE.DENIED"}
  BY <1>1, Names
<1>6. CASE event.name = "CREATED"
  BY <1>4, <1>6, NormalizedType DEF normalizePayPalWebhook, Sound
<1>7. CASE event.name = "ACTIVATED"
  BY <1>2, <1>3, <1>4, <1>7, NormalizedType DEF normalizePayPalWebhook, Sound
<1>8. CASE event.name = "UPDATED"
  BY <1>2, <1>4, <1>8, NormalizedType DEF normalizePayPalWebhook, Sound
<1>9. CASE event.name = "CANCELLED" \/ event.name = "EXPIRED"
  BY <1>4, <1>9, NormalizedType DEF normalizePayPalWebhook, Sound
<1>10. CASE event.name = "SALE.COMPLETED"
  BY <1>2, <1>4, <1>10, NormalizedType DEF normalizePayPalWebhook, Sound
<1>11. CASE event.name = "SALE.DENIED"
  <2>1. x = Normalized("payment.failed", "absent", "absent", 0)
    BY <1>11 DEF normalizePayPalWebhook
  <2> QED BY <2>1, OtherSound
<1> QED BY <1>5, <1>6, <1>7, <1>8, <1>9, <1>10, <1>11

LEMMA NormalSound ==
  ASSUME PlanInv, NEW event, Telling(event), NEW now \in Answers(event)
  PROVE  Sound(normalizeWebhook(event, now))
<1>1. provider \in {Creem, PayPal, Waffo} /\ now \in {event.object, plan}
  BY DEF PlanInv, Answers
<1> QED BY <1>1, CreemSound, WaffoSound, PayPalSound
        DEF normalizeWebhook, Creem, PayPal, Waffo

\* A provider that states the cycle says the same whatever its API answers,
\* and what tells of a payment says so, of the cycle that was paid.
LEMMA StatedNotice ==
  ASSUME PlanInv, provider # PayPal, NEW event, Telling(event), NEW now, event # NotTold
  PROVE  /\ normalizeWebhook(event, now) = normalizeWebhook(event, event.object)
         /\ TellsOfPayment(event) /\ event.object.status = "active" =>
              LET x == normalizeWebhook(event, now) IN
              /\ x.type \in {"subscription.activated", "subscription.renewed"}
              /\ x.status = "active" /\ x.start = event.object.cycle
              /\ event.object.cycle \in Cycles
<1> DEFINE object == event.object
<1>1. Kept(object) /\ event.name \in Tellable(object)
  BY DEF Telling
<1>2. object.status = "active" => object.cycle \in Cycles
  BY <1>1 DEF Kept, Plan
<1>3. mapSubscriptionStatus(object) = "active" <=> object.status \in {"active", "scheduled"}
  BY DEF mapSubscriptionStatus
<1>4. CASE provider = Creem
  <2>1. normalizeWebhook(event, now) = normalizeCreemWebhook(event.name, object)
    BY <1>4 DEF normalizeWebhook, Creem, PayPal, Waffo
  <2>2. normalizeWebhook(event, object) = normalizeCreemWebhook(event.name, object)
    BY <1>4 DEF normalizeWebhook, Creem, PayPal, Waffo
  <2>3. TellsOfPayment(event) => event.name = "subscription.paid"
    BY <1>1, <1>4, Names DEF TellsOfPayment
  <2>4. event.name = "subscription.paid" =>
          normalizeCreemWebhook(event.name, object) =
            Normalized("subscription.renewed", "active",
                       Flag(object.status = "scheduled"), object.cycle)
    BY DEF normalizeCreemWebhook
  <2> QED BY <1>2, <2>1, <2>2, <2>3, <2>4 DEF Normalized
<1>5. CASE provider = Waffo
  <2>1. normalizeWebhook(event, now) = normalizeWaffoPancakeWebhook(event.name, object)
    BY <1>5 DEF normalizeWebhook, Creem, PayPal, Waffo
  <2>2. normalizeWebhook(event, object) = normalizeWaffoPancakeWebhook(event.name, object)
    BY <1>5 DEF normalizeWebhook, Creem, PayPal, Waffo
  <2>3. TellsOfPayment(event) => event.name \in {"activated", "renewed"}
    BY <1>1, <1>5, Names DEF TellsOfPayment
  <2>4. /\ event.name = "activated" =>
             normalizeWaffoPancakeWebhook(event.name, object) =
               Normalized("subscription.activated", mapSubscriptionStatus(object),
                          "no", object.cycle)
        /\ event.name = "renewed" =>
             normalizeWaffoPancakeWebhook(event.name, object) =
               Normalized("subscription.renewed", mapSubscriptionStatus(object),
                          "no", object.cycle)
    BY DEF normalizeWaffoPancakeWebhook
  <2> QED BY <1>2, <1>3, <2>1, <2>2, <2>3, <2>4 DEF Normalized
<1> QED BY <1>4, <1>5 DEF PlanInv

\* What a notice x of the event e has to be: sound, and what the adapter
\* makes of e if the provider states the cycle.
Genuine(e, x) ==
  /\ Sound(x)
  /\ provider # PayPal =>
       told[e] # NotTold /\ x = normalizeWebhook(told[e], told[e].object)

NoticesInv ==
  /\ \A w \in Workers : work[w].at \in {"apply", "write"} =>
       Genuine(work[w].event, work[w].body)
  /\ \A e \in Events : inbox[e] # "none" => Genuine(e, notice[e])

CycleInv ==
  /\ SubscriptionInv /\ PlanInv /\ NoticesInv
  /\ AccessFollowsPayment /\ StatedCycleDelivers

LEMMA AdapterStays ==
  ASSUME UNCHANGED provider, NEW event, NEW now
  PROVE  normalizeWebhook(event, now)' = normalizeWebhook(event, now)
BY DEF normalizeWebhook, normalizeCreemWebhook, normalizePayPalWebhook,
       normalizeWaffoPancakeWebhook, CycleOf

\* The provider's record and what it has told only grow.
LEMMA GenuineStays ==
  ASSUME UNCHANGED provider, plan.paid \subseteq plan'.paid,
         NEW e, told[e] # NotTold => told'[e] = told[e],
         NEW x, Genuine(e, x)
  PROVE  Genuine(e, x)'
<1>1. Sound(x)'
  BY DEF Genuine, Sound
<1>2. CASE provider # PayPal
  <2>1. PICK event : event = told[e] /\ event = told'[e]
    BY <1>2 DEF Genuine
  <2>2. normalizeWebhook(event, event.object)' = normalizeWebhook(event, event.object)
    BY AdapterStays
  <2> QED BY <1>1, <2>1, <2>2 DEF Genuine
<1> QED BY <1>1, <1>2 DEF Genuine

LEMMA TellingStays ==
  ASSUME UNCHANGED provider, plan.paid \subseteq plan'.paid, NEW event, Telling(event)
  PROVE  Telling(event)'
<1>1. (Tellable(event.object))' = Tellable(event.object)
  BY DEF Tellable
<1>2. Kept(event.object)' <=> Kept(event.object)
  BY DEF Kept
<1> QED BY <1>1, <1>2 DEF Telling

\* What the provider does to the subscription.
Living == Subscribe \/ Charge \/ Decline \/ Collect \/ Schedule \/ Finish

LEMMA LivingKeeps ==
  ASSUME PlanInv, Living
  PROVE  /\ Kept(plan)' /\ plan.paid \subseteq plan'.paid
         /\ UNCHANGED <<vars, provider, told>>
<1>0. /\ plan \in Plan /\ Kept(plan) /\ MaxCycle \in Nat
      /\ plan.paid \subseteq Cycles /\ plan.cycle \in {0} \cup Cycles
  BY ProviderAssumption DEF PlanInv, Kept, Plan
<1>1. UNCHANGED <<vars, provider, told>>
  BY DEF Living, Subscribe, Charge, Decline, Collect, Schedule, Finish, Becomes
<1>2. CASE Subscribe
  <2>1. plan' = [plan EXCEPT !.status = "pending"]
    BY <1>2 DEF Subscribe, Becomes
  <2> QED BY <1>0, <1>1, <2>1 DEF Kept, Plan
<1>3. CASE Charge
  <2> DEFINE c == plan.cycle + 1
             S == plan.paid \cup {c}
  <2>1. plan' = [status |-> "active", cycle |-> c, paid |-> S]
    BY <1>3 DEF Charge, Becomes
  <2>2. c \in Cycles /\ S \subseteq Cycles /\ S \subseteq 1 .. c
    BY <1>0, <1>3 DEF Charge, Cycles, Kept
  <2>3. \A n \in S : n <= c
    BY <2>2
  <2> HIDE DEF c
  <2> QED BY <1>0, <1>1, <2>1, <2>2, <2>3 DEF Kept, Plan
<1>4. CASE Decline
  <2>1. plan' = [plan EXCEPT !.status = "past_due", !.cycle = plan.cycle + 1]
    BY <1>4 DEF Decline, Becomes
  <2>2. plan.cycle + 1 \in Cycles /\ plan.paid \subseteq 1 .. plan.cycle + 1
    BY <1>0, <1>4 DEF Decline, Cycles, Kept
  <2> QED BY <1>0, <1>1, <2>1, <2>2 DEF Kept, Plan
<1>5. CASE Collect
  <2> DEFINE S == plan.paid \cup {plan.cycle}
  <2>1. plan' = [plan EXCEPT !.status = "active", !.paid = S]
    BY <1>5 DEF Collect, Becomes
  <2>2. plan.cycle \in Cycles /\ S \subseteq Cycles /\ S \subseteq 1 .. plan.cycle
    BY <1>0, <1>5 DEF Collect, Cycles, Kept
  <2>3. \A n \in S : n <= plan.cycle
    BY <2>2 DEF Cycles
  <2> QED BY <1>0, <1>1, <2>1, <2>2, <2>3 DEF Kept, Plan
<1>6. CASE Schedule
  <2>1. plan' = [plan EXCEPT !.status = "scheduled"]
    BY <1>6 DEF Schedule, Becomes
  <2> QED BY <1>0, <1>1, <1>6, <2>1 DEF Kept, Plan, Schedule
<1>7. CASE Finish
  <2>1. PICK s \in {"cancelled", "expired"} : plan' = [plan EXCEPT !.status = s]
    BY <1>7 DEF Finish, Becomes
  <2> QED BY <1>0, <1>1, <2>1 DEF Kept, Plan
<1> QED BY <1>2, <1>3, <1>4, <1>5, <1>6, <1>7 DEF Living

LEMMA PlanStep ==
  ASSUME PlanInv, Living \/ (\E e \in Events, name \in Tellable(plan) : Tell(e, name))
                         \/ UNCHANGED external
  PROVE  /\ PlanInv' /\ UNCHANGED provider /\ plan.paid \subseteq plan'.paid
         /\ \A e \in Events : told[e] # NotTold => told'[e] = told[e]
<1>1. ASSUME UNCHANGED provider, plan.paid \subseteq plan'.paid
      PROVE  \A event : Telling(event) => Telling(event)'
  BY <1>1, TellingStays
<1>2. CASE Living
  BY <1>1, <1>2, LivingKeeps DEF PlanInv
<1>3. CASE UNCHANGED external
  <2>1. Kept(plan)'
    BY <1>3 DEF external, PlanInv, Kept
  <2> QED BY <1>1, <1>3, <2>1 DEF external, PlanInv
<1>4. ASSUME NEW e \in Events, NEW name \in Tellable(plan), Tell(e, name)
      PROVE  /\ PlanInv' /\ UNCHANGED <<provider, plan>>
             /\ \A f \in Events : told[f] # NotTold => told'[f] = told[f]
  <2>1. /\ UNCHANGED <<provider, plan>> /\ told[e] = NotTold
        /\ told' = [told EXCEPT ![e] = [name |-> name, object |-> plan]]
    BY <1>4 DEF Tell
  <2>2. Telling([name |-> name, object |-> plan])
    <3>1. name \in EventNames
      BY <1>4, Names DEF PlanInv, EventNames
    <3> QED BY <1>4, <3>1 DEF Telling, PlanInv, Kept
  <2>3. Kept(plan)'
    BY <2>1 DEF PlanInv, Kept
  <2>4. told' \in [Events -> {NotTold} \cup [name : EventNames, object : Plan]]
    BY <2>1, <2>2 DEF PlanInv, Telling
  <2>5. ASSUME NEW f \in Events, told'[f] # NotTold PROVE Telling(told[f])'
    <3>1. PICK event : event = told'[f]
      OBVIOUS
    <3>2. Telling(event)
      BY <2>1, <2>2, <2>5, <3>1 DEF PlanInv
    <3>3. Telling(event)'
      BY <2>1, <3>2, TellingStays
    <3> QED BY <3>1, <3>3 DEF Telling
  <2> QED BY <2>1, <2>3, <2>4, <2>5 DEF PlanInv
<1> QED BY <1>2, <1>3, <1>4, LivingKeeps DEF external

\* A notice that opens access does so for the cycle it states, and no other.
LEMMA OpensStated ==
  ASSUME TypeOK, PlanInv, NEW e \in Events, NEW x, Sound(x), NEW seen \in Row,
         grantsAccess(x, seen)
  PROVE  /\ x.start \in plan.paid /\ x.start \in Cycles
         /\ grantPeriodKey(e, x, seen) = x.start
<1>1. x.status = "active"
  BY DEF Sound, grantsAccess, inferredStatus, Stated
<1>2. x.start \in plan.paid
  BY <1>1 DEF Sound, grantsAccess
<1>3. x.start \in Cycles /\ x.start # NoTime
  BY <1>2 DEF PlanInv, Kept, Plan, Cycles, NoTime
<1> QED BY <1>2, <1>3 DEF grantPeriodKey, Start, Or

LEMMA AppliedFollows ==
  ASSUME TypeOK, PlanInv, AccessFollowsPayment, NEW e \in Events, NEW x, Sound(x),
         NEW seen \in Row, Apply(e, x, seen), UNCHANGED plan
  PROVE  AccessFollowsPayment'
<1> SUFFICES ASSUME NEW n \in Cycles, n \notin plan.paid
             PROVE  grants'[n].status = "none" /\ buckets'[n].status = "none"
  BY DEF AccessFollowsPayment
<1>0. /\ grants[n].status = "none" /\ buckets[n].status = "none"
      /\ n \in Keys
  BY ProviderAssumption DEF AccessFollowsPayment, Keys, Times, Cycles
<1>1. /\ \A s : EndEntitlements(s)[n] = grants[n]
      /\ Drained => buckets'[n] = buckets[n]
  BY <1>0 DEF EndEntitlements, Drained
<1>2. CASE grantsAccess(x, seen)
  <2>1. grantPeriodKey(e, x, seen) # n
    BY <1>2, OpensStated
  <2>2. /\ \/ grants' = grants \/ (\E s : grants' = EndEntitlements(s))
           \/ \E g : grants' = [grants EXCEPT ![grantPeriodKey(e, x, seen)] = g]
        /\ \/ Drained
           \/ \E b : buckets' = [buckets EXCEPT ![grantPeriodKey(e, x, seen)] = b]
    BY <1>2, AppliedBuckets DEF Apply, EndsNow, grantsAccess
  <2> QED BY <1>0, <1>1, <2>1, <2>2, TypeParts DEF ContractTypes
<1>3. CASE ~grantsAccess(x, seen)
  <2>1. /\ grants' = grants \/ (\E s : grants' = EndEntitlements(s))
        /\ Drained
    BY <1>3, AppliedBuckets DEF Apply, EndsNow, grantsCredits
  <2> QED BY <1>0, <1>1, <2>1
<1> QED BY <1>2, <1>3

LEMMA AppliedDelivers ==
  ASSUME TypeOK, PlanInv, NoticesInv, PaidCycleDelivers, provider # PayPal,
         NEW e \in Events, NEW x, Genuine(e, x), NEW seen \in Row,
         ~Refused(e, x, seen), Apply(e, x, seen),
         inbox' = [inbox EXCEPT ![e] = "processed"], UNCHANGED external
  PROVE  PaidCycleDelivers'
<1> SUFFICES ASSUME NEW f \in Events,
                    TellsOfPayment(told[f]), told[f].object.status = "active",
                    inbox'[f] = "processed", f \notin bare'
             PROVE  buckets'[told[f].object.cycle].status # "none"
  BY DEF PaidCycleDelivers, Processed, external, TellsOfPayment
<1> DEFINE n == told[f].object.cycle
<1>0. /\ told[f] # NotTold /\ Telling(told[f]) /\ x \in Notice
      /\ \A m \in Cycles : m \in Keys
  BY ProviderAssumption
     DEF TellsOfPayment, PlanInv, Genuine, Sound, Keys, Times, Cycles
<1>1. CASE f # e
  <2>1. inbox[f] = "processed" /\ f \notin bare
    BY <1>1, TypeParts DEF InboxTypes, Apply
  <2>2. buckets[n].status # "none"
    BY <2>1 DEF PaidCycleDelivers, Processed
  <2>3. n \in Cycles
    BY <1>0, StatedNotice
  <2> QED BY <1>0, <2>2, <2>3, CreditsStay
<1>2. CASE f = e
  <2>1. x = normalizeWebhook(told[e], told[e].object)
    BY DEF Genuine
  <2>2. /\ x.type \in {"subscription.activated", "subscription.renewed"}
        /\ x.status = "active" /\ x.start = n
    BY <1>0, <1>2, <2>1, StatedNotice
  <2>3. grantsAccess(x, seen) /\ grantsCredits(x, seen)
    BY <2>2 DEF grantsAccess, grantsCredits, inferredStatus, Stated
  <2>4. Subscription(x, seen).items
    BY <1>2 DEF Apply
  <2>5. grantPeriodKey(e, x, seen) = n
    BY <2>2, <2>3, OpensStated DEF Genuine
  <2> QED BY <1>0, <2>3, <2>4, <2>5, AppliedCredits
<1> QED BY <1>1, <1>2

LEMMA NoticesAfter ==
  ASSUME \A e \in Events : \A x : Genuine(e, x) => Genuine(e, x)',
         \A v \in Workers : work'[v].at \in {"apply", "write"} =>
           \E e \in Events : \E x : /\ Genuine(e, x)
                                    /\ work'[v].event = e /\ work'[v].body = x,
         \A e \in Events : inbox'[e] # "none" =>
           \E x : Genuine(e, x) /\ notice'[e] = x
  PROVE  NoticesInv'
<1>1. ASSUME NEW v \in Workers, work'[v].at \in {"apply", "write"}
      PROVE  Genuine(work[v].event, work[v].body)'
  <2>0. PICK e \in Events : \E x : /\ Genuine(e, x)
                                 /\ work'[v].event = e /\ work'[v].body = x
    BY <1>1
  <2>1. PICK x : /\ Genuine(e, x)
                 /\ work'[v].event = e /\ work'[v].body = x
    BY <2>0
  <2>2. Genuine(e, x)'
    BY <2>1
  <2> QED BY <2>1, <2>2 DEF Genuine
<1>2. ASSUME NEW e \in Events, inbox'[e] # "none"
      PROVE  Genuine(e, notice[e])'
  <2>1. PICK x : Genuine(e, x) /\ notice'[e] = x
    BY <1>2
  <2>2. Genuine(e, x)'
    BY <2>1
  <2> QED BY <2>1, <2>2 DEF Genuine
<1> QED BY <1>1, <1>2 DEF NoticesInv

\* What a request that goes on works with comes from what was delivered.
LEMMA HandlingNotices ==
  ASSUME TypeOK, Working, NoticesInv, NEW w \in Workers, Handling(w)
  PROVE  /\ \A v \in Workers : work'[v].at \in {"apply", "write"} =>
              \E e \in Events : \E x : /\ Genuine(e, x)
                                       /\ work'[v].event = e /\ work'[v].body = x
         /\ \A e \in Events : inbox'[e] # "none" =>
              \E x : Genuine(e, x) /\ notice'[e] = x
<1>1. ASSUME NEW v \in Workers, work[v].at \in {"apply", "write"}
      PROVE  \E e \in Events : \E x : /\ Genuine(e, x)
                                      /\ work[v].event = e /\ work[v].body = x
  BY <1>1, AtHand DEF NoticesInv, Applying, Writing
<1>2. ASSUME NEW v \in Workers \ {w} PROVE work'[v] = work[v]
  BY <1>2, TypeParts DEF Handling, Begin, Read, Commit, Reject, Abort, MarkFailed, Crash,
                   RolledBack, WorkTypes
<1>3. ASSUME work'[w].at \in {"apply", "write"}
      PROVE  \E e \in Events : \E x : /\ Genuine(e, x)
                                      /\ work'[w].event = e /\ work'[w].body = x
  <2>1. Begin(w)
    <3>1. \A a : a \in {Idle, [at |-> "rolled back", event |-> work[w].event]} =>
            ~(work' = [work EXCEPT ![w] = a])
      <4>1. Idle.at = "idle"
        BY DEF Idle
      <4>2. \A e : [at |-> "rolled back", event |-> e].at = "rolled back"
        OBVIOUS
      <4> QED BY <1>3, <4>1, <4>2, TypeParts DEF WorkTypes
    <3> QED BY <3>1 DEF Handling, Commit, Reject, Abort, MarkFailed, Crash, RolledBack
  <2>2. PICK e \in Events :
           /\ work[w] \in Applying /\ work[w].event = e /\ inbox[e] # "none"
           /\ \/ inbox[e] = "processed" /\ work' = [work EXCEPT ![w] = Idle]
              \/ /\ inbox[e] # "processed"
                 /\ work' = [work EXCEPT ![w] = [at |-> "write", event |-> e,
                                                seen |-> sub, body |-> BodyOf(w, e)]]
    BY <2>1, BeginReads
  <2>3. PICK x : x = BodyOf(w, e)
    OBVIOUS
  <2>4. work'[w].event = e /\ work'[w].body = x
    <3>1. Idle.at = "idle"
      BY DEF Idle
    <3> QED BY <1>3, <2>2, <2>3, <3>1, TypeParts DEF WorkTypes
  <2>5. Genuine(e, x)
    BY <2>2, <2>3 DEF BodyOf, NoticesInv, Applying
  <2> QED BY <2>4, <2>5
<1>4. ASSUME NEW e \in Events, inbox'[e] # "none"
      PROVE  \E x : Genuine(e, x) /\ notice'[e] = x
  <2>1. CASE Commit(w)
    <3>1. PICK f \in Events, x \in Notice, seen \in Row :
           /\ work[w] = [at |-> "write", event |-> f, body |-> x, seen |-> seen]
           /\ inbox' = [inbox EXCEPT ![f] = "processed"]
           /\ notice' = [notice EXCEPT ![f] = x]
      BY <2>1, CommitIsApplied
    <3>2. Genuine(f, x)
      BY <3>1 DEF NoticesInv
    <3> QED BY <1>4, <3>1, <3>2, TypeParts DEF InboxTypes, NoticesInv
  <2>2. CASE MarkFailed(w)
    <3>1. work[w].event \in Events /\ inbox[work[w].event] # "none"
      BY <2>2, AtHand DEF MarkFailed, Working
    <3>2. UNCHANGED notice /\ inbox[e] # "none"
      BY <1>4, <2>2, <3>1, TypeParts DEF MarkFailed, InboxTypes
    <3> QED BY <3>2 DEF NoticesInv
  <2>3. CASE Begin(w) \/ Reject(w) \/ Abort(w) \/ Crash(w)
    BY <1>4, <2>3 DEF Begin, Reject, Abort, Crash, delivery, NoticesInv
  <2> QED BY <2>1, <2>2, <2>3 DEF Handling
<1>5. ASSUME NEW v \in Workers, work'[v].at \in {"apply", "write"}
      PROVE  \E e \in Events : \E x : /\ Genuine(e, x)
                                      /\ work'[v].event = e /\ work'[v].body = x
  BY <1>1, <1>2, <1>3, <1>5
<1> QED BY <1>4, <1>5

LEMMA CycleHandling ==
  ASSUME CycleInv, NEW w \in Workers, Handling(w), UNCHANGED external
  PROVE  CycleInv'
<1>0. /\ TypeOK /\ Working /\ PlanInv /\ NoticesInv
      /\ AccessFollowsPayment /\ StatedCycleDelivers
  BY DEF CycleInv, SubscriptionInv
<1>1. SubscriptionInv'
  BY <1>0, HandlingTypes, WorkingStays DEF SubscriptionInv
<1>2. PlanInv'
  BY <1>0, PlanStep
<1>3. NoticesInv'
  <2>1. \A e \in Events : \A x : Genuine(e, x) => Genuine(e, x)'
    BY GenuineStays DEF external
  <2> QED BY <1>0, <2>1, HandlingNotices, NoticesAfter
<1>4. CASE Commit(w)
  <2>1. PICK e \in Events, x \in Notice, seen \in Row :
           /\ work[w] = [at |-> "write", event |-> e, body |-> x, seen |-> seen]
           /\ ~Refused(e, x, seen) /\ Apply(e, x, seen)
           /\ inbox' = [inbox EXCEPT ![e] = "processed"]
           /\ notice' = [notice EXCEPT ![e] = x]
    BY <1>0, <1>4, CommitIsApplied
  <2>2. Genuine(e, x)
    BY <1>0, <1>4, <2>1 DEF NoticesInv, Commit
  <2>4. AccessFollowsPayment'
    BY <1>0, <2>1, <2>2, AppliedFollows DEF Genuine, external
  <2>5. StatedCycleDelivers'
    BY <1>0, <2>1, <2>2, AppliedDelivers DEF StatedCycleDelivers, external
  <2> QED BY <1>1, <1>2, <1>3, <2>4, <2>5 DEF CycleInv
<1>5. CASE ~Commit(w)
  <2>1. UNCHANGED contract
    BY <1>5 DEF Handling, Begin, Reject, Abort, MarkFailed, Crash
  <2>2. \A e \in Events : inbox'[e] = "processed" => inbox[e] = "processed"
    BY <1>5, TypeParts, <1>0
       DEF Handling, Begin, Reject, Abort, MarkFailed, Crash, delivery, InboxTypes
  <2>3. AccessFollowsPayment' /\ StatedCycleDelivers'
    BY <1>0, <2>1, <2>2 DEF AccessFollowsPayment, StatedCycleDelivers, PaidCycleDelivers,
                            Processed, contract, external, TellsOfPayment
  <2> QED BY <1>1, <1>2, <1>3, <2>3 DEF CycleInv
<1> QED BY <1>4, <1>5

LEMMA CycleDelivering ==
  ASSUME CycleInv, NEW w \in Workers, NEW e \in Events, Deliver(w, e)
  PROVE  CycleInv'
<1>0. /\ TypeOK /\ Working /\ PlanInv /\ NoticesInv
      /\ AccessFollowsPayment /\ StatedCycleDelivers
  BY DEF CycleInv, SubscriptionInv
<1>1. /\ UNCHANGED external /\ told[e] # NotTold /\ Telling(told[e])
  BY <1>0 DEF Deliver, PlanInv
<1>2. PICK body : Receive(w, e, NoEvent, body) /\ Genuine(e, body)
  <2>1. PICK now \in Answers(told[e]) :
          Receive(w, e, NoEvent, normalizeWebhook(told[e], now))
    BY DEF Deliver
  <2>2. Sound(normalizeWebhook(told[e], now))
    BY <1>0, <1>1, NormalSound
  <2>3. Genuine(e, normalizeWebhook(told[e], now))
    BY <1>0, <1>1, <2>2, StatedNotice DEF Genuine
  <2> QED BY <2>1, <2>3
<1>3. body \in Notice
  BY <1>2 DEF Genuine, Sound
<1>4. SubscriptionInv'
  BY <1>0, <1>2, <1>3, ReceiveTypes, WorkingStays DEF SubscriptionInv
<1>5. PlanInv'
  BY <1>0, <1>1, PlanStep
<1>6. NoticesInv'
  <2>1. \A f \in Events : \A x : Genuine(f, x) => Genuine(f, x)'
    BY <1>1, GenuineStays DEF external
  <2>2. ASSUME NEW v \in Workers, work'[v].at \in {"apply", "write"}
        PROVE  \E f \in Events : \E x : /\ Genuine(f, x)
                                        /\ work'[v].event = f /\ work'[v].body = x
    <3>1. CASE v = w
      BY <1>0, <1>2, <3>1, TypeParts DEF Receive, WorkTypes
    <3>2. CASE v # w
      <4>1. work'[v] = work[v]
        BY <1>0, <1>2, <3>2, TypeParts DEF Receive, WorkTypes
      <4> QED BY <1>0, <2>2, <4>1, AtHand DEF NoticesInv, Applying, Writing
    <3> QED BY <3>1, <3>2
  <2>3. ASSUME NEW f \in Events, inbox'[f] # "none"
        PROVE  \E x : Genuine(f, x) /\ notice'[f] = x
    BY <1>0, <1>2, <2>3, TypeParts DEF Receive, delivery, InboxTypes, NoticesInv
  <2> QED BY <2>1, <2>2, <2>3, NoticesAfter
<1>7. AccessFollowsPayment' /\ StatedCycleDelivers'
  <2>1. UNCHANGED contract
    BY <1>2 DEF Receive
  <2>2. \A f \in Events : inbox'[f] = "processed" => inbox[f] = "processed"
    BY <1>0, <1>2, TypeParts DEF Receive, delivery, InboxTypes
  <2> QED BY <1>0, <1>1, <2>1, <2>2
          DEF AccessFollowsPayment, StatedCycleDelivers, PaidCycleDelivers,
              Processed, contract, external, TellsOfPayment
<1> QED BY <1>4, <1>5, <1>6, <1>7 DEF CycleInv

\* What the provider does of itself, and what it tells of it.
LEMMA CycleLiving ==
  ASSUME CycleInv, UNCHANGED vars,
         Living \/ (\E e \in Events, name \in Tellable(plan) : Tell(e, name))
                \/ UNCHANGED external
  PROVE  CycleInv'
<1>0. /\ TypeOK /\ Working /\ PlanInv /\ NoticesInv
      /\ AccessFollowsPayment /\ StatedCycleDelivers
  BY DEF CycleInv, SubscriptionInv
<1>1. SubscriptionInv'
  BY <1>0, SubscriptionInvStep DEF SubscriptionInv
<1>2. /\ PlanInv' /\ UNCHANGED provider /\ plan.paid \subseteq plan'.paid
      /\ \A e \in Events : told[e] # NotTold => told'[e] = told[e]
  BY <1>0, PlanStep
<1>3. UNCHANGED <<grants, buckets, bare, inbox, notice, work>>
  BY DEF vars, contract, delivery
<1>4. NoticesInv'
  <2>1. \A e \in Events : \A x : Genuine(e, x) => Genuine(e, x)'
    BY <1>2, GenuineStays
  <2>2. ASSUME NEW v \in Workers, work'[v].at \in {"apply", "write"}
        PROVE  \E e \in Events : \E x : /\ Genuine(e, x)
                                        /\ work'[v].event = e /\ work'[v].body = x
    BY <1>0, <1>3, <2>2, AtHand DEF NoticesInv, Applying, Writing
  <2>3. ASSUME NEW e \in Events, inbox'[e] # "none"
        PROVE  \E x : Genuine(e, x) /\ notice'[e] = x
    BY <1>0, <1>3, <2>3 DEF NoticesInv
  <2> QED BY <2>1, <2>2, <2>3, NoticesAfter
<1>5. AccessFollowsPayment'
  BY <1>0, <1>2, <1>3 DEF AccessFollowsPayment
<1>6. StatedCycleDelivers'
  <2>1. ASSUME provider # PayPal, NEW e \in Events, inbox[e] = "processed"
        PROVE  told'[e] = told[e]
    BY <1>0, <1>2, <2>1 DEF NoticesInv, Genuine
  <2> QED BY <1>0, <1>2, <1>3, <2>1
          DEF StatedCycleDelivers, PaidCycleDelivers, Processed, TellsOfPayment
<1> QED BY <1>1, <1>2, <1>4, <1>5, <1>6 DEF CycleInv

LEMMA CycleInvStep == CycleInv /\ [CycleNext]_cycleVars => CycleInv'
<1> SUFFICES ASSUME CycleInv, [CycleNext]_cycleVars PROVE CycleInv'
  OBVIOUS
<1>1. CASE Living
  BY <1>1, CycleLiving, LivingKeeps DEF CycleInv
<1>2. ASSUME NEW e \in Events, NEW name \in Tellable(plan), Tell(e, name)
      PROVE  CycleInv'
  BY <1>2, CycleLiving DEF Tell
<1>3. ASSUME NEW w \in Workers, NEW e \in Events, Deliver(w, e)
      PROVE  CycleInv'
  BY <1>3, CycleDelivering
<1>4. ASSUME NEW w \in Workers, Handling(w), UNCHANGED external
      PROVE  CycleInv'
  BY <1>4, CycleHandling
<1>5. CASE UNCHANGED cycleVars
  BY <1>5, CycleLiving DEF cycleVars
<1> QED BY <1>1, <1>2, <1>3, <1>4, <1>5 DEF CycleNext, Living, Handling

LEMMA CycleInvInit == CycleInit => CycleInv
<1> SUFFICES ASSUME CycleInit PROVE CycleInv
  OBVIOUS
<1>1. SubscriptionInv
  BY SubscriptionInvInit DEF CycleInit
<1>2. PlanInv
  BY ProviderAssumption DEF CycleInit, PlanInv, Kept, Plan
<1>3. NoticesInv
  BY DEF CycleInit, Init, NoticesInv, Idle
<1>4. AccessFollowsPayment /\ StatedCycleDelivers
  <2>1. \A n \in Cycles : n \in Keys
    BY ProviderAssumption DEF Keys, Times, Cycles
  <2>2. \A n \in Cycles : grants[n].status = "none" /\ buckets[n].status = "none"
    BY <2>1 DEF CycleInit, Init, NoGrant, NoBucket
  <2>3. \A e \in Events : inbox[e] = "none"
    BY DEF CycleInit, Init
  <2> QED BY <2>2, <2>3
          DEF AccessFollowsPayment, StatedCycleDelivers, PaidCycleDelivers, Processed
<1> QED BY <1>1, <1>2, <1>3, <1>4 DEF CycleInv

LEMMA CycleInvariant == CycleSpec => []CycleInv
  BY CycleInvInit, CycleInvStep, PTL DEF CycleSpec

(* No cycle has a feature or credits before the provider was paid for it,  *)
(* for whichever provider, any number of cycles, and whatever was lost,    *)
(* repeated or came late.                                                  *)
THEOREM AccessAlwaysFollowsPayment == CycleSpec => []AccessFollowsPayment
<1>1. CycleInv => AccessFollowsPayment
  BY DEF CycleInv
<1> QED BY <1>1, CycleInvariant, PTL

\* The execution TLC explores is one of a component at a time.

-------------------------------------------------------------------------------
(* The cancellation of a subscription, by its customer and by operators.   *)

CancelResults == {[status |-> a.status, atEnd |-> a.atEnd] : a \in CancelAnswers}
Attempts == Cancelling!Attempts
NoRequest == Cancelling!None
Cancellers == Owners \cup {"operator"}

Requesting ==
  [at : {"asked", "allowed", "eligible", "ineligible", "call", "answered",
         "rejected", "outcome_uncertain", "reconcile", "settle", "stuck",
         "ok", "refused"},
   by : Sessions \cup {"operator"}, paged : BOOLEAN, attempt : Attempts,
   result : CancelResults \cup {NoEvent}]

\* A request that has the provider's answer to wait for or to record, and one
\* that settles an answer that was recorded.
Calling == {"call", "answered", "rejected", "outcome_uncertain"}
Recorded == {"provider_succeeded", "needs_reconciliation", "completed"}

\* An attempt is made only when every one before it was rejected.
Turn(n) ==
  \A m \in Attempts : m < n =>
    operation[m].status = "failed" /\ operation[m].failure = "rejected"

\* What a request q knows of the rows of its attempt.
Informed(q) ==
  /\ q = NoRequest \/ q \in Requesting
  /\ q.at \in Calling => operation[q.attempt].status = "pending_provider"
  /\ q.at \in {"settle", "stuck"} => operation[q.attempt].status \in Recorded
  /\ q.at = "answered" => q.result \in CancelResults
  /\ q.at # "none" => Turn(q.attempt)
  /\ q.at = "ok" => audit # {}
  /\ q.at \notin {"none", "asked", "refused"} => q.by \in Cancellers

\* What the row of an attempt says.
Filed(n) ==
  /\ operation[n].status \in Recorded => operation[n].result \in CancelResults
  /\ operation[n].status # "none" => Turn(n)
  /\ operation[n].status = "completed" =>
       /\ \E a \in audit : a.attempt = n
       /\ operation[n].result.status = "cancelled" => ~subject.access

\* The provider may have cancelled in attempt n, and cannot be asked again.
Answering(n) ==
  /\ operation[n].status # "none" /\ operation[n].failure # "rejected"
  /\ \A r \in Workers : request[r].at \in {"call", "rejected"} => request[r].attempt # n

Alone ==
  \A r, s \in Workers :
    r # s /\ request[r].at \in Calling /\ request[s].at \in Calling
    => request[r].attempt # request[s].attempt

CancelInv ==
  /\ Cancelling!TypeOK
  /\ \A r \in Workers : Informed(request[r])
  /\ \A n \in Attempts : Filed(n)
  /\ Alone
  /\ \A s \in Sessions : session[s].page = "done" => audit # {}
  /\ \A a \in audit : a.by \in Cancellers
  /\ executed = 0 \/ (executed = 1 /\ \E n \in Attempts : Answering(n))

LEMMA NoRequestAt == NoRequest.at = "none"
  BY DEF NoRequest, Cancelling!None

LEMMA CancelFacts ==
  /\ "operator" \notin Sessions /\ Owners \subseteq Sessions
  /\ MaxAttempts \in Nat \ {0} /\ Attempts = 1 .. MaxAttempts
  /\ \A r \in CancelResults :
       /\ r.status \in {"active", "cancelled"} /\ r.atEnd \in BOOLEAN
       /\ r.status = "cancelled" => ~r.atEnd
  /\ NoEvent \notin CancelResults
  BY CancellingAssumption
     DEF Cancelling!CancellationAssumption, CancelResults, Attempts, Cancelling!Attempts

LEMMA RequestTypes ==
  ASSUME Cancelling!TypeOK
  PROVE  /\ request \in [Workers -> {NoRequest} \cup Requesting]
         /\ operation \in [Attempts ->
              [status : {"none", "pending_provider", "provider_succeeded", "failed",
                         "needs_reconciliation", "completed"},
               failure : {"none", "rejected", "outcome_uncertain"},
               result : CancelResults \cup {NoEvent}]]
         /\ \A n \in Attempts :
              operation[n].status = "failed" <=> operation[n].failure # "none"
         /\ \A r \in Workers : request[r].at # "none" => request[r] \in Requesting
<1>1. request \in [Workers -> {NoRequest} \cup Requesting]
  BY DEF Cancelling!TypeOK, Requesting, NoRequest, CancelResults, Attempts
<1>2. \A r \in Workers : request[r].at # "none" => request[r] \in Requesting
  BY <1>1, NoRequestAt
<1> QED BY <1>1, <1>2 DEF Cancelling!TypeOK, CancelResults, Attempts

\* A page that shows a cancellation as done shows one that is in the log.
Shown == \A s \in Sessions : session[s].page = "done" => audit # {}

SessionTypes ==
  session \in [Sessions -> [status : {"none", "active", "ended"},
                page : {"plain", "offered", "confirming", "busy", "done"}]]

\* A request that goes on without writing a row.
LEMMA RequestStep ==
  ASSUME CancelInv, NEW r \in Workers, NEW q, request' = [request EXCEPT ![r] = q],
         Informed(q), UNCHANGED <<subject, operation, audit, executed>>,
         SessionTypes', Shown',
         q.at \in Calling => /\ request[r].at \in Calling
                            /\ request[r].attempt = q.attempt,
         q.at \in {"call", "rejected"} => request[r].at = "call"
  PROVE  CancelInv'
<1>0. /\ Cancelling!TypeOK /\ \A s \in Workers : Informed(request[s])
      /\ \A n \in Attempts : Filed(n)
      /\ Alone /\ \A a \in audit : a.by \in Cancellers
      /\ executed = 0 \/ (executed = 1 /\ \E n \in Attempts : Answering(n))
  BY DEF CancelInv
<1>1. /\ request'[r] = q /\ \A s \in Workers \ {r} : request'[s] = request[s]
      /\ q \in {NoRequest} \cup Requesting
  BY <1>0, RequestTypes DEF Informed
<1>2. Cancelling!TypeOK'
  <2>1. request' \in [Workers -> {NoRequest} \cup Requesting]
    BY <1>0, <1>1, RequestTypes
  <2> QED BY <1>0, <2>1 DEF Cancelling!TypeOK, SessionTypes, Requesting, NoRequest,
                            CancelResults, Attempts
<1>3. \A s \in Workers : Informed(request[s])'
  <2>1. \A p : Informed(p) => Informed(p)'
    BY DEF Informed, Turn
  <2>2. ASSUME NEW s \in Workers PROVE Informed(request[s])'
    <3>1. PICK p : p = request'[s] /\ Informed(p)
      BY <1>0, <1>1
    <3>2. Informed(p)'
      BY <2>1, <3>1
    <3> QED BY <3>1, <3>2 DEF Informed, Turn
  <2> QED BY <2>2
<1>4. \A n \in Attempts : Filed(n)'
  BY <1>0 DEF Filed, Turn
<1>5. Alone'
  BY <1>0, <1>1 DEF Alone
<1>6. executed' = 0 \/ (executed' = 1 /\ \E n \in Attempts : Answering(n)')
  <2>1. ASSUME NEW n \in Attempts, Answering(n) PROVE Answering(n)'
    <3>1. q.at \in {"call", "rejected"} => q.attempt # n
      BY <2>1 DEF Answering, Calling
    <3> QED BY <1>1, <2>1, <3>1 DEF Answering
  <2> QED BY <1>0, <2>1
<1> QED BY <1>0, <1>2, <1>3, <1>4, <1>5, <1>6 DEF CancelInv, Shown

\* One request moves on, from where the journal's rows let it.
LEMMA RequestGoes ==
  ASSUME CancelInv, NEW r \in Workers, NEW at,
         request[r].at # "none", Cancelling!Goes(r, at),
         UNCHANGED <<session, subject, operation, audit, executed>>,
         at \in {"allowed", "eligible", "ineligible", "rejected", "outcome_uncertain",
                "reconcile", "settle", "stuck", "ok", "refused"},
         at \in {"settle", "stuck"} =>
           operation[request[r].attempt].status \in Recorded,
         at \in {"rejected", "outcome_uncertain"} => request[r].at = "call",
         at = "ok" => audit # {},
         at # "refused" => request[r].by \in Cancellers
  PROVE  CancelInv'
<1>0. /\ Cancelling!TypeOK /\ Informed(request[r]) /\ Shown
  BY DEF CancelInv, Shown
<1>1. request[r] \in Requesting
  BY <1>0, RequestTypes
<1>2. PICK q : q = [request[r] EXCEPT !.at = at]
  OBVIOUS
<1>3. /\ q \in Requesting /\ q.at = at /\ q.attempt = request[r].attempt
      /\ q.by = request[r].by
  BY <1>1, <1>2 DEF Requesting
<1>4. request' = [request EXCEPT ![r] = q]
  BY <1>2 DEF Cancelling!Goes
<1>5. Informed(q)
  BY <1>0, <1>3 DEF Informed, Calling
<1>6. SessionTypes' /\ Shown'
  BY <1>0 DEF SessionTypes, Shown, Cancelling!TypeOK
<1> QED BY <1>3, <1>4, <1>5, <1>6, RequestStep DEF Calling

LEMMA Leaving ==
  ASSUME CancelInv, NEW r \in Workers, NEW page \in {"confirming", "done"},
         Cancelling!Leaves(r, page), request[r].at # "none",
         page = "done" => audit # {}
  PROVE  CancelInv'
<1>0. Cancelling!TypeOK /\ Shown
  BY DEF CancelInv, Shown
<1>1. request' = [request EXCEPT ![r] = NoRequest]
      /\ UNCHANGED <<subject, operation, audit, executed>>
  BY DEF Cancelling!Leaves, NoRequest
<1>2. Informed(NoRequest)
  BY NoRequestAt DEF Informed, Calling
<1>3. SessionTypes' /\ Shown'
  <2>1. CASE session' = session
    BY <1>0, <1>1, <2>1 DEF SessionTypes, Shown, Cancelling!TypeOK
  <2>2. CASE session' = [session EXCEPT ![request[r].by].page = page]
    <3>1. PICK by : session' = [session EXCEPT ![by].page = page]
      BY <2>2
    <3>2. SessionTypes
      BY <1>0 DEF SessionTypes, Cancelling!TypeOK
    <3>3. SessionTypes'
      BY <3>1, <3>2 DEF SessionTypes
    <3>4. ASSUME NEW s \in Sessions, session'[s].page = "done"
          PROVE  page = "done" \/ session[s].page = "done"
      BY <3>1, <3>2, <3>4 DEF SessionTypes
    <3> QED BY <1>0, <1>1, <3>3, <3>4 DEF Shown
  <2> QED BY <2>1, <2>2 DEF Cancelling!Leaves, Cancelling!Shows
<1> QED BY <1>1, <1>2, <1>3, NoRequestAt, RequestStep DEF Calling

LEMMA Arriving ==
  ASSUME CancelInv, NEW r \in Workers, NEW at \in {"asked", "allowed", "eligible", "reconcile"},
         NEW by \in Sessions \cup {"operator"}, NEW paged \in BOOLEAN, NEW n \in Attempts,
         Cancelling!Arrives(r, at, by, paged, n), Turn(n),
         at # "asked" => by = "operator",
         SessionTypes', Shown', UNCHANGED <<subject, operation, audit, executed>>
  PROVE  CancelInv'
<1>1. PICK q : q = [at |-> at, by |-> by, paged |-> paged, attempt |-> n, result |-> NoEvent]
  OBVIOUS
<1>2. q \in Requesting /\ q.at = at /\ q.attempt = n /\ q.by = by
  BY <1>1 DEF Requesting
<1>3. request' = [request EXCEPT ![r] = q]
  BY <1>1 DEF Cancelling!Arrives
<1>4. Informed(q)
  BY <1>2 DEF Informed, Calling, Cancellers
<1> QED BY <1>2, <1>3, <1>4, RequestStep DEF Calling

LEMMA PortalStep ==
  ASSUME CancelInv, NEW s \in Sessions, Cancelling!Portal(s)
  PROVE  CancelInv'
<1>0. Cancelling!TypeOK /\ Shown /\ SessionTypes
  BY DEF CancelInv, Shown, Cancelling!TypeOK, SessionTypes
<1>1. UNCHANGED <<subject, operation, request, audit, executed>>
  BY DEF Cancelling!Portal, Cancelling!createPortalSession,
         Cancelling!revokePortalSession, Cancelling!getPortalBillingState,
         Cancelling!SetConfirming, Cancelling!createPortalPaymentManagementRedirect
<1>2. \/ \E status \in {"active", "ended"} :
           session' = [session EXCEPT ![s].status = status]
      \/ \E page \in {"plain", "offered", "confirming"} :
           session' = [session EXCEPT ![s].page = page]
  BY DEF Cancelling!Portal, Cancelling!createPortalSession,
         Cancelling!revokePortalSession, Cancelling!getPortalBillingState,
         Cancelling!SetConfirming, Cancelling!createPortalPaymentManagementRedirect,
         Cancelling!Shows
<1>3. SessionTypes' /\ Shown'
  BY <1>0, <1>1, <1>2 DEF SessionTypes, Shown
<1>4. Cancelling!TypeOK'
  BY <1>0, <1>1, <1>3 DEF Cancelling!TypeOK, SessionTypes
<1> QED BY <1>1, <1>3, <1>4
        DEF CancelInv, Informed, Filed, Turn, Alone, Answering, Shown

\* What a webhook makes of the subscription gives no access back.
LEMMA WebhookStep ==
  ASSUME CancelInv, Cancelling!Webhook("cancelled", FALSE) \/ Cancelling!Webhook("active", TRUE)
  PROVE  CancelInv'
<1>1. /\ UNCHANGED <<session, operation, request, audit, executed>>
      /\ subject'.access => subject.access
      /\ subject' \in [status : {"active", "cancelled"}, atEnd : BOOLEAN, access : BOOLEAN]
  <2>1. ASSUME NEW status \in {"active", "cancelled"}, NEW atEnd \in BOOLEAN,
               Cancelling!Webhook(status, atEnd)
        PROVE  /\ UNCHANGED <<session, operation, request, audit, executed>>
               /\ subject'.access => subject.access
               /\ subject' \in [status : {"active", "cancelled"}, atEnd : BOOLEAN,
                               access : BOOLEAN]
    <3>1. PICK access \in BOOLEAN :
            access <=> (subject.access /\ status \notin {"cancelled", "expired"})
      OBVIOUS
    <3>2. subject' = [status |-> status, atEnd |-> atEnd, access |-> access]
      BY <2>1, <3>1 DEF Cancelling!Webhook
    <3>3. UNCHANGED <<session, operation, request, audit, executed>>
      BY <2>1 DEF Cancelling!Webhook
    <3> QED BY <3>1, <3>2, <3>3
  <2> QED BY <2>1
<1>2. Cancelling!TypeOK'
  BY <1>1 DEF CancelInv, Cancelling!TypeOK
<1>3. \A n \in Attempts : Filed(n)'
  BY <1>1 DEF CancelInv, Filed, Turn
<1> QED BY <1>1, <1>2, <1>3
        DEF CancelInv, Informed, Turn, Alone, Answering

LEMMA ArrivalStep ==
  ASSUME CancelInv, NEW r \in Workers,
         \/ \E s \in Sessions, paged \in BOOLEAN : Cancelling!PostCancel(r, s, paged)
         \/ Cancelling!ConfirmAction(r)
         \/ \E n \in Attempts : \/ Cancelling!retryBillingOperation(r, n)
                               \/ Cancelling!ReconcileAction(r, n)
  PROVE  CancelInv'
<1>0. /\ Shown /\ SessionTypes /\ \A n \in Attempts : Filed(n)
      /\ 1 \in Attempts /\ Turn(1)
  BY CancelFacts DEF CancelInv, Shown, Cancelling!TypeOK, SessionTypes, Turn
<1>1. ASSUME NEW s \in Sessions, NEW paged \in BOOLEAN, Cancelling!PostCancel(r, s, paged)
      PROVE  CancelInv'
  <2>1. SessionTypes' /\ Shown'
    BY <1>0, <1>1 DEF Cancelling!PostCancel, Cancelling!Shows, SessionTypes, Shown
  <2> QED BY <1>0, <1>1, <2>1, Arriving DEF Cancelling!PostCancel
<1>2. ASSUME UNCHANGED <<session, audit>> PROVE SessionTypes' /\ Shown'
  BY <1>0, <1>2 DEF SessionTypes, Shown
<1>3. CASE Cancelling!ConfirmAction(r)
  BY <1>0, <1>2, <1>3, Arriving DEF Cancelling!ConfirmAction
<1>4. ASSUME NEW n \in Attempts, Cancelling!retryBillingOperation(r, n)
      PROVE  CancelInv'
  <2>1. n + 1 \in Attempts
    BY <1>4, CancelFacts DEF Cancelling!retryBillingOperation
  <2>2. Turn(n + 1)
    BY <1>0, <1>4, CancelFacts DEF Cancelling!retryBillingOperation, Filed, Turn
  <2> QED BY <1>2, <1>4, <2>1, <2>2, Arriving DEF Cancelling!retryBillingOperation
<1>5. ASSUME NEW n \in Attempts, Cancelling!ReconcileAction(r, n)
      PROVE  CancelInv'
  <2>1. Turn(n)
    BY <1>0, <1>5 DEF Cancelling!ReconcileAction, Cancelling!Reconcilable, Filed
  <2> QED BY <1>2, <1>5, <2>1, Arriving DEF Cancelling!ReconcileAction
<1> QED BY <1>1, <1>3, <1>4, <1>5

\* The steps that only move the request on.
LEMMA MovingStep ==
  ASSUME CancelInv, NEW r \in Workers,
         \/ Cancelling!cancelSubscriptionFromPortal(r) \/ Cancelling!getSubscriptionDetail(r)
         \/ Cancelling!resumeExistingOperation(r) \/ Cancelling!ProviderRefuses(r)
         \/ Cancelling!reconcileBillingOperation(r) \/ Cancelling!SettleAborts(r)
  PROVE  CancelInv'
<1>0. /\ Informed(request[r]) /\ \A n \in Attempts : Filed(n)
      /\ request[r].at # "none" => /\ request[r].attempt \in Attempts
                                  /\ request[r].by \in Sessions \cup {"operator"}
  BY RequestTypes DEF CancelInv, Requesting
<1>1. PICK at : /\ request[r].at # "none" /\ Cancelling!Goes(r, at)
                /\ UNCHANGED <<session, subject, operation, audit, executed>>
                /\ at \in {"allowed", "eligible", "ineligible", "rejected",
                          "outcome_uncertain", "reconcile", "settle", "stuck",
                          "ok", "refused"}
                /\ at \in {"settle", "stuck"} =>
                     operation[request[r].attempt].status \in Recorded
                /\ at \in {"rejected", "outcome_uncertain"} => request[r].at = "call"
                /\ at = "ok" => operation[request[r].attempt].status = "completed"
                /\ at # "refused" => request[r].by \in Cancellers
  <2>1. CASE Cancelling!cancelSubscriptionFromPortal(r)
    BY <1>0, <2>1 DEF Cancelling!cancelSubscriptionFromPortal, Cancelling!At,
                      Cancelling!Ours, Cancellers
  <2>2. CASE Cancelling!getSubscriptionDetail(r)
    BY <1>0, <2>2 DEF Cancelling!getSubscriptionDetail, Cancelling!At, Informed
  <2>3. CASE Cancelling!resumeExistingOperation(r)
    BY <1>0, <2>3 DEF Cancelling!resumeExistingOperation, Cancelling!LooksUp,
                      Cancelling!Reconcilable, Informed
  <2>4. CASE Cancelling!ProviderRefuses(r)
    BY <1>0, <2>4 DEF Cancelling!ProviderRefuses, Cancelling!At, Informed
  <2>5. CASE Cancelling!reconcileBillingOperation(r)
    BY <1>0, <2>5 DEF Cancelling!reconcileBillingOperation, Cancelling!At,
                      Cancelling!Reconcilable, Informed, Recorded
  <2>6. CASE Cancelling!SettleAborts(r)
    BY <1>0, <2>6 DEF Cancelling!SettleAborts, Cancelling!At, Informed
  <2> QED BY <2>1, <2>2, <2>3, <2>4, <2>5, <2>6
<1>2. at = "ok" => audit # {}
  BY <1>0, <1>1 DEF Filed
<1> QED BY <1>1, <1>2, RequestGoes

\* A row that is written by the request of its attempt, with what the rest of
\* the invariant asks of the row and of the request.
LEMMA WrittenRow ==
  ASSUME CancelInv, NEW r \in Workers, request[r].at # "none",
         NEW n \in Attempts, request[r].attempt = n,
         NEW row \in [status : {"pending_provider", "provider_succeeded", "failed",
                               "needs_reconciliation", "completed"},
                     failure : {"none", "rejected", "outcome_uncertain"},
                     result : CancelResults \cup {NoEvent}],
         row.status = "failed" <=> row.failure # "none",
         operation' = [operation EXCEPT ![n] = row],
         NEW q \in Requesting, q.attempt = n, q.by = request[r].by,
         request' = [request EXCEPT ![r] = q],
         operation[n].status # "failed",
         UNCHANGED <<session, executed>>,
         audit \subseteq audit', \A a \in audit' : a \in [attempt : Attempts, by : Cancellers],
         subject' \in [status : {"active", "cancelled"}, atEnd : BOOLEAN, access : BOOLEAN],
         subject'.access => subject.access,
         q.at \in {"call", "reconcile", "ok", "refused"}, q.at = "ok" => audit' # {},
         q.at = "call" => row.status = "pending_provider" /\ operation[n].status = "none",
         q.at # "refused" => request[r].by \in Cancellers,
         operation[n].status = "pending_provider" => request[r].at \in Calling,
         operation[n].status \in Recorded => row.status \in Recorded,
         row.status \in Recorded => row.result \in CancelResults,
         row.status = "completed" =>
           /\ \E a \in audit' : a.attempt = n
           /\ row.result.status = "cancelled" => ~subject'.access,
         row.failure = "rejected" => request[r].at = "rejected"
  PROVE  CancelInv'
<1>0. /\ Cancelling!TypeOK /\ \A s \in Workers : Informed(request[s])
      /\ \A m \in Attempts : Filed(m)
      /\ Alone /\ \A s \in Sessions : session[s].page = "done" => audit # {}
      /\ executed = 0 \/ (executed = 1 /\ \E m \in Attempts : Answering(m))
  BY DEF CancelInv
<1>1. /\ request'[r] = q /\ \A s \in Workers \ {r} : request'[s] = request[s]
      /\ operation'[n] = row /\ \A m \in Attempts \ {n} : operation'[m] = operation[m]
  BY <1>0, RequestTypes
<1>2. Cancelling!TypeOK'
  <2>1. /\ request' \in [Workers -> {NoRequest} \cup Requesting]
        /\ operation' \in [Attempts ->
              [status : {"none", "pending_provider", "provider_succeeded", "failed",
                         "needs_reconciliation", "completed"},
               failure : {"none", "rejected", "outcome_uncertain"},
               result : CancelResults \cup {NoEvent}]]
        /\ \A m \in Attempts :
              operation'[m].status = "failed" <=> operation'[m].failure # "none"
    BY <1>0, <1>1, RequestTypes
  <2>2. audit' \subseteq [attempt : Attempts, by : Sessions \cup {"operator"}]
    BY CancelFacts DEF Cancellers
  <2>3. session' = session /\ executed' = executed
    OBVIOUS
  <2> QED BY <1>0, <2>1, <2>2, <2>3 DEF Cancelling!TypeOK, Requesting, NoRequest,
                                        CancelResults, Attempts
<1>3. \A m \in Attempts : Turn(m) => Turn(m)'
  BY <1>1 DEF Turn
<1>4. \A s \in Workers : Informed(request[s])'
  <2>1. Informed(q)'
    <3>1. Turn(n)
      BY <1>0 DEF Informed
    <3> QED BY <1>1, <1>3, <3>1 DEF Informed, Calling
  <2>2. ASSUME NEW s \in Workers, s # r PROVE Informed(request[s])'
    <3>1. PICK p : p = request[s] /\ p = request'[s] /\ Informed(p)
      BY <1>0, <1>1, <2>2
    <3>2. CASE p.at # "none" /\ p.attempt = n
      <4>1. p.at \in Calling => operation[n].status = "pending_provider"
        BY <3>1, <3>2 DEF Informed
      <4>2. p.at \notin Calling
        BY <1>0, <2>2, <3>1, <3>2, <4>1 DEF Alone
      <4>3. p.at \in {"settle", "stuck"} => row.status \in Recorded
        BY <3>1, <3>2 DEF Informed
      <4>4. Informed(p)'
        BY <1>1, <1>3, <3>1, <3>2, <4>2, <4>3 DEF Informed, Calling
      <4> QED BY <3>1, <4>4 DEF Informed, Turn
    <3>3. CASE p.at # "none" /\ p.attempt # n
      <4>1. p.attempt \in Attempts
        BY <1>0, <2>2, <3>1, <3>3, RequestTypes DEF Requesting
      <4>2. Informed(p)'
        BY <1>1, <1>3, <3>1, <3>3, <4>1 DEF Informed, Calling
      <4> QED BY <3>1, <4>2 DEF Informed, Turn
    <3>4. CASE p.at = "none"
      <4>1. Informed(p)'
        BY <3>1, <3>4 DEF Informed, Calling
      <4> QED BY <3>1, <4>1 DEF Informed, Turn
    <3> QED BY <3>2, <3>3, <3>4
  <2>3. Informed(request[r])'
    BY <1>1, <2>1 DEF Informed, Turn
  <2> QED BY <2>2, <2>3
<1>5. \A m \in Attempts : Filed(m)'
  <2>1. Filed(n)'
    <3>1. Turn(n)
      BY <1>0 DEF Informed
    <3> QED BY <1>1, <1>3, <3>1 DEF Filed
  <2>2. ASSUME NEW m \in Attempts, m # n PROVE Filed(m)'
    BY <1>0, <1>1, <1>3, <2>2 DEF Filed
  <2> QED BY <2>1, <2>2
<1>6. Alone'
  <2>1. CASE q.at = "call"
    <3>1. \A s \in Workers : request[s].at \in Calling => request[s].attempt # n
      BY <1>0, <2>1 DEF Informed
    <3> QED BY <1>0, <1>1, <3>1 DEF Alone
  <2>2. CASE q.at # "call"
    BY <1>0, <1>1, <2>2 DEF Alone, Calling
  <2> QED BY <2>1, <2>2
<1>7. \A s \in Sessions : session'[s].page = "done" => audit' # {}
  BY <1>0
<1>8. \A a \in audit' : a.by \in Cancellers
  OBVIOUS
<1>9. executed' = 0 \/ (executed' = 1 /\ \E m \in Attempts : Answering(m)')
  <2>1. ASSUME NEW m \in Attempts, Answering(m) PROVE Answering(m)'
    BY <1>1, <2>1 DEF Answering
  <2> QED BY <1>0, <2>1
<1> QED BY <1>2, <1>4, <1>5, <1>6, <1>7, <1>8, <1>9 DEF CancelInv

\* The rows that are written, with the request of their attempt.
LEMMA WriteStep ==
  ASSUME CancelInv, NEW r \in Workers,
         \/ Cancelling!createOrGetOperation(r) \/ Cancelling!RecordAnswer(r)
         \/ Cancelling!recordProviderFailure(r) \/ Cancelling!Settle(r)
         \/ Cancelling!markNeedsReconciliation(r)
  PROVE  CancelInv'
<1>0. /\ Informed(request[r]) /\ \A n \in Attempts : Filed(n)
      /\ request[r].at # "none" => request[r] \in Requesting
      /\ audit \subseteq [attempt : Attempts, by : Cancellers]
      /\ subject \in [status : {"active", "cancelled"}, atEnd : BOOLEAN, access : BOOLEAN]
      /\ operation \in [Attempts ->
           [status : {"none", "pending_provider", "provider_succeeded", "failed",
                      "needs_reconciliation", "completed"},
            failure : {"none", "rejected", "outcome_uncertain"},
            result : CancelResults \cup {NoEvent}]]
      /\ \A n \in Attempts :
           operation[n].status = "failed" <=> operation[n].failure # "none"
  <2>1. audit \subseteq [attempt : Attempts, by : Cancellers]
    BY DEF CancelInv, Cancelling!TypeOK, Attempts
  <2>2. subject \in [status : {"active", "cancelled"}, atEnd : BOOLEAN, access : BOOLEAN]
    BY DEF CancelInv, Cancelling!TypeOK
  <2> QED BY <2>1, <2>2, RequestTypes DEF CancelInv
<1>1. PICK n : n = request[r].attempt
  OBVIOUS
<1>2. ASSUME request[r].at # "none"
      PROVE  /\ request[r] \in Requesting /\ n \in Attempts
             /\ \A at \in {"call", "reconcile", "ok", "refused"} :
                  /\ [request[r] EXCEPT !.at = at] \in Requesting
                  /\ [request[r] EXCEPT !.at = at].at = at
                  /\ [request[r] EXCEPT !.at = at].attempt = n
                  /\ [request[r] EXCEPT !.at = at].by = request[r].by
  BY <1>0, <1>1, <1>2 DEF Requesting
<1>3. ASSUME NEW at, Cancelling!Goes(r, at)
      PROVE  request' = [request EXCEPT ![r] = [request[r] EXCEPT !.at = at]]
  BY <1>3 DEF Cancelling!Goes
<1>4. CASE Cancelling!createOrGetOperation(r)
  <2>1. /\ request[r].at \in {"eligible", "ineligible"} /\ operation[n].status = "none"
        /\ UNCHANGED <<session, subject, audit, executed>>
    BY <1>1, <1>4 DEF Cancelling!createOrGetOperation, Cancelling!LooksUp
  <2>2. CASE operation' = operation /\ Cancelling!Goes(r, "refused")
    BY <2>1, <2>2, RequestGoes
  <2>3. CASE /\ operation' = [operation EXCEPT ![n].status = "pending_provider"]
             /\ Cancelling!Goes(r, "call")
    <3>1. PICK q : q = [request[r] EXCEPT !.at = "call"]
      OBVIOUS
    <3>2. PICK row : row = [operation[n] EXCEPT !.status = "pending_provider"]
      OBVIOUS
    <3>3. operation[n] \in [status : {"none"}, failure : {"none"},
                            result : CancelResults \cup {NoEvent}]
      BY <1>0, <1>2, <2>1
    <3>4. row \in [status : {"pending_provider"}, failure : {"none"},
                   result : CancelResults \cup {NoEvent}]
      BY <3>2, <3>3
    <3>5. operation' = [operation EXCEPT ![n] = row]
      BY <2>3, <3>2
    <3>6. /\ q \in Requesting /\ q.at = "call" /\ q.attempt = n /\ q.by = request[r].by
          /\ request' = [request EXCEPT ![r] = q]
      BY <1>2, <1>3, <2>1, <2>3, <3>1
    <3>7. request[r].by \in Cancellers
      BY <1>0, <2>1 DEF Informed
    <3> QED BY <1>0, <1>1, <1>2, <2>1, <3>3, <3>4, <3>5, <3>6, <3>7, WrittenRow
            DEF Recorded
  <2> QED BY <1>1, <1>4, <2>2, <2>3 DEF Cancelling!createOrGetOperation
<1>5. CASE Cancelling!RecordAnswer(r)
  <2>1. /\ request[r].at = "answered"
        /\ UNCHANGED <<session, subject, audit, executed>>
    BY <1>5 DEF Cancelling!RecordAnswer, Cancelling!At
  <2>2. /\ request[r].result \in CancelResults /\ request[r].by \in Cancellers
        /\ operation[n].status = "pending_provider"
    BY <1>0, <1>1, <2>1 DEF Informed, Calling
  <2>3. PICK q : q = [request[r] EXCEPT !.at = "reconcile", !.result = NoEvent]
    OBVIOUS
  <2>4. PICK row : row = [status |-> "provider_succeeded", failure |-> "none",
                         result |-> request[r].result]
    OBVIOUS
  <2>5. row \in [status : {"provider_succeeded"}, failure : {"none"},
                 result : CancelResults \cup {NoEvent}] /\ row.result \in CancelResults
    BY <2>2, <2>4
  <2>6. q \in Requesting /\ q.at = "reconcile" /\ q.attempt = n /\ q.by = request[r].by
    BY <1>1, <1>2, <2>1, <2>3 DEF Requesting
  <2>7. operation' = [operation EXCEPT ![n] = row]
    BY <1>1, <1>5, <2>4 DEF Cancelling!RecordAnswer
  <2>8. request' = [request EXCEPT ![r] = q]
    BY <1>5, <2>3 DEF Cancelling!RecordAnswer
  <2> QED BY <1>0, <1>1, <1>2, <2>1, <2>2, <2>5, <2>6, <2>7, <2>8, WrittenRow
          DEF Recorded, Calling
<1>6. CASE Cancelling!recordProviderFailure(r)
  <2>1. /\ request[r].at \in {"rejected", "outcome_uncertain"}
        /\ UNCHANGED <<session, subject, audit, executed>>
    BY <1>6 DEF Cancelling!recordProviderFailure
  <2>2. operation[n].status = "pending_provider"
    BY <1>0, <1>1, <2>1 DEF Informed, Calling
  <2>3. PICK q : q = [request[r] EXCEPT !.at = "refused"]
    OBVIOUS
  <2>4. PICK row : row = [operation[n] EXCEPT !.status = "failed", !.failure = request[r].at]
    OBVIOUS
  <2>5. row \in [status : {"failed"}, failure : {"rejected", "outcome_uncertain"},
                 result : CancelResults \cup {NoEvent}] /\ row.failure = request[r].at
    BY <1>0, <1>2, <2>1, <2>4
  <2>6. operation' = [operation EXCEPT ![n] = row]
    BY <1>1, <1>6, <2>4 DEF Cancelling!recordProviderFailure
  <2>7. /\ q \in Requesting /\ q.at = "refused" /\ q.attempt = n /\ q.by = request[r].by
        /\ request' = [request EXCEPT ![r] = q]
    BY <1>2, <1>3, <1>6, <2>1, <2>3 DEF Cancelling!recordProviderFailure
  <2> QED BY <1>0, <1>1, <1>2, <2>1, <2>2, <2>5, <2>6, <2>7, WrittenRow
          DEF Recorded, Calling
<1>7. CASE Cancelling!Settle(r)
  <2>1. /\ request[r].at = "settle" /\ UNCHANGED <<session, executed>>
    BY <1>7 DEF Cancelling!Settle, Cancelling!At
  <2>2. /\ operation[n].status \in Recorded /\ request[r].by \in Cancellers
    BY <1>0, <1>1, <2>1 DEF Informed
  <2>3. operation[n].result \in CancelResults /\ operation[n].failure = "none"
    BY <1>0, <1>2, <2>1, <2>2 DEF Filed, Recorded
  <2>4. PICK row : row = [operation[n] EXCEPT !.status = "completed"]
    OBVIOUS
  <2>5. row \in [status : {"completed"}, failure : {"none"},
                 result : CancelResults \cup {NoEvent}] /\ row.result = operation[n].result
    BY <1>0, <1>2, <2>1, <2>3, <2>4
  <2>6. operation' = [operation EXCEPT ![n] = row]
    BY <1>1, <1>7, <2>4 DEF Cancelling!Settle
  <2>7. PICK q : q = [request[r] EXCEPT !.at = "ok"]
    OBVIOUS
  <2>8. /\ q \in Requesting /\ q.at = "ok" /\ q.attempt = n /\ q.by = request[r].by
        /\ request' = [request EXCEPT ![r] = q]
    BY <1>2, <1>3, <1>7, <2>1, <2>7 DEF Cancelling!Settle
  <2>9. audit' = audit \cup {[attempt |-> n, by |-> request[r].by]}
    BY <1>1, <1>7 DEF Cancelling!Settle, Cancelling!recordOperationCompletionAudit
  <2>10. /\ audit \subseteq audit' /\ audit' # {}
         /\ \A a \in audit' : a \in [attempt : Attempts, by : Cancellers]
         /\ \E a \in audit' : a.attempt = n
    <3>1. PICK entry : entry = [attempt |-> n, by |-> request[r].by]
      OBVIOUS
    <3>2. entry \in [attempt : Attempts, by : Cancellers] /\ entry.attempt = n
      BY <1>2, <2>1, <2>2, <3>1
    <3> QED BY <1>0, <2>9, <3>1, <3>2
  <2>11. /\ subject' \in [status : {"active", "cancelled"}, atEnd : BOOLEAN, access : BOOLEAN]
         /\ subject'.access => subject.access
         /\ operation[n].result.status = "cancelled" => ~subject'.access
    <3>1. PICK access \in BOOLEAN :
            access <=> subject.access /\ (operation[n].result.status # "cancelled"
                                         \/ operation[n].result.atEnd)
      OBVIOUS
    <3>2. subject' = [status |-> operation[n].result.status,
                      atEnd |-> operation[n].result.atEnd, access |-> access]
      BY <1>1, <1>7, <3>1 DEF Cancelling!Settle
    <3> QED BY <2>3, <3>1, <3>2, CancelFacts
  <2>12. /\ operation[n].status # "failed" /\ operation[n].status # "pending_provider"
         /\ row.status = "completed" /\ row.failure = "none" /\ row.result \in CancelResults
         /\ row.result.status = "cancelled" => ~subject'.access
    BY <2>2, <2>3, <2>5, <2>11 DEF Recorded
  <2>13. row \in [status : {"pending_provider", "provider_succeeded", "failed",
                           "needs_reconciliation", "completed"},
                 failure : {"none", "rejected", "outcome_uncertain"},
                 result : CancelResults \cup {NoEvent}]
    BY <2>5
  <2> QED BY <1>1, <1>2, <2>1, <2>2, <2>6, <2>8, <2>10, <2>11, <2>12, <2>13, WrittenRow
          DEF Recorded
<1>8. CASE Cancelling!markNeedsReconciliation(r)
  <2>1. /\ request[r].at = "stuck" /\ Cancelling!Goes(r, "refused")
        /\ UNCHANGED <<session, subject, audit, executed>>
    BY <1>8 DEF Cancelling!markNeedsReconciliation, Cancelling!At
  <2>2. /\ operation[n].status \in Recorded
    BY <1>0, <1>1, <2>1 DEF Informed
  <2>3. operation[n].result \in CancelResults /\ operation[n].failure = "none"
    BY <1>0, <1>2, <2>1, <2>2 DEF Filed, Recorded
  <2>4. CASE operation' = operation
    BY <2>1, <2>4, RequestGoes
  <2>5. CASE operation' = [operation EXCEPT ![n].status = "needs_reconciliation"]
    <3>1. PICK row : row = [operation[n] EXCEPT !.status = "needs_reconciliation"]
      OBVIOUS
    <3>2. row \in [status : {"needs_reconciliation"}, failure : {"none"},
                   result : CancelResults \cup {NoEvent}] /\ row.result = operation[n].result
      BY <1>0, <1>2, <2>1, <2>3, <3>1
    <3>3. operation' = [operation EXCEPT ![n] = row]
      BY <2>5, <3>1
    <3>4. PICK q : q = [request[r] EXCEPT !.at = "refused"]
      OBVIOUS
    <3>5. /\ q \in Requesting /\ q.at = "refused" /\ q.attempt = n /\ q.by = request[r].by
          /\ request' = [request EXCEPT ![r] = q]
      BY <1>2, <1>3, <2>1, <3>4
    <3> QED BY <1>0, <1>1, <1>2, <2>1, <2>2, <2>3, <3>2, <3>3, <3>5, WrittenRow
            DEF Recorded
  <2> QED BY <1>1, <1>8, <2>4, <2>5 DEF Cancelling!markNeedsReconciliation
<1> QED BY <1>4, <1>5, <1>6, <1>7, <1>8

\* The provider cancels in the attempt whose turn it is: it cannot have done
\* so in one before, which was rejected, nor in one after, which waits for it.
LEMMA ProviderStep ==
  ASSUME CancelInv, NEW r \in Workers, Cancelling!ProviderCancels(r)
  PROVE  CancelInv'
<1>0. /\ Cancelling!TypeOK /\ \A s \in Workers : Informed(request[s])
      /\ \A n \in Attempts : Filed(n)
      /\ Alone /\ \A s \in Sessions : session[s].page = "done" => audit # {}
      /\ \A a \in audit : a.by \in Cancellers
      /\ executed = 0 \/ (executed = 1 /\ \E n \in Attempts : Answering(n))
  BY DEF CancelInv
<1>1. /\ request[r].at = "call" /\ executed' = executed + 1
      /\ UNCHANGED <<session, subject, operation, audit>>
  BY DEF Cancelling!ProviderCancels, Cancelling!At
<1>2. PICK n \in Attempts : n = request[r].attempt
  BY <1>0, <1>1, RequestTypes DEF Requesting
<1>3. /\ operation[n].status = "pending_provider" /\ Turn(n)
      /\ request[r].by \in Cancellers
  BY <1>0, <1>1, <1>2 DEF Informed, Calling
<1>4. executed = 0
  <2>1. ASSUME NEW m \in Attempts, Answering(m) PROVE FALSE
    <3>1. m # n
      BY <1>1, <1>2, <2>1 DEF Answering
    <3>2. m \in Int /\ n \in Int
      BY CancelFacts
    <3>3. CASE m < n
      BY <1>3, <2>1, <3>3 DEF Answering, Turn
    <3>4. CASE n < m
      BY <1>0, <1>2, <1>3, <2>1, <3>4 DEF Answering, Filed, Turn
    <3> QED BY <3>1, <3>2, <3>3, <3>4
  <2> QED BY <1>0, <2>1
<1>5. PICK q \in Requesting :
        /\ request' = [request EXCEPT ![r] = q] /\ q.attempt = n /\ q.by = request[r].by
        /\ q.at \in {"answered", "outcome_uncertain"}
        /\ q.at = "answered" => q.result \in CancelResults
  <2>1. request[r] \in Requesting
    BY <1>0, <1>1, RequestTypes
  <2>2. CASE Cancelling!Goes(r, "outcome_uncertain")
    <3>1. PICK q : q = [request[r] EXCEPT !.at = "outcome_uncertain"]
      OBVIOUS
    <3>2. q \in Requesting /\ q.attempt = n /\ q.at = "outcome_uncertain"
          /\ q.by = request[r].by
      BY <1>2, <2>1, <3>1 DEF Requesting
    <3> QED BY <2>2, <3>1, <3>2 DEF Cancelling!Goes
  <2>3. ASSUME NEW result \in CancelResults,
               request' = [request EXCEPT ![r].at = "answered", ![r].result = result]
        PROVE  \E q \in Requesting :
                 /\ request' = [request EXCEPT ![r] = q] /\ q.attempt = n
                 /\ q.by = request[r].by
                 /\ q.at \in {"answered", "outcome_uncertain"}
                 /\ q.at = "answered" => q.result \in CancelResults
    <3>1. PICK q : q = [request[r] EXCEPT !.at = "answered", !.result = result]
      OBVIOUS
    <3>2. q \in Requesting /\ q.attempt = n /\ q.at = "answered" /\ q.result = result
          /\ q.by = request[r].by
      BY <1>2, <2>1, <3>1 DEF Requesting
    <3>3. request' = [request EXCEPT ![r] = q]
      BY <2>3, <3>1
    <3> QED BY <3>2, <3>3
  <2> QED BY <2>2, <2>3 DEF Cancelling!ProviderCancels, CancelResults
<1>6. /\ request'[r] = q /\ \A s \in Workers \ {r} : request'[s] = request[s]
  BY <1>0, <1>5, RequestTypes
<1>7. Cancelling!TypeOK'
  <2>1. request' \in [Workers -> {NoRequest} \cup Requesting]
    BY <1>0, <1>5, RequestTypes
  <2>2. executed' \in Nat
    BY <1>1, <1>4
  <2> QED BY <1>0, <1>1, <2>1, <2>2 DEF Cancelling!TypeOK, Requesting, NoRequest,
                                        CancelResults, Attempts
<1>8. \A s \in Workers : Informed(request[s])'
  <2>1. \A p : Informed(p) => Informed(p)'
    BY <1>1 DEF Informed, Turn
  <2>2. Informed(q)
    BY <1>3, <1>5 DEF Informed, Calling
  <2>3. ASSUME NEW s \in Workers PROVE Informed(request[s])'
    <3>1. PICK p : p = request'[s] /\ Informed(p)
      BY <1>0, <1>6, <2>2
    <3>2. Informed(p)'
      BY <2>1, <3>1
    <3> QED BY <3>1, <3>2 DEF Informed, Turn
  <2> QED BY <2>3
<1>9. \A m \in Attempts : Filed(m)'
  BY <1>0, <1>1 DEF Filed, Turn
<1>10. Alone'
  BY <1>0, <1>1, <1>2, <1>5, <1>6 DEF Alone, Calling
<1>11. Answering(n)'
  <2>1. /\ operation'[n].status = "pending_provider" /\ operation'[n].failure # "rejected"
    BY <1>0, <1>1, <1>2, <1>3, RequestTypes
  <2>2. ASSUME NEW s \in Workers, request'[s].at \in {"call", "rejected"}
        PROVE  request'[s].attempt # n
    BY <1>0, <1>1, <1>2, <1>5, <1>6, <2>2 DEF Alone, Calling
  <2> QED BY <2>1, <2>2 DEF Answering
<1>12. executed' = 1
  BY <1>1, <1>4
<1> QED BY <1>0, <1>1, <1>7, <1>8, <1>9, <1>10, <1>11, <1>12 DEF CancelInv

LEMMA AnswerStep ==
  ASSUME CancelInv, NEW r \in Workers, Cancelling!Answered(r) \/ Cancelling!Failed(r)
  PROVE  CancelInv'
<1>1. CASE Cancelling!Answered(r)
  BY <1>1, Leaving DEF Cancelling!Answered, Cancelling!At, CancelInv, Informed
<1>2. CASE Cancelling!Failed(r)
  BY <1>2, Leaving DEF Cancelling!Failed, Cancelling!At
<1> QED BY <1>1, <1>2

LEMMA CancelInit ==
  ASSUME Cancelling!Init
  PROVE  CancelInv
<1>1. Cancelling!TypeOK
  <2>1. /\ session \in [Sessions -> [status : {"none", "active", "ended"},
                page : {"plain", "offered", "confirming", "busy", "done"}]]
        /\ subject \in [status : {"active", "cancelled"}, atEnd : BOOLEAN, access : BOOLEAN]
        /\ audit = {} /\ executed = 0
    BY DEF Cancelling!Init
  <2>2. /\ operation \in [Attempts ->
             [status : {"none"}, failure : {"none"}, result : {NoEvent}]]
        /\ request \in [Workers -> {NoRequest}]
    BY DEF Cancelling!Init, Cancelling!NoOperation, Attempts, NoRequest
  <2> QED BY <2>1, <2>2 DEF Cancelling!TypeOK, Attempts, NoRequest
<1>2. \A r \in Workers : request[r].at = "none" /\ Informed(request[r])
  <2>1. \A r \in Workers : request[r] = NoRequest
    BY DEF Cancelling!Init, NoRequest
  <2>2. Informed(NoRequest)
    BY NoRequestAt DEF Informed, Calling
  <2> QED BY <2>1, <2>2, NoRequestAt
<1>3. \A n \in Attempts : Filed(n)
  BY DEF Cancelling!Init, Cancelling!NoOperation, Attempts, Filed, Recorded
<1> QED BY <1>1, <1>2, <1>3 DEF CancelInv, Alone, Calling, Cancelling!Init

LEMMA CancelNext ==
  ASSUME CancelInv, Cancelling!Next
  PROVE  CancelInv'
<1>1. ASSUME NEW r \in Workers, Cancelling!Handle(r) PROVE CancelInv'
  BY <1>1, MovingStep, WriteStep, ProviderStep, AnswerStep DEF Cancelling!Handle
<1>2. ASSUME NEW r \in Workers,
             \/ \E s \in Sessions, paged \in BOOLEAN : Cancelling!PostCancel(r, s, paged)
             \/ Cancelling!ConfirmAction(r)
             \/ \E n \in Attempts : \/ Cancelling!retryBillingOperation(r, n)
                                   \/ Cancelling!ReconcileAction(r, n)
      PROVE  CancelInv'
  BY <1>2, ArrivalStep
<1> QED BY <1>1, <1>2, PortalStep, WebhookStep DEF Cancelling!Next, Attempts

-------------------------------------------------------------------------------
(* The three together, each in its own executions.                         *)

MCInv ==
  /\ component \in {"events", "credits", "cycles", "cancellations"}
  /\ component \in {"events", "credits"} => SubscriptionInv
  /\ component = "cycles" => CycleInv /\ provider \in Providers
  /\ component = "cancellations" => CancelInv

LEMMA MCInvInit == MCInit => MCInv
  BY ComponentsAssumption, SubscriptionInvInit, CycleInvInit, CancelInit
     DEF MCInit, MCInv, CycleInit

LEMMA MCInvStep == MCInv /\ [MCNext]_<<component, cycleVars, cancelVars>> => MCInv'
<1> SUFFICES ASSUME MCInv, [MCNext]_<<component, cycleVars, cancelVars>>
             PROVE  MCInv'
  OBVIOUS
<1>1. component' = component
  BY DEF MCNext
<1>2. CASE component \in {"events", "credits"}
  <2>1. [Next]_vars
    BY <1>2 DEF MCNext, cycleVars
  <2> QED BY <1>1, <1>2, <2>1, SubscriptionInvStep DEF MCInv
<1>3. CASE component = "cycles"
  <2>1. [CycleNext]_cycleVars
    BY <1>3 DEF MCNext
  <2>2. provider' = provider
    BY <2>1 DEF CycleNext, cycleVars, external, Subscribe, Charge, Decline, Collect,
                Schedule, Finish, Becomes, Tell, Deliver
  <2> QED BY <1>1, <1>3, <2>1, <2>2, CycleInvStep DEF MCInv
<1>4. CASE component = "cancellations"
  <2>1. Cancelling!Next \/ UNCHANGED cancelVars
    BY <1>4 DEF MCNext
  <2>2. CancelInv
    BY <1>4 DEF MCInv
  <2>3. ASSUME UNCHANGED cancelVars PROVE CancelInv'
    <3>1. Cancelling!TypeOK'
      BY <2>2, <2>3 DEF CancelInv, cancelVars, Cancelling!TypeOK
    <3>2. \A r \in Workers : Informed(request[r])'
      BY <2>2, <2>3 DEF CancelInv, cancelVars, Informed, Turn
    <3>3. \A n \in Attempts : Filed(n)'
      BY <2>2, <2>3 DEF CancelInv, cancelVars, Filed, Turn
    <3> QED BY <2>2, <2>3, <3>1, <3>2, <3>3 DEF CancelInv, cancelVars, Alone, Answering
  <2> QED BY <1>1, <1>4, <2>1, <2>2, <2>3, CancelNext DEF MCInv
<1> QED BY <1>1, <1>2, <1>3, <1>4 DEF MCInv

LEMMA MCInvariant == MCSpec => []MCInv
  BY MCInvInit, MCInvStep, PTL DEF MCSpec

(* Whatever the providers tell, every row, every request and every operation *)
(* is well typed, in the webhook, in the journal and in the portal.         *)
THEOREM AllSubscriptionsTyped == MCSpec => []SubscriptionTypeOK
<1>1. MCInv => SubscriptionTypeOK
  <2> SUFFICES ASSUME MCInv PROVE SubscriptionTypeOK
    OBVIOUS
  <2>1. CASE component \in {"events", "credits"}
    BY <2>1 DEF MCInv, SubscriptionInv, SubscriptionTypeOK
  <2>2. CASE component = "cycles"
    BY <2>2 DEF MCInv, CycleInv, SubscriptionInv, PlanInv, Kept, CycleTypeOK,
                SubscriptionTypeOK
  <2>3. CASE component = "cancellations"
    BY <2>3 DEF MCInv, CancelInv, SubscriptionTypeOK
  <2> QED BY <2>1, <2>2, <2>3 DEF MCInv
<1> QED BY <1>1, MCInvariant, PTL

(* What a subscriber gets is what the provider collected: no access before *)
(* a payment, and, of the providers whose event states its cycle, a paid   *)
(* cycle that was told of and processed has delivered credits of its own.  *)
THEOREM CyclesAlwaysMatch == MCSpec => []CyclesMatchPayments
<1>1. MCInv => CyclesMatchPayments
  BY DEF MCInv, CycleInv, CyclesMatchPayments
<1> QED BY <1>1, MCInvariant, PTL

(* A completed cancellation is in the audit log and leaves no access it was *)
(* to end; a customer told of one finds it there; nobody but the customer  *)
(* and the operators is in it; and the provider cancelled at most once.     *)
THEOREM CancellationsAlwaysAudited == MCSpec => []CancelledIsAudited
<1>1. MCInv => CancelledIsAudited
  <2> SUFFICES ASSUME CancelInv PROVE Cancelling!CancelledIsAudited
    BY DEF MCInv, CancelledIsAudited
  <2>1. executed <= 1
    BY DEF CancelInv
  <2>2. executed = 1 => \E n \in Attempts :
          operation[n].status # "none" /\ operation[n].failure # "rejected"
    BY DEF CancelInv, Answering
  <2> QED BY <2>1, <2>2 DEF CancelInv, Filed, Recorded, Cancellers, Attempts,
                            Cancelling!CancelledIsAudited
<1> QED BY <1>1, MCInvariant, PTL
===============================================================================
