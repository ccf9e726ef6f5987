----------------------------- MODULE UsageMetering -----------------------------
(***************************************************************************)
(* Metered usage: a host reports each unit of its work under a key of its  *)
(* own until it hears an answer, and bills by the summaries of periods.    *)
(* A report may run on after the host has given it up, beside the next one.*)
(*                                                                         *)
(*   now      the clock                                                    *)
(*   meter    the row of usage_meters, or NoMeter                          *)
(*   events   usage_events                                                 *)
(*   report   the requests: what each reports, how far it is and the event: *)
(*            its own, and once it has inserted the one that is stored     *)
(*   heard    the time of the event the host was told of, by unit          *)
(*   invoice  the summary each closed period was billed by, with the events *)
(*            it counted and what the host had heard by then               *)
(***************************************************************************)
EXTENDS Integers, FiniteSets

CONSTANTS
  Requests,
  Units,       \* [key, environment, customer, quantity]
  Meters,      \* the inputs of createUsageMeter
  Periods,     \* 1 .. n
  Length,      \* of a period
  MaxClock,
  NoMeter

\* A column without a value.
Absent == -1

\* A host uses a key once in an environment.
UsageAssumption ==
  /\ IsFiniteSet(Units)
  /\ \A u, v \in Units :
       u.key = v.key /\ u.environment = v.environment => u = v
  /\ \A u \in Units : u.quantity \in Nat \ {0}
  /\ Meters \subseteq
       [billingScheme : {"per_unit", "included_overage"}, includedQuantity : Int,
        perUnitAmountMinor : Int, overageUnitAmountMinor : Int]
  /\ NoMeter \notin Meters
  /\ Periods \subseteq Nat /\ {Length, MaxClock} \subseteq Nat

VARIABLES now, meter, events, report, heard, invoice
vars == <<now, meter, events, report, heard, invoice>>

Times == 0 .. MaxClock
Accounts == {[environment |-> u.environment, customer |-> u.customer] : u \in Units}
UsageEvents == [unit : Units, occurredAt : Times]
Idle == [at |-> "idle"]
NoInvoice == [a \in {} |-> 0]

-------------------------------------------------------------------------------
(* Meters and what they charge.                                            *)

ValidMeter(m) ==
  IF m.billingScheme = "per_unit" THEN m.perUnitAmountMinor >= 0
  ELSE m.includedQuantity >= 0 /\ m.overageUnitAmountMinor >= 0

\* The fields of the other scheme are not stored.
createUsageMeter(m) ==
  /\ meter = NoMeter /\ ValidMeter(m)
  /\ meter' = IF m.billingScheme = "per_unit"
              THEN [m EXCEPT !.includedQuantity = Absent, !.overageUnitAmountMinor = Absent]
              ELSE [m EXCEPT !.perUnitAmountMinor = Absent]
  /\ UNCHANGED <<now, events, report, heard, invoice>>

OrZero(x) == IF x = Absent THEN 0 ELSE x

computeBillingQuantity(m, measured) ==
  LET included == OrZero(m.includedQuantity)
      overage == IF measured > included THEN measured - included ELSE 0
  IN IF m.billingScheme = "per_unit"
     THEN [billing |-> measured, included |-> 0, overage |-> 0,
           amount |-> measured * OrZero(m.perUnitAmountMinor)]
     ELSE [billing |-> overage, overage |-> overage,
           included |-> IF measured < included THEN measured ELSE included,
           amount |-> overage * OrZero(m.overageUnitAmountMinor)]

-------------------------------------------------------------------------------
(* A report.                                                               *)

(* The host sends what it has heard nothing of, though an earlier request  *)
(* for it may still be going on.  Without a meter it is refused; otherwise *)
(* the event takes the time at which its row is built: reportUsage takes   *)
(* an occurredAt too, which the report route never passes.                 *)
Send(r, u) ==
  /\ report[r] = Idle /\ heard[u] = Absent /\ meter # NoMeter
  /\ report' = [report EXCEPT ![r] =
       [at |-> "insert", event |-> [unit |-> u, occurredAt |-> now]]]
  /\ UNCHANGED <<now, meter, events, heard, invoice>>

SameKey(e, u) ==
  e.unit.key = u.key /\ e.unit.environment = u.environment
Conflicts(e) == {f \in events : SameKey(f, e.unit)}

Mut_Upsert(e) == (events \ Conflicts(e)) \cup {e}
\* onConflictDoNothing.
Inserted(e) == IF Conflicts(e) = {} THEN events \cup {e} ELSE events

\* After a conflict the stored row is looked up, which nothing deletes.
Insert(r) ==
  /\ report[r].at = "insert"
  /\ LET e == report[r].event
     IN /\ events' = Inserted(e)
        /\ report' = [report EXCEPT ![r] =
             [@ EXCEPT !.at = "answer", !.event = CHOOSE f \in events' : SameKey(f, e.unit)]]
  /\ UNCHANGED <<now, meter, heard, invoice>>

Answer(r) ==
  /\ report[r].at = "answer"
  /\ heard' = [heard EXCEPT ![report[r].event.unit] = report[r].event.occurredAt]
  /\ report' = [report EXCEPT ![r] = Idle]
  /\ UNCHANGED <<now, meter, events, invoice>>

\* External: the process dies, or its answer does not arrive.
Lose(r) ==
  /\ report[r] # Idle
  /\ report' = [report EXCEPT ![r] = Idle]
  /\ UNCHANGED <<now, meter, events, heard, invoice>>

-------------------------------------------------------------------------------
(* Billing.                                                                *)

UnitsOf(a) == {u \in Units : u.environment = a.environment /\ u.customer = a.customer}

\* The sum of the events' quantities.
Quantity(es) == Cardinality(UNION {{e} \X (1 .. e.unit.quantity) : e \in es})

\* A period holds its start and not its end.
Within(t, p) == (p - 1) * Length <= t /\ t < p * Length

getUsageSummary(a, p) ==
  LET counted == {e \in events : e.unit \in UnitsOf(a) /\ Within(e.occurredAt, p)}
  IN [counted |-> counted, due |-> computeBillingQuantity(meter, Quantity(counted))]

\* External: the host bills a period that is over.  The accounts' summaries
\* do not depend on each other and are read in one step.
Bill(p) ==
  /\ now >= p * Length /\ invoice[p] = NoInvoice /\ meter # NoMeter
  /\ invoice' = [invoice EXCEPT ![p] = [a \in Accounts |->
       [summary |-> getUsageSummary(a, p),
        told |-> {u \in UnitsOf(a) : heard[u] # Absent}]]]
  /\ UNCHANGED <<now, meter, events, report, heard>>

Tick ==
  /\ now < MaxClock
  /\ now' = now + 1
  /\ UNCHANGED <<meter, events, report, heard, invoice>>

Init ==
  /\ now = 0
  /\ meter = NoMeter
  /\ events = {}
  /\ report = [r \in Requests |-> Idle]
  /\ heard = [u \in Units |-> Absent]
  /\ invoice = [p \in Periods |-> NoInvoice]

Next ==
  \/ Tick
  \/ \E m \in Meters : createUsageMeter(m)
  \/ \E p \in Periods : Bill(p)
  \/ \E r \in Requests :
       \/ \E u \in Units : Send(r, u)
       \/ Insert(r) \/ Answer(r) \/ Lose(r)

Spec == Init /\ [][Next]_vars

-------------------------------------------------------------------------------
TypeOK ==
  /\ now \in Times
  /\ meter = NoMeter \/ ValidMeter(meter)
  /\ events \subseteq UsageEvents
  /\ report \in [Requests -> {Idle} \cup [at : {"insert", "answer"}, event : UsageEvents]]
  /\ heard \in [Units -> Times \cup {Absent}]

Billed == {p \in Periods : invoice[p] # NoInvoice}
Counted(p, a) == invoice[p][a].summary.counted

(* However often a unit is reported, whatever answers are lost and         *)
(* whichever requests overlap, the invoices count each unit at most once:  *)
(* a period counts all the host had heard of in it by then and nothing     *)
(* that it hears of, then or later, at another time; the allowance and the *)
(* overage of an invoice add up to what was counted.                       *)
UsageBilledOnce ==
  \A a \in Accounts, p \in Billed :
    /\ \A b \in Accounts, q \in Billed :
         \A e \in Counted(p, a), f \in Counted(q, b) :
           e.unit = f.unit => a = b /\ p = q /\ e = f
    /\ \A u \in invoice[p][a].told :
         Within(heard[u], p) => [unit |-> u, occurredAt |-> heard[u]] \in Counted(p, a)
    /\ \A e \in Counted(p, a) : heard[e.unit] \in {Absent, e.occurredAt}
    /\ LET due == invoice[p][a].summary.due
       IN meter.billingScheme = "included_overage" =>
            due.included + due.overage = Quantity(Counted(p, a))
===============================================================================
