---------------------------- MODULE CreditAccount ----------------------------
(***************************************************************************)
(* What the credit service promises the caller of one account, without    *)
(* buckets, keys or a ledger: a number of available credits, and          *)
(* reservations that each set some of them aside until they are settled   *)
(* once, by a capture of a part or by a release.                          *)
(*                                                                         *)
(* Credits also lapse (expiry, clawback), but only available ones: what a *)
(* reservation holds stays there until the reservation is settled.        *)
(***************************************************************************)
EXTENDS Integers

CONSTANTS Reservations, MaxHold

VARIABLES credits,   \* available to spend
          hold,      \* what each reservation sets aside
          state      \* its state

cvars == <<credits, hold, state>>

Init ==
  /\ credits = 0
  /\ hold = [r \in Reservations |-> 0]
  /\ state = [r \in Reservations |-> "none"]

Receive ==
  /\ \E n \in 1 .. MaxHold : credits' = credits + n
  /\ UNCHANGED <<hold, state>>

\* Spending and lapsing look alike from outside: available credits go.
Leave ==
  /\ credits' \in 0 .. credits
  /\ UNCHANGED <<hold, state>>

\* A new reservation; credits may lapse in the same step, before it.
Set(r) ==
  /\ state[r] = "none"
  /\ \E n \in 1 .. MaxHold :
       /\ credits' + n \in 0 .. credits
       /\ credits' >= 0
       /\ hold' = [hold EXCEPT ![r] = n]
  /\ state' = [state EXCEPT ![r] = "active"]

Capture(r) ==
  /\ state[r] = "active"
  /\ \E n \in 1 .. hold[r] : credits' = credits + hold[r] - n
  /\ state' = [state EXCEPT ![r] = "captured"]
  /\ UNCHANGED hold

Release(r) ==
  /\ state[r] = "active"
  /\ credits' = credits + hold[r]
  /\ state' = [state EXCEPT ![r] = "released"]
  /\ UNCHANGED hold

Next ==
  \/ Receive
  \/ Leave
  \/ \E r \in Reservations : Set(r) \/ Capture(r) \/ Release(r)

Spec == Init /\ [][Next]_cvars
==============================================================================
