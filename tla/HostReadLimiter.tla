---------------------------- MODULE HostReadLimiter ----------------------------
(***************************************************************************)
(* The rate limit of the reads that only name a host: one window per       *)
(* application and client, in the memory of the process, in a map of       *)
(* bounded size.  A request is handled in one step.                        *)
(*                                                                         *)
(*   now       the clock                                                   *)
(*   windows   the map of that name; a key that is not in it has no window *)
(*   reads     the times of the reads allowed, by client, in their order   *)
(*   alarms    those of the anomalies raised                               *)
(***************************************************************************)
EXTENDS Integers, FiniteSets, Sequences

CONSTANTS
  Clients,     \* keys: an application and the address a proxy vouches for
  Limit,       \* hostReadLimitPerMinute()
  MaxWindows,  \* hostReadMaxWindows()
  Window,      \* WINDOW_MS
  MaxClock

LimiterAssumption ==
  /\ IsFiniteSet(Clients)
  /\ {Limit, MaxWindows, Window} \subseteq Nat \ {0}
  /\ MaxClock \in Nat

VARIABLES now, windows, reads, alarms
vars == <<now, windows, reads, alarms>>

Clock == 0 .. MaxClock
State == [count : 1 .. Limit, resetAt : Window .. MaxClock + Window,
          breachLogged : BOOLEAN]

TypeOK ==
  /\ now \in Clock
  /\ DOMAIN windows \subseteq Clients
  /\ \A c \in DOMAIN windows : windows[c] \in State
  /\ {reads, alarms} \subseteq [Clients -> Seq(Clock)]

Init ==
  /\ now = 0
  /\ windows = [c \in {} |-> 0]
  /\ reads = [c \in Clients |-> <<>>]
  /\ alarms = [c \in Clients |-> <<>>]

Expired(c) == windows[c].resetAt <= now
Fresh(c) == c \in DOMAIN windows => Expired(c)

Mut_PruneToMakeRoom == IF Cardinality(DOMAIN windows) < MaxWindows THEN DOMAIN windows ELSE {}
\* The clients whose windows stay when the expired ones are pruned.
pruneExpiredWindows == {c \in DOMAIN windows : ~Expired(c)}

Allow(c) ==
  /\ reads' = [reads EXCEPT ![c] = Append(@, now)]
  /\ UNCHANGED alarms

(* A client without a window: the expired ones go, and it gets one if      *)
(* there is room.                                                          *)
Open(c) ==
  /\ Fresh(c)
  /\ Cardinality(pruneExpiredWindows) < MaxWindows
  /\ windows' = [k \in pruneExpiredWindows \cup {c} |->
                   IF k # c THEN windows[k]
                   ELSE [count |-> 1, resetAt |-> now + Window, breachLogged |-> FALSE]]
  /\ Allow(c)

\* No room is left: the request is denied.
Saturated(c) ==
  /\ Fresh(c)
  /\ Cardinality(pruneExpiredWindows) >= MaxWindows
  /\ windows' = [k \in pruneExpiredWindows |-> windows[k]]
  /\ UNCHANGED <<reads, alarms>>

Count(c) ==
  /\ ~Fresh(c) /\ windows[c].count < Limit
  /\ windows' = [windows EXCEPT ![c].count = @ + 1]
  /\ Allow(c)

\* Only the first breach of a window is an anomaly.
Deny(c) ==
  /\ ~Fresh(c) /\ windows[c].count >= Limit
  /\ windows' = [windows EXCEPT ![c].breachLogged = TRUE]
  /\ alarms' = IF windows[c].breachLogged THEN alarms
               ELSE [alarms EXCEPT ![c] = Append(@, now)]
  /\ UNCHANGED reads

consumeHostReadQuota(c) ==
  /\ Open(c) \/ Saturated(c) \/ Count(c) \/ Deny(c)
  /\ UNCHANGED now

\* External: the clock.
Tick ==
  /\ now < MaxClock
  /\ now' = now + 1
  /\ UNCHANGED <<windows, reads, alarms>>

Next == Tick \/ \E c \in Clients : consumeHostReadQuota(c)

Spec == Init /\ [][Next]_vars

-------------------------------------------------------------------------------
\* Any n + 1 of these times, in a row, take longer than a window.
AtMost(n, times) ==
  \A i, j \in DOMAIN times : j = i + n => times[j] - times[i] > Window

(* Whatever the other clients do to the map, a client reads at most twice  *)
(* the limit in any span as long as a window, and raises at most two       *)
(* anomalies in it.                                                        *)
ReadsAreBounded ==
  \A c \in Clients : AtMost(2 * Limit, reads[c]) /\ AtMost(2, alarms[c])
===============================================================================
