------------------------------ MODULE ConsoleProofs ------------------------------
(* What the components of the console and of the hosts guarantee, for every *)
(* number of operators, requests, keys, prices and connections.             *)
EXTENDS MCConsole, DeliveryProofs, Sequences, FiniteSetTheorems, TLAPS

-------------------------------------------------------------------------------
(* The keys of the hosts.                                                  *)

Keys == HostKeys!Keys
Issued == HostKeys!Issued
NoSecret == HostKeys!NoSecret
Secrets == [key : Keys, replaces : Keys \cup {Nothing}]

KeyRequest ==
  [op : {"create", "rotate", "revoke"},
   at : {"guard", "write", "audit", "answer", "error"},
   by : KeyOperators, key : Keys \cup {Nothing}, result : Keys \cup {Nothing}]

KeyTypes ==
  /\ credential \in [Keys -> {"free", "active", "revoked"}]
  /\ audited \subseteq Keys /\ installed \in Keys
  /\ page \in [KeyOperators ->
       [busy : {"no", "create", "row"}, revealed : Secrets \cup {NoSecret}]]
  /\ stored \in [KeyOperators -> SUBSET Secrets]
  /\ retired \in [KeyOperators -> SUBSET Keys]
  /\ keyRequest \in [Racers -> {HostKeys!Idle} \cup KeyRequest]
  /\ \A r \in Racers :
       LET q == keyRequest[r] IN
       /\ q.op \in {"rotate", "revoke"} => q.key \in Keys
       /\ q.op = "create" => q.key = Nothing
       /\ q.op \in {"create", "rotate"} /\ q.at \in {"audit", "answer"} => q.result \in Keys

\* A secret is in one place: in an answer under way, on a page or in a store.
Telling == {r \in Racers : /\ keyRequest[r].op \in {"create", "rotate"}
                          /\ keyRequest[r].at \in {"audit", "answer"}}
Showing == {o \in KeyOperators : page[o].revealed # NoSecret}
Hand ==
       {[in |-> keyRequest[r].at, of |-> r,
         secret |-> [key |-> keyRequest[r].result, replaces |-> keyRequest[r].key]] :
          r \in Telling}
  \cup {[in |-> "page", of |-> o, secret |-> page[o].revealed] : o \in Showing}
  \cup UNION {{[in |-> "store", of |-> o, secret |-> s] : s \in stored[o]} :
               o \in KeyOperators}

\* The keys that are on their way out, and those that have been in use.
Ending(k) ==
  \/ \E r \in Racers : keyRequest[r].op = "revoke" /\ keyRequest[r].key = k
  \/ \E o \in KeyOperators : k \in retired[o]
Used(k) ==
  \/ k = installed \/ Ending(k)
  \/ \E r \in Racers : keyRequest[r].op = "rotate" /\ keyRequest[r].key = k
  \/ \E x \in Hand : x.secret.replaces = k

Counted == \E n \in Nat : Issued = 1 .. n
InUse == /\ credential[installed] = "active" /\ ~Ending(installed)
         /\ \A k \in Keys : Used(k) => k \in Issued
Apart == \A x, y \in Hand : x.secret.key = y.secret.key => x = y
Fresh(x) ==
  LET k == x.secret.key IN
  /\ x.secret \in Secrets
  /\ credential[k] = "active" /\ ~Used(k)
  /\ x.in # "audit" => k \in audited

KeyInv == KeyTypes /\ Counted /\ InUse /\ Apart /\ \A x \in Hand : Fresh(x)

LEMMA KeyFacts ==
  /\ MaxKeys \in Nat \ {0} /\ Nothing \notin Nat /\ Keys = 1 .. MaxKeys
  /\ Nothing \notin Keys
  /\ NoSecret = [key |-> Nothing, replaces |-> Nothing] /\ NoSecret \notin Secrets
  /\ HostKeys!Idle.op = "none" /\ HostKeys!Idle.at = "idle"
<1>1. MaxKeys \in Nat \ {0} /\ Nothing \notin Nat
  BY ConsoleAssumption DEF HostKeys!KeysAssumption
<1>2. Keys = 1 .. MaxKeys /\ Nothing \notin Keys
  BY <1>1 DEF Keys, HostKeys!Keys
<1>3. NoSecret = [key |-> Nothing, replaces |-> Nothing]
  BY DEF NoSecret, HostKeys!NoSecret
<1>4. NoSecret \notin Secrets
  BY <1>2, <1>3 DEF Secrets
<1> QED BY <1>1, <1>2, <1>3, <1>4 DEF HostKeys!Idle

\* What is in a hand, place by place.
LEMMA InHand ==
  \A x : x \in Hand <=>
    \/ \E r \in Telling : x = [in |-> keyRequest[r].at, of |-> r,
         secret |-> [key |-> keyRequest[r].result, replaces |-> keyRequest[r].key]]
    \/ \E o \in Showing : x = [in |-> "page", of |-> o, secret |-> page[o].revealed]
    \/ \E o \in KeyOperators : \E s \in stored[o] :
         x = [in |-> "store", of |-> o, secret |-> s]
BY DEF Hand

LEMMA InHandAfter ==
  \A x : x \in Hand' <=>
    \/ \E r \in Telling' : x = [in |-> keyRequest'[r].at, of |-> r,
         secret |-> [key |-> keyRequest'[r].result, replaces |-> keyRequest'[r].key]]
    \/ \E o \in Showing' : x = [in |-> "page", of |-> o, secret |-> page'[o].revealed]
    \/ \E o \in KeyOperators : \E s \in stored'[o] :
         x = [in |-> "store", of |-> o, secret |-> s]
BY DEF Hand

\* What changes no place of a secret but one, and no key but those said.
LEMMA HandsAfter ==
  ASSUME KeyInv, KeyTypes',
         UNCHANGED <<credential, installed, retired>>, audited \subseteq audited',
         \A r \in Racers : keyRequest'[r].op \in {"rotate", "revoke"} =>
           \/ keyRequest'[r].op = keyRequest[r].op /\ keyRequest'[r].key = keyRequest[r].key
           \/ /\ keyRequest'[r].op = "rotate" /\ keyRequest'[r].key = installed
           \/ /\ keyRequest'[r].op = "revoke"
              /\ \E o \in KeyOperators : keyRequest'[r].key \in retired[o],
         \A x \in Hand' : \E y \in Hand :
           /\ x.secret = y.secret
           /\ x.in # "audit" => y.in # "audit" \/ x.secret.key \in audited',
         Apart'
  PROVE  KeyInv'
<1>1. \A k : Ending(k)' => Ending(k)
  BY DEF Ending
<1>2. \A k : Used(k)' => Used(k)
  BY <1>1 DEF Used
<1>3. Counted' /\ Issued' = Issued
  BY DEF KeyInv, Counted, Issued, HostKeys!Issued, HostKeys!Keys
<1>4. InUse'
  BY <1>1, <1>2, <1>3 DEF KeyInv, InUse
<1>5. \A x \in Hand' : Fresh(x)'
  BY <1>2 DEF KeyInv, Fresh
<1> QED BY <1>3, <1>4, <1>5 DEF KeyInv

LEMMA FewerHands ==
  ASSUME KeyInv, KeyTypes',
         UNCHANGED <<credential, installed, retired>>, audited \subseteq audited',
         \A r \in Racers : keyRequest'[r].op \in {"rotate", "revoke"} =>
           \/ keyRequest'[r].op = keyRequest[r].op /\ keyRequest'[r].key = keyRequest[r].key
           \/ /\ keyRequest'[r].op = "rotate" /\ keyRequest'[r].key = installed
           \/ /\ keyRequest'[r].op = "revoke"
              /\ \E o \in KeyOperators : keyRequest'[r].key \in retired[o],
         Hand' \subseteq Hand
  PROVE  KeyInv'
<1>1. Apart'
  BY DEF KeyInv, Apart
<1> QED BY <1>1, HandsAfter

\* A secret that goes from one place to another.
LEMMA HandMoves ==
  ASSUME KeyInv, KeyTypes',
         UNCHANGED <<credential, installed, retired>>, audited \subseteq audited',
         \A r \in Racers : keyRequest'[r].op \in {"rotate", "revoke"} =>
           keyRequest'[r].op = keyRequest[r].op /\ keyRequest'[r].key = keyRequest[r].key,
         NEW x \in Hand, NEW y, y.secret = x.secret,
         x.in # "audit" \/ x.secret.key \in audited',
         Hand' \subseteq (Hand \ {x}) \cup {y}
  PROVE  KeyInv'
<1>1. \A z \in Hand' : \E w \in Hand :
        /\ z.secret = w.secret
        /\ z.in # "audit" => w.in # "audit" \/ z.secret.key \in audited'
  OBVIOUS
<1>2. Apart'
  BY DEF KeyInv, Apart
<1> QED BY <1>1, <1>2, HandsAfter

\* A request that asks, or goes on without an answer in it.
LEMMA Requesting ==
  ASSUME KeyInv, NEW r \in Racers, NEW q \in KeyRequest,
         keyRequest' = [keyRequest EXCEPT ![r] = q],
         q.op \in {"rotate", "revoke"} => q.key \in Keys,
         q.op = "create" => q.key = Nothing,
         q.op = "revoke" \/ q.at \notin {"audit", "answer"},
         q.op \in {"rotate", "revoke"} =>
           \/ q.op = keyRequest[r].op /\ q.key = keyRequest[r].key
           \/ q.op = "rotate" /\ q.key = installed
           \/ q.op = "revoke" /\ \E o \in KeyOperators : q.key \in retired[o],
         UNCHANGED <<credential, audited, installed, stored, retired>>,
         page' \in [KeyOperators ->
           [busy : {"no", "create", "row"}, revealed : Secrets \cup {NoSecret}]],
         \A o \in KeyOperators : page'[o].revealed = page[o].revealed
  PROVE  KeyInv'
<1>0. KeyTypes
  BY DEF KeyInv
<1>1. /\ keyRequest'[r] = q /\ \A s \in Racers \ {r} : keyRequest'[s] = keyRequest[s]
      /\ keyRequest' \in [Racers -> {HostKeys!Idle} \cup KeyRequest]
  BY <1>0 DEF KeyTypes
<1>2. KeyTypes'
  BY <1>0, <1>1 DEF KeyTypes
<1>3. Telling' \subseteq Telling
  BY <1>1 DEF Telling, KeyRequest
<1>4. Hand' \subseteq Hand
  <2>1. Showing' = Showing
    BY DEF Showing
  <2>2. \A s \in Telling' : keyRequest'[s] = keyRequest[s]
    BY <1>1 DEF Telling, KeyRequest
  <2>3. ASSUME NEW x \in Hand' PROVE x \in Hand
    <3>1. ASSUME NEW s \in Telling',
                 x = [in |-> keyRequest'[s].at, of |-> s,
                   secret |-> [key |-> keyRequest'[s].result, replaces |-> keyRequest'[s].key]]
          PROVE  x \in Hand
      BY <1>3, <2>2, <3>1, InHand
    <3>2. ASSUME NEW o \in Showing',
                 x = [in |-> "page", of |-> o, secret |-> page'[o].revealed]
          PROVE  x \in Hand
      <4>1. o \in Showing /\ page'[o].revealed = page[o].revealed
        BY <2>1 DEF Showing
      <4> QED BY <3>2, <4>1, InHand
    <3>3. ASSUME NEW o \in KeyOperators, NEW s \in stored'[o],
                 x = [in |-> "store", of |-> o, secret |-> s]
          PROVE  x \in Hand
      BY <3>3, InHand
    <3> QED BY <3>1, <3>2, <3>3, InHandAfter
  <2> QED BY <2>3
<1> QED BY <1>1, <1>2, <1>4, FewerHands

LEMMA KeyAsk ==
  ASSUME KeyInv, NEW o \in KeyOperators, NEW r \in Racers,
         \/ HostKeys!createKey(o, r)
         \/ \E k \in Issued : HostKeys!rotateKey(o, r, k) \/ HostKeys!revokeKey(o, r, k)
  PROVE  KeyInv'
<1>0. KeyTypes
  BY DEF KeyInv
<1>1. ASSUME NEW op \in {"create", "rotate", "revoke"}, NEW k \in Keys \cup {Nothing},
             NEW busy \in {"no", "create", "row"}, HostKeys!Ask(o, r, op, k, busy),
             op = "create" => k = Nothing, op \in {"rotate", "revoke"} => k \in Keys,
             op = "rotate" => k = installed, op = "revoke" => k \in retired[o]
      PROVE  KeyInv'
  <2>1. PICK q : q = [op |-> op, at |-> "guard", by |-> o, key |-> k, result |-> Nothing]
    OBVIOUS
  <2>2. q \in KeyRequest /\ q.op = op /\ q.key = k /\ q.at = "guard"
    BY <2>1 DEF KeyRequest
  <2>3. keyRequest' = [keyRequest EXCEPT ![r] = q]
        /\ UNCHANGED <<credential, audited, installed, stored, retired>>
    BY <1>1, <2>1 DEF HostKeys!Ask
  <2>4. /\ page' \in [KeyOperators ->
             [busy : {"no", "create", "row"}, revealed : Secrets \cup {NoSecret}]]
        /\ \A p \in KeyOperators : page'[p].revealed = page[p].revealed
    BY <1>0, <1>1 DEF HostKeys!Ask, KeyTypes
  <2> QED BY <1>1, <2>2, <2>3, <2>4, Requesting
<1>2. CASE HostKeys!createKey(o, r)
  BY <1>1, <1>2 DEF HostKeys!createKey
<1>3. ASSUME NEW k \in Issued, HostKeys!rotateKey(o, r, k) PROVE KeyInv'
  BY <1>0, <1>1, <1>3, KeyFacts DEF HostKeys!rotateKey, KeyTypes
<1>4. ASSUME NEW k \in Issued, HostKeys!revokeKey(o, r, k) PROVE KeyInv'
  BY <1>0, <1>1, <1>4, KeyFacts DEF HostKeys!revokeKey, KeyTypes
<1> QED BY <1>2, <1>3, <1>4

LEMMA KeyReach ==
  ASSUME KeyInv, NEW r \in Racers,
         HostKeys!FindKey(r) \/ HostKeys!Lose(r)
  PROVE  KeyInv'
<1>0. KeyTypes
  BY DEF KeyInv
<1>1. keyRequest[r] \in KeyRequest
  BY <1>0, KeyFacts DEF HostKeys!FindKey, HostKeys!Lose, KeyTypes
<1>2. PICK at \in {"write", "error"} :
        /\ keyRequest' = [keyRequest EXCEPT ![r].at = at]
        /\ UNCHANGED <<credential, audited, installed, page, stored, retired>>
  BY DEF HostKeys!FindKey, HostKeys!Lose, HostKeys!Reach
<1>3. PICK q : q = [keyRequest[r] EXCEPT !.at = at]
  OBVIOUS
<1>4. /\ q \in KeyRequest /\ q.op = keyRequest[r].op /\ q.key = keyRequest[r].key
      /\ q.at = at
  BY <1>1, <1>3 DEF KeyRequest
<1>5. keyRequest' = [keyRequest EXCEPT ![r] = q]
  BY <1>2, <1>3
<1> QED BY <1>0, <1>2, <1>4, <1>5, Requesting DEF KeyTypes

LEMMA KeyLand ==
  ASSUME KeyInv, NEW r \in Racers, HostKeys!Land(r)
  PROVE  KeyInv'
<1>0. KeyTypes
  BY DEF KeyInv
<1>1. keyRequest[r] \in KeyRequest /\ keyRequest[r].at \in {"answer", "error"}
  BY <1>0, KeyFacts DEF HostKeys!Land, KeyTypes
<1>2. PICK o \in KeyOperators : o = keyRequest[r].by
  BY <1>1 DEF KeyRequest
<1>3. PICK s : s = [key |-> keyRequest[r].result, replaces |-> keyRequest[r].key]
  OBVIOUS
<1>4. /\ keyRequest' = [keyRequest EXCEPT ![r] = HostKeys!Idle]
      /\ UNCHANGED <<credential, audited, installed, stored, retired>>
      /\ page' = [page EXCEPT ![o] =
           [busy |-> "no",
            revealed |-> IF keyRequest[r].at = "error" \/ keyRequest[r].op = "revoke"
                         THEN page[o].revealed ELSE s]]
  BY <1>2, <1>3 DEF HostKeys!Land
<1>5. keyRequest'[r] = HostKeys!Idle /\ \A q \in Racers \ {r} : keyRequest'[q] = keyRequest[q]
  BY <1>0, <1>4 DEF KeyTypes
<1>6. \A q \in Racers : keyRequest'[q].op \in {"rotate", "revoke"} =>
        keyRequest'[q].op = keyRequest[q].op /\ keyRequest'[q].key = keyRequest[q].key
  BY <1>5, KeyFacts
<1>7. Telling' = Telling \ {r}
  BY <1>5, KeyFacts DEF Telling
<1>8. \A p \in KeyOperators \ {o} : page'[p] = page[p]
  BY <1>0, <1>4 DEF KeyTypes
<1>9. keyRequest' \in [Racers -> {HostKeys!Idle} \cup KeyRequest]
      /\ \A q \in Racers :
           /\ keyRequest'[q].op \in {"rotate", "revoke"} => keyRequest'[q].key \in Keys
           /\ keyRequest'[q].op = "create" => keyRequest'[q].key = Nothing
           /\ keyRequest'[q].op \in {"create", "rotate"}
              /\ keyRequest'[q].at \in {"audit", "answer"} => keyRequest'[q].result \in Keys
  BY <1>0, <1>4, <1>5, KeyFacts DEF KeyTypes
<1>10. ASSUME NEW x \in Hand', x.in # "page" \/ x.of # o
       PROVE  x \in Hand /\ (x.of = r => x.in \in {"page", "store"})
  <2>1. ASSUME NEW q \in Telling',
               x = [in |-> keyRequest'[q].at, of |-> q,
                 secret |-> [key |-> keyRequest'[q].result, replaces |-> keyRequest'[q].key]]
        PROVE  x \in Hand /\ x.of # r
    <3>1. q \in Telling /\ q # r /\ keyRequest'[q] = keyRequest[q]
      BY <1>5, <1>7 DEF Telling
    <3> QED BY <2>1, <3>1, InHand
  <2>2. ASSUME NEW p \in Showing',
               x = [in |-> "page", of |-> p, secret |-> page'[p].revealed]
        PROVE  x \in Hand /\ x.in = "page"
    <3>1. p \in Showing /\ page'[p].revealed = page[p].revealed
      BY <1>8, <1>10, <2>2 DEF Showing
    <3> QED BY <2>2, <3>1, InHand
  <2>3. ASSUME NEW p \in KeyOperators, NEW z \in stored'[p],
               x = [in |-> "store", of |-> p, secret |-> z]
        PROVE  x \in Hand /\ x.in = "store"
    BY <1>4, <2>3, InHand
  <2> QED BY <2>1, <2>2, <2>3, InHandAfter
<1>11. CASE keyRequest[r].at = "error" \/ keyRequest[r].op = "revoke"
  <2>1. page'[o] = [busy |-> "no", revealed |-> page[o].revealed]
    BY <1>0, <1>4, <1>11 DEF KeyTypes
  <2>2. KeyTypes'
    BY <1>0, <1>4, <1>8, <1>9, <1>11 DEF KeyTypes
  <2>3. Hand' \subseteq Hand
    <3>1. ASSUME NEW x \in Hand', x.in = "page", x.of = o PROVE x \in Hand
      <4>1. o \in Showing' /\ x = [in |-> "page", of |-> o, secret |-> page'[o].revealed]
        BY <1>1, <1>9, <3>1, InHandAfter DEF Telling
      <4>2. o \in Showing /\ page'[o].revealed = page[o].revealed
        BY <2>1, <4>1 DEF Showing
      <4> QED BY <4>1, <4>2, InHand
    <3> QED BY <1>10, <3>1
  <2> QED BY <1>4, <1>6, <2>2, <2>3, FewerHands
<1>12. CASE ~(keyRequest[r].at = "error" \/ keyRequest[r].op = "revoke")
  <2>1. r \in Telling /\ keyRequest[r].at = "answer"
    BY <1>1, <1>12 DEF Telling, KeyRequest
  <2>2. s \in Secrets /\ s # NoSecret
    BY <1>0, <1>1, <1>3, <2>1, KeyFacts DEF KeyTypes, KeyRequest, Telling, Secrets
  <2>3. page'[o] = [busy |-> "no", revealed |-> s]
    BY <1>0, <1>4, <1>12 DEF KeyTypes
  <2>4. KeyTypes'
    BY <1>0, <1>4, <1>8, <1>9, <1>12, <2>2 DEF KeyTypes
  <2>5. PICK x : x = [in |-> "answer", of |-> r, secret |-> s]
    OBVIOUS
  <2>6. PICK y : y = [in |-> "page", of |-> o, secret |-> s]
    OBVIOUS
  <2>7. x \in Hand
    BY <1>3, <2>1, <2>5, InHand
  <2>8. Hand' \subseteq (Hand \ {x}) \cup {y}
    <3>1. ASSUME NEW z \in Hand', z.in = "page", z.of = o PROVE z = y
      <4>1. z = [in |-> "page", of |-> o, secret |-> page'[o].revealed]
        BY <1>1, <1>9, <3>1, InHandAfter DEF Telling
      <4> QED BY <2>3, <2>6, <4>1
    <3>2. ASSUME NEW z \in Hand', z.in # "page" \/ z.of # o PROVE z \in Hand \ {x}
      BY <1>10, <2>5, <3>2
    <3> QED BY <3>1, <3>2
  <2>9. y.secret = x.secret /\ x.in # "audit"
    BY <2>5, <2>6
  <2> QED BY <1>4, <1>6, <2>4, <2>7, <2>8, <2>9, HandMoves
<1> QED BY <1>11, <1>12

LEMMA KeyStore ==
  ASSUME KeyInv, NEW o \in KeyOperators, HostKeys!Store(o)
  PROVE  KeyInv'
<1>0. KeyTypes
  BY DEF KeyInv
<1>1. PICK s : s = page[o].revealed
  OBVIOUS
<1>2. /\ s \in Secrets /\ s # NoSecret /\ o \in Showing
      /\ stored' = [stored EXCEPT ![o] = @ \cup {s}]
      /\ page' = [page EXCEPT ![o].revealed = NoSecret]
      /\ UNCHANGED <<credential, audited, installed, retired, keyRequest>>
  BY <1>0, <1>1 DEF HostKeys!Store, KeyTypes, Showing, NoSecret
<1>3. KeyTypes'
  BY <1>0, <1>2 DEF KeyTypes
<1>4. PICK x : x = [in |-> "page", of |-> o, secret |-> s]
  OBVIOUS
<1>5. PICK y : y = [in |-> "store", of |-> o, secret |-> s]
  OBVIOUS
<1>6. x \in Hand
  BY <1>1, <1>2, <1>4, InHand
<1>7. Hand' \subseteq (Hand \ {x}) \cup {y}
  <2>1. Telling' = Telling /\ page'[o].revealed = NoSecret /\ Showing' = Showing \ {o}
        /\ (\A p \in KeyOperators \ {o} : page'[p] = page[p] /\ stored'[p] = stored[p])
        /\ stored'[o] = stored[o] \cup {s}
    BY <1>0, <1>2 DEF KeyTypes, Telling, Showing
  <2>2. ASSUME NEW z \in Hand' PROVE z \in (Hand \ {x}) \cup {y}
    <3>1. ASSUME NEW q \in Telling',
                 z = [in |-> keyRequest'[q].at, of |-> q,
                   secret |-> [key |-> keyRequest'[q].result, replaces |-> keyRequest'[q].key]]
          PROVE  z \in Hand /\ z.in \in {"audit", "answer"}
      BY <1>2, <2>1, <3>1, InHand DEF Telling
    <3>2. ASSUME NEW p \in Showing',
                 z = [in |-> "page", of |-> p, secret |-> page'[p].revealed]
          PROVE  z \in Hand /\ z.of # o
      <4>1. p \in Showing /\ p # o /\ page'[p] = page[p]
        BY <2>1 DEF Showing
      <4> QED BY <3>2, <4>1, InHand
    <3>3. ASSUME NEW p \in KeyOperators, NEW w \in stored'[p],
                 z = [in |-> "store", of |-> p, secret |-> w]
          PROVE  z = y \/ (z \in Hand /\ z.in = "store")
      <4>1. CASE p = o /\ w = s
        BY <1>5, <3>3, <4>1
      <4>2. CASE w \in stored[p]
        BY <3>3, <4>2, InHand
      <4> QED BY <2>1, <4>1, <4>2
    <3> QED BY <1>4, <3>1, <3>2, <3>3, InHandAfter
  <2> QED BY <2>2
<1>8. y.secret = x.secret /\ x.in # "audit"
  BY <1>4, <1>5
<1>9. \A q \in Racers : keyRequest'[q].op \in {"rotate", "revoke"} =>
        keyRequest'[q].op = keyRequest[q].op /\ keyRequest'[q].key = keyRequest[q].key
  BY <1>2
<1> QED BY <1>2, <1>3, <1>6, <1>7, <1>8, <1>9, HandMoves

LEMMA KeyDeploy ==
  ASSUME KeyInv, NEW o \in KeyOperators, NEW s \in stored[o], HostKeys!Deploy(o, s)
  PROVE  KeyInv'
<1>0. KeyTypes
  BY DEF KeyInv
<1>1. /\ s \in Secrets /\ installed' = s.key
      /\ stored' = [stored EXCEPT ![o] = @ \ {s}]
      /\ retired' = [retired EXCEPT ![o] = @ \cup ({s.replaces} \ {Nothing})]
      /\ UNCHANGED <<credential, audited, page, keyRequest>>
  BY <1>0 DEF HostKeys!Deploy, KeyTypes
<1>2. PICK x : x = [in |-> "store", of |-> o, secret |-> s]
  OBVIOUS
<1>3. x \in Hand /\ Fresh(x)
  BY <1>2, InHand DEF KeyInv
<1>4. s.key \in Keys /\ credential[s.key] = "active" /\ ~Used(s.key)
  BY <1>1, <1>2, <1>3 DEF Fresh, Secrets
<1>5. KeyTypes'
  BY <1>0, <1>1, <1>4 DEF KeyTypes, Secrets
<1>6. Hand' \subseteq Hand \ {x}
  <2>1. (\A p \in KeyOperators \ {o} : stored'[p] = stored[p]) /\ stored'[o] = stored[o] \ {s}
    BY <1>0, <1>1 DEF KeyTypes
  <2>2. ASSUME NEW z \in Hand' PROVE z \in Hand \ {x}
    <3>1. ASSUME NEW q \in Telling',
                 z = [in |-> keyRequest'[q].at, of |-> q,
                   secret |-> [key |-> keyRequest'[q].result, replaces |-> keyRequest'[q].key]]
          PROVE  z \in Hand /\ z.in \in {"audit", "answer"}
      BY <1>1, <3>1, InHand DEF Telling
    <3>2. ASSUME NEW p \in Showing',
                 z = [in |-> "page", of |-> p, secret |-> page'[p].revealed]
          PROVE  z \in Hand /\ z.in = "page"
      <4>1. p \in Showing /\ page'[p] = page[p]
        BY <1>1 DEF Showing
      <4> QED BY <3>2, <4>1, InHand
    <3>3. ASSUME NEW p \in KeyOperators, NEW w \in stored'[p],
                 z = [in |-> "store", of |-> p, secret |-> w]
          PROVE  z \in Hand /\ (z.of # o \/ z.secret # s)
      <4>1. w \in stored[p] /\ (p # o \/ w # s)
        BY <2>1
      <4> QED BY <3>3, <4>1, InHand
    <3> QED BY <1>2, <3>1, <3>2, <3>3, InHandAfter
  <2> QED BY <2>2
<1>7. \A k : Ending(k)' => Ending(k) \/ k = s.replaces
  BY <1>0, <1>1 DEF Ending, KeyTypes
<1>8. \A k : Used(k)' => Used(k) \/ k = s.key
  <2>1. \A k : k = s.replaces => Used(k)
    BY <1>2, <1>3 DEF Used
  <2> QED BY <1>1, <1>6, <1>7, <2>1 DEF Used
<1>9. Counted' /\ Issued' = Issued
  BY <1>1 DEF KeyInv, Counted, Issued, HostKeys!Issued, HostKeys!Keys
<1>10. InUse'
  <2>1. ~Ending(s.key) /\ s.key # s.replaces
    BY <1>2, <1>3, <1>4 DEF Used
  <2>2. s.key \in Issued
    BY <1>4 DEF Issued, HostKeys!Issued, Keys
  <2> QED BY <1>1, <1>4, <1>7, <1>8, <1>9, <2>1, <2>2 DEF KeyInv, InUse
<1>11. Apart'
  BY <1>6 DEF KeyInv, Apart
<1>12. ASSUME NEW z \in Hand' PROVE Fresh(z)'
  <2>1. z.secret.key # s.key
    BY <1>2, <1>3, <1>6 DEF KeyInv, Apart
  <2> QED BY <1>1, <1>6, <1>8, <2>1 DEF KeyInv, Fresh
<1> QED BY <1>5, <1>9, <1>10, <1>11, <1>12 DEF KeyInv

LEMMA KeyAudit ==
  ASSUME KeyInv, NEW r \in Racers, HostKeys!Audit(r)
  PROVE  KeyInv'
<1>0. KeyTypes
  BY DEF KeyInv
<1>1. keyRequest[r] \in KeyRequest /\ keyRequest[r].at = "audit"
  BY <1>0, KeyFacts DEF HostKeys!Audit, KeyTypes
<1>2. UNCHANGED <<credential, installed, page, stored, retired>>
  BY DEF HostKeys!Audit
<1>3. CASE keyRequest[r].op = "revoke" \/ keyRequest' = [keyRequest EXCEPT ![r].at = "error"]
  <2>1. PICK at \in {"answer", "error"} :
          /\ keyRequest' = [keyRequest EXCEPT ![r].at = at]
          /\ audited' = audited
          /\ at = "error" \/ keyRequest[r].op = "revoke"
    <3>1. CASE keyRequest[r].op = "revoke"
      BY <3>1 DEF HostKeys!Audit, HostKeys!Reach
    <3>2. CASE keyRequest' = [keyRequest EXCEPT ![r].at = "error"]
      <4>1. keyRequest'[r].at = "error"
        BY <1>0, <1>1, <3>2 DEF KeyTypes, KeyRequest
      <4>2. keyRequest' # [keyRequest EXCEPT ![r].at = "answer"]
        BY <1>0, <1>1, <4>1 DEF KeyTypes, KeyRequest
      <4> QED BY <3>2, <4>2 DEF HostKeys!Audit, HostKeys!Reach
    <3> QED BY <1>3, <3>1, <3>2
  <2>2. PICK q : q = [keyRequest[r] EXCEPT !.at = at]
    OBVIOUS
  <2>3. /\ q \in KeyRequest /\ q.op = keyRequest[r].op /\ q.key = keyRequest[r].key
        /\ q.at = at
    BY <1>1, <2>2 DEF KeyRequest
  <2>4. keyRequest' = [keyRequest EXCEPT ![r] = q]
    BY <2>1, <2>2
  <2>5. q.op \in {"rotate", "revoke"} => q.key \in Keys
    BY <1>0, <2>3 DEF KeyTypes
  <2>6. q.op = "create" => q.key = Nothing
    BY <1>0, <2>3 DEF KeyTypes
  <2>7. page' \in [KeyOperators ->
           [busy : {"no", "create", "row"}, revealed : Secrets \cup {NoSecret}]]
    BY <1>0, <1>2 DEF KeyTypes
  <2>8. q.op = "revoke" \/ q.at \notin {"audit", "answer"}
    BY <2>1, <2>3
  <2>9. UNCHANGED <<credential, audited, installed, stored, retired>>
        /\ \A o \in KeyOperators : page'[o].revealed = page[o].revealed
    BY <1>2, <2>1
  <2> QED BY <2>3, <2>4, <2>5, <2>6, <2>7, <2>8, <2>9, Requesting
<1>4. CASE /\ keyRequest[r].op # "revoke"
           /\ keyRequest' # [keyRequest EXCEPT ![r].at = "error"]
  <2>1. /\ keyRequest' = [keyRequest EXCEPT ![r].at = "answer"]
        /\ audited' = audited \cup {keyRequest[r].result}
    BY <1>4 DEF HostKeys!Audit, HostKeys!Reach
  <2>2. r \in Telling /\ keyRequest[r].op \in {"create", "rotate"}
    BY <1>1, <1>4 DEF Telling, KeyRequest
  <2>3. keyRequest[r].result \in Keys
    BY <1>0, <1>1, <2>2 DEF KeyTypes
  <2>4. PICK q : q = [keyRequest[r] EXCEPT !.at = "answer"]
    OBVIOUS
  <2>5. /\ q \in KeyRequest /\ q.op = keyRequest[r].op /\ q.key = keyRequest[r].key
        /\ q.at = "answer" /\ q.result = keyRequest[r].result
    BY <1>1, <2>4 DEF KeyRequest
  <2>6. /\ keyRequest'[r] = q
        /\ \A p \in Racers \ {r} : keyRequest'[p] = keyRequest[p]
        /\ keyRequest' \in [Racers -> {HostKeys!Idle} \cup KeyRequest]
    BY <1>0, <2>1, <2>4, <2>5 DEF KeyTypes
  <2>7. KeyTypes'
    BY <1>0, <1>1, <1>2, <2>1, <2>3, <2>5, <2>6 DEF KeyTypes
  <2>8. PICK s : s = [key |-> keyRequest[r].result, replaces |-> keyRequest[r].key]
    OBVIOUS
  <2>9. PICK x : x = [in |-> "audit", of |-> r, secret |-> s]
    OBVIOUS
  <2>10. PICK y : y = [in |-> "answer", of |-> r, secret |-> s]
    OBVIOUS
  <2>11. x \in Hand
    BY <1>1, <2>2, <2>8, <2>9, InHand
  <2>12. Hand' \subseteq (Hand \ {x}) \cup {y}
    <3>1. ASSUME NEW z \in Hand' PROVE z \in (Hand \ {x}) \cup {y}
      <4>1. ASSUME NEW p \in Telling',
                   z = [in |-> keyRequest'[p].at, of |-> p,
                     secret |-> [key |-> keyRequest'[p].result, replaces |-> keyRequest'[p].key]]
            PROVE  z = y \/ (z \in Hand /\ z.of # r)
        <5>1. CASE p = r
          <6>1. z = [in |-> q.at, of |-> r, secret |-> [key |-> q.result, replaces |-> q.key]]
            BY <2>6, <4>1, <5>1
          <6> QED BY <2>5, <2>8, <2>10, <6>1
        <5>2. CASE p # r
          <6>1. p \in Telling /\ keyRequest'[p] = keyRequest[p]
            BY <2>6, <5>2 DEF Telling
          <6> QED BY <4>1, <5>2, <6>1, InHand
        <5> QED BY <5>1, <5>2
      <4>2. ASSUME NEW p \in Showing',
                   z = [in |-> "page", of |-> p, secret |-> page'[p].revealed]
            PROVE  z \in Hand /\ z.in = "page"
        <5>1. p \in Showing /\ page'[p] = page[p]
          BY <1>2 DEF Showing
        <5> QED BY <4>2, <5>1, InHand
      <4>3. ASSUME NEW p \in KeyOperators, NEW w \in stored'[p],
                   z = [in |-> "store", of |-> p, secret |-> w]
            PROVE  z \in Hand /\ z.in = "store"
        BY <1>2, <4>3, InHand
      <4> QED BY <2>9, <4>1, <4>2, <4>3, InHandAfter
    <3> QED BY <3>1
  <2>13. y.secret = x.secret /\ x.secret.key \in audited'
    BY <2>1, <2>8, <2>9, <2>10
  <2>14. \A p \in Racers : keyRequest'[p].op \in {"rotate", "revoke"} =>
           keyRequest'[p].op = keyRequest[p].op /\ keyRequest'[p].key = keyRequest[p].key
    BY <2>5, <2>6
  <2> QED BY <1>2, <2>1, <2>7, <2>11, <2>12, <2>13, <2>14, HandMoves
<1> QED BY <1>3, <1>4

\* The next key is one that was never issued.
LEMMA KeyCount ==
  ASSUME KeyInv, HostKeys!NextKey \in Keys
  PROVE  /\ HostKeys!NextKey \notin Issued
         /\ \E n \in Nat : Issued \cup {HostKeys!NextKey} = 1 .. n
<1>1. PICK n \in Nat : Issued = 1 .. n
  BY DEF KeyInv, Counted
<1>2. Cardinality(1 .. n) = n
  BY <1>1, FS_Interval
<1>3. HostKeys!NextKey = n + 1
  <2>1. HostKeys!Issued = 1 .. n
    BY <1>1 DEF Issued
  <2>2. Cardinality(HostKeys!Issued) = n
    BY <1>2, <2>1
  <2>3. HostKeys!Cardinality(HostKeys!Issued) = Cardinality(HostKeys!Issued)
    BY DEF HostKeys!Cardinality, Cardinality
  <2> QED BY <2>2, <2>3 DEF HostKeys!NextKey
<1>4. Issued \cup {n + 1} = 1 .. (n + 1)
  BY <1>1
<1> QED BY <1>1, <1>3, <1>4

LEMMA KeyIssue ==
  ASSUME KeyInv, NEW r \in Racers, HostKeys!Write(r), keyRequest[r].op # "revoke"
  PROVE  KeyInv'
<1>0. KeyTypes
  BY DEF KeyInv
<1>1. keyRequest[r] \in KeyRequest /\ keyRequest[r].op \in {"create", "rotate"}
      /\ keyRequest[r].at = "write"
  BY <1>0, KeyFacts DEF HostKeys!Write, KeyTypes, KeyRequest
<1>2. PICK k \in Keys : k = HostKeys!NextKey
  BY DEF HostKeys!Write, HostKeys!issueApplicationCredential, Keys
<1>3. /\ credential' = [credential EXCEPT ![k] = "active"]
      /\ keyRequest' = [keyRequest EXCEPT ![r].at = "audit", ![r].result = k]
      /\ UNCHANGED <<audited, installed, page, stored, retired>>
  BY <1>2 DEF HostKeys!Write, HostKeys!issueApplicationCredential
<1>4. k \notin Issued /\ \E n \in Nat : Issued \cup {k} = 1 .. n
  BY <1>2, KeyCount
<1>5. PICK q : q = [keyRequest[r] EXCEPT !.at = "audit", !.result = k]
  OBVIOUS
<1>6. /\ q \in KeyRequest /\ q.op = keyRequest[r].op /\ q.key = keyRequest[r].key
      /\ q.at = "audit" /\ q.result = k
  BY <1>1, <1>2, <1>5 DEF KeyRequest
<1>7. /\ keyRequest'[r] = q
      /\ \A p \in Racers \ {r} : keyRequest'[p] = keyRequest[p]
      /\ keyRequest' \in [Racers -> {HostKeys!Idle} \cup KeyRequest]
  <2>1. keyRequest' = [keyRequest EXCEPT ![r] = q]
    BY <1>3, <1>5
  <2> QED BY <1>0, <1>6, <2>1 DEF KeyTypes
<1>8. /\ credential' \in [Keys -> {"free", "active", "revoked"}]
      /\ credential'[k] = "active"
      /\ \A c \in Keys \ {k} : credential'[c] = credential[c]
  BY <1>0, <1>3 DEF KeyTypes
<1>9. KeyTypes'
  BY <1>0, <1>1, <1>3, <1>6, <1>7, <1>8 DEF KeyTypes
<1>10. Issued' = Issued \cup {k} /\ Counted'
  <2>1. Issued' = Issued \cup {k}
    BY <1>8 DEF Issued, HostKeys!Issued, HostKeys!Keys, Keys
  <2> QED BY <1>4, <2>1 DEF Counted
<1>11. PICK y : y = [in |-> "audit", of |-> r, secret |-> [key |-> k, replaces |-> q.key]]
  OBVIOUS
<1>12. Hand' \subseteq Hand \cup {y}
  <2>1. ASSUME NEW z \in Hand' PROVE z \in Hand \cup {y}
    <3>1. ASSUME NEW p \in Telling',
                 z = [in |-> keyRequest'[p].at, of |-> p,
                   secret |-> [key |-> keyRequest'[p].result, replaces |-> keyRequest'[p].key]]
          PROVE  z = y \/ z \in Hand
      <4>1. CASE p = r
        <5>1. z = [in |-> q.at, of |-> r, secret |-> [key |-> q.result, replaces |-> q.key]]
          BY <1>7, <3>1, <4>1
        <5> QED BY <1>6, <1>11, <5>1
      <4>2. CASE p # r
        <5>1. p \in Telling /\ keyRequest'[p] = keyRequest[p]
          BY <1>7, <4>2 DEF Telling
        <5> QED BY <3>1, <5>1, InHand
      <4> QED BY <4>1, <4>2
    <3>2. ASSUME NEW p \in Showing',
                 z = [in |-> "page", of |-> p, secret |-> page'[p].revealed]
          PROVE  z \in Hand
      <4>1. p \in Showing /\ page'[p] = page[p]
        BY <1>3 DEF Showing
      <4> QED BY <3>2, <4>1, InHand
    <3>3. ASSUME NEW p \in KeyOperators, NEW w \in stored'[p],
                 z = [in |-> "store", of |-> p, secret |-> w]
          PROVE  z \in Hand
      BY <1>3, <3>3, InHand
    <3> QED BY <3>1, <3>2, <3>3, InHandAfter
  <2> QED BY <2>1
<1>13. \A c \in Keys : Used(c)' => Used(c)
  <2>1. ASSUME NEW c \in Keys, Ending(c)' PROVE Ending(c)
    BY <1>3, <1>6, <1>7, <2>1 DEF Ending
  <2>2. ASSUME NEW c \in Keys, q.key = c PROVE Used(c)
    <3>1. keyRequest[r].op = "rotate" /\ keyRequest[r].key = c
      BY <1>0, <1>1, <1>6, <2>2, KeyFacts DEF KeyTypes
    <3> QED BY <3>1 DEF Used
  <2>3. ASSUME NEW c \in Keys, NEW x \in Hand', x.secret.replaces = c PROVE Used(c)
    <3>1. CASE x = y
      BY <1>11, <2>2, <2>3, <3>1
    <3>2. CASE x \in Hand
      BY <2>3, <3>2 DEF Used
    <3> QED BY <1>12, <3>1, <3>2
  <2> QED BY <1>3, <1>6, <1>7, <2>1, <2>3 DEF Used
<1>14. \A c \in Keys : Ending(c)' => Ending(c)
  BY <1>3, <1>6, <1>7 DEF Ending
<1>15. ~Used(k)
  BY <1>4 DEF KeyInv, InUse
<1>16. InUse'
  <2>1. installed \in Keys /\ installed # k
    BY <1>0, <1>15 DEF KeyTypes, Used
  <2> QED BY <1>3, <1>8, <1>10, <1>13, <1>14, <2>1 DEF KeyInv, InUse
<1>17. ASSUME NEW x \in Hand PROVE x.secret.key \in Keys \ {k} /\ Fresh(x)
  <2>1. Fresh(x)
    BY DEF KeyInv
  <2>2. x.secret.key \in Keys /\ credential[x.secret.key] = "active"
    BY <2>1 DEF Fresh, Secrets
  <2>3. x.secret.key \in Issued
    BY <2>2 DEF Issued, HostKeys!Issued, Keys
  <2> QED BY <1>4, <2>1, <2>2, <2>3
<1>18. Apart'
  <2>1. y.secret.key = k
    BY <1>11
  <2> QED BY <1>12, <1>17, <2>1 DEF KeyInv, Apart
<1>19. ASSUME NEW x \in Hand' PROVE Fresh(x)'
  <2>1. CASE x \in Hand
    BY <1>3, <1>8, <1>13, <1>17, <2>1 DEF Fresh
  <2>2. CASE x = y
    <3>1. y.secret = [key |-> k, replaces |-> q.key] /\ y.in = "audit"
      BY <1>11
    <3>2. y.secret \in Secrets /\ y.secret.key = k
      BY <1>6, <3>1 DEF Secrets, KeyRequest
    <3>3. ~Used(k)'
      BY <1>13, <1>15
    <3> QED BY <1>8, <2>2, <3>1, <3>2, <3>3 DEF Fresh
  <2> QED BY <1>12, <2>1, <2>2
<1> QED BY <1>9, <1>10, <1>16, <1>18, <1>19 DEF KeyInv

LEMMA KeyRevoke ==
  ASSUME KeyInv, NEW r \in Racers, HostKeys!Write(r), keyRequest[r].op = "revoke"
  PROVE  KeyInv'
<1>0. KeyTypes
  BY DEF KeyInv
<1>1. keyRequest[r] \in KeyRequest
  BY <1>0, KeyFacts DEF KeyTypes
<1>2. PICK k \in Keys : k = keyRequest[r].key
  BY <1>0 DEF KeyTypes
<1>3. /\ credential' = [credential EXCEPT ![k] = "revoked"]
      /\ keyRequest' = [keyRequest EXCEPT ![r].at = "audit", ![r].result = k]
      /\ UNCHANGED <<audited, installed, page, stored, retired>>
  BY <1>2 DEF HostKeys!Write, HostKeys!revokeApplicationCredential
<1>4. Ending(k) /\ Used(k)
  BY <1>2 DEF Ending, Used
<1>5. PICK q : q = [keyRequest[r] EXCEPT !.at = "audit", !.result = k]
  OBVIOUS
<1>6. /\ q \in KeyRequest /\ q.op = "revoke" /\ q.key = keyRequest[r].key
  BY <1>1, <1>2, <1>5 DEF KeyRequest
<1>7. /\ keyRequest'[r] = q
      /\ \A p \in Racers \ {r} : keyRequest'[p] = keyRequest[p]
      /\ keyRequest' \in [Racers -> {HostKeys!Idle} \cup KeyRequest]
  <2>1. keyRequest' = [keyRequest EXCEPT ![r] = q]
    BY <1>3, <1>5
  <2> QED BY <1>0, <1>6, <2>1 DEF KeyTypes
<1>8. /\ credential' \in [Keys -> {"free", "active", "revoked"}]
      /\ credential'[k] = "revoked"
      /\ \A c \in Keys \ {k} : credential'[c] = credential[c]
  BY <1>0, <1>3 DEF KeyTypes
<1>9. KeyTypes'
  BY <1>0, <1>1, <1>2, <1>3, <1>6, <1>7, <1>8 DEF KeyTypes
<1>10. Issued' = Issued /\ Counted'
  <2>1. k \in Issued
    BY <1>4 DEF KeyInv, InUse
  <2>2. Issued' = Issued
    BY <1>8, <2>1 DEF Issued, HostKeys!Issued, HostKeys!Keys, Keys
  <2> QED BY <2>2 DEF KeyInv, Counted
<1>11. Hand' \subseteq Hand
  <2>1. ASSUME NEW z \in Hand' PROVE z \in Hand
    <3>1. ASSUME NEW p \in Telling',
                 z = [in |-> keyRequest'[p].at, of |-> p,
                   secret |-> [key |-> keyRequest'[p].result, replaces |-> keyRequest'[p].key]]
          PROVE  z \in Hand
      <4>1. p \in Telling /\ keyRequest'[p] = keyRequest[p]
        BY <1>6, <1>7 DEF Telling
      <4> QED BY <3>1, <4>1, InHand
    <3>2. ASSUME NEW p \in Showing',
                 z = [in |-> "page", of |-> p, secret |-> page'[p].revealed]
          PROVE  z \in Hand
      <4>1. p \in Showing /\ page'[p] = page[p]
        BY <1>3 DEF Showing
      <4> QED BY <3>2, <4>1, InHand
    <3>3. ASSUME NEW p \in KeyOperators, NEW w \in stored'[p],
                 z = [in |-> "store", of |-> p, secret |-> w]
          PROVE  z \in Hand
      BY <1>3, <3>3, InHand
    <3> QED BY <3>1, <3>2, <3>3, InHandAfter
  <2> QED BY <2>1
<1>12. \A c : Ending(c)' => Ending(c)
  BY <1>3, <1>6, <1>7 DEF Ending
<1>13. \A c : Used(c)' => Used(c)
  BY <1>3, <1>6, <1>7, <1>11, <1>12 DEF Used
<1>14. InUse'
  <2>1. installed \in Keys /\ installed # k
    BY <1>0, <1>4 DEF KeyInv, KeyTypes, InUse
  <2> QED BY <1>3, <1>8, <1>10, <1>12, <1>13, <2>1 DEF KeyInv, InUse
<1>15. Apart'
  BY <1>11 DEF KeyInv, Apart
<1>16. ASSUME NEW x \in Hand' PROVE Fresh(x)'
  <2>1. Fresh(x)
    BY <1>11 DEF KeyInv
  <2>2. x.secret.key \in Keys \ {k}
    BY <1>4, <2>1 DEF Fresh, Secrets
  <2> QED BY <1>3, <1>8, <1>13, <2>1, <2>2 DEF Fresh
<1> QED BY <1>9, <1>10, <1>14, <1>15, <1>16 DEF KeyInv

LEMMA KeyStep ==
  ASSUME KeyInv, HostKeys!Next
  PROVE  KeyInv'
<1>1. ASSUME NEW o \in KeyOperators, HostKeys!Store(o) PROVE KeyInv'
  BY <1>1, KeyStore
<1>2. ASSUME NEW o \in KeyOperators, NEW s \in stored[o], HostKeys!Deploy(o, s) PROVE KeyInv'
  BY <1>2, KeyDeploy
<1>3. ASSUME NEW o \in KeyOperators, NEW r \in Racers,
             \/ HostKeys!createKey(o, r)
             \/ \E k \in Issued : HostKeys!rotateKey(o, r, k) \/ HostKeys!revokeKey(o, r, k)
      PROVE  KeyInv'
  BY <1>3, KeyAsk
<1>4. ASSUME NEW r \in Racers, HostKeys!FindKey(r) \/ HostKeys!Lose(r) PROVE KeyInv'
  BY <1>4, KeyReach
<1>5. ASSUME NEW r \in Racers, HostKeys!Write(r) PROVE KeyInv'
  BY <1>5, KeyIssue, KeyRevoke
<1>6. ASSUME NEW r \in Racers, HostKeys!Audit(r) PROVE KeyInv'
  BY <1>6, KeyAudit
<1>7. ASSUME NEW r \in Racers, HostKeys!Land(r) PROVE KeyInv'
  BY <1>7, KeyLand
<1> QED BY <1>1, <1>2, <1>3, <1>4, <1>5, <1>6, <1>7 DEF HostKeys!Next, Issued

LEMMA KeyStart ==
  ASSUME HostKeys!Init
  PROVE  KeyInv
<1>1. 1 \in Keys /\ Issued = {1}
  BY KeyFacts DEF HostKeys!Init, Issued, HostKeys!Issued, HostKeys!Keys
<1>2. KeyTypes
  BY <1>1, KeyFacts DEF HostKeys!Init, KeyTypes, Keys, NoSecret
<1>3. Counted
  <2>1. {1} = 1 .. 1
    OBVIOUS
  <2> QED BY <1>1, <2>1 DEF Counted
<1>4. Hand = {}
  BY InHand, KeyFacts DEF HostKeys!Init, Telling, Showing, NoSecret
<1>5. \A k : ~Ending(k)
  BY KeyFacts DEF HostKeys!Init, Ending
<1>6. \A k : Used(k) => k = 1
  BY <1>4, <1>5, KeyFacts DEF HostKeys!Init, Used
<1>7. InUse
  BY <1>1, <1>5, <1>6 DEF HostKeys!Init, InUse, Keys
<1> QED BY <1>2, <1>3, <1>4, <1>7 DEF KeyInv, Apart

LEMMA KeysAreSafe ==
  ASSUME KeyInv
  PROVE  HostKeys!RotationIsSafe
<1>0. KeyTypes
  BY DEF KeyInv
<1>1. HostKeys!Accepted(installed)
  BY <1>0 DEF KeyInv, InUse, KeyTypes, HostKeys!Accepted, HostKeys!Active, Keys
<1>2. ASSUME NEW o \in KeyOperators, NEW k \in HostKeys!Held(o)
      PROVE  \E x \in Hand : x.in \in {"page", "store"} /\ x.of = o /\ x.secret.key = k
  <2>1. PICK s \in stored[o] \cup ({page[o].revealed} \ {NoSecret}) : s.key = k
    BY <1>2 DEF HostKeys!Held, NoSecret
  <2>2. CASE s \in stored[o]
    <3>1. PICK x : x = [in |-> "store", of |-> o, secret |-> s]
      OBVIOUS
    <3>2. x \in Hand
      BY <2>2, <3>1, InHand
    <3> QED BY <2>1, <3>1, <3>2
  <2>3. CASE s = page[o].revealed /\ s # NoSecret
    <3>1. PICK x : x = [in |-> "page", of |-> o, secret |-> s]
      OBVIOUS
    <3>2. x \in Hand
      BY <2>3, <3>1, InHand DEF Showing
    <3> QED BY <2>1, <3>1, <3>2
  <2> QED BY <2>1, <2>2, <2>3
<1>3. ASSUME NEW o \in KeyOperators, NEW k \in HostKeys!Held(o)
      PROVE  HostKeys!Accepted(k) /\ k \in audited
  <2>1. PICK x \in Hand : x.in # "audit" /\ x.secret.key = k
    BY <1>2
  <2>2. Fresh(x)
    BY DEF KeyInv
  <2> QED BY <2>1, <2>2 DEF Fresh, Secrets, HostKeys!Accepted, HostKeys!Active, Keys
<1>4. ASSUME NEW o \in KeyOperators, NEW p \in KeyOperators \ {o}
      PROVE  HostKeys!Held(o) \cap HostKeys!Held(p) = {}
  BY <1>2 DEF KeyInv, Apart
<1> QED BY <1>1, <1>3, <1>4 DEF HostKeys!RotationIsSafe

-------------------------------------------------------------------------------
(* The tokens of the browsers.                                             *)

TokenRow == BrowserReads!Row
TokenRead ==
  [at : {"resolve", "read"}, token : Tokens, customer : Customers \cup {Nothing},
   environment : Places \cup {Nothing}, began : Nat, revoked : BOOLEAN]

TokenTypes ==
  /\ clock \in Nat
  /\ token \in [Tokens -> TokenRow \cup {BrowserReads!NoToken}]
  /\ told \subseteq known /\ known \subseteq Tokens
  /\ read \in [Racers -> {BrowserReads!Idle} \cup TokenRead]

\* What is read is of the customer and the environment of the token, and the
\* read began while the token stood.
Scoped(a) ==
  /\ a.token \in known /\ a.began < token[a.token].expiresAt /\ ~a.revoked
  /\ a.customer = token[a.token].customer
  /\ a.environment = token[a.token].environment

Begun(q) ==
  /\ q.token \in known /\ q.began <= clock
  /\ q.revoked => token[q.token].revoked
  /\ q.at = "read" => Scoped(q)

TokenInv ==
  /\ TokenTypes
  /\ \A t \in known : token[t] \in TokenRow
  /\ \A t \in told : token[t].revoked
  /\ \A r \in Racers : read[r] # BrowserReads!Idle => Begun(read[r])
  /\ \A a \in answers : Scoped(a)

LEMMA TokenFacts ==
  /\ Nothing \notin Customers \cup Places
  /\ MinTtl \in Nat /\ MaxTtl \in Nat /\ Ttls \subseteq Int
  /\ BrowserReads!NoToken \notin TokenRow /\ BrowserReads!Idle \notin TokenRead
  /\ BrowserReads!NoToken.revoked
<1>1. Nothing \notin Customers \cup Places
  BY ConsoleAssumption DEF BrowserReads!TokensAssumption
<1>2. MinTtl \in Nat /\ MaxTtl \in Nat /\ Ttls \subseteq Int
  BY ConsoleAssumption DEF BrowserReads!TokensAssumption
<1>3. BrowserReads!NoToken \notin TokenRow /\ BrowserReads!NoToken.revoked
  BY <1>1 DEF BrowserReads!NoToken, TokenRow, BrowserReads!Row
<1>4. BrowserReads!Idle \notin TokenRead
  BY DEF BrowserReads!Idle, TokenRead
<1> QED BY <1>1, <1>2, <1>3, <1>4

\* The backend issues and revokes: no token that is known changes but in that
\* it is revoked.
LEMMA TokensChange ==
  ASSUME TokenInv, TokenTypes', clock' = clock, UNCHANGED <<read, answers>>,
         known \subseteq known',
         \A t \in known :
           /\ token'[t] \in TokenRow /\ (token[t].revoked => token'[t].revoked)
           /\ token'[t].customer = token[t].customer
           /\ token'[t].environment = token[t].environment
           /\ token'[t].expiresAt = token[t].expiresAt,
         \A t \in known' \ known : token'[t] \in TokenRow,
         \A t \in told' \ told : token'[t].revoked
  PROVE  TokenInv'
<1>1. \A a : Scoped(a) => Scoped(a)'
  BY DEF Scoped
<1>2. \A q : Begun(q) => Begun(q)'
  BY <1>1 DEF Begun
<1>3. told \subseteq known
  BY DEF TokenInv, TokenTypes
<1> QED BY <1>1, <1>2, <1>3 DEF TokenInv

LEMMA TokenPost ==
  ASSUME TokenInv, NEW t \in Tokens, NEW c \in Customers, NEW e \in Places,
         NEW ttl \in Ttls, BrowserReads!PostToken(t, c, e, ttl)
  PROVE  TokenInv'
<1>0. TokenTypes
  BY DEF TokenInv
<1>1. PICK w : w = [customer |-> c, environment |-> e, expiresAt |-> clock + ttl,
                    revoked |-> FALSE]
  OBVIOUS
<1>2. clock \in Nat /\ ttl \in Nat
  BY <1>0, TokenFacts DEF TokenTypes, BrowserReads!PostToken,
     BrowserReads!issueCustomerReadToken
<1>3. w \in TokenRow
  BY <1>1, <1>2 DEF TokenRow, BrowserReads!Row
<1>4. /\ token[t] = BrowserReads!NoToken
      /\ token' = [token EXCEPT ![t] = w]
      /\ known' \in {known, known \cup {t}}
      /\ UNCHANGED <<clock, told, read, answers>>
  BY <1>1 DEF BrowserReads!PostToken, BrowserReads!issueCustomerReadToken,
     BrowserReads!createCustomerReadToken
<1>5. t \notin known
  BY <1>4, TokenFacts DEF TokenInv
<1>6. token'[t] = w /\ \A u \in Tokens \ {t} : token'[u] = token[u]
  BY <1>0, <1>4 DEF TokenTypes
<1>7. TokenTypes'
  BY <1>0, <1>3, <1>4 DEF TokenTypes
<1>8. known \subseteq Tokens /\ \A u \in known : token[u] \in TokenRow
  BY <1>0 DEF TokenInv, TokenTypes
<1>9. \A u \in known : token'[u] = token[u]
  BY <1>5, <1>6, <1>8
<1> QED BY <1>3, <1>4, <1>6, <1>7, <1>8, <1>9, TokensChange

LEMMA TokenDelete ==
  ASSUME TokenInv, NEW t \in Tokens, BrowserReads!DeleteToken(t)
  PROVE  TokenInv'
<1>0. TokenTypes
  BY DEF TokenInv
<1>1. /\ t \in known /\ token' = [token EXCEPT ![t].revoked = TRUE]
      /\ told' \in {told, told \cup {t}}
      /\ UNCHANGED <<clock, known, read, answers>>
  BY DEF BrowserReads!DeleteToken, BrowserReads!revokeCustomerReadToken, BrowserReads!Confirm
<1>2. PICK w : w = [token[t] EXCEPT !.revoked = TRUE]
  OBVIOUS
<1>3. token[t] \in TokenRow
  BY <1>1 DEF TokenInv
<1>4. /\ w \in TokenRow /\ w.revoked /\ w.customer = token[t].customer
      /\ w.environment = token[t].environment /\ w.expiresAt = token[t].expiresAt
  BY <1>2, <1>3 DEF TokenRow, BrowserReads!Row
<1>5. token' = [token EXCEPT ![t] = w]
  BY <1>1, <1>2
<1>6. token'[t] = w /\ \A u \in Tokens \ {t} : token'[u] = token[u]
  BY <1>0, <1>5 DEF TokenTypes
<1>7. TokenTypes'
  BY <1>0, <1>1, <1>4, <1>5 DEF TokenTypes
<1>8. known \subseteq Tokens /\ \A u \in known : token[u] \in TokenRow
  BY <1>0 DEF TokenInv, TokenTypes
<1> QED BY <1>1, <1>4, <1>6, <1>7, <1>8, TokensChange

\* A request of a browser, and what becomes of it.
LEMMA TokenRequest ==
  ASSUME TokenInv, NEW r \in Racers, NEW q \in {BrowserReads!Idle} \cup TokenRead,
         read' = [read EXCEPT ![r] = q], q # BrowserReads!Idle => Begun(q),
         UNCHANGED <<clock, token, known, told>>,
         \A a \in answers' \ answers : Scoped(a)
  PROVE  TokenInv'
<1>1. TokenTypes'
  BY DEF TokenInv, TokenTypes
<1>2. read'[r] = q /\ \A s \in Racers \ {r} : read'[s] = read[s]
  BY DEF TokenInv, TokenTypes
<1>3. \A a : Scoped(a) => Scoped(a)'
  BY DEF Scoped
<1>4. \A s : Begun(s) => Begun(s)'
  BY <1>3 DEF Begun
<1> QED BY <1>1, <1>2, <1>3, <1>4 DEF TokenInv

LEMMA TokenAsk ==
  ASSUME TokenInv, NEW r \in Racers, NEW t \in Tokens, NEW c \in Customers \cup {Nothing},
         NEW e \in Places \cup {Nothing}, BrowserReads!Ask(r, t, c, e)
  PROVE  TokenInv'
<1>1. PICK q : q = [at |-> "resolve", token |-> t, customer |-> c, environment |-> e,
                    began |-> clock, revoked |-> t \in told]
  OBVIOUS
<1>2. t \in known /\ read' = [read EXCEPT ![r] = q]
      /\ UNCHANGED <<clock, token, known, told, answers>>
  BY <1>1 DEF BrowserReads!Ask
<1>3. clock \in Nat /\ (t \in told => token[t].revoked)
  BY DEF TokenInv, TokenTypes
<1>4. q.token = t /\ q.began = clock /\ q.at = "resolve" /\ (q.revoked <=> t \in told)
  BY <1>1
<1>5. q \in TokenRead
  BY <1>1, <1>3 DEF TokenRead
<1>6. Begun(q)
  BY <1>2, <1>3, <1>4 DEF Begun
<1> QED BY <1>2, <1>5, <1>6, TokenRequest

LEMMA TokenResolve ==
  ASSUME TokenInv, NEW r \in Racers, BrowserReads!resolveCustomerReadToken(r)
  PROVE  TokenInv'
<1>1. read[r] \in TokenRead /\ read[r].at = "resolve"
  BY DEF TokenInv, TokenTypes, BrowserReads!resolveCustomerReadToken, BrowserReads!Idle
<1>2. Begun(read[r]) /\ read[r].token \in known
  BY <1>1, TokenFacts DEF TokenInv, Begun
<1>3. token[read[r].token] \in TokenRow
  BY <1>2 DEF TokenInv
<1>4. PICK q : q = [read[r] EXCEPT !.at = "read", !.customer = token[read[r].token].customer,
                       !.environment = token[read[r].token].environment]
  OBVIOUS
<1>5. /\ q \in TokenRead /\ q.at = "read" /\ q.token = read[r].token
      /\ q.began = read[r].began /\ q.revoked = read[r].revoked
      /\ q.customer = token[q.token].customer /\ q.environment = token[q.token].environment
  BY <1>1, <1>3, <1>4 DEF TokenRead, TokenRow, BrowserReads!Row
<1>6. \/ read' = [read EXCEPT ![r] = BrowserReads!Idle]
      \/ /\ BrowserReads!Usable(read[r].token)
         /\ read' = [read EXCEPT ![r] = q]
  BY <1>4 DEF BrowserReads!resolveCustomerReadToken
<1>7. ASSUME BrowserReads!Usable(read[r].token) PROVE Begun(q)
  <2>1. read[r].began \in Nat /\ clock \in Nat /\ read[r].began <= clock
        /\ token[read[r].token].expiresAt \in Nat
    BY <1>1, <1>2, <1>3 DEF TokenRead, TokenInv, TokenTypes, Begun, TokenRow, BrowserReads!Row
  <2>2. q.began < token[q.token].expiresAt
    BY <1>5, <1>7, <2>1 DEF BrowserReads!Usable
  <2>3. ~q.revoked
    BY <1>2, <1>5, <1>7 DEF Begun, BrowserReads!Usable
  <2> QED BY <1>2, <1>5, <2>1, <2>2, <2>3 DEF Begun, Scoped
<1>8. UNCHANGED <<clock, token, known, told, answers>>
  BY DEF BrowserReads!resolveCustomerReadToken
<1> QED BY <1>5, <1>6, <1>7, <1>8, TokenRequest

LEMMA TokenAnswer ==
  ASSUME TokenInv, NEW r \in Racers, BrowserReads!Read(r)
  PROVE  TokenInv'
<1>1. read[r] \in TokenRead /\ read[r].at = "read"
  BY DEF TokenInv, TokenTypes, BrowserReads!Read, BrowserReads!Idle
<1>2. Scoped(read[r])
  BY <1>1, TokenFacts DEF TokenInv, Begun
<1>3. PICK a : a = [read[r] EXCEPT !.at = "answer"]
  OBVIOUS
<1>4. Scoped(a)
  BY <1>1, <1>2, <1>3 DEF Scoped, TokenRead
<1>5. /\ read' = [read EXCEPT ![r] = BrowserReads!Idle] /\ answers' = answers \cup {a}
      /\ UNCHANGED <<clock, token, known, told>>
  BY <1>3 DEF BrowserReads!Read
<1> QED BY <1>4, <1>5, TokenRequest

LEMMA TokenStep ==
  ASSUME TokenInv, BrowserReads!Next
  PROVE  TokenInv'
<1>1. CASE BrowserReads!Tick
  <2>1. clock' = clock + 1 /\ UNCHANGED <<token, known, told, read, answers>>
    BY <1>1 DEF BrowserReads!Tick
  <2>2. TokenTypes /\ TokenTypes'
    BY <2>1 DEF TokenInv, TokenTypes
  <2>3. \A a : Scoped(a) => Scoped(a)'
    BY <2>1 DEF Scoped
  <2>4. ASSUME NEW s \in Racers, read[s] # BrowserReads!Idle PROVE Begun(read[s])'
    <3>1. Begun(read[s]) /\ read[s].began \in Nat /\ clock \in Nat
      BY <2>2, <2>4 DEF TokenInv, TokenTypes, TokenRead
    <3>2. read[s].began <= clock + 1
      BY <3>1 DEF Begun
    <3> QED BY <2>1, <2>3, <3>1, <3>2 DEF Begun
  <2> QED BY <2>1, <2>2, <2>3, <2>4 DEF TokenInv
<1>2. ASSUME NEW t \in Tokens, BrowserReads!DeleteToken(t) PROVE TokenInv'
  BY <1>2, TokenDelete
<1>3. ASSUME NEW t \in Tokens, NEW c \in Customers, NEW e \in Places, NEW ttl \in Ttls,
             BrowserReads!PostToken(t, c, e, ttl)
      PROVE  TokenInv'
  BY <1>3, TokenPost
<1>4. ASSUME NEW r \in Racers, NEW t \in Tokens, NEW c \in Customers \cup {Nothing},
             NEW e \in Places \cup {Nothing}, BrowserReads!Ask(r, t, c, e)
      PROVE  TokenInv'
  BY <1>4, TokenAsk
<1>5. ASSUME NEW r \in Racers, BrowserReads!resolveCustomerReadToken(r) PROVE TokenInv'
  BY <1>5, TokenResolve
<1>6. ASSUME NEW r \in Racers, BrowserReads!Read(r) PROVE TokenInv'
  BY <1>6, TokenAnswer
<1> QED BY <1>1, <1>2, <1>3, <1>4, <1>5, <1>6 DEF BrowserReads!Next

LEMMA TokenStart ==
  ASSUME BrowserReads!Init
  PROVE  TokenInv
<1>1. TokenTypes
  BY DEF BrowserReads!Init, TokenTypes
<1>2. \A r \in Racers : read[r] = BrowserReads!Idle
  BY DEF BrowserReads!Init
<1> QED BY <1>1, <1>2 DEF BrowserReads!Init, TokenInv

LEMMA TokensAreScoped ==
  ASSUME TokenInv
  PROVE  BrowserReads!ReadsStayScoped
BY DEF TokenInv, Scoped, BrowserReads!ReadsStayScoped

-------------------------------------------------------------------------------
(* The access of hosts and browsers.                                       *)

AccessInv ==
  /\ component = "keys" => KeyInv
  /\ component = "tokens" => TokenInv

\* The inductive invariant of the keys and the tokens.
LEMMA AccessAlways ==
  MCSpec => []AccessInv
<1>1. MCInit => AccessInv
  BY KeyStart, TokenStart DEF MCInit, AccessInv
<1>2. AccessInv /\ [MCNext]_<<component, console, clock, usage, keyVars, tokenVars>>
        => AccessInv'
  <2> SUFFICES ASSUME AccessInv,
                      [MCNext]_<<component, console, clock, usage, keyVars, tokenVars>>
               PROVE  AccessInv'
    OBVIOUS
  <2>1. component' = component
    BY DEF MCNext
  <2>2. CASE component = "keys"
    <3>1. HostKeys!Next \/ UNCHANGED keyVars
      BY <2>2 DEF MCNext, HostNext
    <3>2. UNCHANGED keyVars => KeyInv'
      BY <2>2 DEF AccessInv, keyVars, KeyInv, KeyTypes, Counted, InUse, Apart, Fresh, Used,
         Ending, Hand, Telling, Showing, Issued, HostKeys!Issued
    <3> QED BY <2>1, <2>2, <3>1, <3>2, KeyStep DEF AccessInv
  <2>3. CASE component = "tokens"
    <3>1. BrowserReads!Next \/ UNCHANGED <<clock, tokenVars>>
      BY <2>3 DEF MCNext, HostNext
    <3>2. UNCHANGED <<clock, tokenVars>> => TokenInv'
      BY <2>3 DEF AccessInv, tokenVars, TokenInv, TokenTypes, Begun, Scoped
    <3> QED BY <2>1, <2>3, <3>1, <3>2, TokenStep DEF AccessInv
  <2> QED BY <2>1, <2>2, <2>3 DEF AccessInv
<1> QED BY <1>1, <1>2, PTL DEF MCSpec

\* A host keeps its access through a rotation of its key, and a browser reads
\* only what its token was issued for: however operators, backends and browsers
\* interleave, whatever answers are lost and whatever fails.
THEOREM AccessAlwaysFollowsGrants ==
  MCSpec => []AccessFollowsGrants
<1>1. AccessInv => AccessFollowsGrants
  BY KeysAreSafe, TokensAreScoped DEF AccessInv, AccessFollowsGrants
<1> QED BY <1>1, AccessAlways, PTL

-------------------------------------------------------------------------------
(* The panel that verifies a product before it is linked.                  *)

PanelInv ==
  /\ preview \in [Racers ->
       {Panel!None} \cup [at : {"sent", "aborted"}, of : Panel!Identity]]
  /\ verification # Panel!None /\ verification.ok =>
       verification.of \in Matching
  /\ writing # Panel!None /\ writing.at = "linking" =>
       writing.of \in Matching
  /\ verifyAbort \in Racers \cup {Nothing}
  /\ verifyAbort # Nothing => preview[verifyAbort].at = "sent"
  /\ verifying => verifyAbort # Nothing
  /\ place \in Places /\ pair \in Panel!Pair

LEMMA PanelFacts ==
  /\ Nothing \notin Racers
  /\ Panel!None.at = "none"
  /\ \A i, x : [at |-> x, of |-> i].at = x
BY ConsoleAssumption DEF Panel!PanelAssumption, Panel!None

\* What the operator does to the selection drops the verification.
LEMMA PanelInvalidate ==
  ASSUME PanelInv, Panel!invalidateVerification,
         UNCHANGED writing, place' \in Places, pair' \in Panel!Pair
  PROVE  PanelInv'
<1>1. /\ preview' = Panel!Aborted /\ verifyAbort' = Nothing
      /\ verifying' = FALSE /\ verification' = Panel!None
  BY DEF Panel!invalidateVerification
<1>2. ASSUME NEW q \in Racers
      PROVE  Panel!Aborted[q] \in {Panel!None} \cup [at : {"sent", "aborted"}, of : Panel!Identity]
  <2>1. CASE q = verifyAbort
    <3>1. preview[q] \in [at : {"sent", "aborted"}, of : Panel!Identity]
      BY <2>1, PanelFacts DEF PanelInv
    <3>2. [preview[q] EXCEPT !.at = "aborted"] \in [at : {"sent", "aborted"}, of : Panel!Identity]
      BY <3>1
    <3> QED BY <2>1, <3>2 DEF Panel!Aborted
  <2>2. CASE q # verifyAbort
    BY <2>2 DEF PanelInv, Panel!Aborted
  <2> QED BY <2>1, <2>2
<1>3. Panel!Aborted \in [Racers ->
        {Panel!None} \cup [at : {"sent", "aborted"}, of : Panel!Identity]]
  BY <1>2 DEF Panel!Aborted
<1> QED BY <1>1, <1>3 DEF PanelInv

LEMMA PanelVerify ==
  ASSUME PanelInv, NEW q \in Racers, Panel!verify(q)
  PROVE  PanelInv'
<1>1. /\ preview' = [Panel!Aborted EXCEPT ![q] = [at |-> "sent", of |-> Panel!Shown]]
      /\ verifyAbort' = q /\ verifying' = TRUE /\ verification' = Panel!None
      /\ UNCHANGED <<place, pair, shown, writing>> /\ preview[q] = Panel!None
  BY DEF Panel!verify, Panel!shown
<1>2. Panel!Shown \in Panel!Identity
  BY DEF PanelInv, Panel!Shown, Panel!Identity
<1>3. PICK sent : sent = [at |-> "sent", of |-> Panel!Shown]
  OBVIOUS
<1>4. sent \in [at : {"sent", "aborted"}, of : Panel!Identity] /\ sent.at = "sent"
  BY <1>2, <1>3
<1>5. ASSUME NEW p \in Racers
      PROVE  Panel!Aborted[p] \in {Panel!None} \cup [at : {"sent", "aborted"}, of : Panel!Identity]
  <2>1. CASE p = verifyAbort
    <3>1. preview[p] \in [at : {"sent", "aborted"}, of : Panel!Identity]
      BY <2>1, PanelFacts DEF PanelInv
    <3>2. [preview[p] EXCEPT !.at = "aborted"] \in [at : {"sent", "aborted"}, of : Panel!Identity]
      BY <3>1
    <3> QED BY <2>1, <3>2 DEF Panel!Aborted
  <2>2. CASE p # verifyAbort
    BY <2>2 DEF PanelInv, Panel!Aborted
  <2> QED BY <2>1, <2>2
<1>6. Panel!Aborted \in [Racers ->
        {Panel!None} \cup [at : {"sent", "aborted"}, of : Panel!Identity]]
  BY <1>5 DEF Panel!Aborted
<1>7. preview' \in [Racers ->
        {Panel!None} \cup [at : {"sent", "aborted"}, of : Panel!Identity]]
      /\ preview'[q] = sent
  BY <1>1, <1>3, <1>4, <1>6
<1>8. verifyAbort' \in Racers /\ preview'[verifyAbort'].at = "sent"
  BY <1>1, <1>4, <1>7
<1>9. place' \in Places /\ pair' \in Panel!Pair /\ verification' = Panel!None
      /\ (writing # Panel!None /\ writing.at = "linking" => writing.of \in Matching)
      /\ writing' = writing
  BY <1>1 DEF PanelInv
<1>10. verifying' => verifyAbort' # Nothing
  BY <1>8, PanelFacts
<1> QED BY <1>7, <1>8, <1>9, <1>10 DEF PanelInv

\* An answer to a request that is not the one waited for changes nothing.
LEMMA PanelSettled ==
  ASSUME PanelInv, NEW q \in Racers, Panel!Settled(q),
         UNCHANGED <<place, pair, writing>>,
         verification' # Panel!None /\ verification'.ok => verification'.of \in Matching
  PROVE  PanelInv'
<1>1. /\ preview' = [preview EXCEPT ![q] = Panel!None]
      /\ verifyAbort' = IF verifyAbort = q THEN Nothing ELSE verifyAbort
      /\ verifying' = (verifying /\ verifyAbort # q)
  BY DEF Panel!Settled
<1>2. preview' \in [Racers ->
        {Panel!None} \cup [at : {"sent", "aborted"}, of : Panel!Identity]]
      /\ \A p \in Racers \ {q} : preview'[p] = preview[p]
  BY <1>1 DEF PanelInv
<1>3. /\ verifyAbort' \in Racers \cup {Nothing}
      /\ verifyAbort' # Nothing => verifyAbort' = verifyAbort /\ verifyAbort # q
      /\ verifying' => verifyAbort' # Nothing
  BY <1>1, PanelFacts DEF PanelInv
<1> QED BY <1>2, <1>3 DEF PanelInv

LEMMA PanelStep ==
  ASSUME PanelInv, Panel!Next
  PROVE  PanelInv'
<1>1. ASSUME NEW p \in Prices, Panel!SelectPrice(p) PROVE PanelInv'
  <2>1. pair' \in Panel!Pair /\ place' = place /\ writing' = writing
    BY <1>1 DEF Panel!SelectPrice, PanelInv, Panel!Pair
  <2>2. Panel!invalidateVerification /\ place' \in Places
    BY <1>1, <2>1 DEF Panel!SelectPrice, PanelInv
  <2> QED BY <2>1, <2>2, PanelInvalidate
<1>2. ASSUME NEW x \in ProductIds \cup {Nothing}, Panel!TypeProduct(x) PROVE PanelInv'
  <2>1. pair' \in Panel!Pair /\ place' = place /\ writing' = writing
    BY <1>2 DEF Panel!TypeProduct, PanelInv, Panel!Pair
  <2>2. Panel!invalidateVerification /\ place' \in Places
    BY <1>2, <2>1 DEF Panel!TypeProduct, PanelInv
  <2> QED BY <2>1, <2>2, PanelInvalidate
<1>3. ASSUME NEW p \in Places, Panel!Move(p) PROVE PanelInv'
  BY <1>3 DEF Panel!Move, Panel!asking, PanelInv
<1>4. ASSUME NEW q \in Racers, Panel!verify(q) PROVE PanelInv'
  BY <1>4, PanelVerify
<1>5. ASSUME NEW q \in Racers, Panel!Previewed(q) PROVE PanelInv'
  <2>1. Panel!Settled(q) /\ UNCHANGED <<place, pair, writing>>
    BY <1>5 DEF Panel!Previewed, Panel!shown
  <2>2. CASE Panel!Lands(q)
    <3>1. verification' = [at |-> "shown", of |-> preview[q].of, ok |-> preview[q].of \in Matching]
      BY <1>5, <2>2 DEF Panel!Previewed
    <3>2. verification'.ok => verification'.of \in Matching
      BY <3>1
    <3> QED BY <2>1, <3>2, PanelSettled
  <2>3. CASE ~Panel!Lands(q)
    <3>1. verification' = verification
      BY <1>5, <2>3 DEF Panel!Previewed
    <3>2. verification' # Panel!None /\ verification'.ok => verification'.of \in Matching
      BY <3>1 DEF PanelInv
    <3> QED BY <2>1, <3>2, PanelSettled
  <2> QED BY <2>2, <2>3
<1>6. ASSUME NEW q \in Racers, Panel!NotPreviewed(q) PROVE PanelInv'
  <2>1. Panel!Settled(q) /\ UNCHANGED <<place, pair, writing>> /\ verification' = verification
    BY <1>6 DEF Panel!NotPreviewed, Panel!shown
  <2>2. verification' # Panel!None /\ verification'.ok => verification'.of \in Matching
    BY <2>1 DEF PanelInv
  <2> QED BY <2>1, <2>2, PanelSettled
<1>7. ASSUME NEW what \in {"creating", "failing"}, Panel!Writes(what) PROVE PanelInv'
  <2>1. writing' = [at |-> what, of |-> Panel!Shown] /\ UNCHANGED <<Panel!shown, Panel!asking>>
    BY <1>7 DEF Panel!Writes
  <2>2. writing'.at # "linking"
    BY <2>1
  <2> QED BY <2>1, <2>2 DEF PanelInv, Panel!shown, Panel!asking
<1>8. CASE Panel!link
  <2>1. /\ writing' = [at |-> "linking", of |-> Panel!Shown]
        /\ UNCHANGED <<Panel!shown, Panel!asking>>
        /\ verification # Panel!None /\ verification.of = Panel!Shown /\ verification.ok
    BY <1>8 DEF Panel!link, Panel!Writes, Panel!canLink, Panel!verificationIsCurrent
  <2>2. Panel!Shown \in Matching /\ writing'.of = Panel!Shown
    BY <2>1 DEF PanelInv
  <2> QED BY <2>1, <2>2 DEF PanelInv, Panel!shown, Panel!asking
<1>9. CASE Panel!Written
  <2>1. writing' = Panel!None /\ UNCHANGED <<place, pair, Panel!asking>>
    BY <1>9 DEF Panel!Written
  <2> QED BY <2>1 DEF PanelInv, Panel!asking
<1> QED BY <1>1, <1>2, <1>3, <1>4, <1>5, <1>6, <1>7, <1>8, <1>9
        DEF Panel!Next, Panel!createInProvider, Panel!markFailedForRetry

\* The inductive invariant of the panel.
LEMMA PanelAlways ==
  MCSpec => [](component = "panel" => PanelInv)
<1> DEFINE Inv == component = "panel" => PanelInv
<1>1. MCInit => Inv
  <2> SUFFICES ASSUME MCInit PROVE PanelInv
    OBVIOUS
  <2>1. Panel!Init
    BY DEF MCInit
  <2> QED BY <2>1, PanelFacts DEF Panel!Init, PanelInv, Panel!Pair
<1>2. Inv /\ [MCNext]_<<component, console, clock, usage, keyVars, tokenVars>> => Inv'
  <2> SUFFICES ASSUME PanelInv, component = "panel",
                      [MCNext]_<<component, console, clock, usage, keyVars, tokenVars>>
               PROVE  PanelInv'
    BY DEF MCNext
  <2>1. Panel!Next \/ UNCHANGED panel
    BY DEF MCNext, ConsoleNext, HostNext, console
  <2>2. UNCHANGED panel => PanelInv'
    BY DEF panel, PanelInv
  <2> QED BY <2>1, <2>2, PanelStep
<1> QED BY <1>1, <1>2, PTL DEF MCSpec

\* Only what the server has compared is sent to be linked, and a panel that says
\* it is verifying waits for a live request, however late the answers come.
THEOREM PanelAlwaysSound ==
  MCSpec => []PanelIsSound
<1>1. (component = "panel" => PanelInv) => PanelIsSound
  BY PanelFacts DEF PanelInv, PanelIsSound, Panel!PanelIsSound, Panel!OnlyVerifiedIsLinked,
     Panel!VerifyingHasARequest
<1> QED BY <1>1, PanelAlways, PTL

-------------------------------------------------------------------------------
(* The wizard that makes a product.                                        *)

\* What has been made is as the property says of it, project by project.
MadeWell(p) ==
  created[p] # Wizard!None =>
    LET m == created[p] IN
    /\ m.selected => m.place = m.shown
    /\ ModeOf[m.provider] = m.place /\ ProjectOf[m.place] = p
    /\ Wizard!isRecurring(m) => m.interval \in {"month", "year"}
    /\ Wizard!requiresCredits(m) => m.grants = "good"

\* The form stays as it was reviewed while its request is under way.
WizardInv ==
  /\ cookie \in Places /\ rendered.place \in Places
  /\ rendered.providers \subseteq {c \in Connections : ModeOf[c] = rendered.place}
  /\ form \in Wizard!Form
  /\ submission.at = "sent" =>
       /\ submission \in [at : {"sent"}, shown : Places, selected : BOOLEAN, place : Places]
       /\ submission.selected => ModeOf[form.provider] = submission.shown
  /\ connections \subseteq Connections
  /\ created = [p \in DOMAIN created |-> created[p]]
  /\ \A p \in DOMAIN created : MadeWell(p)

LEMMA WizardFacts ==
  /\ Intervals \subseteq {"week", "month", "year"}
  /\ Grants \subseteq {"none", "blank", "twice", "good"}
  /\ Wizard!None.at = "none" /\ Nothing \notin Connections
BY ConsoleAssumption DEF Wizard!WizardAssumption, Wizard!None

LEMMA WizardEnter ==
  ASSUME WizardInv, NEW at, NEW f, Wizard!Enter(at, f), f \in Wizard!Form
  PROVE  WizardInv'
<1>1. submission = Wizard!None /\ form' = f
      /\ UNCHANGED <<cookie, connections, rendered, submission, created>>
  BY DEF Wizard!Enter, Wizard!Open, Wizard!console
<1>2. submission'.at # "sent"
  BY <1>1, WizardFacts
<1>3. \A p : MadeWell(p)' <=> MadeWell(p)
  BY <1>1 DEF MadeWell
<1> QED BY <1>1, <1>2, <1>3 DEF WizardInv

LEMMA WizardCreate ==
  ASSUME WizardInv, Wizard!createProductFromBuilder
  PROVE  WizardInv'
<1>1. submission.at = "sent" /\ UNCHANGED <<cookie, connections, rendered, form>>
  BY DEF Wizard!createProductFromBuilder, Wizard!console
<1>2. submission'.at # "sent"
  BY <1>1 DEF WizardInv, Wizard!createProductFromBuilder
<1>3. CASE created' = created
  <2>1. \A p : MadeWell(p)' <=> MadeWell(p)
    BY <1>3 DEF MadeWell
  <2>2. created' = [p \in DOMAIN created' |-> created'[p]]
    BY <1>3 DEF WizardInv
  <2> QED BY <1>1, <1>2, <1>3, <2>1, <2>2 DEF WizardInv
<1>4. CASE /\ Wizard!Accepts(submission.place, form)
           /\ created' = [created EXCEPT ![ProjectOf[submission.place]] =
                            Wizard!Configured(form, submission)]
  <2>1. PICK m : m = Wizard!Configured(form, submission)
    OBVIOUS
  <2>2. PICK q : q = ProjectOf[submission.place]
    OBVIOUS
  <2>3. /\ m.type = form.type /\ m.grants = form.grants /\ m.provider = form.provider
        /\ m.place = submission.place /\ m.shown = submission.shown
        /\ m.selected = submission.selected
        /\ Wizard!isRecurring(form) => m.interval = form.interval
    BY <2>1 DEF Wizard!Configured
  <2>4. /\ form.grants \notin {"blank", "twice"}
        /\ Wizard!requiresCredits(form) => form.grants # "none"
        /\ ModeOf[form.provider] = submission.place
        /\ Wizard!isRecurring(form) => form.interval # "week"
    BY <1>4 DEF Wizard!Accepts, Wizard!assertBenefits, Wizard!assertProviderForEnvironment
  <2>5. form.grants \in Grants /\ form.interval \in Intervals
    BY DEF WizardInv, Wizard!Form
  <2>6. m.selected => m.place = m.shown
    BY <1>1, <2>3, <2>4 DEF WizardInv
  <2>7. /\ Wizard!isRecurring(m) => m.interval \in {"month", "year"}
        /\ Wizard!requiresCredits(m) => m.grants = "good"
    BY <2>3, <2>4, <2>5, WizardFacts DEF Wizard!isRecurring, Wizard!requiresCredits
  <2>8. created' = [created EXCEPT ![q] = m]
    BY <1>4, <2>1, <2>2
  <2>9. DOMAIN created' = DOMAIN created /\ created' = [p \in DOMAIN created' |-> created'[p]]
    BY <2>8
  <2>10. ASSUME NEW p \in DOMAIN created PROVE MadeWell(p)'
    <3>1. CASE p = q
      <4>1. created'[p] = m
        BY <2>8, <3>1
      <4>2. ModeOf[m.provider] = m.place /\ ProjectOf[m.place] = p
        BY <2>2, <2>3, <2>4, <3>1
      <4> QED BY <2>6, <2>7, <4>1, <4>2 DEF MadeWell
    <3>2. CASE p # q
      <4>1. created'[p] = created[p]
        BY <2>8, <3>2
      <4> QED BY <4>1 DEF WizardInv, MadeWell
    <3> QED BY <3>1, <3>2
  <2> QED BY <1>1, <1>2, <2>9, <2>10 DEF WizardInv
<1> QED BY <1>3, <1>4 DEF Wizard!createProductFromBuilder

LEMMA WizardStep ==
  ASSUME WizardInv, Wizard!Next
  PROVE  WizardInv'
<1>0. form \in Wizard!Form
  BY DEF WizardInv
<1>1. ASSUME UNCHANGED <<form, created>>, cookie' \in Places,
             connections' \subseteq Connections, rendered'.place \in Places,
             rendered'.providers \subseteq {c \in Connections : ModeOf[c] = rendered'.place},
             submission' = submission \/ submission'.at # "sent"
      PROVE  WizardInv'
  <2>1. \A p : MadeWell(p)' <=> MadeWell(p)
    BY <1>1 DEF MadeWell
  <2>2. created' = [p \in DOMAIN created' |-> created'[p]]
    BY <1>1 DEF WizardInv
  <2> QED BY <1>1, <2>1, <2>2 DEF WizardInv
<1>2. ASSUME UNCHANGED <<cookie, connections, rendered, form, created>>,
             submission' = submission \/ submission'.at # "sent"
      PROVE  WizardInv'
  BY <1>1, <1>2 DEF WizardInv
<1>3. ASSUME NEW l \in Places, Wizard!SelectPlace(l) PROVE WizardInv'
  BY <1>1, <1>3 DEF Wizard!SelectPlace, WizardInv
<1>4. ASSUME NEW c \in Connections, Wizard!revokeProviderConnection(c) PROVE WizardInv'
  BY <1>1, <1>4 DEF Wizard!revokeProviderConnection, WizardInv
<1>5. ASSUME NEW c \in Connections, Wizard!SetProviderConnectionId(c) PROVE WizardInv'
  <2>1. [form EXCEPT !.provider = c] \in Wizard!Form
    BY <1>0 DEF Wizard!Form
  <2> QED BY <1>5, <2>1, WizardEnter DEF Wizard!SetProviderConnectionId
<1>6. CASE Wizard!Render
  <2>1. /\ rendered' = [place |-> cookie, providers |-> Wizard!getBuilderProviderOptions]
        /\ UNCHANGED <<cookie, connections, form, submission, created>>
    BY <1>6 DEF Wizard!Render, Wizard!console
  <2>2. rendered'.place = cookie /\ rendered'.providers = Wizard!getBuilderProviderOptions
    BY <2>1
  <2>3. Wizard!getBuilderProviderOptions \subseteq {c \in Connections : ModeOf[c] = cookie}
    BY DEF WizardInv, Wizard!getBuilderProviderOptions
  <2> QED BY <1>1, <2>1, <2>2, <2>3 DEF WizardInv
<1>7. ASSUME NEW t \in ProductTypes, Wizard!SetProductType(t) PROVE WizardInv'
  <2>1. [form EXCEPT !.type = t] \in Wizard!Form
    BY <1>0 DEF Wizard!Form
  <2> QED BY <1>7, <2>1, WizardEnter DEF Wizard!SetProductType
<1>8. ASSUME NEW ok \in BOOLEAN, Wizard!SetName(ok) PROVE WizardInv'
  <2>1. [form EXCEPT !.named = ok] \in Wizard!Form
    BY <1>0 DEF Wizard!Form
  <2> QED BY <1>8, <2>1, WizardEnter DEF Wizard!SetName
<1>9. ASSUME NEW ok \in BOOLEAN, Wizard!SetAmount(ok) PROVE WizardInv'
  <2>1. [form EXCEPT !.priced = ok] \in Wizard!Form
    BY <1>0 DEF Wizard!Form
  <2> QED BY <1>9, <2>1, WizardEnter DEF Wizard!SetAmount
<1>10. ASSUME NEW i \in Intervals, Wizard!SetRecurringInterval(i) PROVE WizardInv'
  <2>1. [form EXCEPT !.interval = i] \in Wizard!Form
    BY <1>0 DEF Wizard!Form
  <2> QED BY <1>10, <2>1, WizardEnter DEF Wizard!SetRecurringInterval
<1>11. ASSUME NEW g \in Grants, Wizard!SetGrants(g) PROVE WizardInv'
  <2>1. [form EXCEPT !.grants = g] \in Wizard!Form
    BY <1>0 DEF Wizard!Form
  <2> QED BY <1>11, <2>1, WizardEnter DEF Wizard!SetGrants
<1>12. ASSUME NEW s, Wizard!GoesTo(s) PROVE WizardInv'
  BY <1>2, <1>12 DEF Wizard!GoesTo, Wizard!console
<1>13. CASE Wizard!submit
  <2>1. /\ submission' = [at |-> "sent", shown |-> rendered.place,
                         selected |-> Wizard!selectedProvider, place |-> cookie]
        /\ UNCHANGED <<cookie, connections, rendered, form, created>>
    BY <1>13 DEF Wizard!submit, Wizard!console
  <2>2. /\ submission' \in [at : {"sent"}, shown : Places, selected : BOOLEAN, place : Places]
        /\ submission'.shown = rendered.place
        /\ submission'.selected <=> Wizard!selectedProvider
    <3>1. PICK b : b = Wizard!selectedProvider /\ b \in BOOLEAN
      <4>1. Wizard!selectedProvider \in BOOLEAN
        BY DEF Wizard!selectedProvider
      <4> QED BY <4>1
    <3>2. submission' = [at |-> "sent", shown |-> rendered.place, selected |-> b,
                         place |-> cookie]
      BY <2>1, <3>1
    <3> QED BY <3>1, <3>2 DEF WizardInv
  <2>3. Wizard!selectedProvider => ModeOf[form.provider] = rendered.place
    BY DEF WizardInv, Wizard!selectedProvider
  <2>4. \A p : MadeWell(p)' <=> MadeWell(p)
    BY <2>1 DEF MadeWell
  <2>5. created' = [p \in DOMAIN created' |-> created'[p]]
    BY <2>1 DEF WizardInv
  <2> QED BY <2>1, <2>2, <2>3, <2>4, <2>5 DEF WizardInv
<1>14. CASE Wizard!createProductFromBuilder
  BY <1>14, WizardCreate
<1>15. CASE Wizard!Created
  <2>1. submission' = [at |-> "left"] /\ UNCHANGED <<cookie, connections, rendered, form, created>>
    BY <1>15 DEF Wizard!Created, Wizard!console
  <2>2. submission'.at # "sent"
    BY <2>1
  <2> QED BY <1>2, <2>1, <2>2
<1>16. CASE Wizard!NotCreated
  <2>1. submission' = Wizard!None /\ UNCHANGED <<cookie, connections, rendered, form, created>>
    BY <1>16 DEF Wizard!NotCreated, Wizard!console
  <2> QED BY <1>2, <2>1, WizardFacts
<1>17. CASE Wizard!next \/ Wizard!back \/ \E s \in 0 .. 3 : Wizard!Jump(s)
  BY <1>12, <1>17 DEF Wizard!next, Wizard!back, Wizard!Jump
<1> QED BY <1>3, <1>4, <1>5, <1>6, <1>7, <1>8, <1>9, <1>10, <1>11, <1>13, <1>14, <1>15,
           <1>16, <1>17 DEF Wizard!Next

\* The inductive invariant of the wizard.
LEMMA WizardAlways ==
  MCSpec => [](component = "wizard" => WizardInv)
<1> DEFINE Inv == component = "wizard" => WizardInv
<1>1. MCInit => Inv
  <2> SUFFICES ASSUME MCInit PROVE WizardInv
    OBVIOUS
  <2>1. Wizard!Init
    BY DEF MCInit
  <2>2. PICK first \in Wizard!getBuilderProviderOptions :
          form = [type |-> "subscription", named |-> FALSE, priced |-> FALSE,
                  interval |-> "month", grants |-> "none", provider |-> first]
    BY <2>1 DEF Wizard!Init
  <2>3. first \in Connections
    BY <2>1 DEF Wizard!Init, Wizard!getBuilderProviderOptions
  <2>4. form \in Wizard!Form
    BY <2>2, <2>3, ConsoleAssumption DEF Wizard!Form, Wizard!WizardAssumption
  <2> QED BY <2>1, <2>4, WizardFacts DEF Wizard!Init, WizardInv, MadeWell,
         Wizard!getBuilderProviderOptions
<1>2. Inv /\ [MCNext]_<<component, console, clock, usage, keyVars, tokenVars>> => Inv'
  <2> SUFFICES ASSUME WizardInv, component = "wizard",
                      [MCNext]_<<component, console, clock, usage, keyVars, tokenVars>>
               PROVE  WizardInv'
    BY DEF MCNext
  <2>1. Wizard!Next \/ UNCHANGED builder
    BY DEF MCNext, ConsoleNext, HostNext, console
  <2>2. UNCHANGED builder => WizardInv'
    BY DEF builder, WizardInv, MadeWell
  <2> QED BY <2>1, <2>2, WizardStep
<1> QED BY <1>1, <1>2, PTL DEF MCSpec

\* A product is in the project and the environment its review showed, sold
\* through a connection of that place, whatever other tabs do meanwhile.
THEOREM ProductsAreAsReviewed ==
  MCSpec => []CreatedAsReviewed
<1>1. (component = "wizard" => WizardInv) => CreatedAsReviewed
  BY DEF WizardInv, MadeWell, CreatedAsReviewed, Wizard!CreatedAsReviewed
<1> QED BY <1>1, WizardAlways, PTL

-------------------------------------------------------------------------------
(* The calls to the providers.                                             *)

CallRecord ==
  [at : ProviderJobs!Outcomes \cup {"asked", "loaded", "authorized"},
   op : ProviderJobs!Operations, left : Seq(ProviderJobs!Calls), again : Nat, attempt : Nat]

\* A job q and how often the provider did what it asks for.  Before its last
\* answer nothing has been done, but for PayPal's cancellation, which is made
\* in the first of two calls.
Fine(q, n) ==
  IF q = ProviderJobs!Idle THEN n = 0
  ELSE IF provider = "paypal" /\ q.op = "cancel"
  THEN /\ q.at \in {"loaded", "authorized"} =>
            q.left = <<"act", "read">> \/ (q.left = <<"read">> /\ n > 0)
       /\ q.at = "done" => n > 0
  ELSE /\ n \in {0, 1}
       /\ q.at \notin {"done", "outcome_uncertain"} \/ q.op = "lookup" => n = 0
       /\ q.at = "done" /\ q.op # "lookup" => n = 1
       /\ q.at \in {"loaded", "authorized"} =>
            IF q.op = "lookup" THEN q.left = <<"read">>
            ELSE q.left \in {<<"act">>, <<"shell", "act">>, <<"read", "act">>}

CallInv ==
  /\ provider \in ProviderJobs!Providers
  /\ job \in [Racers -> {ProviderJobs!Idle} \cup CallRecord]
  /\ made \in [Racers -> Nat]
  /\ \A j \in Racers : Fine(job[j], made[j])

LEMMA CallFacts ==
  /\ ProviderJobs!Idle.at = "idle" /\ ProviderJobs!Idle \notin CallRecord
  /\ \A q \in CallRecord : q.at # "idle"
BY DEF ProviderJobs!Idle, CallRecord, ProviderJobs!Outcomes

LEMMA CallsAre ==
  ASSUME provider \in ProviderJobs!Providers, NEW op \in ProviderJobs!Operations
  PROVE  /\ op = "lookup" => ProviderJobs!CallsOf(op) = <<"read">>
         /\ op = "cancel" /\ provider = "paypal" => ProviderJobs!CallsOf(op) = <<"act", "read">>
         /\ op # "lookup" /\ ~(op = "cancel" /\ provider = "paypal") =>
              ProviderJobs!CallsOf(op) \in {<<"act">>, <<"shell", "act">>, <<"read", "act">>}
         /\ ProviderJobs!CallsOf(op) \in Seq(ProviderJobs!Calls)
<1>1. /\ op = "lookup" => ProviderJobs!CallsOf(op) = <<"read">>
      /\ op = "cancel" /\ provider = "paypal" => ProviderJobs!CallsOf(op) = <<"act", "read">>
  BY DEF ProviderJobs!CallsOf
<1>2. ASSUME op # "lookup", ~(op = "cancel" /\ provider = "paypal")
      PROVE  ProviderJobs!CallsOf(op) \in {<<"act">>, <<"shell", "act">>, <<"read", "act">>}
  <2>1. CASE op = "checkout" /\ provider = "waffo"
    BY <2>1 DEF ProviderJobs!CallsOf
  <2>2. CASE op = "refund" /\ provider = "paypal"
    BY <2>2 DEF ProviderJobs!CallsOf
  <2>3. CASE ~(op = "checkout" /\ provider = "waffo") /\ ~(op = "refund" /\ provider = "paypal")
    <3>1. ProviderJobs!CallsOf(op) = <<"act">>
      BY <1>2, <2>3 DEF ProviderJobs!CallsOf
    <3> QED BY <3>1
  <2> QED BY <2>1, <2>2, <2>3
<1>3. \A w \in {<<"read">>, <<"act", "read">>, <<"act">>, <<"shell", "act">>, <<"read", "act">>} :
        w \in Seq(ProviderJobs!Calls)
  <2>1. \A c, d \in ProviderJobs!Calls :
          <<c>> \in Seq(ProviderJobs!Calls) /\ <<c, d>> \in Seq(ProviderJobs!Calls)
    OBVIOUS
  <2>2. {"read", "shell", "act"} = ProviderJobs!Calls
    BY DEF ProviderJobs!Calls
  <2> QED BY <2>1, <2>2
<1> QED BY <1>1, <1>2, <1>3

LEMMA CallChange ==
  ASSUME CallInv, NEW j \in Racers, NEW q \in CallRecord, NEW n \in Nat,
         job' = [job EXCEPT ![j] = q], made' = [made EXCEPT ![j] = n],
         provider' = provider, Fine(q, n)
  PROVE  CallInv'
<1>1. /\ job'[j] = q /\ made'[j] = n
      /\ \A i \in Racers \ {j} : job'[i] = job[i] /\ made'[i] = made[i]
      /\ job' \in [Racers -> {ProviderJobs!Idle} \cup CallRecord] /\ made' \in [Racers -> Nat]
  BY DEF CallInv
<1>2. \A c, m : Fine(c, m)' <=> Fine(c, m)
  BY DEF Fine
<1> QED BY <1>1, <1>2 DEF CallInv

\* What goes on without the provider having been asked.
LEMMA CallGoes ==
  ASSUME CallInv, NEW j \in Racers, job[j] \in CallRecord, NEW q \in CallRecord,
         job' = [job EXCEPT ![j] = q], UNCHANGED <<provider, made>>,
         Fine(q, made[j])
  PROVE  CallInv'
<1>1. made[j] \in Nat /\ made' = [made EXCEPT ![j] = made[j]]
  BY DEF CallInv
<1> QED BY <1>1, CallChange

LEMMA CallAsk ==
  ASSUME CallInv, NEW j \in Racers, NEW op \in ProviderJobs!Operations, ProviderJobs!Ask(j, op)
  PROVE  CallInv'
<1>1. PICK q : q = [at |-> "asked", op |-> op, left |-> <<>>, again |-> 0, attempt |-> 1]
  OBVIOUS
<1>2. q \in CallRecord /\ q.at = "asked" /\ q.op = op
  BY <1>1 DEF CallRecord
<1>3. job[j] = ProviderJobs!Idle /\ made[j] = 0
  BY CallFacts DEF CallInv, ProviderJobs!Ask, ProviderJobs!At, Fine
<1>4. job' = [job EXCEPT ![j] = q] /\ provider' = provider /\ made' = [made EXCEPT ![j] = 0]
  BY <1>1, <1>3 DEF ProviderJobs!Ask, CallInv
<1>5. Fine(q, 0)
  BY <1>2, CallFacts DEF Fine
<1> QED BY <1>2, <1>4, <1>5, CallChange

LEMMA CallRetry ==
  ASSUME CallInv, NEW j \in Racers, ProviderJobs!Retry(j)
  PROVE  CallInv'
<1>1. job[j] \in CallRecord /\ job[j].at = "rejected" /\ Fine(job[j], made[j]) /\ made[j] \in Nat
  BY CallFacts DEF CallInv, ProviderJobs!Retry, ProviderJobs!At
<1>2. PICK q : q = [job[j] EXCEPT !.at = "asked", !.attempt = @ + 1, !.again = 0]
  OBVIOUS
<1>3. q \in CallRecord /\ q.at = "asked" /\ q.op = job[j].op
  <2>1. job[j].attempt + 1 \in Nat
    BY <1>1 DEF CallRecord
  <2>2. q = [job[j] EXCEPT !.at = "asked", !.attempt = job[j].attempt + 1, !.again = 0]
    BY <1>1, <1>2 DEF CallRecord
  <2> QED BY <1>1, <2>1, <2>2 DEF CallRecord
<1>4. job' = [job EXCEPT ![j] = q] /\ UNCHANGED <<provider, made>>
  BY <1>2 DEF ProviderJobs!Retry
<1>5. Fine(q, made[j])
  BY <1>1, <1>3, CallFacts DEF Fine
<1> QED BY <1>1, <1>3, <1>4, <1>5, CallGoes

\* From one step to another one, before or instead of a call.
LEMMA CallStepOn ==
  ASSUME CallInv, NEW j \in Racers, job[j] \in CallRecord,
         NEW at \in {"authorized", "rejected", "outcome_uncertain", "declined"},
         job' = [job EXCEPT ![j].at = at], UNCHANGED <<provider, made>>,
         job[j].at \in {"asked", "loaded", "authorized"},
         at = "authorized" => job[j].at = "loaded"
  PROVE  CallInv'
<1>1. Fine(job[j], made[j]) /\ made[j] \in Nat
  BY DEF CallInv
<1>2. PICK q : q = [job[j] EXCEPT !.at = at]
  OBVIOUS
<1>3. q \in CallRecord /\ q.at = at /\ q.op = job[j].op /\ q.left = job[j].left
  BY <1>2 DEF CallRecord, ProviderJobs!Outcomes
<1>4. job' = [job EXCEPT ![j] = q]
  BY <1>2
<1>5. Fine(q, made[j])
  BY <1>1, <1>3, CallFacts DEF Fine
<1> QED BY <1>3, <1>4, <1>5, CallGoes

LEMMA CallBefore ==
  ASSUME CallInv, NEW j \in Racers,
         ProviderJobs!Refuse(j) \/ ProviderJobs!accessToken(j) \/ ProviderJobs!Decline(j)
  PROVE  CallInv'
<1>1. job[j] \in {ProviderJobs!Idle} \cup CallRecord
  BY DEF CallInv
<1>2. \A error, op : ProviderJobs!Classified(error, op) \in {"rejected", "outcome_uncertain"}
  BY DEF ProviderJobs!Classified
<1>3. CASE ProviderJobs!Refuse(j)
  <2>1. /\ job[j].at = "asked" /\ UNCHANGED <<provider, made>>
        /\ \E at \in {"rejected", "outcome_uncertain"} : job' = [job EXCEPT ![j].at = at]
    BY <1>2, <1>3 DEF ProviderJobs!Refuse, ProviderJobs!Fails, ProviderJobs!Goes, ProviderJobs!At
  <2>2. job[j] \in CallRecord
    BY <1>1, <2>1, CallFacts
  <2> QED BY <2>1, <2>2, CallStepOn
<1>4. CASE ProviderJobs!accessToken(j)
  <2>1. /\ job[j].at = "loaded" /\ UNCHANGED <<provider, made>>
        /\ \E at \in {"authorized", "rejected", "outcome_uncertain"} :
             job' = [job EXCEPT ![j].at = at]
    BY <1>2, <1>4 DEF ProviderJobs!accessToken, ProviderJobs!Fails, ProviderJobs!Goes,
       ProviderJobs!At
  <2>2. job[j] \in CallRecord
    BY <1>1, <2>1, CallFacts
  <2> QED BY <2>1, <2>2, CallStepOn
<1>5. CASE ProviderJobs!Decline(j)
  <2>1. /\ job[j].at \in {"loaded", "authorized"} /\ UNCHANGED <<provider, made>>
        /\ job' = [job EXCEPT ![j].at = "declined"]
    BY <1>5 DEF ProviderJobs!Decline, ProviderJobs!Goes, ProviderJobs!Ready, ProviderJobs!At
  <2>2. job[j] \in CallRecord
    BY <1>1, <2>1, CallFacts
  <2> QED BY <2>1, <2>2, CallStepOn
<1> QED BY <1>3, <1>4, <1>5

LEMMA CallLoad ==
  ASSUME CallInv, NEW j \in Racers, ProviderJobs!Load(j)
  PROVE  CallInv'
<1>1. job[j] \in CallRecord /\ job[j].at = "asked" /\ Fine(job[j], made[j]) /\ made[j] \in Nat
  BY CallFacts DEF CallInv, ProviderJobs!Load, ProviderJobs!At
<1>2. PICK w : w = ProviderJobs!CallsOf(job[j].op)
  OBVIOUS
<1>3. job[j].op \in ProviderJobs!Operations /\ provider \in ProviderJobs!Providers
  BY <1>1 DEF CallRecord, CallInv
<1>4. /\ job[j].op = "lookup" => w = <<"read">>
      /\ job[j].op = "cancel" /\ provider = "paypal" => w = <<"act", "read">>
      /\ job[j].op # "lookup" /\ ~(job[j].op = "cancel" /\ provider = "paypal") =>
           w \in {<<"act">>, <<"shell", "act">>, <<"read", "act">>}
      /\ w \in Seq(ProviderJobs!Calls)
  BY <1>2, <1>3, CallsAre
<1>5. PICK q : q = [job[j] EXCEPT !.at = "loaded", !.left = w]
  OBVIOUS
<1>6. q \in CallRecord /\ q.at = "loaded" /\ q.op = job[j].op /\ q.left = w
  BY <1>1, <1>4, <1>5 DEF CallRecord
<1>7. job' = [job EXCEPT ![j] = q] /\ UNCHANGED <<provider, made>>
  BY <1>2, <1>5 DEF ProviderJobs!Load
<1>8. Fine(q, made[j])
  BY <1>1, <1>4, <1>6, CallFacts DEF Fine
<1> QED BY <1>1, <1>6, <1>7, <1>8, CallGoes

\* Of a call: whether it is the one that does what the job asks for.
LEMMA CallAtHand ==
  ASSUME CallInv, NEW j \in Racers, ProviderJobs!Ready(j)
  PROVE  /\ job[j] \in CallRecord /\ Fine(job[j], made[j]) /\ made[j] \in Nat
         /\ job[j].at \in {"loaded", "authorized"}
BY CallFacts DEF CallInv, ProviderJobs!Ready, ProviderJobs!At

LEMMA CallCounts ==
  ASSUME CallInv, NEW j \in Racers, NEW executed \in BOOLEAN, ProviderJobs!Counts(j, executed)
  PROVE  LET n == IF executed /\ Head(job[j].left) = "act" THEN made[j] + 1 ELSE made[j] IN
         n \in Nat /\ made' = [made EXCEPT ![j] = n]
BY DEF CallInv, ProviderJobs!Counts

LEMMA CallRepeat ==
  ASSUME CallInv, NEW j \in Racers, NEW a \in ProviderJobs!Answers, ProviderJobs!Repeat(j, a)
  PROVE  CallInv'
<1>1. /\ job[j] \in CallRecord /\ Fine(job[j], made[j]) /\ made[j] \in Nat
      /\ job[j].at \in {"loaded", "authorized"}
  BY CallAtHand DEF ProviderJobs!Repeat
<1>2. a.status \in {"401", "429"} /\ ~a.executed
  BY DEF ProviderJobs!Repeat, ProviderJobs!Repeats, ProviderJobs!Answers
<1>3. made' = made /\ provider' = provider
  <2>1. made' = [made EXCEPT ![j] = made[j]]
    BY <1>2 DEF ProviderJobs!Repeat, ProviderJobs!Counts
  <2> QED BY <2>1 DEF CallInv, ProviderJobs!Repeat
<1>4. PICK at \in {"asked", "loaded"} : at = IF a.status = "429" THEN "asked" ELSE "loaded"
  OBVIOUS
<1>5. PICK q : q = [job[j] EXCEPT !.again = job[j].again + 1, !.at = at]
  OBVIOUS
<1>6. q \in CallRecord /\ q.at = at /\ q.op = job[j].op /\ q.left = job[j].left
  <2>1. job[j].again + 1 \in Nat
    BY <1>1 DEF CallRecord
  <2> QED BY <1>1, <1>5, <2>1 DEF CallRecord
<1>7. job' = [job EXCEPT ![j] = q]
  <2>1. job' = [job EXCEPT ![j].again = @ + 1, ![j].at = at]
    BY <1>4 DEF ProviderJobs!Repeat
  <2> QED BY <1>5, <2>1 DEF CallInv
<1>8. Fine(q, made[j])
  BY <1>1, <1>6, CallFacts DEF Fine
<1> QED BY <1>1, <1>3, <1>6, <1>7, <1>8, CallGoes

LEMMA CallFail ==
  ASSUME CallInv, NEW j \in Racers, NEW a \in ProviderJobs!Answers, ProviderJobs!Fail(j, a)
  PROVE  CallInv'
<1>1. /\ job[j] \in CallRecord /\ Fine(job[j], made[j]) /\ made[j] \in Nat
      /\ job[j].at \in {"loaded", "authorized"}
  BY CallAtHand DEF ProviderJobs!Fail
<1>2. a.executed \in BOOLEAN
  BY DEF ProviderJobs!Answers
<1>3. PICK n \in Nat : /\ n = IF a.executed /\ Head(job[j].left) = "act" THEN made[j] + 1 ELSE made[j]
                       /\ made' = [made EXCEPT ![j] = n]
  BY <1>2, CallCounts DEF ProviderJobs!Fail
<1>4. PICK at \in {"rejected", "outcome_uncertain"} :
        at = ProviderJobs!Failure(j, a)
  BY DEF ProviderJobs!Failure, ProviderJobs!classifyHttpFailure
<1>5. at = "rejected" => ~a.executed
  BY <1>4 DEF ProviderJobs!Failure, ProviderJobs!classifyHttpFailure, ProviderJobs!Answers
<1>6. PICK q : q = [job[j] EXCEPT !.at = at]
  OBVIOUS
<1>7. q \in CallRecord /\ q.at = at /\ q.op = job[j].op /\ q.left = job[j].left
  BY <1>1, <1>6 DEF CallRecord, ProviderJobs!Outcomes
<1>8. job' = [job EXCEPT ![j] = q] /\ provider' = provider
  BY <1>4, <1>6 DEF ProviderJobs!Fail, ProviderJobs!Goes
<1>9. Fine(q, n)
  <2>1. CASE provider = "paypal" /\ q.op = "cancel"
    BY <1>7, <2>1, CallFacts DEF Fine
  <2>2. CASE ~(provider = "paypal" /\ q.op = "cancel") /\ q.op = "lookup"
    <3>1. job[j].left = <<"read">> /\ made[j] = 0
      BY <1>1, <1>7, <2>2, CallFacts DEF Fine
    <3>2. n = 0
      BY <1>3, <3>1
    <3> QED BY <1>7, <2>2, <3>2, CallFacts DEF Fine
  <2>3. CASE ~(provider = "paypal" /\ q.op = "cancel") /\ q.op # "lookup"
    <3>1. made[j] = 0
      BY <1>1, <1>7, <2>3, CallFacts DEF Fine
    <3>2. n \in {0, 1} /\ (at = "rejected" => n = 0)
      BY <1>3, <1>5, <3>1
    <3> QED BY <1>7, <2>3, <3>2, CallFacts DEF Fine
  <2> QED BY <2>1, <2>2, <2>3
<1> QED BY <1>3, <1>7, <1>8, <1>9, CallChange

LEMMA CallSucceed ==
  ASSUME CallInv, NEW j \in Racers, NEW a \in ProviderJobs!Answers, ProviderJobs!Succeed(j, a)
  PROVE  CallInv'
<1>1. /\ job[j] \in CallRecord /\ Fine(job[j], made[j]) /\ made[j] \in Nat
      /\ job[j].at \in {"loaded", "authorized"}
  BY CallAtHand DEF ProviderJobs!Succeed
<1>2. a.executed
  BY DEF ProviderJobs!Succeed, ProviderJobs!Answers
<1>3. PICK n \in Nat : /\ n = IF Head(job[j].left) = "act" THEN made[j] + 1 ELSE made[j]
                       /\ made' = [made EXCEPT ![j] = n]
  <2>1. a.executed \in BOOLEAN /\ ProviderJobs!Counts(j, a.executed)
    BY DEF ProviderJobs!Succeed, ProviderJobs!Answers
  <2>2. PICK m \in Nat :
          /\ m = IF a.executed /\ Head(job[j].left) = "act" THEN made[j] + 1 ELSE made[j]
          /\ made' = [made EXCEPT ![j] = m]
    BY <2>1, CallCounts
  <2> QED BY <1>2, <2>2
<1>4. PICK w : w = Tail(job[j].left)
  OBVIOUS
<1>5. PICK at \in {"done", "loaded"} :
        /\ at = IF w = <<>> THEN "done" ELSE "loaded"
        /\ w \in {<<"read">>, <<"act">>} => at = "loaded"
  <2>1. w \in {<<"read">>, <<"act">>} => w # <<>>
    OBVIOUS
  <2> QED BY <2>1
<1>6. job[j].left \in {<<"read">>, <<"act">>, <<"act", "read">>, <<"shell", "act">>, <<"read", "act">>}
  BY <1>1, CallFacts DEF Fine
<1>7. /\ w \in Seq(ProviderJobs!Calls)
      /\ job[j].left = <<"read">> => w = <<>> /\ n = made[j]
      /\ job[j].left = <<"act">> => w = <<>> /\ n = made[j] + 1
      /\ job[j].left = <<"act", "read">> => w = <<"read">> /\ n = made[j] + 1
      /\ job[j].left = <<"shell", "act">> => w = <<"act">> /\ n = made[j]
      /\ job[j].left = <<"read", "act">> => w = <<"act">> /\ n = made[j]
  <2>1. w \in Seq(ProviderJobs!Calls)
    <3>1. job[j].left \in Seq(ProviderJobs!Calls)
      BY <1>1 DEF CallRecord
    <3>2. job[j].left # <<>>
      BY <1>6
    <3> QED BY <1>4, <3>1, <3>2
  <2>2. job[j].left = <<"read">> => w = <<>> /\ n = made[j]
    BY <1>3, <1>4
  <2>3. job[j].left = <<"act">> => w = <<>> /\ n = made[j] + 1
    BY <1>3, <1>4
  <2>4. job[j].left = <<"act", "read">> => w = <<"read">> /\ n = made[j] + 1
    BY <1>3, <1>4
  <2>5. job[j].left = <<"shell", "act">> => w = <<"act">> /\ n = made[j]
    BY <1>3, <1>4
  <2>6. job[j].left = <<"read", "act">> => w = <<"act">> /\ n = made[j]
    BY <1>3, <1>4
  <2> QED BY <2>1, <2>2, <2>3, <2>4, <2>5, <2>6
<1>8. PICK q : q = [job[j] EXCEPT !.left = w, !.again = 0, !.at = at]
  OBVIOUS
<1>9. q \in CallRecord /\ q.at = at /\ q.op = job[j].op /\ q.left = w
  BY <1>1, <1>7, <1>8 DEF CallRecord, ProviderJobs!Outcomes
<1>10. job' = [job EXCEPT ![j] = q] /\ provider' = provider
  BY <1>4, <1>5, <1>8 DEF ProviderJobs!Succeed
<1>11. Fine(q, n)
  <2>1. CASE provider = "paypal" /\ q.op = "cancel"
    <3>1. job[j].left = <<"act", "read">> \/ (job[j].left = <<"read">> /\ made[j] > 0)
      BY <1>1, <1>9, <2>1, CallFacts DEF Fine
    <3>2. CASE job[j].left = <<"act", "read">>
      <4>1. w = <<"read">> /\ n > 0 /\ at = "loaded"
        BY <1>1, <1>5, <1>7, <3>2
      <4> QED BY <1>9, <2>1, <4>1, CallFacts DEF Fine
    <3>3. CASE job[j].left = <<"read">> /\ made[j] > 0
      <4>1. n > 0 /\ at = "done"
        BY <1>5, <1>7, <3>3
      <4> QED BY <1>9, <2>1, <4>1, CallFacts DEF Fine
    <3> QED BY <3>1, <3>2, <3>3
  <2>2. CASE ~(provider = "paypal" /\ q.op = "cancel") /\ q.op = "lookup"
    <3>1. job[j].left = <<"read">> /\ made[j] = 0
      BY <1>1, <1>9, <2>2, CallFacts DEF Fine
    <3>2. n = 0 /\ at = "done"
      BY <1>5, <1>7, <3>1
    <3> QED BY <1>9, <2>2, <3>2, CallFacts DEF Fine
  <2>3. CASE ~(provider = "paypal" /\ q.op = "cancel") /\ q.op # "lookup"
    <3>1. job[j].left \in {<<"act">>, <<"shell", "act">>, <<"read", "act">>} /\ made[j] = 0
      BY <1>1, <1>9, <2>3, CallFacts DEF Fine
    <3>2. CASE job[j].left = <<"act">>
      <4>1. n = 1 /\ at = "done"
        BY <1>5, <1>7, <3>1, <3>2
      <4> QED BY <1>9, <2>3, <4>1, CallFacts DEF Fine
    <3>3. CASE job[j].left \in {<<"shell", "act">>, <<"read", "act">>}
      <4>1. n = 0 /\ at = "loaded" /\ w = <<"act">>
        BY <1>5, <1>7, <3>1, <3>3
      <4> QED BY <1>9, <2>3, <4>1, CallFacts DEF Fine
    <3> QED BY <3>1, <3>2, <3>3
  <2> QED BY <2>1, <2>2, <2>3
<1> QED BY <1>3, <1>9, <1>10, <1>11, CallChange

LEMMA CallStep ==
  ASSUME CallInv, ProviderJobs!Next
  PROVE  CallInv'
<1>1. ASSUME UNCHANGED <<provider, job, made>> PROVE CallInv'
  BY <1>1 DEF CallInv, Fine
<1>2. CASE ProviderJobs!revokeProviderConnection \/ ProviderJobs!TokenExpires
  BY <1>1, <1>2 DEF ProviderJobs!revokeProviderConnection, ProviderJobs!TokenExpires
<1>3. ASSUME NEW j \in Racers, NEW op \in ProviderJobs!Operations, ProviderJobs!Ask(j, op)
      PROVE  CallInv'
  BY <1>3, CallAsk
<1>4. ASSUME NEW j \in Racers, ProviderJobs!Retry(j) PROVE CallInv'
  BY <1>4, CallRetry
<1>5. ASSUME NEW j \in Racers,
             ProviderJobs!Refuse(j) \/ ProviderJobs!accessToken(j) \/ ProviderJobs!Decline(j)
      PROVE  CallInv'
  BY <1>5, CallBefore
<1>6. ASSUME NEW j \in Racers, ProviderJobs!Load(j) PROVE CallInv'
  BY <1>6, CallLoad
<1>7. ASSUME NEW j \in Racers, NEW a \in ProviderJobs!Answers, ProviderJobs!Repeat(j, a)
      PROVE  CallInv'
  BY <1>7, CallRepeat
<1>8. ASSUME NEW j \in Racers, NEW a \in ProviderJobs!Answers, ProviderJobs!Fail(j, a)
      PROVE  CallInv'
  BY <1>8, CallFail
<1>9. ASSUME NEW j \in Racers, NEW a \in ProviderJobs!Answers, ProviderJobs!Succeed(j, a)
      PROVE  CallInv'
  BY <1>9, CallSucceed
<1> QED BY <1>2, <1>3, <1>4, <1>5, <1>6, <1>7, <1>8, <1>9 DEF ProviderJobs!Next

\* The inductive invariant of the calls.
LEMMA CallsAlways ==
  MCSpec => [](component = "calls" => CallInv)
<1> DEFINE Inv == component = "calls" => CallInv
<1>1. MCInit => Inv
  <2> SUFFICES ASSUME MCInit PROVE CallInv
    OBVIOUS
  <2>1. ProviderJobs!Init
    BY DEF MCInit
  <2> QED BY <2>1 DEF ProviderJobs!Init, CallInv, Fine
<1>2. Inv /\ [MCNext]_<<component, console, clock, usage, keyVars, tokenVars>> => Inv'
  <2> SUFFICES ASSUME CallInv, component = "calls",
                      [MCNext]_<<component, console, clock, usage, keyVars, tokenVars>>
               PROVE  CallInv'
    BY DEF MCNext
  <2>1. ProviderJobs!Next \/ UNCHANGED callVars
    BY DEF MCNext, ConsoleNext, HostNext, console
  <2>2. UNCHANGED callVars => CallInv'
    BY DEF callVars, CallInv, Fine
  <2> QED BY <2>1, <2>2, CallStep
<1> QED BY <1>1, <1>2, PTL DEF MCSpec

\* What is reported as rejected was not done, and what as done was; and no
\* number of repeated calls, retries and odd answers does a thing twice.
THEOREM OutcomesAlwaysHonest ==
  MCSpec => []OutcomesAreHonest
<1>1. (component = "calls" => CallInv) => OutcomesAreHonest
  <2> SUFFICES ASSUME CallInv, NEW j \in Racers, job[j] # ProviderJobs!Idle
               PROVE  /\ job[j].at = "rejected" /\ ~ProviderJobs!ReadsBack(j) => made[j] = 0
                      /\ job[j].at = "done" /\ job[j].op # "lookup" => made[j] > 0
                      /\ made[j] > 1 => ProviderJobs!ReadsBack(j)
    BY DEF OutcomesAreHonest, ProviderJobs!OutcomesAreHonest
  <2>1. Fine(job[j], made[j]) /\ made[j] \in Nat
    BY DEF CallInv
  <2> QED BY <2>1 DEF Fine, ProviderJobs!ReadsBack
<1> QED BY <1>1, CallsAlways, PTL

-------------------------------------------------------------------------------
(* The checkout and the routes of the console.                             *)

Ends == Sales!Environments
RouteEdit ==
  [at : {"editing"}, product : SoldProducts, env : Ends, to : Connections,
   seen : Sales!Routing]
Sale ==
  [at : {"asked", "listed", "chosen", "creating", "calling", "answered", "refused",
         "open", "failed"},
   basket : Baskets, active : SUBSET Connections, to : Sales!Maybe]

\* A route of an environment goes to a connection of it.
Routed(e, c) == c # Nothing => ModeOf[c] = e /\ connection[c] # "none"

\* How much has been checked of a sale, by the step it is at.
Checked(s) ==
  LET b == s.basket IN
  /\ s.at \in {"chosen", "creating", "calling", "answered", "open"} =>
       s.to \in Connections
  /\ s.at = "chosen" /\ b.named = Nothing => Sales!Supports(s.to, b.first)
  /\ s.at \in {"creating", "calling", "answered", "open"} =>
       /\ Sales!Supports(s.to, b.first) /\ b.env \in {ModeOf[s.to], "absent"}
       /\ \A p \in b.items : TermsOf[p].interval = TermsOf[b.first].interval
  /\ s.at \in {"calling", "answered", "open"} => b.items = {b.first}

RouteInv ==
  /\ connection \in [Connections -> {"none", "active", "revoked"}]
  /\ routing \in [SoldProducts -> Sales!Routing]
  /\ \A p \in SoldProducts, e \in Ends : Routed(e, routing[p][e])
  /\ editing \in [Racers -> {Sales!Idle} \cup RouteEdit]
  /\ \A d \in Racers : editing[d] # Sales!Idle =>
       /\ Routed(editing[d].env, editing[d].to)
       /\ \A e \in Ends : Routed(e, editing[d].seen[e])

SaleInv ==
  /\ checkout \in [Later -> {Sales!Idle} \cup Sale]
  /\ \A k \in Later : checkout[k] # Sales!Idle => Checked(checkout[k])

LEMMA SaleFacts ==
  /\ Nothing \notin Connections
  /\ ModeOf \in [Connections -> Ends] /\ ProductOf \in [Prices -> SoldProducts]
  /\ TermsOf \in [Prices -> Sales!Terms] /\ ProviderOf \in [Connections -> Sales!Providers]
  /\ \A p \in Prices : TermsOf[p].interval = "once" => ~TermsOf[p].trial
  /\ Baskets \subseteq Sales!Basket
  /\ \A b \in Baskets : IsFiniteSet(b.items) /\ b.first \in b.items
  /\ Sales!Idle \notin RouteEdit /\ Sales!Idle \notin Sale /\ Sales!Idle.at = "idle"
  /\ Ends = {"test", "live"}
<1>1. \A b \in Baskets : IsFiniteSet(b.items) /\ b.first \in b.items
  BY ConsoleAssumption DEF Sales!CheckoutAssumption, Sales!IsFiniteSet, IsFiniteSet
<1>2. Sales!Idle \notin RouteEdit /\ Sales!Idle \notin Sale /\ Sales!Idle.at = "idle"
  BY DEF Sales!Idle, RouteEdit, Sale
<1> QED BY <1>1, <1>2, ConsoleAssumption DEF Sales!CheckoutAssumption, Ends, Sales!Environments

\* A connection that was made stays, active or revoked.
LEMMA RoutesKeep ==
  ASSUME RouteInv, UNCHANGED <<routing, editing>>,
         connection' \in [Connections -> {"none", "active", "revoked"}],
         \A c \in Connections : connection[c] # "none" => connection'[c] # "none"
  PROVE  RouteInv'
<1>1. ASSUME NEW e \in Ends, NEW c \in Sales!Maybe, Routed(e, c)
      PROVE  Routed(e, c)'
  BY <1>1 DEF Routed, Sales!Maybe
<1>2. ASSUME NEW p \in SoldProducts, NEW e \in Ends PROVE Routed(e, routing[p][e])'
  <2>1. routing[p][e] \in Sales!Maybe /\ Routed(e, routing[p][e])
    BY DEF RouteInv, Sales!Routing, Ends
  <2>2. PICK c \in Sales!Maybe : c = routing[p][e]
    BY <2>1
  <2>3. Routed(e, c)'
    BY <1>1, <2>1, <2>2
  <2> QED BY <2>2, <2>3 DEF Routed
<1>3. ASSUME NEW d \in Racers, editing[d] # Sales!Idle
      PROVE  /\ Routed(editing[d].env, editing[d].to)'
             /\ \A e \in Ends : Routed(e, editing[d].seen[e])'
  <2>1. editing[d] \in RouteEdit /\ editing'[d] = editing[d]
    BY <1>3 DEF RouteInv
  <2>2. PICK x : x = editing[d]
    OBVIOUS
  <2>3. x.env \in Ends /\ x.to \in Sales!Maybe /\ \A e \in Ends : x.seen[e] \in Sales!Maybe
    BY <2>1, <2>2 DEF RouteEdit, Sales!Routing, Sales!Maybe, Ends
  <2>4. Routed(x.env, x.to) /\ \A e \in Ends : Routed(e, x.seen[e])
    BY <1>3, <2>2 DEF RouteInv
  <2>5. Routed(x.env, x.to)' /\ \A e \in Ends : Routed(e, x.seen[e])'
    BY <1>1, <2>3, <2>4
  <2> QED BY <2>1, <2>2, <2>5 DEF Routed
<1> QED BY <1>2, <1>3 DEF RouteInv

\* What is written is a routing of which every route stays at home.
LEMMA RoutesWritten ==
  ASSUME RouteInv, connection' = connection,
         NEW p \in SoldProducts, NEW w \in Sales!Routing,
         \A e \in Ends : Routed(e, w[e]),
         routing' = [routing EXCEPT ![p] = w],
         editing' \in [Racers -> {Sales!Idle} \cup RouteEdit],
         \A d \in Racers : editing'[d] \in {Sales!Idle, editing[d]}
  PROVE  RouteInv'
<1>1. \A e, c : Routed(e, c)' <=> Routed(e, c)
  BY DEF Routed
<1>2. routing' \in [SoldProducts -> Sales!Routing] /\ routing'[p] = w
      /\ \A q \in SoldProducts \ {p} : routing'[q] = routing[q]
  BY DEF RouteInv
<1>3. \A q \in SoldProducts, e \in Ends : Routed(e, routing'[q][e])
  BY <1>2 DEF RouteInv
<1>4. \A d \in Racers : editing'[d] # Sales!Idle =>
        /\ Routed(editing'[d].env, editing'[d].to)
        /\ \A e \in Ends : Routed(e, editing'[d].seen[e])
  BY DEF RouteInv
<1> QED BY <1>2, <1>3, <1>4 DEF RouteInv, Routed

LEMMA RouteConnections ==
  ASSUME RouteInv, NEW c \in Connections,
         Sales!createProviderConnection(c) \/ Sales!revokeProviderConnection(c)
  PROVE  RouteInv'
<1>1. PICK s \in {"active", "revoked"} : connection' = [connection EXCEPT ![c] = s]
  BY DEF Sales!createProviderConnection, Sales!revokeProviderConnection
<1>2. UNCHANGED <<routing, editing>>
  BY DEF Sales!createProviderConnection, Sales!revokeProviderConnection
<1>3. /\ connection' \in [Connections -> {"none", "active", "revoked"}]
      /\ \A d \in Connections : connection[d] # "none" => connection'[d] # "none"
  BY <1>1 DEF RouteInv
<1> QED BY <1>2, <1>3, RoutesKeep

LEMMA RouteProduct ==
  ASSUME RouteInv, NEW p \in Prices, NEW c \in Connections,
         Sales!createProductFromBuilder(p, c)
  PROVE  RouteInv'
<1>1. connection[c] = "active" /\ UNCHANGED <<connection, editing>>
  BY DEF Sales!createProductFromBuilder, Sales!assertProviderForEnvironment
<1>2. PICK w : w = [Sales!Unrouted EXCEPT ![ModeOf[c]] = c]
  OBVIOUS
<1>3. ModeOf[c] \in Ends /\ ProductOf[p] \in SoldProducts
  BY SaleFacts
<1>4. w \in Sales!Routing /\ \A e \in Ends : Routed(e, w[e])
  BY <1>1, <1>2, <1>3 DEF Sales!Unrouted, Sales!Routing, Sales!Maybe, Ends, Routed
<1>5. routing' = [routing EXCEPT ![ProductOf[p]] = w]
  BY <1>2 DEF Sales!createProductFromBuilder
<1>6. editing' \in [Racers -> {Sales!Idle} \cup RouteEdit]
  BY <1>1 DEF RouteInv
<1> QED BY <1>1, <1>3, <1>4, <1>5, <1>6, RoutesWritten

LEMMA RouteSet ==
  ASSUME RouteInv, NEW d \in Racers, NEW p \in SoldProducts, NEW e \in Ends,
         NEW c \in Connections, Sales!setProductProviderRoute(d, p, e, c)
  PROVE  RouteInv'
<1>1. /\ connection[c] = "active" /\ ModeOf[c] = e
      /\ UNCHANGED <<connection, routing>>
  BY DEF Sales!setProductProviderRoute, Sales!assertProviderForEnvironment
<1>2. PICK x : x = [at |-> "editing", product |-> p, env |-> e, to |-> c, seen |-> routing[p]]
  OBVIOUS
<1>3. x \in RouteEdit
  BY <1>2 DEF RouteInv, RouteEdit
<1>4. editing' = [editing EXCEPT ![d] = x]
  BY <1>2 DEF Sales!setProductProviderRoute
<1>5. Routed(x.env, x.to) /\ \A n \in Ends : Routed(n, x.seen[n])
  BY <1>1, <1>2 DEF RouteInv, Routed
<1>6. \A n, k : Routed(n, k)' <=> Routed(n, k)
  BY <1>1 DEF Routed
<1>7. editing' \in [Racers -> {Sales!Idle} \cup RouteEdit] /\ editing'[d] = x
      /\ \A o \in Racers \ {d} : editing'[o] = editing[o]
  BY <1>3, <1>4 DEF RouteInv
<1>8. \A q \in SoldProducts, n \in Ends : Routed(n, routing'[q][n])
  BY <1>1 DEF RouteInv
<1>9. \A o \in Racers : editing'[o] # Sales!Idle =>
        /\ Routed(editing'[o].env, editing'[o].to)
        /\ \A n \in Ends : Routed(n, editing'[o].seen[n])
  BY <1>5, <1>7 DEF RouteInv
<1>10. connection' \in [Connections -> {"none", "active", "revoked"}]
       /\ routing' \in [SoldProducts -> Sales!Routing]
  BY <1>1 DEF RouteInv
<1> QED BY <1>1, <1>7, <1>8, <1>9, <1>10 DEF RouteInv, Routed

LEMMA RouteWrite ==
  ASSUME RouteInv, NEW d \in Racers, Sales!WriteRoute(d)
  PROVE  RouteInv'
<1>1. editing[d] \in RouteEdit /\ editing[d] # Sales!Idle
      /\ connection' = connection
  BY DEF RouteInv, Sales!WriteRoute
<1>2. PICK x : x = editing[d]
  OBVIOUS
<1>3. PICK w : w = [x.seen EXCEPT ![x.env] = x.to]
  OBVIOUS
<1>4. /\ x.product \in SoldProducts /\ x.env \in Ends /\ x.to \in Connections
      /\ x.seen \in Sales!Routing
      /\ Routed(x.env, x.to) /\ \A e \in Ends : Routed(e, x.seen[e])
  BY <1>1, <1>2 DEF RouteInv, RouteEdit
<1>5. w \in Sales!Routing /\ \A e \in Ends : w[e] \in {x.seen[e], x.to} /\ (e # x.env => w[e] = x.seen[e])
  BY <1>3, <1>4 DEF Sales!Routing, Sales!Maybe, Ends
<1>6. \A e \in Ends : Routed(e, w[e])
  <2>1. w[x.env] = x.to
    BY <1>3, <1>4 DEF Sales!Routing, Ends
  <2> QED BY <1>4, <1>5, <2>1
<1>7. routing' = [routing EXCEPT ![x.product] = w] /\ editing' = [editing EXCEPT ![d] = Sales!Idle]
  BY <1>2, <1>3 DEF Sales!WriteRoute
<1>8. /\ editing' \in [Racers -> {Sales!Idle} \cup RouteEdit]
      /\ \A o \in Racers : editing'[o] \in {Sales!Idle, editing[o]}
  BY <1>7 DEF RouteInv
<1> QED BY <1>1, <1>4, <1>5, <1>6, <1>7, <1>8, RoutesWritten

LEMMA SaleGoes ==
  ASSUME SaleInv, NEW k \in Later, NEW q \in Sale, Checked(q),
         checkout' = [checkout EXCEPT ![k] = q]
  PROVE  SaleInv'
<1>1. /\ checkout' \in [Later -> {Sales!Idle} \cup Sale] /\ checkout'[k] = q
      /\ \A j \in Later \ {k} : checkout'[j] = checkout[j]
  BY DEF SaleInv
<1> QED BY <1>1 DEF SaleInv

\* A sale that goes on, with nothing in it but its step changed.
LEMMA SaleTo ==
  ASSUME SaleInv, NEW k \in Later, checkout[k].at # "idle",
         NEW at \in {"listed", "creating", "calling", "answered", "refused", "open", "failed"},
         NEW active \in SUBSET Connections,
         checkout' = [checkout EXCEPT ![k] =
           [checkout[k] EXCEPT !.at = at, !.active = active]],
         LET s == checkout[k]
             b == s.basket IN
         /\ at \in {"creating", "calling", "answered", "open"} =>
              /\ s.to \in Connections
              /\ Sales!Supports(s.to, b.first) /\ b.env \in {ModeOf[s.to], "absent"}
              /\ \A p \in b.items : TermsOf[p].interval = TermsOf[b.first].interval
         /\ at \in {"calling", "answered", "open"} => b.items = {b.first}
  PROVE  SaleInv'
<1>1. checkout[k] \in Sale
  BY SaleFacts DEF SaleInv
<1>2. PICK q : q = [checkout[k] EXCEPT !.at = at, !.active = active]
  OBVIOUS
<1>3. /\ q \in Sale /\ q.at = at /\ q.basket = checkout[k].basket /\ q.to = checkout[k].to
  BY <1>1, <1>2 DEF Sale
<1>4. Checked(q)
  BY <1>3 DEF Checked
<1> QED BY <1>2, <1>3, <1>4, SaleGoes

LEMMA SaleAsk ==
  ASSUME SaleInv, NEW k \in Later, NEW b \in Baskets, Sales!Ask(k, b)
  PROVE  SaleInv'
<1>1. b.named \in Sales!Maybe
  BY SaleFacts DEF Sales!Basket
<1>2. PICK at \in {"asked", "chosen"} : at = IF b.named = Nothing THEN "asked" ELSE "chosen"
  OBVIOUS
<1>3. PICK q : q = [at |-> at, basket |-> b, active |-> {}, to |-> b.named]
  OBVIOUS
<1>4. q \in Sale /\ q.at = at /\ q.basket = b /\ q.to = b.named
  BY <1>1, <1>3 DEF Sale
<1>5. Checked(q)
  BY <1>1, <1>2, <1>4 DEF Checked, Sales!Maybe
<1>6. checkout' = [checkout EXCEPT ![k] = q]
  BY <1>2, <1>3 DEF Sales!Ask, Sales!Goes
<1> QED BY <1>4, <1>5, <1>6, SaleGoes

LEMMA SaleResolve ==
  ASSUME SaleInv, NEW k \in Later, Sales!resolveCheckoutProviderRoute(k)
  PROVE  SaleInv'
<1>1. checkout[k] \in Sale /\ Checked(checkout[k])
  BY SaleFacts DEF SaleInv, Sales!resolveCheckoutProviderRoute, Sales!At
<1>2. PICK c \in checkout[k].active :
        /\ Sales!Supports(c, checkout[k].basket.first)
        /\ checkout' = [checkout EXCEPT ![k] = [Sales!To(k, "chosen") EXCEPT !.to = c]]
  BY DEF Sales!resolveCheckoutProviderRoute, Sales!Goes
<1>3. c \in Connections
  BY <1>1 DEF Sale
<1>4. PICK q : q = [checkout[k] EXCEPT !.at = "chosen", !.to = c]
  OBVIOUS
<1>5. q \in Sale /\ q.at = "chosen" /\ q.to = c /\ q.basket = checkout[k].basket
  BY <1>1, <1>3, <1>4 DEF Sale, Sales!Maybe
<1>6. q = [Sales!To(k, "chosen") EXCEPT !.to = c]
  BY <1>1, <1>4 DEF Sales!To, Sale
<1>7. Checked(q)
  BY <1>2, <1>3, <1>5 DEF Checked
<1> QED BY <1>2, <1>5, <1>6, <1>7, SaleGoes

LEMMA SaleStep ==
  ASSUME SaleInv, NEW k \in Later,
         \/ \E b \in Baskets : Sales!Ask(k, b)
         \/ Sales!loadActiveConnections(k) \/ Sales!resolveCheckoutProviderRoute(k)
         \/ Sales!CreateOrder(k) \/ Sales!Refuse(k) \/ Sales!createProviderCheckout(k)
         \/ Sales!Answer(k) \/ Sales!SetOpen(k) \/ Sales!SetFailed(k)
  PROVE  SaleInv'
<1> DEFINE s == checkout[k]
           b == s.basket
           Bills == /\ s.to \in Connections
                    /\ Sales!Supports(s.to, b.first) /\ b.env \in {ModeOf[s.to], "absent"}
                    /\ \A p \in b.items : TermsOf[p].interval = TermsOf[b.first].interval
<1>0. s.at # "idle" => s \in Sale /\ Checked(s) /\ s.active \in SUBSET Connections
  BY SaleFacts DEF SaleInv, Sale
<1>1. ASSUME s.at # "idle",
             NEW at \in {"creating", "calling", "answered", "refused", "open", "failed"},
             Sales!Goes(k, Sales!To(k, at)),
             at \in {"creating", "calling", "answered", "open"} => Bills,
             at \in {"calling", "answered", "open"} => b.items = {b.first}
      PROVE  SaleInv'
  <2>1. [s EXCEPT !.at = at] = [s EXCEPT !.at = at, !.active = s.active]
    BY <1>0, <1>1 DEF Sale
  <2>2. checkout' = [checkout EXCEPT ![k] = [s EXCEPT !.at = at, !.active = s.active]]
    BY <1>1, <2>1 DEF Sales!Goes, Sales!To
  <2> QED BY <1>0, <1>1, <2>2, SaleTo
<1>2. CASE Sales!loadActiveConnections(k)
  <2>1. PICK active \in SUBSET Connections :
          /\ s.at = "asked"
          /\ checkout' = [checkout EXCEPT ![k] = [Sales!To(k, "listed") EXCEPT !.active = active]]
    BY <1>2 DEF Sales!loadActiveConnections, Sales!At, Sales!Goes
  <2>2. [Sales!To(k, "listed") EXCEPT !.active = active]
          = [s EXCEPT !.at = "listed", !.active = active]
    BY <1>0, <2>1 DEF Sales!To, Sale
  <2> QED BY <1>0, <2>1, <2>2, SaleTo
<1>3. CASE Sales!CreateOrder(k)
  <2>1. /\ s.at = "chosen" /\ Sales!Goes(k, Sales!To(k, "creating"))
        /\ b.env \in {ModeOf[s.to], "absent"}
        /\ b.named # Nothing => Sales!Supports(s.to, b.first)
        /\ \A p \in b.items : TermsOf[p].interval = TermsOf[b.first].interval
    BY <1>3 DEF Sales!CreateOrder, Sales!At
  <2>2. Bills
    BY <1>0, <2>1 DEF Checked
  <2> QED BY <1>1, <2>1, <2>2
<1>4. CASE Sales!Refuse(k)
  BY <1>1, <1>4 DEF Sales!Refuse
<1>5. CASE Sales!createProviderCheckout(k)
  <2>1. /\ s.at = "creating" /\ Sales!Goes(k, Sales!To(k, "calling"))
        /\ Sales!Cardinality(b.items) = 1
    BY <1>5 DEF Sales!createProviderCheckout, Sales!At
  <2>2. Bills
    BY <1>0, <2>1 DEF Checked
  <2>3. IsFiniteSet(b.items) /\ b.first \in b.items
    BY <1>0, <2>1, SaleFacts DEF Sale
  <2>4. Cardinality(b.items) = 1
    BY <2>1 DEF Sales!Cardinality, Cardinality
  <2>5. b.items = {b.first}
    BY <2>3, <2>4, FS_Singleton
  <2> QED BY <1>1, <2>1, <2>2, <2>5
<1>6. ASSUME s.at \in {"calling", "answered"} PROVE Bills /\ b.items = {b.first}
  BY <1>0, <1>6 DEF Checked
<1>7. CASE Sales!Answer(k)
  BY <1>1, <1>6, <1>7 DEF Sales!Answer, Sales!At
<1>8. CASE Sales!SetOpen(k)
  BY <1>1, <1>6, <1>8 DEF Sales!SetOpen, Sales!At
<1>9. CASE Sales!SetFailed(k)
  BY <1>1, <1>9 DEF Sales!SetFailed
<1> QED BY <1>2, <1>3, <1>4, <1>5, <1>7, <1>8, <1>9, SaleAsk, SaleResolve

LEMMA CheckoutStep ==
  ASSUME RouteInv, SaleInv, Sales!Next
  PROVE  RouteInv' /\ SaleInv'
<1>1. ASSUME UNCHANGED checkout PROVE SaleInv'
  BY <1>1 DEF SaleInv
<1>2. ASSUME UNCHANGED <<connection, routing, editing>> PROVE RouteInv'
  BY <1>2 DEF RouteInv, Routed
<1>3. ASSUME NEW c \in Connections,
             Sales!createProviderConnection(c) \/ Sales!revokeProviderConnection(c)
      PROVE  RouteInv' /\ SaleInv'
  BY <1>1, <1>3, RouteConnections
     DEF Sales!createProviderConnection, Sales!revokeProviderConnection
<1>4. ASSUME NEW p \in Prices, Sales!createPrice(p) \/ Sales!archivePrice(p)
      PROVE  RouteInv' /\ SaleInv'
  BY <1>1, <1>2, <1>4 DEF Sales!createPrice, Sales!archivePrice
<1>5. ASSUME NEW p \in Prices, NEW c \in Connections, Sales!createProductFromBuilder(p, c)
      PROVE  RouteInv' /\ SaleInv'
  BY <1>1, <1>5, RouteProduct DEF Sales!createProductFromBuilder
<1>6. ASSUME NEW d \in Racers, Sales!WriteRoute(d)
      PROVE  RouteInv' /\ SaleInv'
  BY <1>1, <1>6, RouteWrite DEF Sales!WriteRoute
<1>7. ASSUME NEW d \in Racers, NEW p \in SoldProducts, NEW e \in Ends, NEW c \in Connections,
             Sales!setProductProviderRoute(d, p, e, c)
      PROVE  RouteInv' /\ SaleInv'
  BY <1>1, <1>7, RouteSet DEF Sales!setProductProviderRoute
<1>8. ASSUME NEW k \in Later,
             \/ \E b \in Baskets : Sales!Ask(k, b)
             \/ Sales!loadActiveConnections(k) \/ Sales!resolveCheckoutProviderRoute(k)
             \/ Sales!CreateOrder(k) \/ Sales!Refuse(k) \/ Sales!createProviderCheckout(k)
             \/ Sales!Answer(k) \/ Sales!SetOpen(k) \/ Sales!SetFailed(k)
      PROVE  RouteInv' /\ SaleInv'
  <2>1. UNCHANGED <<connection, routing, editing>>
    BY <1>8 DEF Sales!Ask, Sales!loadActiveConnections, Sales!resolveCheckoutProviderRoute,
       Sales!CreateOrder, Sales!Refuse, Sales!createProviderCheckout, Sales!Answer,
       Sales!SetOpen, Sales!SetFailed, Sales!Goes, Sales!console
  <2> QED BY <1>2, <1>8, <2>1, SaleStep
<1> QED BY <1>3, <1>4, <1>5, <1>6, <1>7, <1>8 DEF Sales!Next, Ends

\* The inductive invariant of the routes and the sales.
LEMMA CheckoutAlways ==
  MCSpec => [](component = "checkout" => RouteInv /\ SaleInv)
<1> DEFINE Inv == component = "checkout" => RouteInv /\ SaleInv
<1>1. MCInit => Inv
  <2> SUFFICES ASSUME MCInit PROVE RouteInv /\ SaleInv
    OBVIOUS
  <2>1. Sales!Init
    BY DEF MCInit
  <2>2. routing \in [SoldProducts -> Sales!Routing]
        /\ \A p \in SoldProducts, e \in Ends : routing[p][e] = Nothing
    BY <2>1 DEF Sales!Init, Sales!Unrouted, Sales!Routing, Sales!Maybe, Ends
  <2> QED BY <2>1, <2>2 DEF Sales!Init, RouteInv, SaleInv, Routed
<1>2. Inv /\ [MCNext]_<<component, console, clock, usage, keyVars, tokenVars>> => Inv'
  <2> SUFFICES ASSUME RouteInv, SaleInv, component = "checkout",
                      [MCNext]_<<component, console, clock, usage, keyVars, tokenVars>>
               PROVE  RouteInv' /\ SaleInv'
    BY DEF MCNext
  <2>1. Sales!Next \/ UNCHANGED sales
    BY DEF MCNext, ConsoleNext, HostNext, console
  <2>2. UNCHANGED sales => RouteInv' /\ SaleInv'
    BY DEF sales, RouteInv, SaleInv, Routed
  <2> QED BY <2>1, <2>2, CheckoutStep
<1> QED BY <1>1, <1>2, PTL DEF MCSpec

\* An open session is in the environment that was asked for, at a provider that
\* bills every price in it as it is sold, and every route stays at home: for
\* any catalog, connections and editors that overwrite each other.
THEOREM CheckoutAlwaysCanBill ==
  MCSpec => []CheckoutCanBill
<1>1. (component = "checkout" => RouteInv /\ SaleInv) => CheckoutCanBill
  <2> SUFFICES ASSUME RouteInv, SaleInv, component = "checkout" PROVE CheckoutCanBill
    BY DEF CheckoutCanBill
  <2>1. Sales!RoutesStayInTheirEnvironment
    BY DEF RouteInv, Routed, Ends, Sales!RoutesStayInTheirEnvironment
  <2>2. ASSUME NEW k \in Later, checkout[k].at = "open"
        PROVE  LET b == checkout[k].basket
                   c == checkout[k].to IN
               /\ b.env \in {ModeOf[c], "absent"}
               /\ \A p \in b.items :
                    LET sold == TermsOf[p] IN
                    /\ sold.interval = "week" => ProviderOf[c] # "creem"
                    /\ sold.trial => ProviderOf[c] # "creem"
    <3>1. PICK b \in Baskets, c \in Connections :
            /\ b = checkout[k].basket /\ c = checkout[k].to
            /\ Sales!Supports(c, b.first) /\ b.env \in {ModeOf[c], "absent"}
            /\ b.items = {b.first}
      BY <2>2, SaleFacts DEF SaleInv, Sale, Checked
    <3>2. b.first \in Prices
      BY SaleFacts DEF Sales!Basket
    <3>3. PICK sold \in Sales!Terms : sold = TermsOf[b.first]
      BY <3>2, SaleFacts
    <3>4. sold.interval = "once" => ~sold.trial
      BY <3>2, <3>3, SaleFacts
    <3>5. ProviderOf[c] = "creem" =>
            Sales!getProviderCapabilities(c) = {"month", "year"}
      BY DEF Sales!getProviderCapabilities, Sales!CREEM_CAPABILITIES
    <3>6. ProviderOf[c] = "creem" => sold.interval # "week" /\ ~sold.trial
      BY <3>1, <3>3, <3>4, <3>5 DEF Sales!Supports
    <3> QED BY <3>1, <3>3, <3>6
  <2>3. Sales!OpenSessionCanBill
    BY <2>2 DEF Sales!OpenSessionCanBill, Sales!At
  <2> QED BY <2>1, <2>3 DEF CheckoutCanBill
<1> QED BY <1>1, CheckoutAlways, PTL

-------------------------------------------------------------------------------
(* The mapping of a price to a product of the provider.                    *)

Askers == Racers \cup Later
Attempt ==
       [at : {"idle", "over"}]
  \cup [at : {"begin", "claim", "call", "rejected", "uncertain"}, asks : AskedParams]
  \cup [at : {"decide"}, asks : AskedParams, seen : Provisioning!Row, stale : BOOLEAN]
  \cup [at : {"created", "verify"}, asks : AskedParams, made : MadeIds]

\* What a request knows of the row: what it read is what is there as long as
\* nobody has written, an open intent keeps its parameters, and the product
\* that came back is in the row while the token says so.
Word(a) ==
  LET q == attempt[a] IN
  /\ q.at = "decide" =>
       /\ a \in current => q.seen = mapping
       /\ q.seen.status \notin {"none", "synced"} =>
            mapping.status # "none"
            /\ (mapping.status # "synced" => q.seen.frozen = mapping.frozen)
  /\ q.at \in {"claim", "call"} =>
       mapping.status # "none" /\ (mapping.status # "synced" => q.asks = mapping.frozen)
  /\ q.at = "verify" /\ mapping.token = a /\ mapping.status # "synced" =>
       mapping.product = q.made

\* A call that may have been made, or be made, and that nobody has settled,
\* holds the row.
Unsettled(a) == (a \in posted \/ attempt[a].at = "call") /\ a \notin settled
Holds(a) == mapping.token = a /\ mapping.status \in {"creating", "needs_reconciliation"}

Bound == mapping.status = "synced" =>
           mapping.product \in MadeIds /\ product[mapping.product] = "matching"

MapInv ==
  /\ mapping \in Provisioning!Row
  /\ attempt \in [Askers -> Attempt]
  /\ product \in [MadeIds -> {"none", "matching", "other"}]
  /\ posted \subseteq Askers /\ old \in BOOLEAN
  /\ mapping.status \notin {"none", "synced"} => mapping.frozen \in AskedParams
  /\ Bound
  /\ \A a \in Askers : Word(a) /\ (Unsettled(a) => Holds(a))

\* A write of the row: a synced one stays bound as it is, and an intent keeps
\* its parameters.
RowMoves ==
  /\ mapping' \in Provisioning!Row /\ mapping'.status # "none" /\ old' = FALSE /\ current' = {}
  /\ mapping.status = "synced" =>
       mapping'.status = "synced" /\ mapping'.product = mapping.product
  /\ mapping'.status # "synced" =>
       /\ mapping'.frozen \in AskedParams
       /\ mapping.status # "none" => mapping'.frozen = mapping.frozen
  /\ mapping'.status = "synced" =>
       mapping'.product \in MadeIds /\ product[mapping'.product] = "matching"
  /\ UNCHANGED <<product, posted>>

\* A request that goes on beside it keeps what it knows.
Beside(a) ==
  /\ attempt'[a] = attempt[a]
  /\ attempt[a].at = "verify" /\ mapping'.token = a /\ mapping'.status # "synced" =>
       mapping.token = a /\ mapping'.product = mapping.product

LEMMA AttemptsAre ==
  /\ Nothing \notin MadeIds /\ Nothing \notin Askers /\ Nothing \notin AskedParams
  /\ \A q \in Attempt :
       /\ q.at \in {"begin", "claim", "call", "rejected", "uncertain", "decide", "created",
                   "verify"} => q.asks \in AskedParams
       /\ q.at = "decide" => q.seen \in Provisioning!Row
       /\ q.at \in {"created", "verify"} =>
            q \in [at : {"created", "verify"}, asks : AskedParams, made : MadeIds]
  /\ [at |-> "over"] \in Attempt
  /\ \A p \in AskedParams :
       \A at \in {"begin", "claim", "call", "rejected", "uncertain"} :
         [at |-> at, asks |-> p] \in Attempt
<1>1. Nothing \notin MadeIds /\ Nothing \notin Askers /\ Nothing \notin AskedParams
  BY ConsoleAssumption DEF Provisioning!ProvisioningAssumption, Askers
<1> QED BY <1>1 DEF Attempt

LEMMA RowStays ==
  ASSUME MapInv, NEW a \in Askers, NEW q \in Attempt,
         attempt' = [attempt EXCEPT ![a] = q], mapping' = mapping, settled' = settled,
         old' = old,
         current' \subseteq current \cup {a}, posted' \in {posted, posted \cup {a}},
         product' \in [MadeIds -> {"none", "matching", "other"}],
         \A p \in MadeIds : product[p] = "matching" => product'[p] = "matching",
         Word(a)', Unsettled(a)' => Unsettled(a)
  PROVE  MapInv'
<1>1. /\ attempt' \in [Askers -> Attempt] /\ posted' \subseteq Askers
      /\ \A b \in Askers \ {a} : attempt'[b] = attempt[b]
  BY DEF MapInv
<1>2. Bound'
  BY DEF MapInv, Bound
<1>3. \A b \in Askers \ {a} : Word(b)'
  BY <1>1 DEF MapInv, Word
<1>4. \A b \in Askers : Unsettled(b)' => Unsettled(b)
  BY <1>1 DEF Unsettled
<1>5. \A b \in Askers : Unsettled(b)' => Holds(b)'
  BY <1>4 DEF MapInv, Holds
<1> QED BY <1>1, <1>2, <1>3, <1>5 DEF MapInv

LEMMA RowWritten ==
  ASSUME MapInv, RowMoves, attempt' \in [Askers -> Attempt],
         \A a \in Askers : Word(a)' \/ Beside(a),
         \A a \in Askers : Unsettled(a)' => Holds(a)'
  PROVE  MapInv'
<1>1. Bound'
  BY DEF RowMoves, Bound
<1>2. \A a \in Askers : Beside(a) => Word(a)'
  BY DEF MapInv, RowMoves, Beside, Word
<1> QED BY <1>1, <1>2 DEF MapInv, RowMoves

\* A request that ends, or waits for its turn, without the row.
LEMMA RowLeft ==
  ASSUME MapInv, NEW a \in Askers, NEW q \in Attempt,
         q.at \notin {"decide", "claim", "call", "verify"},
         attempt' = [attempt EXCEPT ![a] = q],
         UNCHANGED <<mapping, old, current, product, posted, settled>>
  PROVE  MapInv'
<1>1. attempt'[a] = q
  BY DEF MapInv
<1>2. Word(a)'
  BY <1>1 DEF Word
<1>3. Unsettled(a)' => Unsettled(a)
  BY <1>1 DEF Unsettled
<1> QED BY <1>2, <1>3, RowStays DEF MapInv

LEMMA MapAsk ==
  ASSUME MapInv, NEW a \in Askers, NEW p \in AskedParams, Provisioning!Ask(a, p)
  PROVE  MapInv'
<1>1. PICK q : q = [at |-> "begin", asks |-> p]
  OBVIOUS
<1>2. q \in Attempt /\ q.at = "begin"
  BY <1>1, AttemptsAre
<1>3. /\ attempt' = [attempt EXCEPT ![a] = q]
      /\ UNCHANGED <<mapping, old, current, product, posted, settled>>
  BY <1>1 DEF Provisioning!Ask, Provisioning!Goes, Provisioning!mapping, Provisioning!provider,
     Provisioning!history
<1> QED BY <1>2, <1>3, RowLeft

LEMMA MapOver ==
  ASSUME MapInv, NEW a \in Askers, Provisioning!Over(a),
         UNCHANGED <<mapping, old, current, product, posted, settled>>
  PROVE  MapInv'
<1>1. PICK q : q = [at |-> "over"]
  OBVIOUS
<1>2. q \in Attempt /\ q.at = "over"
  BY <1>1, AttemptsAre
<1>3. attempt' = [attempt EXCEPT ![a] = q]
  BY <1>1 DEF Provisioning!Over, Provisioning!Goes
<1> QED BY <1>2, <1>3, RowLeft

LEMMA MapAgain ==
  ASSUME MapInv, NEW a \in Askers, Provisioning!At(a, "decide"),
         Provisioning!Goes(a, Provisioning!On(a, "begin")),
         UNCHANGED <<mapping, old, current, product, posted, settled>>
  PROVE  MapInv'
<1>1. attempt[a].asks \in AskedParams
  BY AttemptsAre DEF MapInv, Provisioning!At
<1>2. PICK q : q = [at |-> "begin", asks |-> attempt[a].asks]
  OBVIOUS
<1>3. q \in Attempt /\ q.at = "begin"
  BY <1>1, <1>2, AttemptsAre
<1>4. attempt' = [attempt EXCEPT ![a] = q]
  BY <1>2 DEF Provisioning!Goes, Provisioning!On
<1> QED BY <1>3, <1>4, RowLeft

LEMMA MapRead ==
  ASSUME MapInv, NEW a \in Askers, Provisioning!ReadRow(a)
  PROVE  MapInv'
<1>1. attempt[a].at = "begin" /\ attempt[a].asks \in AskedParams
  BY AttemptsAre DEF MapInv, Provisioning!ReadRow, Provisioning!At
<1>2. PICK q : q = [at |-> "decide", asks |-> attempt[a].asks, seen |-> mapping, stale |-> old]
  OBVIOUS
<1>3. q \in Attempt /\ q.at = "decide" /\ q.seen = mapping
  BY <1>1, <1>2 DEF MapInv, Attempt
<1>4. /\ attempt' = [attempt EXCEPT ![a] = q] /\ current' = current \cup {a}
      /\ UNCHANGED <<mapping, old, product, posted, settled>>
  BY <1>2 DEF Provisioning!ReadRow, Provisioning!Goes, Provisioning!provider,
     Provisioning!history
<1>5. attempt'[a] = q
  BY <1>4 DEF MapInv
<1>6. Word(a)'
  BY <1>3, <1>4, <1>5 DEF Word
<1>7. Unsettled(a)' => Unsettled(a)
  BY <1>3, <1>4, <1>5 DEF Unsettled
<1> QED BY <1>3, <1>4, <1>6, <1>7, RowStays DEF MapInv

\* What a write that a request makes and goes on from leaves to the others.
LEMMA MapWrite ==
  ASSUME MapInv, RowMoves, NEW a \in Askers, NEW q \in Attempt,
         attempt' = [attempt EXCEPT ![a] = q], Word(a)',
         \A b \in Askers \ {a} :
           attempt[b].at = "verify" /\ mapping'.token = b /\ mapping'.status # "synced" =>
             mapping.token = b /\ mapping'.product = mapping.product,
         \A b \in Askers : Unsettled(b)' => Holds(b)'
  PROVE  MapInv'
<1>1. /\ attempt' \in [Askers -> Attempt]
      /\ \A b \in Askers \ {a} : attempt'[b] = attempt[b]
  BY DEF MapInv
<1>2. \A b \in Askers : Word(b)' \/ Beside(b)
  BY <1>1 DEF Beside
<1> QED BY <1>1, <1>2, RowWritten

\* Of a row that is not at a call, nothing is unsettled.
LEMMA NobodyHolds ==
  ASSUME MapInv, mapping.status \notin {"creating", "needs_reconciliation"}, NEW a \in Askers
  PROVE  ~Unsettled(a)
BY DEF MapInv, Holds

LEMMA MapInsert ==
  ASSUME MapInv, NEW a \in Askers, Provisioning!Insert(a)
  PROVE  MapInv'
<1>1. attempt[a].at = "decide" /\ attempt[a].asks \in AskedParams
  BY AttemptsAre DEF MapInv, Provisioning!Insert, Provisioning!At
<1>2. CASE mapping.status # "none"
  <2>1. Provisioning!Over(a) /\ UNCHANGED <<mapping, old, current, product, posted, settled>>
    BY <1>2 DEF Provisioning!Insert, Provisioning!mapping, Provisioning!provider,
       Provisioning!history
  <2> QED BY <2>1, MapOver
<1>3. CASE mapping.status = "none"
  <2>1. PICK r : r = [Provisioning!NoRow EXCEPT !.status = "pending", !.frozen = attempt[a].asks]
    OBVIOUS
  <2>2. /\ r \in Provisioning!Row /\ r.status = "pending" /\ r.frozen = attempt[a].asks
        /\ r.token = Nothing
    BY <1>1, <2>1 DEF Provisioning!NoRow, Provisioning!Row, Provisioning!MapStatus
  <2>3. PICK q : q = [at |-> "claim", asks |-> attempt[a].asks]
    OBVIOUS
  <2>4. q \in Attempt /\ q.at = "claim" /\ q.asks = attempt[a].asks
    BY <1>1, <2>3, AttemptsAre
  <2>5. /\ mapping' = r /\ old' = FALSE /\ current' = {}
        /\ attempt' = [attempt EXCEPT ![a] = q] /\ UNCHANGED <<product, posted, settled>>
    BY <1>3, <2>1, <2>3 DEF Provisioning!Insert, Provisioning!Write, Provisioning!Goes,
       Provisioning!On, Provisioning!provider, Provisioning!history
  <2>6. RowMoves
    BY <1>1, <1>3, <2>2, <2>5 DEF RowMoves
  <2>7. attempt'[a] = q /\ \A b \in Askers \ {a} : attempt'[b] = attempt[b]
    BY <2>5 DEF MapInv
  <2>8. Word(a)'
    BY <2>2, <2>4, <2>5, <2>7 DEF Word
  <2>9. \A b \in Askers : ~Unsettled(b)'
    BY <1>3, <2>4, <2>5, <2>7, NobodyHolds DEF Unsettled
  <2>10. \A b \in Askers : mapping'.token # b
    BY <2>2, <2>5, AttemptsAre
  <2> QED BY <2>4, <2>5, <2>6, <2>8, <2>9, <2>10, MapWrite
<1> QED BY <1>2, <1>3

\* What was read of an intent that is still open there still holds.
LEMMA SeenStands ==
  ASSUME MapInv, NEW a \in Askers, attempt[a].at = "decide",
         attempt[a].seen.status \notin {"none", "synced"}, Provisioning!SameIntent(a)
  PROVE  /\ mapping.status # "none" /\ attempt[a].asks \in AskedParams
         /\ mapping.status # "synced" => attempt[a].asks = mapping.frozen
<1>1. /\ attempt[a].asks \in AskedParams /\ mapping.status # "none"
      /\ mapping.status # "synced" => attempt[a].seen.frozen = mapping.frozen
  BY AttemptsAre DEF MapInv, Word
<1>2. mapping.status # "synced" => mapping.frozen \in AskedParams
  BY <1>1 DEF MapInv
<1> QED BY <1>1, <1>2, AttemptsAre DEF Provisioning!SameIntent

LEMMA MapPark ==
  ASSUME MapInv, NEW a \in Askers, Provisioning!parkStaleInFlight(a)
  PROVE  MapInv'
<1>1. /\ attempt[a].at = "decide" /\ attempt[a].seen.status \in {"pending", "creating"}
      /\ UNCHANGED <<product, posted, settled>>
  BY DEF Provisioning!parkStaleInFlight, Provisioning!At, Provisioning!provider,
     Provisioning!history
<1>2. CASE a \in current /\ whole
  <2>1. mapping = attempt[a].seen
    BY <1>1, <1>2 DEF MapInv, Word
  <2>2. PICK r : r = [mapping EXCEPT !.status = "needs_reconciliation"]
    OBVIOUS
  <2>3. /\ r \in Provisioning!Row /\ r.status = "needs_reconciliation"
        /\ r.frozen = mapping.frozen /\ r.token = mapping.token /\ r.product = mapping.product
    BY <2>2 DEF MapInv, Provisioning!Row, Provisioning!MapStatus
  <2>4. PICK q : q = [at |-> "over"]
    OBVIOUS
  <2>5. q \in Attempt /\ q.at = "over"
    BY <2>4, AttemptsAre
  <2>6. /\ mapping' = r /\ old' = FALSE /\ current' = {}
        /\ attempt' = [attempt EXCEPT ![a] = q]
    BY <1>2, <2>2, <2>4 DEF Provisioning!parkStaleInFlight, Provisioning!Parked,
       Provisioning!Write, Provisioning!Over, Provisioning!Goes
  <2>7. RowMoves
    BY <1>1, <2>1, <2>3, <2>6 DEF RowMoves, MapInv
  <2>8. attempt'[a] = q /\ \A b \in Askers \ {a} : attempt'[b] = attempt[b]
    BY <2>6 DEF MapInv
  <2>9. Word(a)'
    BY <2>5, <2>8 DEF Word
  <2>10. \A b \in Askers : Unsettled(b)' => Unsettled(b)
    BY <1>1, <2>5, <2>8 DEF Unsettled
  <2>11. \A b \in Askers : Unsettled(b)' => Holds(b)'
    BY <2>3, <2>6, <2>10 DEF MapInv, Holds
  <2> QED BY <2>3, <2>5, <2>6, <2>7, <2>9, <2>11, MapWrite
<1>3. CASE ~(a \in current /\ whole)
  <2>1. /\ Provisioning!Goes(a, Provisioning!On(a, "begin")) /\ Provisioning!At(a, "decide")
        /\ UNCHANGED <<mapping, old, current, product, posted, settled>>
    BY <1>1, <1>3 DEF Provisioning!parkStaleInFlight, Provisioning!mapping
  <2> QED BY <2>1, MapAgain
<1> QED BY <1>2, <1>3

LEMMA MapReset ==
  ASSUME MapInv, NEW a \in Askers, Provisioning!Reset(a)
  PROVE  MapInv'
<1>1. /\ attempt[a].at = "decide" /\ attempt[a].seen.status = "failed"
      /\ Provisioning!SameIntent(a) /\ UNCHANGED <<product, posted, settled>>
  BY DEF Provisioning!Reset, Provisioning!At, Provisioning!provider, Provisioning!history
<1>2. CASE mapping.status = "failed"
  <2>1. attempt[a].asks \in AskedParams /\ attempt[a].asks = mapping.frozen
    BY <1>1, <1>2, SeenStands
  <2>2. PICK r : r = [mapping EXCEPT !.status = "pending"]
    OBVIOUS
  <2>3. /\ r \in Provisioning!Row /\ r.status = "pending"
        /\ r.frozen = mapping.frozen /\ r.token = mapping.token /\ r.product = mapping.product
    BY <2>2 DEF MapInv, Provisioning!Row, Provisioning!MapStatus
  <2>4. PICK q : q = [at |-> "claim", asks |-> attempt[a].asks]
    OBVIOUS
  <2>5. q \in Attempt /\ q.at = "claim" /\ q.asks = attempt[a].asks
    BY <2>1, <2>4, AttemptsAre
  <2>6. /\ mapping' = r /\ old' = FALSE /\ current' = {}
        /\ attempt' = [attempt EXCEPT ![a] = q]
    BY <1>2, <2>2, <2>4 DEF Provisioning!Reset, Provisioning!Write, Provisioning!Goes,
       Provisioning!On
  <2>7. RowMoves
    BY <1>1, <1>2, <2>1, <2>3, <2>6 DEF RowMoves
  <2>8. attempt'[a] = q /\ \A b \in Askers \ {a} : attempt'[b] = attempt[b]
    BY <2>6 DEF MapInv
  <2>9. Word(a)'
    BY <2>1, <2>3, <2>5, <2>6, <2>8 DEF Word
  <2>10. \A b \in Askers : ~Unsettled(b)'
    BY <1>1, <1>2, <2>5, <2>8, NobodyHolds DEF Unsettled
  <2> QED BY <2>3, <2>5, <2>6, <2>7, <2>9, <2>10, MapWrite
<1>3. CASE mapping.status # "failed"
  <2>1. /\ Provisioning!Goes(a, Provisioning!On(a, "begin")) /\ Provisioning!At(a, "decide")
        /\ UNCHANGED <<mapping, old, current, product, posted, settled>>
    BY <1>1, <1>3 DEF Provisioning!Reset, Provisioning!mapping, Provisioning!At
  <2> QED BY <2>1, MapAgain
<1> QED BY <1>2, <1>3

LEMMA MapClaim ==
  ASSUME MapInv, NEW a \in Askers, Provisioning!Claim(a)
  PROVE  MapInv'
<1>1. /\ attempt[a].at = "claim" /\ attempt[a].asks \in AskedParams
      /\ UNCHANGED <<product, posted, settled>>
  BY AttemptsAre DEF MapInv, Provisioning!Claim, Provisioning!At, Provisioning!provider,
     Provisioning!history
<1>2. CASE mapping.status = "pending"
  <2>1. attempt[a].asks = mapping.frozen
    BY <1>1, <1>2 DEF MapInv, Word
  <2>2. PICK r : r = [mapping EXCEPT !.status = "creating", !.token = a]
    OBVIOUS
  <2>3. /\ r \in Provisioning!Row /\ r.status = "creating"
        /\ r.frozen = mapping.frozen /\ r.token = a /\ r.product = mapping.product
    BY <2>2 DEF MapInv, Provisioning!Row, Provisioning!MapStatus, Askers
  <2>4. PICK q : q = [at |-> "call", asks |-> attempt[a].asks]
    OBVIOUS
  <2>5. q \in Attempt /\ q.at = "call" /\ q.asks = attempt[a].asks
    BY <1>1, <2>4, AttemptsAre
  <2>6. /\ mapping' = r /\ old' = FALSE /\ current' = {}
        /\ attempt' = [attempt EXCEPT ![a] = q]
    BY <1>2, <2>2, <2>4 DEF Provisioning!Claim, Provisioning!Write, Provisioning!Goes,
       Provisioning!On
  <2>7. RowMoves
    BY <1>1, <1>2, <2>1, <2>3, <2>6 DEF RowMoves
  <2>8. attempt'[a] = q /\ \A b \in Askers \ {a} : attempt'[b] = attempt[b]
    BY <2>6 DEF MapInv
  <2>9. Word(a)'
    BY <2>1, <2>3, <2>5, <2>6, <2>8 DEF Word
  <2>10. \A b \in Askers \ {a} : ~Unsettled(b)'
    BY <1>1, <1>2, <2>8, NobodyHolds DEF Unsettled
  <2>11. Holds(a)'
    BY <2>3, <2>6 DEF Holds
  <2>12. \A b \in Askers : mapping'.token = b => b = a
    BY <2>3, <2>6
  <2> QED BY <2>5, <2>6, <2>7, <2>9, <2>10, <2>11, <2>12, MapWrite
<1>3. CASE mapping.status # "pending"
  <2>1. Provisioning!Over(a) /\ UNCHANGED <<mapping, old, current, product, posted, settled>>
    BY <1>1, <1>3 DEF Provisioning!Claim, Provisioning!mapping
  <2> QED BY <2>1, MapOver
<1> QED BY <1>2, <1>3

\* The call, whatever comes of it.
LEMMA MapCall ==
  ASSUME MapInv, NEW a \in Askers, attempt[a].at = "call", NEW q \in Attempt,
         q.at \in {"created", "rejected", "uncertain"},
         attempt' = [attempt EXCEPT ![a] = q], posted' = posted \cup {a},
         UNCHANGED <<mapping, old, current, settled>>,
         product' \in [MadeIds -> {"none", "matching", "other"}],
         \A p \in MadeIds : product[p] = "matching" => product'[p] = "matching"
  PROVE  MapInv'
<1>1. attempt'[a] = q
  BY DEF MapInv
<1>2. Word(a)'
  BY <1>1 DEF Word
<1>3. Unsettled(a)' => Unsettled(a)
  BY DEF Unsettled
<1> QED BY <1>2, <1>3, RowStays

LEMMA MapCreated ==
  ASSUME MapInv, NEW a \in Askers, NEW p \in MadeIds, NEW quality \in {"matching", "other"},
         Provisioning!Created(a, p, quality)
  PROVE  MapInv'
<1>1. /\ attempt[a].at = "call" /\ attempt[a].asks \in AskedParams
      /\ posted' = posted \cup {a} /\ UNCHANGED <<mapping, old, current, settled>>
  BY AttemptsAre DEF MapInv, Provisioning!Created, Provisioning!At, Provisioning!mapping
<1>2. PICK q \in Attempt : /\ q.at \in {"created", "uncertain"}
                           /\ attempt' = [attempt EXCEPT ![a] = q]
  <2>1. CASE Provisioning!Goes(a, [at |-> "created", asks |-> attempt[a].asks, made |-> p])
    <3>1. PICK q : q = [at |-> "created", asks |-> attempt[a].asks, made |-> p]
      OBVIOUS
    <3>2. q \in Attempt /\ q.at = "created"
      BY <1>1, <3>1 DEF Attempt
    <3> QED BY <2>1, <3>1, <3>2 DEF Provisioning!Goes
  <2>2. CASE Provisioning!Goes(a, Provisioning!On(a, "uncertain"))
    <3>1. PICK q : q = [at |-> "uncertain", asks |-> attempt[a].asks]
      OBVIOUS
    <3>2. q \in Attempt /\ q.at = "uncertain"
      BY <1>1, <3>1, AttemptsAre
    <3> QED BY <2>2, <3>1, <3>2 DEF Provisioning!Goes, Provisioning!On
  <2> QED BY <2>1, <2>2 DEF Provisioning!Created
<1>3. /\ product' \in [MadeIds -> {"none", "matching", "other"}]
      /\ \A x \in MadeIds : product[x] = "matching" => product'[x] = "matching"
  BY DEF MapInv, Provisioning!Created, Provisioning!Make, Provisioning!provider
<1> QED BY <1>1, <1>2, <1>3, MapCall

LEMMA MapNotCreated ==
  ASSUME MapInv, NEW a \in Askers, Provisioning!NotCreated(a)
  PROVE  MapInv'
<1>1. /\ attempt[a].at = "call" /\ attempt[a].asks \in AskedParams
      /\ posted' = posted \cup {a} /\ UNCHANGED <<mapping, old, current, product, settled>>
  BY AttemptsAre DEF MapInv, Provisioning!NotCreated, Provisioning!At, Provisioning!mapping,
     Provisioning!provider
<1>2. PICK at \in {"rejected", "uncertain"} :
        attempt' = [attempt EXCEPT ![a] = [at |-> at, asks |-> attempt[a].asks]]
  BY DEF Provisioning!NotCreated, Provisioning!Goes, Provisioning!On
<1>3. PICK q : q = [at |-> at, asks |-> attempt[a].asks]
  OBVIOUS
<1>4. q \in Attempt /\ q.at = at
  BY <1>1, <1>3, AttemptsAre
<1> QED BY <1>1, <1>2, <1>3, <1>4, MapCall DEF MapInv

\* What the owner of the row writes: nobody else has an open call.
LEMMA MapFinish ==
  ASSUME MapInv, NEW a \in Askers, Provisioning!Owns(a), RowMoves,
         NEW q \in Attempt, q.at # "call", attempt[a].at # "call",
         attempt' = [attempt EXCEPT ![a] = q], mapping'.token = a, Word(a)',
         settled' \in {settled, settled \cup {a}},
         a \notin settled' => mapping'.status \in {"creating", "needs_reconciliation"}
  PROVE  MapInv'
<1>1. attempt'[a] = q /\ \A b \in Askers \ {a} : attempt'[b] = attempt[b]
  BY DEF MapInv
<1>2. mapping.token = a
  BY DEF Provisioning!Owns
<1>3. posted' = posted
  BY DEF RowMoves
<1>4. \A b \in Askers \ {a} : ~Unsettled(b)
  BY <1>2 DEF MapInv, Holds
<1>5. \A b \in Askers \ {a} : ~Unsettled(b)'
  BY <1>1, <1>3, <1>4 DEF Unsettled
<1>6. Unsettled(a)' => Holds(a)'
  BY DEF Unsettled, Holds
<1>7. \A b \in Askers \ {a} : mapping'.token # b
  OBVIOUS
<1> QED BY <1>5, <1>6, <1>7, MapWrite

LEMMA MapSettle ==
  ASSUME MapInv, NEW a \in Askers, attempt[a].at # "call",
         NEW status \in {"failed", "needs_reconciliation"}, Provisioning!Settle(a, status),
         UNCHANGED <<product, keyed, posted>>
  PROVE  MapInv'
<1>1. CASE Provisioning!Owns(a)
  <2>1. mapping.token = a /\ mapping.status \in {"creating", "needs_reconciliation"}
    BY <1>1 DEF Provisioning!Owns
  <2>2. PICK r : r = [mapping EXCEPT !.status = status]
    OBVIOUS
  <2>3. /\ r \in Provisioning!Row /\ r.status = status
        /\ r.frozen = mapping.frozen /\ r.token = mapping.token /\ r.product = mapping.product
    BY <2>2 DEF MapInv, Provisioning!Row, Provisioning!MapStatus
  <2>4. PICK q : q = [at |-> "over"]
    OBVIOUS
  <2>5. q \in Attempt /\ q.at = "over"
    BY <2>4, AttemptsAre
  <2>6. /\ mapping' = r /\ old' = FALSE /\ current' = {}
        /\ attempt' = [attempt EXCEPT ![a] = q]
        /\ settled' = IF status = "failed" THEN settled \cup {a} ELSE settled
    BY <1>1, <2>2, <2>4 DEF Provisioning!Settle, Provisioning!Write, Provisioning!Over,
       Provisioning!Goes
  <2>7. RowMoves
    BY <2>1, <2>3, <2>6 DEF RowMoves, MapInv
  <2>8. attempt'[a] = q
    BY <2>6 DEF MapInv
  <2>9. Word(a)'
    BY <2>5, <2>8 DEF Word
  <2>10. /\ settled' \in {settled, settled \cup {a}}
         /\ a \notin settled' => mapping'.status \in {"creating", "needs_reconciliation"}
    BY <2>3, <2>6
  <2>11. mapping'.token = a
    BY <2>1, <2>3, <2>6
  <2> QED BY <1>1, <2>5, <2>6, <2>7, <2>9, <2>10, <2>11, MapFinish
<1>2. CASE ~Provisioning!Owns(a)
  <2>1. Provisioning!Over(a) /\ UNCHANGED <<mapping, old, current, product, posted, settled>>
    BY <1>2 DEF Provisioning!Settle, Provisioning!mapping
  <2> QED BY <2>1, MapOver
<1> QED BY <1>1, <1>2

LEMMA MapPersist ==
  ASSUME MapInv, NEW a \in Askers, Provisioning!PersistCreatedId(a)
  PROVE  MapInv'
<1>1. /\ attempt[a].at = "created" /\ attempt[a].made \in MadeIds
      /\ attempt[a] \in [at : {"created", "verify"}, asks : AskedParams, made : MadeIds]
      /\ UNCHANGED <<product, posted, settled>>
  BY AttemptsAre DEF MapInv, Provisioning!PersistCreatedId, Provisioning!At,
     Provisioning!provider, Provisioning!history
<1>2. CASE Provisioning!Owns(a)
  <2>1. mapping.token = a /\ mapping.status \in {"creating", "needs_reconciliation"}
    BY <1>2 DEF Provisioning!Owns
  <2>2. PICK r : r = [mapping EXCEPT !.product = attempt[a].made]
    OBVIOUS
  <2>3. /\ r \in Provisioning!Row /\ r.status = mapping.status
        /\ r.frozen = mapping.frozen /\ r.token = mapping.token
        /\ r.product = attempt[a].made
    BY <1>1, <2>2 DEF MapInv, Provisioning!Row
  <2>4. PICK q : q = [attempt[a] EXCEPT !.at = "verify"]
    OBVIOUS
  <2>5. q \in Attempt /\ q.at = "verify" /\ q.made = attempt[a].made
    BY <1>1, <2>4 DEF Attempt
  <2>6. /\ mapping' = r /\ old' = FALSE /\ current' = {}
        /\ attempt' = [attempt EXCEPT ![a] = q]
    BY <1>2, <2>2, <2>4 DEF Provisioning!PersistCreatedId, Provisioning!Write,
       Provisioning!Goes
  <2>7. RowMoves
    BY <1>1, <2>1, <2>3, <2>6 DEF RowMoves, MapInv
  <2>8. attempt'[a] = q
    BY <2>6 DEF MapInv
  <2>9. Word(a)'
    BY <2>3, <2>5, <2>6, <2>8 DEF Word
  <2>10. mapping'.token = a /\ mapping'.status \in {"creating", "needs_reconciliation"}
    BY <2>1, <2>3, <2>6
  <2> QED BY <1>1, <1>2, <2>5, <2>6, <2>7, <2>9, <2>10, MapFinish
<1>3. CASE ~Provisioning!Owns(a)
  <2>1. Provisioning!Over(a) /\ UNCHANGED <<mapping, old, current, product, posted, settled>>
    BY <1>1, <1>3 DEF Provisioning!PersistCreatedId, Provisioning!mapping
  <2> QED BY <2>1, MapOver
<1> QED BY <1>2, <1>3

LEMMA MapVerify ==
  ASSUME MapInv, NEW a \in Askers, Provisioning!Verify(a)
  PROVE  MapInv'
<1>1. /\ attempt[a].at = "verify" /\ attempt[a].made \in MadeIds
      /\ UNCHANGED <<product, posted>>
  BY AttemptsAre DEF MapInv, Provisioning!Verify, Provisioning!At, Provisioning!provider
<1>2. CASE Provisioning!Owns(a)
  <2>1. mapping.token = a /\ mapping.status \in {"creating", "needs_reconciliation"}
    BY <1>2 DEF Provisioning!Owns
  <2>2. PICK r : /\ mapping' = r /\ old' = FALSE /\ current' = {}
                 /\ \/ /\ Provisioning!Matches(a)
                       /\ r = [mapping EXCEPT !.product = attempt[a].made,
                                              !.status = "synced", !.frozen = Nothing]
                    \/ r = [mapping EXCEPT !.product = attempt[a].made,
                                           !.status = "needs_reconciliation"]
    BY <1>2 DEF Provisioning!Verify, Provisioning!Write
  <2>3. /\ r \in Provisioning!Row /\ r.token = mapping.token /\ r.product = attempt[a].made
        /\ \/ r.status = "synced" /\ product[r.product] = "matching"
           \/ r.status = "needs_reconciliation" /\ r.frozen = mapping.frozen
    BY <1>1, <2>2 DEF MapInv, Provisioning!Row, Provisioning!MapStatus, Provisioning!Matches
  <2>4. PICK q : q = [at |-> "over"]
    OBVIOUS
  <2>5. q \in Attempt /\ q.at = "over"
    BY <2>4, AttemptsAre
  <2>6. /\ attempt' = [attempt EXCEPT ![a] = q]
        /\ settled' = IF mapping'.status = "synced" THEN settled \cup {a} ELSE settled
    BY <1>2, <2>4 DEF Provisioning!Verify, Provisioning!Over, Provisioning!Goes
  <2>7. RowMoves
    BY <1>1, <2>1, <2>2, <2>3 DEF RowMoves, MapInv
  <2>8. attempt'[a] = q
    BY <2>6 DEF MapInv
  <2>9. Word(a)'
    BY <2>5, <2>8 DEF Word
  <2>10. /\ settled' \in {settled, settled \cup {a}} /\ mapping'.token = a
         /\ a \notin settled' => mapping'.status \in {"creating", "needs_reconciliation"}
    BY <2>1, <2>2, <2>3, <2>6
  <2> QED BY <1>1, <1>2, <2>5, <2>6, <2>7, <2>9, <2>10, MapFinish
<1>3. CASE ~Provisioning!Owns(a)
  <2>1. Provisioning!Over(a) /\ UNCHANGED <<mapping, old, current, product, posted, settled>>
    BY <1>1, <1>3 DEF Provisioning!Verify, Provisioning!mapping
  <2> QED BY <2>1, MapOver
<1> QED BY <1>2, <1>3

LEMMA MapFinishes ==
  ASSUME MapInv, NEW a \in Askers, Provisioning!Finishes(a)
  PROVE  MapInv'
<1>1. CASE Provisioning!FinishRejected(a)
  <2>1. /\ attempt[a].at # "call" /\ Provisioning!Settle(a, "failed")
        /\ UNCHANGED <<product, keyed, posted>>
    BY <1>1 DEF Provisioning!FinishRejected, Provisioning!At, Provisioning!provider
  <2> QED BY <2>1, MapSettle
<1>2. CASE Provisioning!FinishUncertain(a)
  <2>1. /\ attempt[a].at # "call" /\ Provisioning!Settle(a, "needs_reconciliation")
        /\ UNCHANGED <<product, keyed, posted>>
    BY <1>2 DEF Provisioning!FinishUncertain, Provisioning!At, Provisioning!provider
  <2> QED BY <2>1, MapSettle
<1> QED BY <1>1, <1>2, MapPersist, MapVerify DEF Provisioning!Finishes

\* What the operator decides settles the attempt that the row names.
LEMMA MapDecided ==
  ASSUME MapInv, RowMoves, attempt' = attempt, mapping'.token = mapping.token,
         settled' = settled \cup ({mapping.token} \ {Nothing}),
         mapping'.status = "synced" \/ mapping'.product = mapping.product
  PROVE  MapInv'
<1>1. \A a \in Askers : Beside(a)
  BY DEF Beside
<1>2. \A a \in Askers : Unsettled(a)' => Unsettled(a)
  BY DEF Unsettled, RowMoves
<1>3. \A a \in Askers : ~Unsettled(a)'
  BY <1>2, AttemptsAre DEF MapInv, Holds, Unsettled
<1>4. attempt' \in [Askers -> Attempt]
  BY DEF MapInv
<1> QED BY <1>1, <1>3, <1>4, RowWritten

LEMMA MapDeclaredFailed ==
  ASSUME MapInv, Provisioning!failNeedsReconciliationIntent
  PROVE  MapInv'
<1>1. PICK r : r = [mapping EXCEPT !.status = "failed"]
  OBVIOUS
<1>2. /\ r \in Provisioning!Row /\ r.status = "failed"
      /\ r.frozen = mapping.frozen /\ r.token = mapping.token /\ r.product = mapping.product
  BY <1>1 DEF MapInv, Provisioning!Row, Provisioning!MapStatus
<1>3. /\ mapping.status = "needs_reconciliation"
      /\ mapping' = r /\ old' = FALSE /\ current' = {} /\ attempt' = attempt
      /\ settled' = settled \cup ({mapping.token} \ {Nothing})
      /\ UNCHANGED <<product, posted>>
  BY <1>1 DEF Provisioning!failNeedsReconciliationIntent, Provisioning!Write,
     Provisioning!provider
<1>4. RowMoves
  BY <1>2, <1>3 DEF RowMoves, MapInv
<1> QED BY <1>2, <1>3, <1>4, MapDecided

LEMMA MapLinked ==
  ASSUME MapInv, NEW p \in MadeIds, Provisioning!linkProviderCatalogProductFromConsole(p)
  PROVE  MapInv'
<1>1. PICK r : r = [mapping EXCEPT !.status = "synced", !.product = p, !.frozen = Nothing]
  OBVIOUS
<1>2. /\ r \in Provisioning!Row /\ r.status = "synced" /\ r.token = mapping.token
      /\ r.product = p
  BY <1>1 DEF MapInv, Provisioning!Row, Provisioning!MapStatus
<1>3. /\ mapping' = r /\ old' = FALSE /\ current' = {} /\ attempt' = attempt
      /\ mapping.status = "synced" => mapping.product = p
      /\ settled' = settled \cup ({mapping.token} \ {Nothing})
      /\ product[p] = "matching" /\ UNCHANGED <<product, posted>>
  BY <1>1 DEF Provisioning!linkProviderCatalogProductFromConsole, Provisioning!Adoptable,
     Provisioning!linkProviderCatalogProduct, Provisioning!previewProviderCatalogLink,
     Provisioning!Write, Provisioning!provider
<1>4. RowMoves
  BY <1>2, <1>3 DEF RowMoves
<1> QED BY <1>2, <1>3, <1>4, MapDecided

LEMMA MapElapse ==
  ASSUME MapInv, \/ Provisioning!Elapse
                 \/ UNCHANGED <<mapping, old, current, attempt, product, posted, settled>>
  PROVE  MapInv'
<1>1. /\ UNCHANGED <<mapping, current, attempt, product, posted, settled>> /\ old' \in BOOLEAN
  BY DEF MapInv, Provisioning!Elapse, Provisioning!provider, Provisioning!history
<1>2. Bound'
  BY <1>1 DEF MapInv, Bound
<1>3. \A a \in Askers : Word(a)'
  BY <1>1 DEF MapInv, Word
<1>4. \A a \in Askers : Unsettled(a)' => Holds(a)'
  BY <1>1 DEF MapInv, Unsettled, Holds
<1> QED BY <1>1, <1>2, <1>3, <1>4 DEF MapInv

LEMMA MapStep ==
  ASSUME MapInv, Provisioning!Next \/ UNCHANGED provisioned
  PROVE  MapInv'
<1>1. ASSUME NEW a \in Askers,
             \/ \E p \in AskedParams : Provisioning!Ask(a, p)
             \/ Provisioning!Begins(a) \/ Provisioning!Claim(a) \/ Provisioning!NotCreated(a)
             \/ Provisioning!Finishes(a) \/ Provisioning!Die(a)
             \/ \E p \in MadeIds, quality \in {"matching", "other"} :
                  Provisioning!Created(a, p, quality)
      PROVE  MapInv'
  <2>1. CASE Provisioning!TurnAway(a) \/ Provisioning!Die(a)
    <3>1. /\ Provisioning!Over(a)
          /\ UNCHANGED <<mapping, old, current, product, posted, settled>>
      BY <2>1 DEF Provisioning!TurnAway, Provisioning!Die, Provisioning!mapping,
         Provisioning!provider, Provisioning!history
    <3> QED BY <3>1, MapOver
  <2> QED BY <1>1, <2>1, MapAsk, MapRead, MapInsert, MapPark, MapReset, MapClaim,
             MapCreated, MapNotCreated, MapFinishes DEF Provisioning!Begins
<1>2. CASE Provisioning!Elapse \/ UNCHANGED provisioned
  BY <1>2, MapElapse DEF provisioned
<1> QED BY <1>1, <1>2, MapDeclaredFailed, MapLinked DEF Provisioning!Next, Askers

LEMMA MapStart ==
  ASSUME MCInit
  PROVE  MapInv
<1>1. /\ Provisioning!Init
  BY DEF MCInit
<1>2. PICK q : q = [at |-> "idle"]
  OBVIOUS
<1>3. q \in Attempt /\ q.at = "idle"
  BY <1>2 DEF Attempt
<1>4. attempt = [a \in Askers |-> q]
  BY <1>1, <1>2 DEF Provisioning!Init, Askers
<1>5. attempt \in [Askers -> Attempt] /\ \A a \in Askers : attempt[a].at = "idle"
  BY <1>3, <1>4
<1>6. /\ mapping \in Provisioning!Row /\ mapping.status = "none"
  BY <1>1 DEF Provisioning!Init, Provisioning!NoRow, Provisioning!Row, Provisioning!MapStatus
<1>7. \A a \in Askers : Word(a) /\ ~Unsettled(a)
  BY <1>1, <1>5 DEF Provisioning!Init, Word, Unsettled
<1>8. product \in [MadeIds -> {"none", "matching", "other"}]
  BY <1>1 DEF Provisioning!Init
<1> QED BY <1>1, <1>5, <1>6, <1>7, <1>8 DEF Provisioning!Init, MapInv, Bound

\* The steps of the other components, and of none, leave the mapping as it is.
LEMMA MapRuns ==
  ASSUME [MCNext]_<<component, console, clock, usage, keyVars, tokenVars>>
  PROVE  /\ component' = component
         /\ \/ component = "provisioning" /\ Provisioning!Next
            \/ UNCHANGED provisioned
BY DEF MCNext, ConsoleNext, HostNext, console

\* The inductive invariant of the mapping.
LEMMA MapAlways ==
  MCSpec => []MapInv
<1>1. MCInit => MapInv
  BY MapStart
<1>2. MapInv /\ [MCNext]_<<component, console, clock, usage, keyVars, tokenVars>> => MapInv'
  BY MapRuns, MapStep
<1> QED BY <1>1, <1>2, PTL DEF MCSpec

(* What a provider was asked to create stands, whatever order requests,     *)
(* crashes, answers and the operator come in: of the calls that were sent   *)
(* one at most is settled neither by its answer nor by the operator, the    *)
(* calls of an open intent ask for what it froze, and the id that came back *)
(* is in the row while its attempt owns it (catalog-provisioning.ts,        *)
(* beginProvision to finishProvision).                                      *)
THEOREM WordAlwaysKept ==
  MCSpec => []IntentKeepsItsWord
<1>1. MapInv => IntentKeepsItsWord
  <2> SUFFICES ASSUME MapInv PROVE IntentKeepsItsWord
    OBVIOUS
  <2>1. ASSUME NEW a \in posted, NEW b \in posted, a \notin settled, b \notin settled
        PROVE  a = b
    <3>1. a \in Askers /\ b \in Askers /\ Unsettled(a) /\ Unsettled(b)
      BY <2>1 DEF MapInv, Unsettled
    <3> QED BY <3>1 DEF MapInv, Holds
  <2>2. Provisioning!NothingUncertainIsSentAgain
    BY <2>1 DEF Provisioning!NothingUncertainIsSentAgain
  <2>3. Provisioning!OneKeyOneRequest
    BY DEF Provisioning!OneKeyOneRequest, MapInv, Word, Askers
  <2>4. Provisioning!CreatedIdKept
    BY DEF Provisioning!CreatedIdKept, Provisioning!At, Provisioning!Owns, MapInv, Word, Askers
  <2> QED BY <2>2, <2>3, <2>4 DEF IntentKeepsItsWord
<1> QED BY <1>1, MapAlways, PTL

\* No step of the component writes a synced row, but to link it again as it is.
LEMMA SyncedStays ==
  ASSUME MapInv, Provisioning!Next, mapping.status = "synced"
  PROVE  mapping'.status = "synced" /\ mapping'.product = mapping.product
<1>1. ASSUME NEW a \in Askers, Provisioning!Begins(a)
      PROVE  mapping' = mapping
  <2>1. CASE Provisioning!parkStaleInFlight(a)
    <3>1. /\ attempt[a].at = "decide" /\ attempt[a].seen.status # "synced"
          /\ a \in current => attempt[a].seen = mapping
      BY <2>1 DEF Provisioning!parkStaleInFlight, Provisioning!At, MapInv, Word
    <3> QED BY <2>1, <3>1 DEF Provisioning!parkStaleInFlight, Provisioning!mapping
  <2> QED BY <1>1, <2>1 DEF Provisioning!Begins, Provisioning!ReadRow, Provisioning!Insert,
          Provisioning!TurnAway, Provisioning!Reset, Provisioning!mapping
<1>2. ASSUME NEW a \in Askers, Provisioning!Finishes(a)
      PROVE  mapping' = mapping
  BY <1>2 DEF Provisioning!Finishes, Provisioning!FinishRejected, Provisioning!FinishUncertain,
     Provisioning!Settle, Provisioning!PersistCreatedId, Provisioning!Verify,
     Provisioning!Owns, Provisioning!mapping
<1>3. ASSUME NEW a \in Askers,
             \/ \E p \in AskedParams : Provisioning!Ask(a, p)
             \/ Provisioning!Claim(a) \/ Provisioning!NotCreated(a) \/ Provisioning!Die(a)
             \/ \E p \in MadeIds, quality \in {"matching", "other"} :
                  Provisioning!Created(a, p, quality)
      PROVE  mapping' = mapping
  BY <1>3 DEF Provisioning!Ask, Provisioning!Claim, Provisioning!NotCreated, Provisioning!Die,
     Provisioning!Created, Provisioning!mapping
<1>4. ASSUME NEW p \in MadeIds, Provisioning!linkProviderCatalogProductFromConsole(p)
      PROVE  mapping'.status = "synced" /\ mapping'.product = mapping.product
  <2>1. /\ mapping.product = p
        /\ mapping' = [mapping EXCEPT !.status = "synced", !.product = p, !.frozen = Nothing]
    BY <1>4 DEF Provisioning!linkProviderCatalogProductFromConsole, Provisioning!Adoptable,
       Provisioning!linkProviderCatalogProduct, Provisioning!Write
  <2> QED BY <2>1 DEF MapInv, Provisioning!Row
<1>5. ~Provisioning!failNeedsReconciliationIntent
  BY DEF Provisioning!failNeedsReconciliationIntent
<1>6. ~Provisioning!Elapse
  BY DEF Provisioning!Elapse
<1> QED BY <1>1, <1>2, <1>3, <1>4, <1>5, <1>6 DEF Provisioning!Next, Askers

(* A price that checkout sends to a product of the provider was compared    *)
(* with it, and is never sent to another: no late answer, no parked or      *)
(* retried attempt and no second link moves it (catalog-provisioning.ts,    *)
(* catalog-mapping.ts).                                                     *)
THEOREM BindingsAlwaysVerified ==
  MCSpec => BindingsAreVerified
<1>1. MapInv => (component = "provisioning" => Provisioning!SyncedWasVerified)
  BY DEF MapInv, Bound, Provisioning!SyncedWasVerified
<1>2. MapInv /\ [MCNext]_<<component, console, clock, usage, keyVars, tokenVars>>
        => [mapping.status = "synced" => /\ mapping'.status = "synced"
                                         /\ mapping'.product = mapping.product
           ]_Provisioning!vars
  BY MapRuns, SyncedStays DEF provisioned
<1> QED BY <1>1, <1>2, MapAlways, PTL DEF MCSpec, BindingsAreVerified,
           Provisioning!CheckoutNeverSwitches

-------------------------------------------------------------------------------
(* The reads of a host, by their windows.                                  *)

Times == Seq(Limiter!Clock)

\* Times by windows: each is in the window that begins at w[i], two windows
\* do not overlap, `most` times at most are in one of them, the last `count`
\* are in the one that begins at `start` and the windows of the others are over.
Fall(w, times, most, count, start) ==
  /\ \A i \in DOMAIN times : w[i] <= times[i] /\ times[i] < w[i] + Window
  /\ \A i, j \in DOMAIN times : i < j => w[i] = w[j] \/ w[i] + Window <= w[j]
  /\ \A i, j \in DOMAIN times : j = i + most => w[i] # w[j]
  /\ \A i \in DOMAIN times :
       IF i <= Len(times) - count THEN w[i] + Window <= start ELSE w[i] = start
InWindows(times, most, count, start) ==
  \E w \in [DOMAIN times -> Int] : Fall(w, times, most, count, start)

Start(c) == IF c \in DOMAIN windows THEN windows[c].resetAt - Window ELSE now
Taken(c) == IF c \in DOMAIN windows THEN windows[c].count ELSE 0
Alarmed(c) == IF c \in DOMAIN windows /\ windows[c].breachLogged THEN 1 ELSE 0

ReadInv ==
  /\ Limiter!TypeOK
  /\ \A c \in Racers :
       /\ Start(c) <= now
       /\ InWindows(reads[c], Limit, Taken(c), Start(c))
       /\ InWindows(alarms[c], 1, Alarmed(c), Start(c))

LEMMA LimiterFacts ==
  /\ Limit \in Nat \ {0} /\ MaxWindows \in Nat \ {0} /\ Window \in Nat \ {0}
  /\ MaxTime \in Nat /\ \A t \in Limiter!Clock : t \in Nat /\ t \in Int
BY ConsoleAssumption DEF Limiter!LimiterAssumption, Limiter!Clock

\* The window of these times is over, and another may begin.
LEMMA WindowOver ==
  ASSUME NEW times \in Times, NEW most \in Nat, NEW count \in Nat, NEW start \in Int,
         InWindows(times, most, count, start),
         NEW next \in Int, IF count = 0 THEN start <= next ELSE start + Window <= next
  PROVE  InWindows(times, most, 0, next)
<1>1. Len(times) \in Nat /\ DOMAIN times = 1 .. Len(times)
  BY DEF Times
<1>2. PICK w \in [DOMAIN times -> Int] : Fall(w, times, most, count, start)
  BY DEF InWindows
<1>3. \A i \in DOMAIN times : w[i] + Window <= next
  <2> TAKE i \in DOMAIN times
  <2>1. w[i] \in Int /\ i \in 1 .. Len(times)
    BY <1>1, <1>2
  <2>2. IF i <= Len(times) - count THEN w[i] + Window <= start ELSE w[i] = start
    BY <1>2 DEF Fall
  <2> QED BY <1>1, <2>1, <2>2, LimiterFacts
<1>4. Fall(w, times, most, 0, next)
  BY <1>1, <1>2, <1>3 DEF Fall
<1> QED BY <1>2, <1>4 DEF InWindows

\* One more time in the window that is open.
LEMMA WindowGrows ==
  ASSUME NEW times \in Times, NEW most \in Nat \ {0}, NEW count \in Nat, NEW start \in Int,
         InWindows(times, most, count, start), count < most,
         NEW t \in Limiter!Clock, start <= t, t < start + Window
  PROVE  InWindows(Append(times, t), most, count + 1, start)
<1> DEFINE n == Len(times)
           more == Append(times, t)
<1>1. n \in Nat /\ DOMAIN times = 1 .. n
  BY DEF Times
<1>2. /\ Len(more) = n + 1 /\ DOMAIN more = 1 .. n + 1 /\ more[n + 1] = t
      /\ \A i \in 1 .. n : more[i] = times[i] /\ times[i] \in Int
  <2>1. /\ Len(more) = n + 1 /\ DOMAIN more = 1 .. n + 1 /\ more[n + 1] = t
        /\ \A i \in 1 .. n : more[i] = times[i] /\ times[i] \in Limiter!Clock
    BY DEF Times
  <2> QED BY <2>1, LimiterFacts
<1>3. PICK w \in [DOMAIN times -> Int] : Fall(w, times, most, count, start)
  BY DEF InWindows
<1>4. PICK v : v = [i \in 1 .. n + 1 |-> IF i = n + 1 THEN start ELSE w[i]]
  OBVIOUS
<1>5. /\ v \in [DOMAIN more -> Int] /\ v[n + 1] = start
      /\ \A i \in 1 .. n : v[i] = w[i] /\ w[i] \in Int
  BY <1>1, <1>2, <1>3, <1>4
<1> HIDE DEF n, more
<1>6. \A i \in 1 .. n : w[i] = start \/ w[i] + Window <= start
  BY <1>1, <1>3 DEF Fall
<1>7. \A i \in 1 .. n : i <= n - count => w[i] + Window <= start
  BY <1>1, <1>3 DEF Fall, n
<1>8. \A i \in 1 .. n + 1 : v[i] <= more[i] /\ more[i] < v[i] + Window
  <2>1. \A i \in 1 .. n : w[i] <= times[i] /\ times[i] < w[i] + Window
    BY <1>1, <1>3 DEF Fall
  <2>2. \A i \in 1 .. n + 1 : i \in 1 .. n \/ i = n + 1
    BY <1>1
  <2> QED BY <1>2, <1>5, <2>1, <2>2
<1>9. \A i, j \in 1 .. n + 1 : i < j => v[i] = v[j] \/ v[i] + Window <= v[j]
  <2>1. \A i, j \in 1 .. n : i < j => w[i] = w[j] \/ w[i] + Window <= w[j]
    BY <1>1, <1>3 DEF Fall
  <2>2. \A i, j \in 1 .. n + 1 : i < j => i \in 1 .. n /\ (j \in 1 .. n \/ j = n + 1)
    BY <1>1
  <2> QED BY <1>5, <1>6, <2>1, <2>2
<1>10. \A i, j \in 1 .. n + 1 : j = i + most => v[i] # v[j]
  <2> TAKE i, j \in 1 .. n + 1
  <2> HAVE j = i + most
  <2>1. i \in 1 .. n
    BY <1>1
  <2>2. CASE j \in 1 .. n
    <3>1. w[i] # w[j]
      BY <1>1, <1>3, <2>1, <2>2 DEF Fall
    <3> QED BY <1>5, <2>1, <2>2, <3>1
  <2>3. CASE j = n + 1
    <3>1. i <= n - count
      BY <1>1, <2>1, <2>3
    <3>2. w[i] + Window <= start
      BY <1>7, <2>1, <3>1
    <3> QED BY <1>5, <2>1, <2>3, <3>2, LimiterFacts
  <2> QED BY <1>1, <2>2, <2>3
<1>11. \A i \in 1 .. n + 1 :
         IF i <= (n + 1) - (count + 1) THEN v[i] + Window <= start ELSE v[i] = start
  <2> TAKE i \in 1 .. n + 1
  <2>1. CASE i \in 1 .. n
    <3>1. IF i <= n - count THEN w[i] + Window <= start ELSE w[i] = start
      BY <1>1, <1>3, <2>1 DEF Fall, n
    <3> QED BY <1>1, <1>5, <2>1, <3>1
  <2>2. CASE i = n + 1
    BY <1>1, <1>5, <2>2
  <2> QED BY <1>1, <2>1, <2>2
<1>12. Fall(v, more, most, count + 1, start)
  BY <1>2, <1>8, <1>9, <1>10, <1>11 DEF Fall
<1> QED BY <1>5, <1>12 DEF InWindows, more

\* A span as long as a window meets two of them at most.
LEMMA TwoWindows ==
  ASSUME NEW times \in Times, NEW most \in Nat \ {0}, NEW count \in Nat, NEW start \in Int,
         InWindows(times, most, count, start)
  PROVE  Limiter!AtMost(2 * most, times)
<1> SUFFICES ASSUME NEW i \in DOMAIN times, NEW j \in DOMAIN times, j = i + 2 * most
             PROVE  times[j] - times[i] > Window
  BY DEF Limiter!AtMost
<1>1. DOMAIN times = 1 .. Len(times) /\ Len(times) \in Nat
  BY DEF Times
<1>2. PICK w \in [DOMAIN times -> Int] : Fall(w, times, most, count, start)
  BY DEF InWindows
<1>3. PICK k : k = i + most
  OBVIOUS
<1>4. k \in DOMAIN times /\ i < k /\ k < j /\ j = k + most
  BY <1>1, <1>3
<1>5. w[i] + Window <= w[k] /\ w[k] + Window <= w[j]
  BY <1>2, <1>3, <1>4 DEF Fall
<1>6. times[i] < w[i] + Window /\ w[j] <= times[j]
  BY <1>2 DEF Fall
<1>7. times[i] \in Limiter!Clock /\ times[j] \in Limiter!Clock
  BY DEF Times
<1>8. /\ times[i] \in Int /\ times[j] \in Int /\ Window \in Int
      /\ w[i] \in Int /\ w[j] \in Int /\ w[k] \in Int
  BY <1>2, <1>4, <1>7, LimiterFacts
<1> HIDE DEF Times
<1> QED BY <1>5, <1>6, <1>8

\* A client's part of the invariant.
Paced(c) ==
  /\ Start(c) <= now
  /\ InWindows(reads[c], Limit, Taken(c), Start(c))
  /\ InWindows(alarms[c], 1, Alarmed(c), Start(c))

\* What is known of a client before a request or a tick.
LEMMA ReadsAre ==
  ASSUME ReadInv, NEW c \in Racers
  PROVE  /\ now \in Nat /\ reads[c] \in Times /\ alarms[c] \in Times
         /\ Taken(c) \in Nat /\ Alarmed(c) \in {0, 1} /\ Start(c) \in Int
         /\ Paced(c)
         /\ c \in DOMAIN windows =>
              /\ windows[c] \in Limiter!State /\ windows[c].resetAt \in Nat
              /\ windows[c].count \in 1 .. Limit /\ windows[c].breachLogged \in BOOLEAN
<1>1. now \in Nat
  BY LimiterFacts DEF ReadInv, Limiter!TypeOK
<1>2. reads \in [Racers -> Times] /\ alarms \in [Racers -> Times]
  BY DEF ReadInv, Limiter!TypeOK, Times
<1>3. ASSUME c \in DOMAIN windows
      PROVE  /\ windows[c] \in Limiter!State /\ windows[c].resetAt \in Nat
             /\ windows[c].count \in 1 .. Limit /\ windows[c].breachLogged \in BOOLEAN
  <2>1. windows[c] \in Limiter!State
    BY <1>3 DEF ReadInv, Limiter!TypeOK
  <2>2. /\ windows[c].resetAt \in Window .. MaxTime + Window
        /\ windows[c].count \in 1 .. Limit /\ windows[c].breachLogged \in BOOLEAN
    BY <2>1 DEF Limiter!State
  <2> QED BY <2>1, <2>2, LimiterFacts
<1>4. Taken(c) \in Nat /\ Alarmed(c) \in {0, 1} /\ Start(c) \in Int
  BY <1>1, <1>3, LimiterFacts DEF Taken, Alarmed, Start
<1> QED BY <1>1, <1>2, <1>3, <1>4 DEF ReadInv, Paced

\* A client whose window is over, or who has none, may have another.
LEMMA OpensAgain ==
  ASSUME ReadInv, NEW c \in Racers, Limiter!Fresh(c)
  PROVE  InWindows(reads[c], Limit, 0, now) /\ InWindows(alarms[c], 1, 0, now)
<1>1. /\ now \in Int /\ reads[c] \in Times /\ alarms[c] \in Times
      /\ Taken(c) \in Nat /\ Alarmed(c) \in Nat /\ Start(c) \in Int
      /\ Paced(c)
  BY ReadsAre
<1>2. IF c \in DOMAIN windows THEN Start(c) + Window <= now
      ELSE Taken(c) = 0 /\ Alarmed(c) = 0 /\ Start(c) = now
  BY ReadsAre, LimiterFacts DEF Limiter!Fresh, Limiter!Expired, Start, Taken, Alarmed
<1>3. /\ IF Taken(c) = 0 THEN Start(c) <= now ELSE Start(c) + Window <= now
      /\ IF Alarmed(c) = 0 THEN Start(c) <= now ELSE Start(c) + Window <= now
  BY <1>1, <1>2, LimiterFacts
<1>4. Limit \in Nat /\ 1 \in Nat
  BY LimiterFacts
<1>5. InWindows(reads[c], Limit, 0, now)
  BY <1>1, <1>3, <1>4, WindowOver DEF Paced
<1>6. InWindows(alarms[c], 1, 0, now)
  BY <1>1, <1>3, <1>4, WindowOver DEF Paced
<1> QED BY <1>5, <1>6

\* A client whose window is pruned, or goes on without a request of its own.
LEMMA PacedOn ==
  ASSUME ReadInv, NEW c \in Racers, now' \in Int, now <= now',
         reads'[c] = reads[c], alarms'[c] = alarms[c],
         IF c \in DOMAIN windows'
         THEN c \in DOMAIN windows /\ windows'[c] = windows[c]
         ELSE Limiter!Fresh(c)
  PROVE  Paced(c)'
<1>1. CASE c \in DOMAIN windows'
  <2>1. c \in DOMAIN windows /\ windows'[c] = windows[c]
    BY <1>1
  <2>2. Start(c)' = Start(c) /\ Taken(c)' = Taken(c) /\ Alarmed(c)' = Alarmed(c)
    BY <1>1, <2>1 DEF Start, Taken, Alarmed
  <2>3. Paced(c) /\ now \in Int /\ Start(c) \in Int
    BY ReadsAre
  <2> QED BY <2>2, <2>3 DEF Paced
<1>2. CASE c \notin DOMAIN windows'
  <2>1. Start(c)' = now' /\ Taken(c)' = 0 /\ Alarmed(c)' = 0
    BY <1>2 DEF Start, Taken, Alarmed
  <2>2. InWindows(reads[c], Limit, 0, now) /\ InWindows(alarms[c], 1, 0, now)
    BY <1>2, OpensAgain
  <2>3. now \in Int /\ reads[c] \in Times /\ alarms[c] \in Times /\ Limit \in Nat
    BY ReadsAre, LimiterFacts
  <2>4. 0 \in Nat /\ 1 \in Nat /\ (IF 0 = 0 THEN now <= now' ELSE now + Window <= now')
    OBVIOUS
  <2>5. InWindows(reads[c], Limit, 0, now')
    BY <2>2, <2>3, <2>4, WindowOver
  <2>6. InWindows(alarms[c], 1, 0, now')
    BY <2>2, <2>3, <2>4, WindowOver
  <2> QED BY <2>1, <2>3, <2>5, <2>6 DEF Paced
<1> QED BY <1>1, <1>2

LEMMA ReadOpen ==
  ASSUME ReadInv, NEW c \in Racers, Limiter!Open(c), now' = now
  PROVE  ReadInv'
<1>1. PICK s : s = [count |-> 1, resetAt |-> now + Window, breachLogged |-> FALSE]
  OBVIOUS
<1>2. PICK keep : keep = Limiter!pruneExpiredWindows
  OBVIOUS
<1>3. windows' = [k \in keep \cup {c} |-> IF k # c THEN windows[k] ELSE s]
  BY <1>1, <1>2 DEF Limiter!Open
<1>4. Limiter!Fresh(c) /\ reads' = [reads EXCEPT ![c] = Append(@, now)] /\ alarms' = alarms
  BY DEF Limiter!Open, Limiter!Allow
<1>5. now \in Limiter!Clock /\ now \in Nat /\ reads[c] \in Times /\ alarms[c] \in Times
  BY ReadsAre DEF ReadInv, Limiter!TypeOK
<1>6. /\ reads \in [Racers -> Times] /\ alarms \in [Racers -> Times]
      /\ DOMAIN windows \subseteq Racers
      /\ \A k \in DOMAIN windows : windows[k] \in Limiter!State
  BY DEF ReadInv, Limiter!TypeOK, Times
<1>7. s \in Limiter!State
  BY <1>1, <1>5, LimiterFacts DEF Limiter!State, Limiter!Clock
<1>8. Append(reads[c], now) \in Times
  BY <1>5 DEF Times
<1>9. keep \subseteq DOMAIN windows
  BY <1>2 DEF Limiter!pruneExpiredWindows
<1>10. Limiter!TypeOK'
  <2>1. reads' \in [Racers -> Times] /\ alarms' \in [Racers -> Times]
    BY <1>4, <1>6, <1>8
  <2>2. DOMAIN windows' \subseteq Racers /\ \A k \in DOMAIN windows' : windows'[k] \in Limiter!State
    BY <1>3, <1>6, <1>7, <1>9
  <2> QED BY <1>5, <2>1, <2>2 DEF Limiter!TypeOK, Times, Limiter!Clock, Limiter!State
<1>11. Paced(c)'
  <2>1. c \in DOMAIN windows' /\ windows'[c] = s
    BY <1>3
  <2>2. Start(c)' = now /\ Taken(c)' = 1 /\ Alarmed(c)' = 0
    BY <1>1, <1>5, <2>1, LimiterFacts DEF Start, Taken, Alarmed
  <2>3. InWindows(reads[c], Limit, 0, now) /\ InWindows(alarms[c], 1, 0, now)
    BY <1>4, OpensAgain
  <2>4. now \in Int /\ 0 \in Nat /\ 0 < Limit /\ now <= now /\ now < now + Window
    BY <1>5, LimiterFacts
  <2>5. InWindows(Append(reads[c], now), Limit, 0 + 1, now)
    BY <1>5, <2>3, <2>4, LimiterFacts, WindowGrows
  <2>6. reads'[c] = Append(reads[c], now) /\ alarms'[c] = alarms[c]
    BY <1>4, <1>6
  <2> QED BY <1>5, <2>2, <2>3, <2>5, <2>6 DEF Paced
<1>12. ASSUME NEW k \in Racers, k # c PROVE Paced(k)'
  <2>1. reads'[k] = reads[k] /\ alarms'[k] = alarms[k] /\ now' \in Int /\ now <= now'
    BY <1>4, <1>5, <1>6, <1>12
  <2>2. k \in DOMAIN windows' => k \in DOMAIN windows /\ windows'[k] = windows[k]
    BY <1>3, <1>9, <1>12
  <2>3. k \notin DOMAIN windows' => Limiter!Fresh(k)
    BY <1>2, <1>3, <1>12 DEF Limiter!pruneExpiredWindows, Limiter!Fresh
  <2> QED BY <2>1, <2>2, <2>3, PacedOn
<1> QED BY <1>10, <1>11, <1>12 DEF ReadInv, Paced

LEMMA ReadSaturated ==
  ASSUME ReadInv, NEW c \in Racers, Limiter!Saturated(c), now' = now
  PROVE  ReadInv'
<1>1. PICK keep : keep = Limiter!pruneExpiredWindows
  OBVIOUS
<1>2. windows' = [k \in keep |-> windows[k]] /\ reads' = reads /\ alarms' = alarms
  BY <1>1 DEF Limiter!Saturated
<1>3. keep \subseteq DOMAIN windows
  BY <1>1 DEF Limiter!pruneExpiredWindows
<1>4. Limiter!TypeOK'
  BY <1>2, <1>3 DEF ReadInv, Limiter!TypeOK
<1>5. ASSUME NEW k \in Racers PROVE Paced(k)'
  <2>1. reads'[k] = reads[k] /\ alarms'[k] = alarms[k] /\ now' \in Int /\ now <= now'
    BY <1>2, ReadsAre
  <2>2. k \in DOMAIN windows' => k \in DOMAIN windows /\ windows'[k] = windows[k]
    BY <1>2, <1>3
  <2>3. k \notin DOMAIN windows' => Limiter!Fresh(k)
    BY <1>1, <1>2 DEF Limiter!pruneExpiredWindows, Limiter!Fresh
  <2> QED BY <2>1, <2>2, <2>3, PacedOn
<1> QED BY <1>4, <1>5 DEF ReadInv, Paced

LEMMA ReadCount ==
  ASSUME ReadInv, NEW c \in Racers, Limiter!Count(c), now' = now
  PROVE  ReadInv'
<1>1. /\ c \in DOMAIN windows /\ now < windows[c].resetAt
      /\ windows[c] \in Limiter!State /\ windows[c].resetAt \in Nat
      /\ windows[c].count \in Nat /\ windows[c].count < Limit
  BY ReadsAre, LimiterFacts DEF Limiter!Count, Limiter!Fresh, Limiter!Expired, ReadInv, Limiter!TypeOK
<1>2. PICK s : s = [windows[c] EXCEPT !.count = @ + 1]
  OBVIOUS
<1>3. windows' = [windows EXCEPT ![c] = s]
  BY <1>2 DEF Limiter!Count
<1>4. /\ s \in Limiter!State /\ s.count = windows[c].count + 1
      /\ s.resetAt = windows[c].resetAt /\ s.breachLogged = windows[c].breachLogged
  BY <1>1, <1>2, LimiterFacts DEF Limiter!State
<1>5. now \in Limiter!Clock /\ now \in Nat /\ reads[c] \in Times /\ alarms[c] \in Times
  BY ReadsAre DEF ReadInv, Limiter!TypeOK
<1>6. /\ reads \in [Racers -> Times] /\ alarms \in [Racers -> Times]
      /\ DOMAIN windows \subseteq Racers
      /\ \A k \in DOMAIN windows : windows[k] \in Limiter!State
  BY DEF ReadInv, Limiter!TypeOK, Times
<1>7. reads' = [reads EXCEPT ![c] = Append(@, now)] /\ alarms' = alarms
  BY DEF Limiter!Count, Limiter!Allow
<1>8. Append(reads[c], now) \in Times
  BY <1>5 DEF Times
<1>9. /\ DOMAIN windows' = DOMAIN windows /\ windows'[c] = s
      /\ \A k \in DOMAIN windows : k # c => windows'[k] = windows[k]
  BY <1>1, <1>3
<1>10. Limiter!TypeOK'
  <2>1. reads' \in [Racers -> Times] /\ alarms' \in [Racers -> Times]
    BY <1>6, <1>7, <1>8
  <2>2. DOMAIN windows' \subseteq Racers /\ \A k \in DOMAIN windows' : windows'[k] \in Limiter!State
    BY <1>4, <1>6, <1>9
  <2> QED BY <1>5, <2>1, <2>2 DEF Limiter!TypeOK, Times, Limiter!Clock, Limiter!State
<1>11. Paced(c)'
  <2>1. Start(c)' = Start(c) /\ Taken(c)' = Taken(c) + 1 /\ Alarmed(c)' = Alarmed(c)
    BY <1>1, <1>4, <1>9 DEF Start, Taken, Alarmed
  <2>2. Paced(c) /\ Taken(c) \in Nat /\ Start(c) \in Int
    BY ReadsAre
  <2>3. Taken(c) < Limit /\ Start(c) <= now /\ now < Start(c) + Window
    BY <1>1, <1>5, <2>2, LimiterFacts DEF Taken, Start, Paced
  <2>4. InWindows(reads[c], Limit, Taken(c), Start(c))
    BY <2>2 DEF Paced
  <2>5. InWindows(Append(reads[c], now), Limit, Taken(c) + 1, Start(c))
    BY <1>5, <2>2, <2>3, <2>4, LimiterFacts, WindowGrows
  <2>6. reads'[c] = Append(reads[c], now) /\ alarms'[c] = alarms[c]
    BY <1>6, <1>7
  <2> QED BY <2>1, <2>2, <2>5, <2>6 DEF Paced
<1>12. ASSUME NEW k \in Racers, k # c PROVE Paced(k)'
  <2>1. reads'[k] = reads[k] /\ alarms'[k] = alarms[k]
    BY <1>6, <1>7, <1>12
  <2>2. Start(k)' = Start(k) /\ Taken(k)' = Taken(k) /\ Alarmed(k)' = Alarmed(k)
    BY <1>9, <1>12 DEF Start, Taken, Alarmed
  <2>3. Paced(k)
    BY ReadsAre
  <2> QED BY <2>1, <2>2, <2>3 DEF Paced
<1> QED BY <1>10, <1>11, <1>12 DEF ReadInv, Paced

LEMMA ReadDeny ==
  ASSUME ReadInv, NEW c \in Racers, Limiter!Deny(c), now' = now
  PROVE  ReadInv'
<1>1. /\ c \in DOMAIN windows /\ now < windows[c].resetAt
      /\ windows[c] \in Limiter!State /\ windows[c].resetAt \in Nat
  BY ReadsAre, LimiterFacts DEF Limiter!Deny, Limiter!Fresh, Limiter!Expired, ReadInv, Limiter!TypeOK
<1>2. PICK s : s = [windows[c] EXCEPT !.breachLogged = TRUE]
  OBVIOUS
<1>3. windows' = [windows EXCEPT ![c] = s]
  BY <1>2 DEF Limiter!Deny
<1>4. /\ s \in Limiter!State /\ s.count = windows[c].count
      /\ s.resetAt = windows[c].resetAt /\ s.breachLogged
  BY <1>1, <1>2 DEF Limiter!State
<1>5. now \in Limiter!Clock /\ now \in Nat /\ reads[c] \in Times /\ alarms[c] \in Times
  BY ReadsAre DEF ReadInv, Limiter!TypeOK
<1>6. /\ reads \in [Racers -> Times] /\ alarms \in [Racers -> Times]
      /\ DOMAIN windows \subseteq Racers
      /\ \A k \in DOMAIN windows : windows[k] \in Limiter!State
  BY DEF ReadInv, Limiter!TypeOK, Times
<1>7. /\ reads' = reads
      /\ IF windows[c].breachLogged THEN alarms' = alarms
         ELSE alarms' = [alarms EXCEPT ![c] = Append(@, now)]
  BY DEF Limiter!Deny
<1>8. Append(alarms[c], now) \in Times
  BY <1>5 DEF Times
<1>9. /\ DOMAIN windows' = DOMAIN windows /\ windows'[c] = s
      /\ \A k \in DOMAIN windows : k # c => windows'[k] = windows[k]
  BY <1>1, <1>3
<1>10. Limiter!TypeOK'
  <2>1. reads' \in [Racers -> Times] /\ alarms' \in [Racers -> Times]
    BY <1>6, <1>7, <1>8
  <2>2. DOMAIN windows' \subseteq Racers /\ \A k \in DOMAIN windows' : windows'[k] \in Limiter!State
    BY <1>4, <1>6, <1>9
  <2> QED BY <1>5, <2>1, <2>2 DEF Limiter!TypeOK, Times, Limiter!Clock, Limiter!State
<1>11. Paced(c)'
  <2>1. Start(c)' = Start(c) /\ Taken(c)' = Taken(c) /\ Alarmed(c)' = 1
    BY <1>1, <1>4, <1>9 DEF Start, Taken, Alarmed
  <2>2. Paced(c) /\ Start(c) \in Int
    BY ReadsAre
  <2>3. Start(c) <= now /\ now < Start(c) + Window
    BY <1>1, <1>5, <2>2, LimiterFacts DEF Start, Paced
  <2>4. InWindows(alarms'[c], 1, 1, Start(c))
    <3>1. CASE windows[c].breachLogged
      BY <1>1, <1>7, <2>2, <3>1 DEF Paced, Alarmed
    <3>2. CASE ~windows[c].breachLogged
      <4>1. InWindows(alarms[c], 1, 0, Start(c))
        BY <2>2, <3>2 DEF Paced, Alarmed
      <4>2. 0 \in Nat /\ 1 \in Nat \ {0} /\ 0 < 1 /\ 0 + 1 = 1
        OBVIOUS
      <4>3. InWindows(Append(alarms[c], now), 1, 0 + 1, Start(c))
        BY <1>5, <2>2, <2>3, <4>1, <4>2, WindowGrows
      <4>4. alarms'[c] = Append(alarms[c], now)
        BY <1>6, <1>7, <3>2
      <4> QED BY <4>2, <4>3, <4>4
    <3> QED BY <3>1, <3>2
  <2>5. reads'[c] = reads[c]
    BY <1>7
  <2> QED BY <2>1, <2>2, <2>4, <2>5 DEF Paced
<1>12. ASSUME NEW k \in Racers, k # c PROVE Paced(k)'
  <2>1. reads'[k] = reads[k] /\ alarms'[k] = alarms[k]
    BY <1>6, <1>7, <1>12
  <2>2. Start(k)' = Start(k) /\ Taken(k)' = Taken(k) /\ Alarmed(k)' = Alarmed(k)
    BY <1>9, <1>12 DEF Start, Taken, Alarmed
  <2>3. Paced(k)
    BY ReadsAre
  <2> QED BY <2>1, <2>2, <2>3 DEF Paced
<1> QED BY <1>10, <1>11, <1>12 DEF ReadInv, Paced

LEMMA ReadStep ==
  ASSUME ReadInv, Limiter!Next \/ UNCHANGED limiter
  PROVE  ReadInv'
<1>1. CASE Limiter!Tick
  <2>1. now' = now + 1 /\ now < MaxTime /\ windows' = windows /\ reads' = reads /\ alarms' = alarms
    BY <1>1 DEF Limiter!Tick
  <2>2. Limiter!TypeOK'
    BY <2>1, LimiterFacts DEF ReadInv, Limiter!TypeOK, Limiter!Clock, Limiter!State
  <2>3. ASSUME NEW k \in Racers PROVE Paced(k)'
    <3>1. now \in Nat /\ Paced(k) /\ Start(k) \in Int
      BY ReadsAre
    <3>2. CASE k \in DOMAIN windows
      <4>1. Start(k)' = Start(k) /\ Taken(k)' = Taken(k) /\ Alarmed(k)' = Alarmed(k)
        BY <2>1, <3>2 DEF Start, Taken, Alarmed
      <4> QED BY <2>1, <3>1, <4>1 DEF Paced
    <3>3. CASE k \notin DOMAIN windows
      <4>1. Limiter!Fresh(k) /\ k \notin DOMAIN windows'
        BY <2>1, <3>3 DEF Limiter!Fresh
      <4>2. now' \in Int /\ now <= now'
        BY <2>1, <3>1
      <4>3. reads'[k] = reads[k] /\ alarms'[k] = alarms[k]
        BY <2>1
      <4> QED BY <4>1, <4>2, <4>3, PacedOn
    <3> QED BY <3>2, <3>3
  <2> QED BY <2>2, <2>3 DEF ReadInv, Paced
<1>2. CASE UNCHANGED limiter
  BY <1>2 DEF limiter, ReadInv, Limiter!TypeOK, Start, Taken, Alarmed
<1>3. CASE \E c \in Racers : Limiter!consumeHostReadQuota(c)
  BY <1>3, ReadOpen, ReadSaturated, ReadCount, ReadDeny DEF Limiter!consumeHostReadQuota
<1> QED BY <1>1, <1>2, <1>3 DEF Limiter!Next

LEMMA ReadStart ==
  ASSUME MCInit
  PROVE  ReadInv
<1>1. /\ now = 0 /\ DOMAIN windows = {}
      /\ reads = [c \in Racers |-> <<>>] /\ alarms = [c \in Racers |-> <<>>]
  BY DEF MCInit, Limiter!Init
<1>2. Limiter!TypeOK
  BY <1>1, LimiterFacts DEF Limiter!TypeOK, Limiter!Clock
<1>3. ASSUME NEW most, NEW count, NEW start PROVE InWindows(<<>>, most, count, start)
  <2>1. DOMAIN <<>> = {}
    OBVIOUS
  <2>2. PICK w : w = [i \in {} |-> 0]
    OBVIOUS
  <2>3. w \in [DOMAIN <<>> -> Int]
    BY <2>1, <2>2
  <2> QED BY <2>1, <2>3 DEF InWindows, Fall
<1> QED BY <1>1, <1>2, <1>3 DEF ReadInv, Start

\* The inductive invariant of the reads.
LEMMA ReadsAlways ==
  MCSpec => []ReadInv
<1>1. MCInit => ReadInv
  BY ReadStart
<1>2. ReadInv /\ [MCNext]_<<component, console, clock, usage, keyVars, tokenVars>> => ReadInv'
  <2>1. [MCNext]_<<component, console, clock, usage, keyVars, tokenVars>>
          => Limiter!Next \/ UNCHANGED limiter
    BY DEF MCNext, ConsoleNext, HostNext, console
  <2> QED BY <2>1, ReadStep
<1> QED BY <1>1, <1>2, PTL DEF MCSpec

(* However the clients' requests share the map and its windows are opened,  *)
(* pruned and refused, a client reads at most twice the limit in any span   *)
(* of a window and raises two anomalies in it (host-read-guards.ts).        *)
THEOREM ReadsAlwaysBounded ==
  MCSpec => []ReadsAreBounded
<1>1. ReadInv => ReadsAreBounded
  <2> SUFFICES ASSUME ReadInv, NEW c \in Racers
               PROVE  Limiter!AtMost(2 * Limit, reads[c]) /\ Limiter!AtMost(2, alarms[c])
    BY DEF ReadsAreBounded, Limiter!ReadsAreBounded
  <2>1. /\ reads[c] \in Times /\ alarms[c] \in Times /\ Taken(c) \in Nat
        /\ Alarmed(c) \in Nat /\ Start(c) \in Int /\ Paced(c)
    BY ReadsAre
  <2>2. Limiter!AtMost(2 * Limit, reads[c])
    BY <2>1, LimiterFacts, TwoWindows DEF Paced
  <2>3. Limiter!AtMost(2 * 1, alarms[c])
    BY <2>1, TwoWindows DEF Paced
  <2> QED BY <2>2, <2>3
<1> QED BY <1>1, ReadsAlways, PTL

-------------------------------------------------------------------------------
(* The usage a host reports and bills.                                     *)

MeterRow ==
  [billingScheme : {"per_unit", "included_overage"}, includedQuantity : Int,
   perUnitAmountMinor : Int, overageUnitAmountMinor : Int]
Report == [at : {"insert", "answer"}, event : Usage!UsageEvents]
Event(u, t) == [unit |-> u, occurredAt |-> t]

\* An invoice counts events of its account and period that are still stored,
\* all of them that the host had heard of, and charges for their sum.
BilledWell(p, a) ==
  LET i == invoice[p][a] IN
  /\ \A e \in i.summary.counted :
       e \in metered /\ e.unit \in Usage!UnitsOf(a) /\ Usage!Within(e.occurredAt, p)
  /\ \A u \in i.told :
       /\ u \in Units /\ answered[u] # Usage!Absent
       /\ Usage!Within(answered[u], p) => Event(u, answered[u]) \in i.summary.counted
  /\ i.summary.due = Usage!computeBillingQuantity(meter, Usage!Quantity(i.summary.counted))

UsageInv ==
  /\ Usage!TypeOK
  /\ meter # Nothing =>
       /\ meter \in MeterRow
       /\ meter.billingScheme = "included_overage" => meter.includedQuantity \in Nat
  /\ invoice = [p \in Periods |-> invoice[p]]
  /\ \A e, f \in metered : Usage!SameKey(e, f.unit) => e = f
  /\ \A r \in Racers : report[r] \in Report /\ report[r].at = "answer" => report[r].event \in metered
  /\ \A u \in Units : answered[u] # Usage!Absent => Event(u, answered[u]) \in metered
  /\ \A p \in Usage!Billed : meter # Nothing /\ \A a \in Usage!Accounts : BilledWell(p, a)

LEMMA UsageFacts ==
  /\ IsFiniteSet(Units)
  /\ \A u, v \in Units : u.key = v.key /\ u.environment = v.environment => u = v
  /\ \A u \in Units : u.quantity \in Nat
  /\ Meters \subseteq MeterRow /\ Nothing \notin Meters
  /\ Periods \subseteq Nat /\ Length \in Nat /\ MaxClock \in Nat
  /\ Usage!Idle \notin Report /\ Usage!Absent = -1
<1>1. Usage!IsFiniteSet(Units) => IsFiniteSet(Units)
  BY DEF Usage!IsFiniteSet, IsFiniteSet
<1>2. Usage!Idle \notin Report
  BY DEF Usage!Idle, Report
<1>3. Usage!Absent = -1
  BY DEF Usage!Absent
<1>4. Meters \subseteq MeterRow
  BY ConsoleAssumption DEF Usage!UsageAssumption, MeterRow
<1> QED BY <1>1, <1>2, <1>3, <1>4, ConsoleAssumption DEF Usage!UsageAssumption

\* What is known of a request before its step.
LEMMA ReportsAre ==
  ASSUME UsageInv
  PROVE  /\ report \in [Racers -> {Usage!Idle} \cup Report] /\ metered \subseteq Usage!UsageEvents
         /\ answered \in [Units -> Usage!Times \cup {Usage!Absent}]
         /\ \A r \in Racers :
              report[r].at \in {"insert", "answer"} =>
                /\ report[r] \in Report /\ report[r].event \in Usage!UsageEvents
                /\ report[r].event.unit \in Units /\ report[r].event.occurredAt \in Usage!Times
                /\ report[r].event = Event(report[r].event.unit, report[r].event.occurredAt)
                /\ report[r].at = "answer" => report[r].event \in metered
<1>1. /\ report \in [Racers -> {Usage!Idle} \cup Report] /\ metered \subseteq Usage!UsageEvents
      /\ answered \in [Units -> Usage!Times \cup {Usage!Absent}]
  BY DEF UsageInv, Usage!TypeOK, Report
<1>2. ASSUME NEW r \in Racers, report[r].at \in {"insert", "answer"}
      PROVE  report[r] \in Report /\ report[r].event \in Usage!UsageEvents
  BY <1>1, <1>2 DEF Usage!Idle, Report
<1> QED BY <1>1, <1>2 DEF UsageInv, Usage!UsageEvents, Event

\* The values of a function on a finite set are finite in number.
LEMMA FiniteImage ==
  ASSUME NEW S, IsFiniteSet(S), NEW f
  PROVE  IsFiniteSet({f[x] : x \in S})
<1>1. PICK T : T = {f[x] : x \in S}
  OBVIOUS
<1>2. PICK g : g = [x \in S |-> f[x]]
  OBVIOUS
<1>3. g \in Surjection(S, T)
  BY <1>1, <1>2 DEF Surjection
<1> QED BY <1>1, <1>3, FS_Surjection

\* A sum of quantities is a number.
LEMMA QuantityType ==
  ASSUME UsageInv, NEW es, es \subseteq metered
  PROVE  Usage!Quantity(es) \in Nat
<1>1. IsFiniteSet(Usage!UsageEvents)
  <2>1. IsFiniteSet(Usage!Times)
    BY UsageFacts, FS_Interval DEF Usage!Times
  <2>2. IsFiniteSet(Units \X Usage!Times)
    BY <2>1, UsageFacts, FS_Product
  <2>3. PICK f : f = [x \in Units \X Usage!Times |-> Event(x[1], x[2])]
    OBVIOUS
  <2>4. IsFiniteSet({f[x] : x \in Units \X Usage!Times})
    BY <2>2, FiniteImage
  <2>5. ASSUME NEW e \in Usage!UsageEvents PROVE e \in {f[x] : x \in Units \X Usage!Times}
    <3>1. e = Event(e.unit, e.occurredAt) /\ e.unit \in Units /\ e.occurredAt \in Usage!Times
      BY DEF Usage!UsageEvents, Event
    <3>2. PICK x : x = <<e.unit, e.occurredAt>>
      OBVIOUS
    <3>3. x \in Units \X Usage!Times /\ f[x] = e
      BY <2>3, <3>1, <3>2
    <3> QED BY <3>3
  <2> QED BY <2>4, <2>5, FS_Subset
<1>2. es \subseteq Usage!UsageEvents
  BY ReportsAre
<1>3. IsFiniteSet(es)
  BY <1>1, <1>2, FS_Subset
<1>4. PICK g : g = [e \in es |-> {e} \X (1 .. e.unit.quantity)]
  OBVIOUS
<1>5. IsFiniteSet({g[e] : e \in es})
  BY <1>3, FiniteImage
<1>6. ASSUME NEW e \in es PROVE IsFiniteSet(g[e])
  <2>1. e.unit \in Units
    BY <1>2 DEF Usage!UsageEvents
  <2>2. e.unit.quantity \in Nat
    BY <2>1, UsageFacts
  <2>3. IsFiniteSet(1 .. e.unit.quantity) /\ IsFiniteSet({e})
    <3>1. 1 \in Int /\ e.unit.quantity \in Int
      BY <2>2
    <3> QED BY <3>1, FS_Interval, FS_Singleton
  <2> QED BY <1>4, <2>3, FS_Product
<1>7. IsFiniteSet(UNION {g[e] : e \in es})
  BY <1>5, <1>6, FS_UNION
<1>8. {g[e] : e \in es} = {{e} \X (1 .. e.unit.quantity) : e \in es}
  BY <1>4
<1>9. IsFiniteSet(UNION {{e} \X (1 .. e.unit.quantity) : e \in es})
  BY <1>7, <1>8
<1>10. Usage!Quantity(es) = Cardinality(UNION {{e} \X (1 .. e.unit.quantity) : e \in es})
  BY DEF Usage!Quantity, Usage!Cardinality, Cardinality
<1> QED BY <1>9, <1>10, FS_CardinalityType

\* A meter is made once.
LEMMA UsageMeter ==
  ASSUME UsageInv, NEW m \in Meters, Usage!createUsageMeter(m), clock' = clock
  PROVE  UsageInv'
<1>1. m \in MeterRow /\ meter = Nothing /\ Usage!ValidMeter(m)
  BY UsageFacts DEF Usage!createUsageMeter
<1>2. /\ meter' \in MeterRow /\ meter'.billingScheme = m.billingScheme
      /\ m.billingScheme = "per_unit" => meter'.perUnitAmountMinor = m.perUnitAmountMinor
      /\ m.billingScheme # "per_unit" =>
           /\ meter'.includedQuantity = m.includedQuantity
           /\ meter'.overageUnitAmountMinor = m.overageUnitAmountMinor
  <2>1. CASE m.billingScheme = "per_unit"
    <3>1. meter' = [m EXCEPT !.includedQuantity = -1, !.overageUnitAmountMinor = -1]
      BY <2>1 DEF Usage!createUsageMeter, Usage!Absent
    <3>2. PICK k : k = [m EXCEPT !.includedQuantity = -1]
      OBVIOUS
    <3>3. /\ k \in MeterRow /\ k.billingScheme = m.billingScheme
          /\ k.perUnitAmountMinor = m.perUnitAmountMinor
      BY <1>1, <3>2 DEF MeterRow
    <3>4. meter' = [k EXCEPT !.overageUnitAmountMinor = -1]
      BY <3>1, <3>2
    <3> QED BY <2>1, <3>3, <3>4 DEF MeterRow
  <2>2. CASE m.billingScheme # "per_unit"
    <3>1. meter' = [m EXCEPT !.perUnitAmountMinor = -1]
      BY <2>2 DEF Usage!createUsageMeter, Usage!Absent
    <3> QED BY <1>1, <2>2, <3>1 DEF MeterRow
  <2> QED BY <2>1, <2>2
<1>3. Usage!ValidMeter(meter')
  BY <1>1, <1>2 DEF Usage!ValidMeter
<1>4. meter'.billingScheme = "included_overage" => meter'.includedQuantity \in Nat
  BY <1>1, <1>2 DEF Usage!ValidMeter, MeterRow
<1>5. UNCHANGED <<clock, metered, report, answered, invoice>>
  BY DEF Usage!createUsageMeter
<1>6. Usage!Billed = {} /\ Usage!Billed' = {}
  BY <1>1, <1>5 DEF UsageInv, Usage!Billed
<1> QED BY <1>2, <1>3, <1>4, <1>5, <1>6 DEF UsageInv, Usage!TypeOK

\* A step that leaves the meter, the invoices and what they are made of.
LEMMA InvoicesStand ==
  ASSUME UsageInv, UNCHANGED <<meter, invoice>>, metered \subseteq metered',
         \A u \in Units : answered[u] # Usage!Absent => answered'[u] = answered[u]
  PROVE  \A p \in Usage!Billed' : meter' # Nothing /\ \A a \in Usage!Accounts : BilledWell(p, a)'
<1> SUFFICES ASSUME NEW p \in Usage!Billed', NEW a \in Usage!Accounts
             PROVE  meter' # Nothing /\ BilledWell(p, a)'
  BY DEF UsageInv, Usage!Billed
<1>1. p \in Usage!Billed /\ meter # Nothing /\ BilledWell(p, a)
  BY DEF UsageInv, Usage!Billed
<1>2. ASSUME NEW v \in invoice[p][a].told PROVE answered'[v] = answered[v]
  BY <1>1, <1>2 DEF BilledWell
<1>3. /\ \A e \in invoice[p][a].summary.counted :
           e \in metered' /\ e.unit \in Usage!UnitsOf(a) /\ Usage!Within(e.occurredAt, p)
      /\ \A v \in invoice[p][a].told :
           /\ v \in Units /\ answered'[v] # Usage!Absent
           /\ Usage!Within(answered'[v], p) => Event(v, answered'[v]) \in invoice[p][a].summary.counted
      /\ invoice[p][a].summary.due =
           Usage!computeBillingQuantity(meter, Usage!Quantity(invoice[p][a].summary.counted))
  BY <1>1, <1>2 DEF BilledWell
<1> QED BY <1>1, <1>3 DEF BilledWell, Usage!Within

LEMMA UsageSend ==
  ASSUME UsageInv, NEW r \in Racers, NEW u \in Units, Usage!Send(r, u), clock' = clock
  PROVE  UsageInv'
<1>1. PICK q : q = [at |-> "insert", event |-> Event(u, clock)]
  OBVIOUS
<1>2. /\ report' = [report EXCEPT ![r] = q]
      /\ UNCHANGED <<clock, meter, metered, answered, invoice>>
  BY <1>1 DEF Usage!Send, Event
<1>3. q \in Report /\ q.at = "insert"
  BY <1>1 DEF Report, Event, UsageInv, Usage!TypeOK, Usage!UsageEvents
<1>4. report' \in [Racers -> {Usage!Idle} \cup Report]
  BY <1>2, <1>3, ReportsAre
<1>5. \A s \in Racers : report'[s] \in Report /\ report'[s].at = "answer" => report'[s].event \in metered
  BY <1>2, <1>3, ReportsAre DEF UsageInv
<1>6. \A p \in Usage!Billed' : meter' # Nothing /\ \A a \in Usage!Accounts : BilledWell(p, a)'
  BY <1>2, InvoicesStand
<1>7. Usage!TypeOK'
  BY <1>2, <1>4 DEF UsageInv, Usage!TypeOK, Report
<1> QED BY <1>2, <1>5, <1>6, <1>7 DEF UsageInv

LEMMA UsageLose ==
  ASSUME UsageInv, NEW r \in Racers, Usage!Lose(r), clock' = clock
  PROVE  UsageInv'
<1>1. /\ report' = [report EXCEPT ![r] = Usage!Idle]
      /\ UNCHANGED <<clock, meter, metered, answered, invoice>>
  BY DEF Usage!Lose
<1>2. report' \in [Racers -> {Usage!Idle} \cup Report]
  BY <1>1, ReportsAre
<1>3. \A s \in Racers : report'[s] \in Report /\ report'[s].at = "answer" => report'[s].event \in metered
  BY <1>1, ReportsAre, UsageFacts DEF UsageInv
<1>4. \A p \in Usage!Billed' : meter' # Nothing /\ \A a \in Usage!Accounts : BilledWell(p, a)'
  BY <1>1, InvoicesStand
<1>5. Usage!TypeOK'
  BY <1>1, <1>2 DEF UsageInv, Usage!TypeOK, Report
<1> QED BY <1>1, <1>3, <1>4, <1>5 DEF UsageInv

\* The first report of a unit stores it, and every other finds it stored.
LEMMA UsageInsert ==
  ASSUME UsageInv, NEW r \in Racers, Usage!Insert(r), clock' = clock
  PROVE  UsageInv'
<1>1. PICK e : e = report[r].event
  OBVIOUS
<1>2. /\ report[r] \in Report /\ e \in Usage!UsageEvents
      /\ e.unit \in Units
  BY <1>1, ReportsAre DEF Usage!Insert
<1>3. /\ metered' = Usage!Inserted(e)
      /\ UNCHANGED <<clock, meter, answered, invoice>>
  BY <1>1 DEF Usage!Insert
<1>4. PICK f : f = CHOOSE g \in metered' : Usage!SameKey(g, e.unit)
  OBVIOUS
<1>5. report' = [report EXCEPT ![r] = [@ EXCEPT !.at = "answer", !.event = f]]
  BY <1>1, <1>4 DEF Usage!Insert
<1>6. /\ metered \subseteq metered' /\ metered' \subseteq metered \cup {e}
      /\ e \in metered' \/ \E g \in metered' : Usage!SameKey(g, e.unit)
      /\ e \in metered' /\ e \notin metered => \A g \in metered : ~Usage!SameKey(g, e.unit)
  BY <1>3 DEF Usage!Inserted, Usage!Conflicts
<1>7. \E g \in metered' : Usage!SameKey(g, e.unit)
  BY <1>6 DEF Usage!SameKey
<1>8. f \in metered'
  BY <1>4, <1>7
<1>9. metered' \subseteq Usage!UsageEvents
  BY <1>2, <1>6, ReportsAre
<1>10. PICK q : q = [report[r] EXCEPT !.at = "answer", !.event = f]
  OBVIOUS
<1>11. q \in Report /\ q.event = f
  BY <1>2, <1>8, <1>9, <1>10 DEF Report
<1>12. report' = [report EXCEPT ![r] = q]
  BY <1>5, <1>10
<1>13. report' \in [Racers -> {Usage!Idle} \cup Report]
  BY <1>11, <1>12, ReportsAre
<1>14. \A s \in Racers : report'[s] \in Report /\ report'[s].at = "answer" => report'[s].event \in metered'
  BY <1>6, <1>8, <1>11, <1>12, ReportsAre DEF UsageInv
<1>15. ASSUME NEW g \in metered', NEW h \in metered', Usage!SameKey(g, h.unit)
       PROVE  g = h
  <2>1. CASE g \in metered /\ h \in metered
    BY <1>15, <2>1 DEF UsageInv
  <2>2. CASE g \notin metered \/ h \notin metered
    BY <1>6, <1>15, <2>2 DEF Usage!SameKey
  <2> QED BY <2>1, <2>2
<1>16. \A p \in Usage!Billed' : meter' # Nothing /\ \A a \in Usage!Accounts : BilledWell(p, a)'
  BY <1>3, <1>6, InvoicesStand
<1>17. Usage!TypeOK'
  BY <1>3, <1>9, <1>13 DEF UsageInv, Usage!TypeOK, Report
<1>18. \A u \in Units : answered'[u] # Usage!Absent => Event(u, answered'[u]) \in metered'
  BY <1>3, <1>6 DEF UsageInv
<1>19. \A g, h \in metered' : Usage!SameKey(g, h.unit)' => g = h
  BY <1>15 DEF Usage!SameKey
<1> QED BY <1>3, <1>14, <1>16, <1>17, <1>18, <1>19 DEF UsageInv, Usage!SameKey

\* The host hears of the event that is stored, whichever request stored it.
LEMMA UsageAnswer ==
  ASSUME UsageInv, NEW r \in Racers, Usage!Answer(r), clock' = clock
  PROVE  UsageInv'
<1>1. PICK e : e = report[r].event
  OBVIOUS
<1>2. /\ e \in metered /\ e.unit \in Units /\ e.occurredAt \in Usage!Times
      /\ e = Event(e.unit, e.occurredAt)
  BY <1>1, ReportsAre DEF Usage!Answer
<1>3. /\ answered' = [answered EXCEPT ![e.unit] = e.occurredAt]
      /\ report' = [report EXCEPT ![r] = Usage!Idle]
      /\ UNCHANGED <<clock, meter, metered, invoice>>
  BY <1>1 DEF Usage!Answer
<1>4. /\ report' \in [Racers -> {Usage!Idle} \cup Report]
      /\ answered' \in [Units -> Usage!Times \cup {Usage!Absent}]
  BY <1>2, <1>3, ReportsAre
<1>5. \A s \in Racers : report'[s] \in Report /\ report'[s].at = "answer" => report'[s].event \in metered
  BY <1>3, ReportsAre, UsageFacts DEF UsageInv
<1>6. ASSUME NEW u \in Units, answered[u] # Usage!Absent
      PROVE  answered'[u] = answered[u]
  <2>1. CASE u # e.unit
    BY <1>3, <2>1, ReportsAre
  <2>2. CASE u = e.unit
    <3>1. Event(u, answered[u]) \in metered
      BY <1>6 DEF UsageInv
    <3>2. Usage!SameKey(Event(u, answered[u]), e.unit)
      BY <2>2 DEF Usage!SameKey, Event
    <3>3. Event(u, answered[u]) = e
      BY <1>2, <3>1, <3>2 DEF UsageInv
    <3>4. answered[u] = e.occurredAt
      BY <3>3 DEF Event
    <3> QED BY <1>3, <2>2, <3>4, ReportsAre
  <2> QED BY <2>1, <2>2
<1>7. ASSUME NEW u \in Units, answered'[u] # Usage!Absent
      PROVE  Event(u, answered'[u]) \in metered
  <2>1. CASE u = e.unit
    BY <1>2, <1>3, <2>1, ReportsAre
  <2>2. CASE u # e.unit
    BY <1>3, <1>7, <2>2, ReportsAre DEF UsageInv
  <2> QED BY <2>1, <2>2
<1>8. \A p \in Usage!Billed' : meter' # Nothing /\ \A a \in Usage!Accounts : BilledWell(p, a)'
  BY <1>3, <1>6, InvoicesStand
<1>9. Usage!TypeOK'
  BY <1>3, <1>4 DEF UsageInv, Usage!TypeOK, Report
<1> QED BY <1>3, <1>5, <1>7, <1>8, <1>9 DEF UsageInv

\* A bill counts the rows that are stored.
LEMMA UsageBill ==
  ASSUME UsageInv, NEW p \in Periods, Usage!Bill(p), clock' = clock
  PROVE  UsageInv'
<1>1. PICK i : i = [a \in Usage!Accounts |->
        [summary |-> Usage!getUsageSummary(a, p),
         told |-> {u \in Usage!UnitsOf(a) : answered[u] # Usage!Absent}]]
  OBVIOUS
<1>2. /\ invoice' = [invoice EXCEPT ![p] = i] /\ meter # Nothing
      /\ UNCHANGED <<clock, meter, metered, report, answered>>
  BY <1>1 DEF Usage!Bill
<1>3. invoice = [q \in Periods |-> invoice[q]]
  BY DEF UsageInv
<1>4. /\ invoice' = [q \in Periods |-> invoice'[q]]
      /\ invoice'[p] = i /\ \A q \in Periods : q # p => invoice'[q] = invoice[q]
  BY <1>2, <1>3
<1>5. ASSUME NEW a \in Usage!Accounts PROVE BilledWell(p, a)'
  <2>1. PICK counted : counted = {e \in metered : e.unit \in Usage!UnitsOf(a) /\ Usage!Within(e.occurredAt, p)}
    OBVIOUS
  <2>2. PICK said : said = {u \in Usage!UnitsOf(a) : answered[u] # Usage!Absent}
    OBVIOUS
  <2>3. PICK due : due = Usage!computeBillingQuantity(meter, Usage!Quantity(counted))
    OBVIOUS
  <2>4. invoice'[p][a] = [summary |-> [counted |-> counted, due |-> due], told |-> said]
    BY <1>1, <1>4, <2>1, <2>2, <2>3 DEF Usage!getUsageSummary
  <2>5. /\ invoice'[p][a].summary.counted = counted /\ invoice'[p][a].told = said
        /\ invoice'[p][a].summary.due = due
    BY <2>4
  <2>6. ASSUME NEW u \in said
        PROVE  /\ u \in Units /\ answered[u] # Usage!Absent
               /\ Usage!Within(answered[u], p) => Event(u, answered[u]) \in counted
    <3>1. u \in Units /\ answered[u] # Usage!Absent /\ u \in Usage!UnitsOf(a)
      BY <2>2 DEF Usage!UnitsOf
    <3>2. Event(u, answered[u]) \in metered
      BY <3>1 DEF UsageInv
    <3>3. Event(u, answered[u]).unit = u /\ Event(u, answered[u]).occurredAt = answered[u]
      BY DEF Event
    <3> QED BY <2>1, <3>1, <3>2, <3>3
  <2>7. \A e \in counted :
          e \in metered /\ e.unit \in Usage!UnitsOf(a) /\ Usage!Within(e.occurredAt, p)
    BY <2>1
  <2> QED BY <1>2, <2>3, <2>5, <2>6, <2>7 DEF BilledWell, Usage!Within
<1>6. ASSUME NEW q \in Usage!Billed', NEW a \in Usage!Accounts PROVE BilledWell(q, a)'
  <2>1. CASE q = p
    BY <1>5, <2>1
  <2>2. CASE q # p
    <3>1. q \in Usage!Billed /\ invoice'[q] = invoice[q]
      BY <1>4, <2>2 DEF Usage!Billed
    <3>2. BilledWell(q, a)
      BY <3>1 DEF UsageInv
    <3> QED BY <1>2, <3>1, <3>2 DEF BilledWell, Usage!Within
  <2> QED BY <2>1, <2>2
<1>7. Usage!TypeOK'
  BY <1>2 DEF UsageInv, Usage!TypeOK
<1> QED BY <1>2, <1>4, <1>6, <1>7 DEF UsageInv

LEMMA UsageTick ==
  ASSUME UsageInv, Usage!Tick
  PROVE  UsageInv'
<1>1. /\ clock < MaxClock /\ clock' = clock + 1
      /\ UNCHANGED <<meter, metered, report, answered, invoice>>
  BY DEF Usage!Tick
<1>2. clock' \in Usage!Times
  BY <1>1, UsageFacts DEF UsageInv, Usage!TypeOK, Usage!Times
<1>3. \A p \in Usage!Billed' : meter' # Nothing /\ \A a \in Usage!Accounts : BilledWell(p, a)'
  BY <1>1, InvoicesStand
<1> QED BY <1>1, <1>2, <1>3 DEF UsageInv, Usage!TypeOK

\* The other components share the clock.
LEMMA UsageStep ==
  ASSUME UsageInv, Usage!Next \/ (UNCHANGED usage /\ clock' \in Usage!Times)
  PROVE  UsageInv'
<1>1. CASE UNCHANGED usage /\ clock' \in Usage!Times
  <2>1. UNCHANGED <<meter, metered, report, answered, invoice>> /\ clock' \in Usage!Times
    BY <1>1 DEF usage
  <2>2. \A p \in Usage!Billed' : meter' # Nothing /\ \A a \in Usage!Accounts : BilledWell(p, a)'
    BY <2>1, InvoicesStand
  <2> QED BY <2>1, <2>2 DEF UsageInv, Usage!TypeOK
<1>2. ASSUME NEW p \in Periods, Usage!Bill(p) PROVE UsageInv'
  BY <1>2, UsageBill DEF Usage!Bill
<1>3. ASSUME NEW m \in Meters, Usage!createUsageMeter(m) PROVE UsageInv'
  BY <1>3, UsageMeter DEF Usage!createUsageMeter
<1>4. ASSUME NEW r \in Racers, NEW u \in Units, Usage!Send(r, u) PROVE UsageInv'
  BY <1>4, UsageSend DEF Usage!Send
<1>5. ASSUME NEW r \in Racers, Usage!Insert(r) \/ Usage!Answer(r) \/ Usage!Lose(r) PROVE UsageInv'
  BY <1>5, UsageInsert, UsageAnswer, UsageLose DEF Usage!Insert, Usage!Answer, Usage!Lose
<1> QED BY <1>1, <1>2, <1>3, <1>4, <1>5, UsageTick DEF Usage!Next

LEMMA UsageStart ==
  ASSUME MCInit
  PROVE  UsageInv
<1>1. Usage!Init
  BY DEF MCInit
<1>2. /\ clock = 0 /\ meter = Nothing /\ metered = {}
      /\ report = [r \in Racers |-> Usage!Idle]
      /\ answered = [u \in Units |-> Usage!Absent]
      /\ invoice = [p \in Periods |-> Usage!NoInvoice]
  BY <1>1 DEF Usage!Init
<1>3. Usage!TypeOK
  BY <1>2, UsageFacts DEF Usage!TypeOK, Usage!Times
<1>4. Usage!Billed = {}
  BY <1>2 DEF Usage!Billed
<1>5. \A r \in Racers : report[r] \notin Report
  BY <1>2, UsageFacts
<1> QED BY <1>2, <1>3, <1>4, <1>5, UsageFacts DEF UsageInv

\* A time is in one period at most.
LEMMA OnePeriod ==
  ASSUME NEW p \in Periods, NEW q \in Periods, NEW t \in Int,
         Usage!Within(t, p), Usage!Within(t, q)
  PROVE  p = q
<1>1. p \in Int /\ q \in Int /\ Length \in Nat
  BY UsageFacts
<1>2. ASSUME NEW a \in Int, NEW b \in Int, a < b PROVE a * Length <= (b - 1) * Length
  <2>1. PICK d \in Nat : b - 1 = a + d
    BY <1>2
  <2>2. (a + d) * Length = a * Length + d * Length /\ d * Length >= 0
    BY <1>1
  <2> QED BY <1>1, <2>1, <2>2
<1>3. (p - 1) * Length <= t /\ t < p * Length /\ (q - 1) * Length <= t /\ t < q * Length
  BY DEF Usage!Within
<1>4. ~(p < q)
  BY <1>1, <1>2, <1>3
<1>5. ~(q < p)
  BY <1>1, <1>2, <1>3
<1> QED BY <1>1, <1>4, <1>5

\* The inductive invariant of the usage.
LEMMA UsageAlways ==
  MCSpec => []UsageInv
<1>1. MCInit => UsageInv
  BY UsageStart
<1>2. UsageInv /\ [MCNext]_<<component, console, clock, usage, keyVars, tokenVars>> => UsageInv'
  <2> SUFFICES ASSUME UsageInv, [MCNext]_<<component, console, clock, usage, keyVars, tokenVars>>
               PROVE  UsageInv'
    OBVIOUS
  <2>1. \/ Usage!Next
        \/ UNCHANGED <<clock, usage>>
        \/ BrowserReads!Next /\ UNCHANGED usage
    BY DEF MCNext, HostNext
  <2>2. BrowserReads!Next => clock' \in Usage!Times
    <3>1. clock \in Usage!Times
      BY DEF UsageInv, Usage!TypeOK
    <3>2. BrowserReads!Next => clock' = clock \/ (clock < MaxClock /\ clock' = clock + 1)
      BY DEF BrowserReads!Next, BrowserReads!Tick, BrowserReads!PostToken, BrowserReads!DeleteToken,
         BrowserReads!Ask, BrowserReads!resolveCustomerReadToken, BrowserReads!Read
    <3> QED BY <3>1, <3>2, UsageFacts DEF Usage!Times
  <2>3. UNCHANGED clock => clock' \in Usage!Times
    BY DEF UsageInv, Usage!TypeOK
  <2> QED BY <2>1, <2>2, <2>3, UsageStep
<1> QED BY <1>1, <1>2, PTL DEF MCSpec

(* However often a unit of usage is reported, whatever answers are lost and *)
(* whichever requests overlap, the invoices count it at most once, in the   *)
(* period the host was told of (usage/service.ts, reportUsage and           *)
(* getUsageSummary).                                                        *)
THEOREM UsageAlwaysBilledOnce ==
  MCSpec => []UsageBilledOnce
<1>1. UsageInv => UsageBilledOnce
  <2> SUFFICES ASSUME UsageInv, NEW a \in Usage!Accounts, NEW p \in Usage!Billed
               PROVE
      /\ \A b \in Usage!Accounts, q \in Usage!Billed :
           \A e \in Usage!Counted(p, a), f \in Usage!Counted(q, b) :
             e.unit = f.unit => a = b /\ p = q /\ e = f
      /\ \A u \in invoice[p][a].told :
           Usage!Within(answered[u], p) => Event(u, answered[u]) \in Usage!Counted(p, a)
      /\ \A e \in Usage!Counted(p, a) : answered[e.unit] \in {Usage!Absent, e.occurredAt}
      /\ meter.billingScheme = "included_overage" =>
           invoice[p][a].summary.due.included + invoice[p][a].summary.due.overage =
             Usage!Quantity(Usage!Counted(p, a))
    BY DEF UsageBilledOnce, Usage!UsageBilledOnce, Event
  <2>1. ASSUME NEW q \in Usage!Billed, NEW b \in Usage!Accounts, NEW e \in Usage!Counted(q, b)
        PROVE  /\ e \in metered /\ e.unit \in Units /\ e.occurredAt \in Int
               /\ e = Event(e.unit, e.occurredAt) /\ Usage!Within(e.occurredAt, q) /\ q \in Periods
               /\ e.unit.environment = b.environment /\ e.unit.customer = b.customer
    <3>1. BilledWell(q, b) /\ q \in Periods
      BY DEF UsageInv, Usage!Billed
    <3>2. /\ e \in metered /\ Usage!Within(e.occurredAt, q)
          /\ e.unit.environment = b.environment /\ e.unit.customer = b.customer
      BY <3>1 DEF BilledWell, Usage!Counted, Usage!UnitsOf
    <3>3. e \in Usage!UsageEvents
      BY <3>2, ReportsAre
    <3> QED BY <3>1, <3>2, <3>3, UsageFacts DEF Usage!UsageEvents, Usage!Times, Event
  <2>2. ASSUME NEW b \in Usage!Accounts, NEW q \in Usage!Billed,
               NEW e \in Usage!Counted(p, a), NEW f \in Usage!Counted(q, b), e.unit = f.unit
        PROVE  a = b /\ p = q /\ e = f
    <3>1. e \in metered /\ f \in metered
      BY <2>1
    <3>2. Usage!SameKey(e, f.unit)
      BY <2>2 DEF Usage!SameKey
    <3>3. e = f
      BY <3>1, <3>2 DEF UsageInv
    <3>4. p = q
      <4>1. /\ p \in Periods /\ q \in Periods /\ e.occurredAt \in Int
            /\ Usage!Within(e.occurredAt, p) /\ Usage!Within(e.occurredAt, q)
        BY <2>1, <3>3
      <4> QED BY <4>1, OnePeriod
    <3>5. a.environment = b.environment /\ a.customer = b.customer
      <4>1. e.unit.environment = a.environment /\ e.unit.customer = a.customer
        BY <2>1
      <4>2. f.unit.environment = b.environment /\ f.unit.customer = b.customer
        BY <2>1
      <4> QED BY <2>2, <4>1, <4>2
    <3>6. a = b
      BY <3>5 DEF Usage!Accounts
    <3> QED BY <3>3, <3>4, <3>6
  <2>3. BilledWell(p, a) /\ meter # Nothing
    BY DEF UsageInv
  <2>4. \A u \in invoice[p][a].told :
          Usage!Within(answered[u], p) => Event(u, answered[u]) \in Usage!Counted(p, a)
    BY <2>3 DEF BilledWell, Usage!Counted
  <2>5. ASSUME NEW e \in Usage!Counted(p, a), answered[e.unit] # Usage!Absent
        PROVE  answered[e.unit] = e.occurredAt
    <3>1. e \in metered /\ e.unit \in Units /\ e = Event(e.unit, e.occurredAt)
      BY <2>1
    <3>2. Event(e.unit, answered[e.unit]) \in metered
      BY <2>5, <3>1 DEF UsageInv
    <3>3. Usage!SameKey(Event(e.unit, answered[e.unit]), e.unit)
      BY DEF Usage!SameKey, Event
    <3>4. Event(e.unit, answered[e.unit]) = e
      BY <3>1, <3>2, <3>3 DEF UsageInv
    <3> QED BY <3>4 DEF Event
  <2>6. ASSUME meter.billingScheme = "included_overage"
        PROVE  invoice[p][a].summary.due.included + invoice[p][a].summary.due.overage =
                 Usage!Quantity(Usage!Counted(p, a))
    <3>1. PICK n : n = Usage!Quantity(Usage!Counted(p, a))
      OBVIOUS
    <3>2. n \in Nat
      <4>1. Usage!Counted(p, a) \subseteq metered
        BY <2>1
      <4> QED BY <3>1, <4>1, QuantityType
    <3>3. invoice[p][a].summary.due = Usage!computeBillingQuantity(meter, n)
      BY <2>3, <3>1 DEF BilledWell, Usage!Counted
    <3>4. PICK k : k = Usage!OrZero(meter.includedQuantity)
      OBVIOUS
    <3>5. k \in Nat
      BY <2>3, <2>6, <3>4 DEF Usage!OrZero, UsageInv
    <3>6. /\ invoice[p][a].summary.due.included = IF n < k THEN n ELSE k
          /\ invoice[p][a].summary.due.overage = IF n > k THEN n - k ELSE 0
      BY <2>6, <3>3, <3>4 DEF Usage!computeBillingQuantity
    <3> QED BY <3>1, <3>2, <3>5, <3>6
  <2> QED BY <2>2, <2>4, <2>5, <2>6
<1> QED BY <1>1, UsageAlways, PTL

-------------------------------------------------------------------------------
(* What is left of the types of every component.                           *)

LEMMA DeliveriesAlways ==
  MCSpec => []DeliveryInv
<1>1. MCInit => DeliveryInv
  BY InitHolds, DeliveryAssumption DEF MCInit
<1>2. DeliveryInv /\ [MCNext]_<<component, console, clock, usage, keyVars, tokenVars>>
        => DeliveryInv'
  <2>1. [MCNext]_<<component, console, clock, usage, keyVars, tokenVars>> => [Next]_vars
    BY DEF MCNext, ConsoleNext, HostNext, console
  <2> QED BY <2>1, StepKeeps, DeliveryAssumption
<1> QED BY <1>1, <1>2, PTL DEF MCSpec

\* What the invariant of the mapping does not say of its rows and requests.
MapTypes ==
  /\ whole \in BOOLEAN /\ current \subseteq Askers
  /\ keyed \in MadeIds \cup {Nothing} /\ settled \subseteq Askers

LEMMA MapTypesHold ==
  ASSUME MapInv, MapTypes, Provisioning!Next \/ UNCHANGED provisioned
  PROVE  MapTypes'
<1> USE DEF MapTypes, Provisioning!mapping, Provisioning!provider, Provisioning!history
<1>1. ASSUME NEW a \in Askers, Provisioning!Begins(a) PROVE MapTypes'
  BY <1>1 DEF Provisioning!Begins, Provisioning!ReadRow, Provisioning!Insert, Provisioning!TurnAway,
     Provisioning!parkStaleInFlight, Provisioning!Reset, Provisioning!Write
<1>2. ASSUME NEW a \in Askers, Provisioning!Finishes(a) PROVE MapTypes'
  BY <1>2 DEF Provisioning!Finishes, Provisioning!FinishRejected, Provisioning!FinishUncertain,
     Provisioning!PersistCreatedId, Provisioning!Verify, Provisioning!Settle, Provisioning!Write
<1>3. ASSUME NEW a \in Askers,
             \/ \E p \in AskedParams : Provisioning!Ask(a, p)
             \/ Provisioning!Claim(a) \/ Provisioning!NotCreated(a) \/ Provisioning!Die(a)
      PROVE  MapTypes'
  BY <1>3 DEF Provisioning!Ask, Provisioning!Claim, Provisioning!NotCreated, Provisioning!Die,
     Provisioning!Write
<1>4. ASSUME NEW a \in Askers, NEW p \in MadeIds, NEW quality \in {"matching", "other"},
             Provisioning!Created(a, p, quality)
      PROVE  MapTypes'
  BY <1>4 DEF Provisioning!Created, Provisioning!Make
<1>5. mapping.token \in Askers \cup {Nothing}
  BY DEF MapInv, Provisioning!Row, Askers
<1>6. CASE Provisioning!failNeedsReconciliationIntent
  BY <1>5, <1>6 DEF Provisioning!failNeedsReconciliationIntent, Provisioning!Write
<1>7. ASSUME NEW p \in MadeIds, Provisioning!linkProviderCatalogProductFromConsole(p)
      PROVE  MapTypes'
  BY <1>5, <1>7 DEF Provisioning!linkProviderCatalogProductFromConsole,
     Provisioning!linkProviderCatalogProduct, Provisioning!Write
<1>8. CASE Provisioning!Elapse
  BY <1>8 DEF Provisioning!Elapse
<1>9. CASE UNCHANGED provisioned
  BY <1>9 DEF provisioned
<1> QED BY <1>1, <1>2, <1>3, <1>4, <1>6, <1>7, <1>8, <1>9 DEF Provisioning!Next, Askers

LEMMA MapTyped ==
  MCSpec => [](component = "provisioning" => Provisioning!TypeOK)
<1>1. MCInit => MapTypes
  BY DEF MCInit, Provisioning!Init, MapTypes
<1>2. MapInv /\ MapTypes /\ [MCNext]_<<component, console, clock, usage, keyVars, tokenVars>>
        => MapTypes'
  BY MapTypesHold, MapRuns
<1>3. MapInv /\ MapTypes => (component = "provisioning" => Provisioning!TypeOK)
  BY DEF MapInv, MapTypes, Bound, Attempt, Askers, Provisioning!TypeOK
<1> QED BY <1>1, <1>2, <1>3, MapAlways, PTL DEF MCSpec

\* What the panel shows and writes.
PanelTypes ==
  /\ shown \in [Places -> [Prices -> Panel!Statuses]]
  /\ verification \in {Panel!None} \cup [at : {"shown"}, of : Panel!Identity, ok : BOOLEAN]
  /\ verifying \in BOOLEAN
  /\ writing \in {Panel!None} \cup [at : {"linking", "creating", "failing"}, of : Panel!Identity]

LEMMA PanelTypesHold ==
  ASSUME PanelInv, PanelTypes, Panel!Next \/ UNCHANGED panel
  PROVE  PanelTypes'
<1> USE DEF PanelTypes, Panel!shown, Panel!asking
<1>0. Panel!Shown \in Panel!Identity
  BY DEF PanelInv, Panel!Shown, Panel!Identity
<1>1. ASSUME NEW p \in Prices, Panel!SelectPrice(p) PROVE PanelTypes'
  BY <1>1 DEF Panel!SelectPrice, Panel!invalidateVerification
<1>2. ASSUME NEW x \in ProductIds \cup {Nothing}, Panel!TypeProduct(x) PROVE PanelTypes'
  BY <1>2 DEF Panel!TypeProduct, Panel!invalidateVerification
<1>3. ASSUME NEW p \in Places, Panel!Move(p) PROVE PanelTypes'
  BY <1>3 DEF Panel!Move
<1>4. ASSUME NEW q \in Racers, Panel!verify(q) PROVE PanelTypes'
  BY <1>4 DEF Panel!verify
<1>5. ASSUME NEW q \in Racers, Panel!Previewed(q) PROVE PanelTypes'
  <2>1. preview[q] \in [at : {"sent", "aborted"}, of : Panel!Identity]
    BY <1>5 DEF PanelInv, Panel!Previewed
  <2>2. preview[q].of \in Panel!Identity
    BY <2>1
  <2>3. [at |-> "shown", of |-> preview[q].of, ok |-> preview[q].of \in Matching]
          \in [at : {"shown"}, of : Panel!Identity, ok : BOOLEAN]
    BY <2>2
  <2>4. verification' \in {Panel!None} \cup [at : {"shown"}, of : Panel!Identity, ok : BOOLEAN]
    BY <1>5, <2>3 DEF Panel!Previewed
  <2> QED BY <1>5, <2>4 DEF Panel!Previewed, Panel!Settled
<1>6. ASSUME NEW q \in Racers, Panel!NotPreviewed(q) PROVE PanelTypes'
  BY <1>6 DEF Panel!NotPreviewed, Panel!Settled
<1>7. CASE Panel!link \/ Panel!createInProvider \/ Panel!markFailedForRetry
  <2>1. \E what \in {"linking", "creating", "failing"} : Panel!Writes(what)
    BY <1>7 DEF Panel!link, Panel!createInProvider, Panel!markFailedForRetry
  <2> QED BY <1>0, <2>1 DEF Panel!Writes
<1>8. CASE Panel!Written
  <2>1. writing \in [at : {"linking", "creating", "failing"}, of : Panel!Identity]
    BY <1>8 DEF Panel!Written
  <2>2. writing.of \in Panel!Identity /\ writing.at \in {"linking", "creating", "failing"}
    BY <2>1
  <2>3. writing.of.place \in Places /\ writing.of.pair.price \in Prices
    BY <2>2 DEF Panel!Identity, Panel!Pair
  <2>4. Panel!Outcomes[writing.at] \subseteq Panel!Statuses
    BY <2>2 DEF Panel!Outcomes, Panel!Statuses
  <2>5. \/ shown' = shown
        \/ \E s \in Panel!Statuses :
             shown' = [shown EXCEPT ![writing.of.place][writing.of.pair.price] = s]
    BY <1>8, <2>4 DEF Panel!Written
  <2>6. shown' \in [Places -> [Prices -> Panel!Statuses]]
    <3>1. CASE shown' = shown
      BY <3>1
    <3>2. ASSUME NEW s \in Panel!Statuses,
                 shown' = [shown EXCEPT ![writing.of.place][writing.of.pair.price] = s]
          PROVE  shown' \in [Places -> [Prices -> Panel!Statuses]]
      <4>1. PICK l \in Places : l = writing.of.place
        BY <2>3
      <4>2. PICK m : m = [shown[l] EXCEPT ![writing.of.pair.price] = s]
        OBVIOUS
      <4>3. m \in [Prices -> Panel!Statuses]
        BY <2>3, <4>1, <4>2
      <4>4. shown' = [shown EXCEPT ![l] = m]
        BY <3>2, <4>1, <4>2
      <4> QED BY <4>3, <4>4
    <3> QED BY <2>5, <3>1, <3>2
  <2> QED BY <1>8, <2>6 DEF Panel!Written
<1>9. CASE UNCHANGED panel
  BY <1>9 DEF panel
<1> QED BY <1>1, <1>2, <1>3, <1>4, <1>5, <1>6, <1>7, <1>8, <1>9 DEF Panel!Next

LEMMA PanelTyped ==
  MCSpec => [](component = "panel" => Panel!TypeOK)
<1> DEFINE Inv == component = "panel" => PanelInv
<1>1. MCInit => PanelTypes
  <2> SUFFICES ASSUME MCInit PROVE PanelTypes
    OBVIOUS
  <2>1. Panel!Init
    BY DEF MCInit
  <2>2. shown = [l \in Places |-> [p \in Prices |-> "unconfigured"]]
    BY <2>1 DEF Panel!Init
  <2>3. shown \in [Places -> [Prices -> Panel!Statuses]]
    BY <2>2 DEF Panel!Statuses
  <2> QED BY <2>1, <2>3 DEF Panel!Init, PanelTypes
<1>2. Inv /\ (component = "panel" => PanelTypes)
        /\ [MCNext]_<<component, console, clock, usage, keyVars, tokenVars>>
        => (component = "panel" => PanelTypes)'
  <2>1. [MCNext]_<<component, console, clock, usage, keyVars, tokenVars>>
          => component' = component /\ (component = "panel" => Panel!Next \/ UNCHANGED panel)
    BY DEF MCNext, ConsoleNext, HostNext, console
  <2> QED BY <2>1, PanelTypesHold
<1>3. Inv /\ (component = "panel" => PanelTypes) => (component = "panel" => Panel!TypeOK)
  BY DEF PanelInv, PanelTypes, Panel!TypeOK
<1> QED BY <1>1, <1>2, <1>3, PanelAlways, PTL DEF MCSpec

\* The prices of the catalog.
LEMMA CheckoutTyped ==
  MCSpec => [](component = "checkout" => Sales!TypeOK)
<1> DEFINE Inv == component = "checkout" => RouteInv /\ SaleInv
           Priced == price \in [Prices -> {"none", "active", "archived"}]
<1>1. MCInit => Priced
  BY DEF MCInit, Sales!Init
<1>2. Priced /\ [MCNext]_<<component, console, clock, usage, keyVars, tokenVars>> => Priced'
  <2> SUFFICES ASSUME Priced, Sales!Next \/ UNCHANGED sales PROVE Priced'
    BY DEF MCNext, ConsoleNext, HostNext, console
  <2>1. \/ price' = price
        \/ \E p \in Prices, s \in {"active", "archived"} : price' = [price EXCEPT ![p] = s]
    BY DEF Sales!Next, sales, Sales!console, Sales!Goes, Sales!createProviderConnection,
       Sales!revokeProviderConnection, Sales!createPrice, Sales!archivePrice,
       Sales!createProductFromBuilder, Sales!WriteRoute, Sales!setProductProviderRoute, Sales!Ask,
       Sales!loadActiveConnections, Sales!resolveCheckoutProviderRoute, Sales!CreateOrder,
       Sales!Refuse, Sales!createProviderCheckout, Sales!Answer, Sales!SetOpen, Sales!SetFailed
  <2> QED BY <2>1
<1>3. Inv /\ Priced => (component = "checkout" => Sales!TypeOK)
  <2> SUFFICES ASSUME RouteInv, SaleInv, Priced PROVE Sales!TypeOK
    OBVIOUS
  <2>1. ASSUME NEW k \in Later, checkout[k] # Sales!Idle
        PROVE  LET c == checkout[k] IN
               /\ c.basket \in Baskets /\ c.active \subseteq Connections /\ c.to \in Sales!Maybe
               /\ c.at \in {"asked", "listed", "chosen", "creating", "calling",
                            "answered", "refused", "open", "failed"}
    <3>1. checkout[k] \in Sale
      BY <2>1 DEF SaleInv
    <3> QED BY <3>1 DEF Sale
  <2> QED BY <2>1 DEF RouteInv, RouteEdit, Ends, Sales!TypeOK
<1> QED BY <1>1, <1>2, <1>3, CheckoutAlways, PTL DEF MCSpec

\* What the invariant of the wizard does not say of its state.
WizardTypes ==
  /\ rendered \in [place : Places, providers : SUBSET Connections]
  /\ step \in 0 .. 4
  /\ submission \in {Wizard!None, [at |-> "left"]}
       \cup [at : {"sent", "created", "refused"}, shown : Places,
             selected : BOOLEAN, place : Places]
  /\ \A p \in DOMAIN created :
       created[p] \in {Wizard!None} \cup
         [type : ProductTypes, interval : Intervals \cup {Nothing}, grants : Grants,
          provider : Connections, place : Places, shown : Places, selected : BOOLEAN]

LEMMA WizardTypesHold ==
  ASSUME WizardInv, WizardTypes, Wizard!Next \/ UNCHANGED builder
  PROVE  WizardTypes'
<1> USE DEF WizardTypes, Wizard!console
<1>1. ASSUME NEW at, NEW f, Wizard!Enter(at, f) PROVE WizardTypes'
  BY <1>1 DEF Wizard!Enter
<1>2. CASE \/ \E t \in ProductTypes : Wizard!SetProductType(t)
           \/ \E ok \in BOOLEAN : Wizard!SetName(ok) \/ Wizard!SetAmount(ok)
           \/ \E i \in Intervals : Wizard!SetRecurringInterval(i)
           \/ \E g \in Grants : Wizard!SetGrants(g)
           \/ \E c \in Connections : Wizard!SetProviderConnectionId(c)
  BY <1>1, <1>2 DEF Wizard!SetProductType, Wizard!SetName, Wizard!SetAmount,
     Wizard!SetRecurringInterval, Wizard!SetGrants, Wizard!SetProviderConnectionId
<1>3. ASSUME NEW s \in 0 .. 4, Wizard!GoesTo(s) PROVE WizardTypes'
  BY <1>3 DEF Wizard!GoesTo
<1>4. CASE Wizard!next \/ Wizard!back \/ \E s \in 0 .. 3 : Wizard!Jump(s)
  <2>1. \E s \in 0 .. 4 : Wizard!GoesTo(s)
    BY <1>4 DEF Wizard!next, Wizard!back, Wizard!Jump
  <2> QED BY <1>3, <2>1
<1>5. CASE \/ \E l \in Places : Wizard!SelectPlace(l)
           \/ \E c \in Connections : Wizard!revokeProviderConnection(c)
  BY <1>5 DEF Wizard!SelectPlace, Wizard!revokeProviderConnection
<1>6. CASE Wizard!Render
  BY <1>6 DEF Wizard!Render, WizardInv, Wizard!getBuilderProviderOptions
<1>7. CASE Wizard!submit
  <2>1. submission' = [at |-> "sent", shown |-> rendered.place,
                       selected |-> Wizard!selectedProvider, place |-> cookie]
    BY <1>7 DEF Wizard!submit
  <2>2. rendered.place \in Places /\ cookie \in Places /\ Wizard!selectedProvider \in BOOLEAN
    BY DEF WizardInv, Wizard!selectedProvider
  <2>3. submission' \in [at : {"sent", "created", "refused"}, shown : Places,
                         selected : BOOLEAN, place : Places]
    BY <2>1, <2>2
  <2> QED BY <1>7, <2>3 DEF Wizard!submit
<1>8. CASE Wizard!createProductFromBuilder
  <2>1. submission \in [at : {"sent", "created", "refused"}, shown : Places,
                        selected : BOOLEAN, place : Places]
    BY <1>8, WizardFacts DEF Wizard!createProductFromBuilder
  <2>2. submission' = [submission EXCEPT !.at = "created"] \/ submission' = [submission EXCEPT !.at = "refused"]
    BY <1>8 DEF Wizard!createProductFromBuilder
  <2>3. submission' \in [at : {"sent", "created", "refused"}, shown : Places,
                         selected : BOOLEAN, place : Places]
    BY <2>1, <2>2
  <2>4. CASE Wizard!Accepts(submission.place, form)
    <3>1. PICK m : m = Wizard!Configured(form, submission)
      OBVIOUS
    <3>2. form \in Wizard!Form /\ form.provider \in Connections
      BY <2>4 DEF WizardInv, Wizard!Accepts, Wizard!assertProviderForEnvironment
    <3>3. m \in [type : ProductTypes, interval : Intervals \cup {Nothing}, grants : Grants,
                 provider : Connections, place : Places, shown : Places, selected : BOOLEAN]
      BY <2>1, <3>1, <3>2 DEF Wizard!Configured, Wizard!Form
    <3>4. created' = [created EXCEPT ![ProjectOf[submission.place]] = m]
      BY <1>8, <2>4, <3>1 DEF Wizard!createProductFromBuilder
    <3> QED BY <1>8, <2>3, <3>3, <3>4 DEF Wizard!createProductFromBuilder
  <2>5. CASE ~Wizard!Accepts(submission.place, form)
    BY <1>8, <2>3, <2>5 DEF Wizard!createProductFromBuilder
  <2> QED BY <2>4, <2>5
<1>9. CASE Wizard!Created \/ Wizard!NotCreated
  BY <1>9 DEF Wizard!Created, Wizard!NotCreated
<1>10. CASE UNCHANGED builder
  BY <1>10 DEF builder
<1> QED BY <1>2, <1>4, <1>5, <1>6, <1>7, <1>8, <1>9, <1>10 DEF Wizard!Next

LEMMA WizardTyped ==
  MCSpec => [](component = "wizard" => Wizard!TypeOK)
<1> DEFINE Inv == component = "wizard" => WizardInv
<1>1. MCInit => WizardTypes
  <2> SUFFICES ASSUME MCInit PROVE WizardTypes
    OBVIOUS
  <2>1. Wizard!Init
    BY DEF MCInit
  <2> QED BY <2>1 DEF Wizard!Init, WizardTypes, Wizard!getBuilderProviderOptions
<1>2. Inv /\ (component = "wizard" => WizardTypes)
        /\ [MCNext]_<<component, console, clock, usage, keyVars, tokenVars>>
        => (component = "wizard" => WizardTypes)'
  <2>1. [MCNext]_<<component, console, clock, usage, keyVars, tokenVars>>
          => component' = component /\ (component = "wizard" => Wizard!Next \/ UNCHANGED builder)
    BY DEF MCNext, ConsoleNext, HostNext, console
  <2> QED BY <2>1, WizardTypesHold
<1>3. Inv /\ (component = "wizard" => WizardTypes) => (component = "wizard" => Wizard!TypeOK)
  BY DEF WizardInv, WizardTypes, Wizard!TypeOK
<1> QED BY <1>1, <1>2, <1>3, WizardAlways, PTL DEF MCSpec

\* The calls of a job, their repetitions and what they can have done: PayPal's
\* cancellation acts once in an attempt.
ActsNext(q) ==
  provider = "paypal" /\ q.op = "cancel"
    /\ (q.at = "asked" \/ (q.at \in {"loaded", "authorized"} /\ q.left = <<"act", "read">>))

Repeated(q, n) ==
  /\ Len(q.left) <= 2
  /\ q.again \in 0 .. 2 /\ q.attempt \in 1 .. MaxAttempts
  /\ n <= q.attempt
  /\ ActsNext(q) => n < q.attempt

CallTypes ==
  /\ reachable \in BOOLEAN /\ cached \in BOOLEAN
  /\ cached = TRUE => provider = "paypal"
  /\ \A j \in Racers : job[j] # ProviderJobs!Idle => Repeated(job[j], made[j])

LEMMA CallTypesChange ==
  ASSUME CallInv, CallTypes, NEW j \in Racers, NEW q \in CallRecord, NEW n \in Nat,
         job' = [job EXCEPT ![j] = q], made' = [made EXCEPT ![j] = n],
         provider' = provider, Repeated(q, n),
         reachable' \in BOOLEAN, cached' \in BOOLEAN, cached' = TRUE => provider = "paypal"
  PROVE  CallTypes'
<1>1. /\ job'[j] = q /\ made'[j] = n
      /\ \A i \in Racers \ {j} : job'[i] = job[i] /\ made'[i] = made[i]
  BY DEF CallInv
<1>2. \A c, m : Repeated(c, m)' <=> Repeated(c, m)
  BY DEF Repeated, ActsNext
<1> QED BY <1>1, <1>2 DEF CallTypes

LEMMA CallTypesHold ==
  ASSUME CallInv, CallTypes, ProviderJobs!Next \/ UNCHANGED callVars
  PROVE  CallTypes'
<1>0. MaxAttempts \in Nat \ {0}
  BY ConsoleAssumption DEF ProviderJobs!CallsAssumption
<1>1. ASSUME UNCHANGED <<provider, job, made>>, reachable' \in BOOLEAN, cached' \in BOOLEAN,
             cached' = TRUE => cached = TRUE
      PROVE  CallTypes'
  BY <1>1 DEF CallTypes, Repeated, ActsNext
<1>2. CASE \/ ProviderJobs!revokeProviderConnection \/ ProviderJobs!TokenExpires
           \/ UNCHANGED callVars
  <2>1. CASE ProviderJobs!revokeProviderConnection
    <3>1. UNCHANGED <<provider, job, made>> /\ reachable' = FALSE /\ cached' = cached
      BY <2>1 DEF ProviderJobs!revokeProviderConnection
    <3> QED BY <1>1, <3>1 DEF CallTypes
  <2>2. CASE ProviderJobs!TokenExpires
    <3>1. UNCHANGED <<provider, job, made>> /\ reachable' = reachable /\ cached' = FALSE
      BY <2>2 DEF ProviderJobs!TokenExpires
    <3> QED BY <1>1, <3>1 DEF CallTypes
  <2>3. CASE UNCHANGED callVars
    <3>1. UNCHANGED <<provider, job, made>> /\ reachable' = reachable /\ cached' = cached
      BY <2>3 DEF callVars
    <3> QED BY <1>1, <3>1 DEF CallTypes
  <2> QED BY <1>2, <2>1, <2>2, <2>3
<1>3. ASSUME NEW j \in Racers, NEW op \in ProviderJobs!Operations, ProviderJobs!Ask(j, op)
      PROVE  CallTypes'
  <2>0. PICK n \in Nat : n = 0
    OBVIOUS
  <2>1. PICK q : q = [at |-> "asked", op |-> op, left |-> <<>>, again |-> 0, attempt |-> 1]
    OBVIOUS
  <2>2. q \in CallRecord /\ q.at = "asked" /\ q.left = <<>> /\ q.again = 0 /\ q.attempt = 1
    BY <2>1 DEF CallRecord
  <2>3. job[j] = ProviderJobs!Idle /\ made[j] = 0
    BY <1>3, CallFacts DEF CallInv, ProviderJobs!Ask, ProviderJobs!At, Fine
  <2>4. job' = [job EXCEPT ![j] = q] /\ provider' = provider /\ made' = [made EXCEPT ![j] = n]
    BY <1>3, <2>0, <2>1, <2>3 DEF ProviderJobs!Ask, CallInv
  <2>5. Repeated(q, n)
    BY <1>0, <2>0, <2>2 DEF Repeated
  <2>6. reachable' = reachable /\ cached' = cached
    BY <1>3 DEF ProviderJobs!Ask
  <2>7. reachable' \in BOOLEAN
    BY <2>6 DEF CallTypes
  <2>8. cached' \in BOOLEAN /\ (cached' = TRUE => provider = "paypal")
    <3>1. cached \in BOOLEAN /\ (cached = TRUE => provider = "paypal")
      BY DEF CallTypes
    <3> QED BY <2>6, <3>1
  <2> QED BY <2>2, <2>4, <2>5, <2>7, <2>8, CallTypesChange
<1>4. ASSUME NEW j \in Racers, job[j] \in CallRecord, NEW q \in CallRecord,
             job' = [job EXCEPT ![j] = q], UNCHANGED <<provider, reachable, made>>,
             cached' \in BOOLEAN, cached' = TRUE => provider = "paypal",
             Repeated(job[j], made[j]) => Repeated(q, made[j])
      PROVE  CallTypes'
  <2>1. made[j] \in Nat /\ made' = [made EXCEPT ![j] = made[j]]
    BY <1>4 DEF CallInv
  <2>2. Repeated(q, made[j])
    BY <1>4, CallFacts DEF CallTypes
  <2>3. reachable' \in BOOLEAN
    BY <1>4 DEF CallTypes
  <2> QED BY <1>4, <2>1, <2>2, <2>3, CallTypesChange
<1>5. ASSUME NEW j \in Racers, ProviderJobs!Retry(j) PROVE CallTypes'
  <2>1. job[j] \in CallRecord /\ job[j].at = "rejected" /\ made[j] \in Nat
    BY <1>5, CallFacts DEF CallInv, ProviderJobs!Retry, ProviderJobs!At
  <2>2. PICK q : q = [job[j] EXCEPT !.at = "asked", !.attempt = job[j].attempt + 1, !.again = 0]
    OBVIOUS
  <2>3. /\ q \in CallRecord /\ q.at = "asked" /\ q.op = job[j].op /\ q.again = 0
        /\ q.left = job[j].left /\ q.attempt = job[j].attempt + 1
    <3>1. job[j].attempt + 1 \in Nat
      BY <2>1 DEF CallRecord
    <3> QED BY <2>1, <2>2, <3>1 DEF CallRecord
  <2>4. job' = [job EXCEPT ![j] = q]
    <3>1. job' = [job EXCEPT ![j].at = "asked", ![j].attempt = @ + 1, ![j].again = 0]
      BY <1>5 DEF ProviderJobs!Retry
    <3>2. job' = [job EXCEPT ![j] = [job[j] EXCEPT !.at = "asked", !.attempt = @ + 1, !.again = 0]]
      BY <3>1 DEF CallInv
    <3> QED BY <2>1, <2>2, <3>2 DEF CallRecord
  <2>5. job[j].attempt < MaxAttempts
    BY <1>5 DEF ProviderJobs!Retry
  <2>6. Repeated(job[j], made[j]) => Repeated(q, made[j])
    BY <1>0, <2>1, <2>3, <2>5 DEF Repeated
  <2>7. UNCHANGED <<provider, reachable, cached, made>>
    BY <1>5 DEF ProviderJobs!Retry
  <2>8. cached' \in BOOLEAN /\ (cached' = TRUE => provider = "paypal")
    BY <2>7 DEF CallTypes
  <2> QED BY <1>4, <2>1, <2>3, <2>4, <2>6, <2>7, <2>8
\* From one step to another one, before or instead of a call.
<1>6. ASSUME NEW j \in Racers, job[j] \in CallRecord,
             NEW at \in {"authorized", "rejected", "outcome_uncertain", "declined"},
             job' = [job EXCEPT ![j].at = at], UNCHANGED <<provider, reachable, made>>,
             cached' \in BOOLEAN, cached' = TRUE => provider = "paypal",
             at = "authorized" => job[j].at = "loaded"
      PROVE  CallTypes'
  <2>1. PICK q : q = [job[j] EXCEPT !.at = at]
    OBVIOUS
  <2>2. /\ q \in CallRecord /\ q.at = at /\ q.op = job[j].op /\ q.left = job[j].left
        /\ q.again = job[j].again /\ q.attempt = job[j].attempt
    BY <1>6, <2>1 DEF CallRecord, ProviderJobs!Outcomes
  <2>3. job' = [job EXCEPT ![j] = q]
    BY <1>6, <2>1
  <2>4. Repeated(job[j], made[j]) => Repeated(q, made[j])
    BY <1>6, <2>2 DEF Repeated, ActsNext
  <2> QED BY <1>4, <1>6, <2>2, <2>3, <2>4
<1>7. ASSUME NEW j \in Racers,
             ProviderJobs!Refuse(j) \/ ProviderJobs!accessToken(j) \/ ProviderJobs!Decline(j)
      PROVE  CallTypes'
  <2>0. \A error, op : ProviderJobs!Classified(error, op) \in {"rejected", "outcome_uncertain"}
    BY DEF ProviderJobs!Classified
  <2>1. /\ UNCHANGED <<provider, reachable, made>>
        /\ \E at \in {"authorized", "rejected", "outcome_uncertain", "declined"} :
             /\ job' = [job EXCEPT ![j].at = at]
             /\ at = "authorized" => job[j].at = "loaded"
    BY <1>7, <2>0 DEF ProviderJobs!Refuse, ProviderJobs!accessToken, ProviderJobs!Decline,
       ProviderJobs!Fails, ProviderJobs!Goes, ProviderJobs!At
  <2>2. job[j] \in CallRecord
    BY <1>7, CallFacts DEF CallInv, ProviderJobs!Refuse, ProviderJobs!accessToken,
       ProviderJobs!Decline, ProviderJobs!Ready, ProviderJobs!At
  <2>3. cached' \in BOOLEAN /\ (cached' = TRUE => provider = "paypal")
    <3>1. cached' = cached \/ (cached' = TRUE /\ provider = "paypal")
      BY <1>7 DEF ProviderJobs!Refuse, ProviderJobs!accessToken, ProviderJobs!Decline
    <3>2. cached \in BOOLEAN /\ (cached = TRUE => provider = "paypal")
      BY DEF CallTypes
    <3> QED BY <3>1, <3>2
  <2> QED BY <1>6, <2>1, <2>2, <2>3
<1>8. ASSUME NEW j \in Racers, ProviderJobs!Load(j) PROVE CallTypes'
  <2>1. job[j] \in CallRecord /\ job[j].at = "asked"
    BY <1>8, CallFacts DEF CallInv, ProviderJobs!Load, ProviderJobs!At
  <2>2. PICK w : w = ProviderJobs!CallsOf(job[j].op)
    OBVIOUS
  <2>3. w \in Seq(ProviderJobs!Calls) /\ Len(w) <= 2
    <3>1. job[j].op \in ProviderJobs!Operations /\ provider \in ProviderJobs!Providers
      BY <2>1 DEF CallRecord, CallInv
    <3>2. w \in {<<"read">>, <<"act", "read">>, <<"act">>, <<"shell", "act">>, <<"read", "act">>}
      BY <2>2, <3>1, CallsAre
    <3>3. w \in Seq(ProviderJobs!Calls)
      BY <2>2, <3>1, CallsAre
    <3>4. Len(w) <= 2
      <4>1. \A c, d : Len(<<c>>) <= 2 /\ Len(<<c, d>>) <= 2
        OBVIOUS
      <4> QED BY <3>2, <4>1
    <3> QED BY <3>3, <3>4
  <2>4. PICK q : q = [job[j] EXCEPT !.at = "loaded", !.left = w]
    OBVIOUS
  <2>5. /\ q \in CallRecord /\ q.at = "loaded" /\ q.op = job[j].op /\ q.left = w
        /\ q.again = job[j].again /\ q.attempt = job[j].attempt
    BY <2>1, <2>3, <2>4 DEF CallRecord
  <2>6. job' = [job EXCEPT ![j] = q] /\ UNCHANGED <<provider, reachable, cached, made>>
    BY <1>8, <2>2, <2>4 DEF ProviderJobs!Load
  <2>7. Repeated(job[j], made[j]) => Repeated(q, made[j])
    BY <2>1, <2>3, <2>5 DEF Repeated, ActsNext
  <2>8. cached' \in BOOLEAN /\ (cached' = TRUE => provider = "paypal")
    BY <2>6 DEF CallTypes
  <2> QED BY <1>4, <2>1, <2>5, <2>6, <2>7, <2>8
<1>9. ASSUME NEW j \in Racers, NEW a \in ProviderJobs!Answers, ProviderJobs!Repeat(j, a)
      PROVE  CallTypes'
  <2>1. /\ job[j] \in CallRecord /\ made[j] \in Nat
        /\ job[j].at \in {"loaded", "authorized"}
    BY <1>9, CallAtHand DEF ProviderJobs!Repeat
  <2>2. /\ a.status \in {"401", "429"} /\ ~a.executed
        /\ a.status = "429" => job[j].op = "create" /\ job[j].again < 2
        /\ a.status = "401" => job[j].again = 0
    BY <1>9 DEF ProviderJobs!Repeat, ProviderJobs!Repeats, ProviderJobs!Answers,
       ProviderJobs!RetryDelays
  <2>3. made' = made
    <3>1. made' = [made EXCEPT ![j] = made[j]]
      BY <1>9, <2>2 DEF ProviderJobs!Repeat, ProviderJobs!Counts
    <3> QED BY <3>1 DEF CallInv
  <2>4. PICK at \in {"asked", "loaded"} : at = IF a.status = "429" THEN "asked" ELSE "loaded"
    OBVIOUS
  <2>5. PICK q : q = [job[j] EXCEPT !.again = job[j].again + 1, !.at = at]
    OBVIOUS
  <2>6. /\ q \in CallRecord /\ q.at = at /\ q.op = job[j].op /\ q.left = job[j].left
        /\ q.attempt = job[j].attempt /\ q.again = job[j].again + 1
    <3>1. job[j].again + 1 \in Nat
      BY <2>1 DEF CallRecord
    <3> QED BY <2>1, <2>5, <3>1 DEF CallRecord
  <2>7. job' = [job EXCEPT ![j] = q]
    <3>1. job' = [job EXCEPT ![j].again = @ + 1, ![j].at = at]
      BY <1>9, <2>4 DEF ProviderJobs!Repeat
    <3> QED BY <2>5, <3>1 DEF CallInv
  <2>8. at = "asked" => q.op = "create"
    BY <2>2, <2>4, <2>6
  <2>9. Repeated(job[j], made[j]) => Repeated(q, made[j])
    <3>1. Repeated(job[j], made[j]) => q.again \in 0 .. 2
      BY <2>1, <2>2, <2>6 DEF Repeated
    <3> QED BY <2>1, <2>6, <2>8, <3>1 DEF Repeated, ActsNext
  <2>10. /\ UNCHANGED <<provider, reachable, made>>
         /\ cached' \in BOOLEAN /\ (cached' = TRUE => provider = "paypal")
    BY <1>9, <2>3 DEF ProviderJobs!Repeat, CallTypes
  <2> QED BY <1>4, <2>1, <2>6, <2>7, <2>9, <2>10
\* A call that may have done something: at most what was left of the attempt.
<1>10. ASSUME NEW j \in Racers, NEW q \in CallRecord, NEW n \in Nat,
              job[j] \in CallRecord, Fine(job[j], made[j]), made[j] \in Nat,
              job[j].at \in {"loaded", "authorized"},
              n = made[j] \/ (n = made[j] + 1 /\ Head(job[j].left) = "act"),
              q.op = job[j].op, q.attempt = job[j].attempt, q.again \in {0, job[j].again},
              Len(q.left) <= 2,
              ~ActsNext(q),
              job' = [job EXCEPT ![j] = q], made' = [made EXCEPT ![j] = n],
              UNCHANGED <<provider, reachable, cached>>
       PROVE  CallTypes'
  <2>1. Repeated(job[j], made[j])
    BY <1>10, CallFacts DEF CallTypes
  <2>2. n <= q.attempt
    <3>1. CASE n = made[j]
      BY <1>10, <2>1, <3>1 DEF Repeated
    <3>2. CASE n = made[j] + 1 /\ Head(job[j].left) = "act"
      <4>1. CASE provider = "paypal" /\ job[j].op = "cancel"
        <5>1. job[j].left = <<"act", "read">>
          <6>1. job[j].left \in {<<"act", "read">>, <<"read">>}
            BY <1>10, <4>1, CallFacts DEF Fine
          <6>2. Head(<<"read">>) = "read"
            OBVIOUS
          <6> QED BY <3>2, <6>1, <6>2
        <5>2. made[j] < job[j].attempt
          BY <1>10, <2>1, <4>1, <5>1 DEF Repeated, ActsNext
        <5> QED BY <1>10, <3>2, <5>2 DEF CallRecord
      <4>2. CASE ~(provider = "paypal" /\ job[j].op = "cancel")
        <5>1. made[j] = 0
          BY <1>10, <4>2, CallFacts DEF Fine
        <5> QED BY <1>10, <2>1, <3>2, <5>1 DEF Repeated
      <4> QED BY <4>1, <4>2
    <3> QED BY <1>10, <3>1, <3>2
  <2>3. Repeated(q, n)
    BY <1>10, <2>1, <2>2 DEF Repeated
  <2>4. reachable' \in BOOLEAN /\ cached' \in BOOLEAN /\ (cached' = TRUE => provider = "paypal")
    BY <1>10 DEF CallTypes
  <2> QED BY <1>10, <2>3, <2>4, CallTypesChange
<1>11. ASSUME NEW j \in Racers, NEW a \in ProviderJobs!Answers, ProviderJobs!Fail(j, a)
       PROVE  CallTypes'
  <2>1. /\ job[j] \in CallRecord /\ Fine(job[j], made[j]) /\ made[j] \in Nat
        /\ job[j].at \in {"loaded", "authorized"}
    BY <1>11, CallAtHand DEF ProviderJobs!Fail
  <2>2. a.executed \in BOOLEAN
    BY DEF ProviderJobs!Answers
  <2>3. PICK n \in Nat : /\ n = IF a.executed /\ Head(job[j].left) = "act" THEN made[j] + 1 ELSE made[j]
                         /\ made' = [made EXCEPT ![j] = n]
    BY <1>11, <2>2, CallCounts DEF ProviderJobs!Fail
  <2>4. PICK at \in {"rejected", "outcome_uncertain"} : at = ProviderJobs!Failure(j, a)
    BY DEF ProviderJobs!Failure, ProviderJobs!classifyHttpFailure
  <2>5. PICK q : q = [job[j] EXCEPT !.at = at]
    OBVIOUS
  <2>6. /\ q \in CallRecord /\ q.at = at /\ q.op = job[j].op /\ q.left = job[j].left
        /\ q.again = job[j].again /\ q.attempt = job[j].attempt
    BY <2>1, <2>5 DEF CallRecord, ProviderJobs!Outcomes
  <2>7. job' = [job EXCEPT ![j] = q] /\ UNCHANGED <<provider, reachable, cached>>
    BY <1>11, <2>4, <2>5 DEF ProviderJobs!Fail, ProviderJobs!Goes
  <2>8. Len(q.left) <= 2 /\ ~ActsNext(q)
    BY <2>1, <2>6, CallFacts DEF CallTypes, Repeated, ActsNext
  <2>9. n = made[j] \/ (n = made[j] + 1 /\ Head(job[j].left) = "act")
    BY <2>3
  <2> QED BY <1>10, <2>1, <2>3, <2>6, <2>7, <2>8, <2>9
<1>12. ASSUME NEW j \in Racers, NEW a \in ProviderJobs!Answers, ProviderJobs!Succeed(j, a)
       PROVE  CallTypes'
  <2>1. /\ job[j] \in CallRecord /\ Fine(job[j], made[j]) /\ made[j] \in Nat
        /\ job[j].at \in {"loaded", "authorized"}
    BY <1>12, CallAtHand DEF ProviderJobs!Succeed
  <2>2. a.executed \in BOOLEAN
    BY DEF ProviderJobs!Answers
  <2>3. PICK n \in Nat : /\ n = IF a.executed /\ Head(job[j].left) = "act" THEN made[j] + 1 ELSE made[j]
                         /\ made' = [made EXCEPT ![j] = n]
    BY <1>12, <2>2, CallCounts DEF ProviderJobs!Succeed
  <2>4. PICK w : w = Tail(job[j].left)
    OBVIOUS
  <2>5. PICK at \in {"done", "loaded"} : at = IF w = <<>> THEN "done" ELSE "loaded"
    OBVIOUS
  <2>6. job[j].left \in {<<"read">>, <<"act">>, <<"act", "read">>, <<"shell", "act">>, <<"read", "act">>}
    BY <2>1, CallFacts DEF Fine
  <2>7. w \in {<<>>, <<"read">>, <<"act">>}
    <3>1. \A c, d : Tail(<<c>>) = <<>> /\ Tail(<<c, d>>) = <<d>>
      OBVIOUS
    <3> QED BY <2>4, <2>6, <3>1
  <2>8. w \in Seq(ProviderJobs!Calls) /\ Len(w) <= 2 /\ w # <<"act", "read">>
    <3>1. job[j].left \in Seq(ProviderJobs!Calls)
      BY <2>1 DEF CallRecord
    <3>2. job[j].left # <<>>
      BY <2>6
    <3>3. w \in Seq(ProviderJobs!Calls)
      BY <2>4, <3>1, <3>2
    <3>4. Len(w) <= 1
      <4>1. CASE w = <<>>
        BY <4>1
      <4>2. CASE w = <<"read">>
        BY <4>2
      <4>3. CASE w = <<"act">>
        BY <4>3
      <4> QED BY <2>7, <4>1, <4>2, <4>3
    <3>5. Len(<<"act", "read">>) = 2
      OBVIOUS
    <3>6. w # <<"act", "read">>
      BY <3>4, <3>5
    <3> QED BY <3>3, <3>4, <3>6
  <2>9. PICK q : q = [job[j] EXCEPT !.left = w, !.again = 0, !.at = at]
    OBVIOUS
  <2>10. /\ q \in CallRecord /\ q.at = at /\ q.op = job[j].op /\ q.left = w
         /\ q.again = 0 /\ q.attempt = job[j].attempt
    BY <2>1, <2>8, <2>9 DEF CallRecord, ProviderJobs!Outcomes
  <2>11. job' = [job EXCEPT ![j] = q] /\ UNCHANGED <<provider, reachable, cached>>
    BY <1>12, <2>4, <2>5, <2>9 DEF ProviderJobs!Succeed
  <2>12. ~ActsNext(q)
    BY <2>8, <2>10 DEF ActsNext
  <2>13. n = made[j] \/ (n = made[j] + 1 /\ Head(job[j].left) = "act")
    BY <2>3
  <2> QED BY <1>10, <2>1, <2>3, <2>8, <2>10, <2>11, <2>12, <2>13
<1> QED BY <1>2, <1>3, <1>5, <1>7, <1>8, <1>9, <1>11, <1>12 DEF ProviderJobs!Next

LEMMA CallsTyped ==
  MCSpec => [](component = "calls" => ProviderJobs!TypeOK)
<1> DEFINE Inv == component = "calls" => CallInv
<1> DEFINE Typed == component = "calls" => CallTypes
<1>1. MCInit => Typed
  <2> SUFFICES ASSUME MCInit PROVE CallTypes
    OBVIOUS
  <2>1. ProviderJobs!Init
    BY DEF MCInit
  <2> QED BY <2>1 DEF ProviderJobs!Init, CallTypes
<1>2. Inv /\ Typed /\ [MCNext]_<<component, console, clock, usage, keyVars, tokenVars>> => Typed'
  <2>1. [MCNext]_<<component, console, clock, usage, keyVars, tokenVars>>
          => component' = component /\ (component = "calls" => ProviderJobs!Next \/ UNCHANGED callVars)
    BY DEF MCNext, ConsoleNext, HostNext, console
  <2> QED BY <2>1, CallTypesHold
<1>3. Inv /\ Typed => (component = "calls" => ProviderJobs!TypeOK)
  <2> SUFFICES ASSUME CallInv, CallTypes PROVE ProviderJobs!TypeOK
    OBVIOUS
  <2>1. MaxAttempts \in Nat \ {0}
    BY ConsoleAssumption DEF ProviderJobs!CallsAssumption
  <2>2. ASSUME NEW j \in Racers PROVE made[j] \in 0 .. MaxAttempts
    <3>1. CASE job[j] = ProviderJobs!Idle
      BY <2>1, <3>1 DEF CallInv, Fine
    <3>2. CASE job[j] # ProviderJobs!Idle
      <4>1. made[j] \in Nat /\ Repeated(job[j], made[j])
        BY <3>2 DEF CallInv, CallTypes
      <4> QED BY <2>1, <4>1 DEF Repeated
    <3> QED BY <3>1, <3>2
  <2>3. made \in [Racers -> 0 .. MaxAttempts]
    BY <2>2 DEF CallInv
  <2>4. ASSUME NEW j \in Racers, job[j] # ProviderJobs!Idle
        PROVE  /\ job[j] \in CallRecord /\ Repeated(job[j], made[j])
    BY <2>4 DEF CallInv, CallTypes
  <2> QED BY <2>3, <2>4 DEF ProviderJobs!TypeOK, CallInv, CallTypes, Repeated, CallRecord,
           ProviderJobs!RetryDelays
<1> QED BY <1>1, <1>2, <1>3, CallsAlways, PTL DEF MCSpec

LEMMA AccessTyped ==
  MCSpec => [](/\ component = "keys" => HostKeys!TypeOK
               /\ component = "tokens" => BrowserReads!TypeOK)
<1>1. ASSUME KeyInv PROVE HostKeys!TypeOK
  <2>1. KeyTypes
    BY <1>1 DEF KeyInv
  <2>2. Keys = HostKeys!Keys /\ NoSecret = HostKeys!NoSecret /\ Secrets = HostKeys!Secret
    BY DEF Keys, NoSecret, Secrets, HostKeys!Secret
  <2>3. ASSUME NEW o \in KeyOperators
        PROVE  /\ page[o].busy \in {"no", "create", "row"}
               /\ page[o].revealed \in HostKeys!Secret \cup {HostKeys!NoSecret}
               /\ stored[o] \subseteq HostKeys!Secret /\ retired[o] \subseteq HostKeys!Keys
    BY <2>1, <2>2 DEF KeyTypes
  <2>4. ASSUME NEW r \in Racers
        PROVE  /\ keyRequest[r].op \in {"none", "create", "rotate", "revoke"}
               /\ keyRequest[r].at \in {"idle", "guard", "write", "audit", "answer", "error"}
    BY <2>1, KeyFacts DEF KeyTypes, KeyRequest
  <2> QED BY <2>1, <2>2, <2>3, <2>4 DEF KeyTypes, HostKeys!TypeOK
<1>2. ASSUME TokenInv, UsageInv PROVE BrowserReads!TypeOK
  <2>1. TokenTypes /\ clock \in 0 .. MaxClock
    BY <1>2 DEF TokenInv, UsageInv, Usage!TypeOK, Usage!Times
  <2>2. \A r \in Racers : read[r] = BrowserReads!Idle \/ read[r].token \in Tokens
    BY <2>1 DEF TokenTypes, TokenRead
  <2> QED BY <2>1, <2>2 DEF TokenTypes, TokenRow, BrowserReads!TypeOK
<1>3. AccessInv /\ UsageInv =>
        /\ component = "keys" => HostKeys!TypeOK
        /\ component = "tokens" => BrowserReads!TypeOK
  BY <1>1, <1>2 DEF AccessInv
<1> QED BY <1>3, AccessAlways, UsageAlways, PTL

(* Whatever the operators, hosts and browsers do, every row, every request  *)
(* and every call of each component is one the code can be in; a provider   *)
(* does what a job asks for at most once per attempt.                       *)
THEOREM ConsoleAlwaysTyped ==
  MCSpec => []ConsoleTypeOK
<1> DEFINE One == component \in {"deliveries", "provisioning", "panel", "checkout", "reads",
                                 "calls", "wizard", "usage", "keys", "tokens"}
<1>1. DeliveryInv /\ ReadInv /\ UsageInv => TypeOK /\ Limiter!TypeOK /\ Usage!TypeOK
  BY DEF DeliveryInv, ReadInv, UsageInv
<1>2. /\ TypeOK /\ Limiter!TypeOK /\ Usage!TypeOK
      /\ component = "provisioning" => Provisioning!TypeOK
      /\ component = "panel" => Panel!TypeOK
      /\ component = "checkout" => Sales!TypeOK
      /\ component = "calls" => ProviderJobs!TypeOK
      /\ component = "wizard" => Wizard!TypeOK
      /\ component = "keys" => HostKeys!TypeOK
      /\ component = "tokens" => BrowserReads!TypeOK
      /\ One
      => ConsoleTypeOK
  BY DEF ConsoleTypeOK
<1>3. MCInit => One
  BY DEF MCInit
<1>4. One /\ [MCNext]_<<component, console, clock, usage, keyVars, tokenVars>> => One'
  BY DEF MCNext
<1> QED BY <1>1, <1>2, <1>3, <1>4, DeliveriesAlways, ReadsAlways, UsageAlways, MapTyped,
        PanelTyped, CheckoutTyped, CallsTyped, WizardTyped, AccessTyped, PTL DEF MCSpec

===============================================================================
