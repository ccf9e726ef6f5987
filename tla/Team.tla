---------------------------------- MODULE Team ----------------------------------
(***************************************************************************)
(* The operators of the console, their memberships and invitations.        *)
(*                                                                         *)
(* A request loads its actor afresh, reads what it decides on without any  *)
(* lock, statement by statement, and writes in one transaction at the end. *)
(* Other requests may have written in between.                             *)
(*                                                                         *)
(*   operator    operators, by e-mail address; hash stands for the salted  *)
(*               password hash, which is never the same twice              *)
(*   member      workspace_members with their member_application_access    *)
(*   invitation  operator_invitations; live: not expired                   *)
(*   request     what each request is doing and has read                   *)
(*   hashes      how many password hashes have been made                   *)
(*   appointed   history: the operators made an owner by an owner, or by   *)
(*               the first login, and not made anything else since         *)
(*   rotations   history: the password changes that reported success       *)
(***************************************************************************)
EXTENDS Naturals, FiniteSets

CONSTANTS
  Operators,     \* e-mail addresses
  Members, Invitations,     \* the ids the database may hand out
  Requests,      \* requests handled at the same time
  Roles,         \* the workspace roles in use
  Apps,          \* applications
  Accesses,      \* the accesses invitations give
  Changes,       \* the changes of members that are asked for
  Keep,          \* what a change leaves out
  MaxHashes      \* bound: passwords set

WorkspaceRoles == {"owner", "admin", "developer", "support", "viewer"}
Scopes == {"all", "restricted"}
Access == [role : Roles, scope : Scopes, apps : SUBSET Apps]
Change == [role : Roles \cup {Keep}, scope : Scopes \cup {Keep},
           apps : (SUBSET Apps) \cup {Keep}]

TeamAssumption ==
  /\ Roles \subseteq WorkspaceRoles /\ "owner" \in Roles
  /\ Accesses \subseteq Access /\ Changes \subseteq Change
  /\ MaxHashes \in Nat
  /\ IsFiniteSet(Members) /\ IsFiniteSet(Invitations)

VARIABLES operator, member, invitation, request, hashes, appointed, rotations

history == <<appointed, rotations>>
vars == <<operator, member, invitation, request, hashes, history>>

NoOperator == [status |-> "none", hash |-> 0, version |-> 0]
NoMember == [status |-> "none"]
Gone == [status |-> "gone"]
Absent == {NoMember, Gone}
Member == [status : {"member"}, operator : Operators, access : Access]
NoInvitation == [status |-> "none"]
Invitation == [status : {"pending", "accepted", "revoked"}, email : Operators,
               access : Access, by : Roles, live : BOOLEAN]
Idle == [at |-> "idle"]

TypeOK ==
  /\ operator \in [Operators -> {NoOperator} \cup
       [status : {"active", "disabled"}, hash : 1 .. MaxHashes, version : Nat]]
  /\ member \in [Members -> Absent \cup Member]
  /\ \A m, n \in Members :
       member[m] \notin Absent /\ member[n] \notin Absent /\ m # n
       => member[m].operator # member[n].operator
  /\ invitation \in [Invitations -> {NoInvitation} \cup Invitation]
  /\ hashes \in 0 .. MaxHashes
  /\ appointed \subseteq Operators

-------------------------------------------------------------------------------
ROLE_PERMISSIONS ==
  [role \in WorkspaceRoles |->
     CASE role \in {"owner", "admin"} ->
            {"applications:write", "catalog:write", "providers:write",
             "credentials:write", "billing:write", "credits:write",
             "webhooks:write", "team:manage"}
       [] role = "developer" ->
            {"applications:write", "catalog:write", "credentials:write", "webhooks:write"}
       [] role = "support" -> {"credits:write"}
       [] OTHER -> {}]

MembershipOf(o) == {m \in Members : member[m] \notin Absent /\ member[m].operator = o}
IsMember(o) == MembershipOf(o) # {} /\ operator[o].status = "active"
Owners == {m \in Members : member[m] \notin Absent /\ member[m].access.role = "owner"}

\* Only owners manage owners and make owners.
assertCanManageTarget(actor, role) == role = "owner" => actor = "owner"

Grantable(access) == access.scope = "restricted" => access.apps # {}

Init ==
  /\ operator = [o \in Operators |-> NoOperator]
  /\ member = [m \in Members |-> NoMember]
  /\ invitation = [i \in Invitations |-> NoInvitation]
  /\ request = [r \in Requests |-> Idle]
  /\ hashes = 0 /\ appointed = {} /\ rotations = {} 

\* Who is an owner by the hand of an owner, once a role is given by another.
Appointed(o, role, by) ==
  IF role = "owner" THEN appointed \cup (IF by = "owner" THEN {o} ELSE {})
  ELSE appointed \ {o}

Start(r, doing) ==
  /\ request[r] = Idle
  /\ request' = [request EXCEPT ![r] = doing]
  /\ UNCHANGED <<operator, member, invitation, hashes, appointed, rotations>>
Goes(r, doing) == request' = [request EXCEPT ![r] = doing]
Reads(r, doing) ==
  /\ Goes(r, doing)
  /\ UNCHANGED <<operator, member, invitation, hashes, history>>
Ends(r) == Goes(r, Idle)
At(r, step) == request[r].at = step

\* A request that is refused, aborts or dies has written nothing.
Drop(r) ==
  /\ request[r] # Idle
  /\ Reads(r, Idle)

(* The guard: the actor's role as the database has it now.                 *)
Guarded(o, permission) ==
  \E m \in MembershipOf(o) :
    /\ operator[o].status = "active"
    /\ permission \in ROLE_PERMISSIONS[member[m].access.role]
RoleOf(o) == member[CHOOSE m \in MembershipOf(o) : TRUE].access.role

-------------------------------------------------------------------------------
(* The first login: whoever holds the deployment's password becomes owner. *)

BootstrapRead(r, o) ==
  /\ MembershipOf(o) = {}
  /\ \A p \in Operators : operator[p] = NoOperator
  /\ Start(r, [at |-> "bootstrap", operator |-> o])

BootstrapWrite(r, m) ==
  /\ At(r, "bootstrap") /\ hashes < MaxHashes
  /\ LET o == request[r].operator IN
     /\ operator[o] = NoOperator /\ member[m] = NoMember
     /\ operator' = [operator EXCEPT ![o] =
                       [status |-> "active", hash |-> hashes + 1, version |-> 0]]
     /\ member' = [member EXCEPT ![m] = [status |-> "member", operator |-> o,
                     access |-> [role |-> "owner", scope |-> "all", apps |-> {}]]]
     /\ appointed' = appointed \cup {o}
  /\ hashes' = hashes + 1
  /\ Ends(r)
  /\ UNCHANGED <<invitation, rotations>>

(* Invitations.                                                            *)

InviteStart(r, actor, email, access) ==
  /\ Guarded(actor, "team:manage")
  /\ LET role == RoleOf(actor) IN
     /\ assertCanManageTarget(role, access.role)
     /\ Grantable(access)
     /\ Start(r, [at |-> "invite", email |-> email, access |-> access, by |-> role])

InviteRead(r) ==
  /\ At(r, "invite")
  /\ ~IsMember(request[r].email)
  /\ Reads(r, [request[r] EXCEPT !.at = "invite pending"])

InviteInsert(r, i) ==
  /\ At(r, "invite pending")
  /\ LET q == request[r] IN
     /\ \A j \in Invitations :
          ~(invitation[j].status = "pending" /\ invitation[j].email = q.email
              /\ invitation[j].live)
     /\ invitation[i] = NoInvitation
     /\ invitation' = [invitation EXCEPT ![i] =
          [status |-> "pending", email |-> q.email, live |-> TRUE,
           access |-> q.access, by |-> q.by]]
  /\ Ends(r)
  /\ UNCHANGED <<operator, member, hashes, history>>

AcceptRead(r, i) ==
  /\ invitation[i].status = "pending" /\ invitation[i].live
  /\ Start(r, [at |-> "accept", invitation |-> i])

\* The operator is made or restored, its membership replaced; the status of
\* the invitation is not looked at again.
AcceptWrite(r, m) ==
  /\ At(r, "accept") /\ hashes < MaxHashes
  /\ member[m] = NoMember
  /\ LET i == request[r].invitation
         o == invitation[i].email IN
     /\ operator' = [operator EXCEPT ![o] = [status |-> "active",
                       hash |-> hashes + 1, version |-> operator[o].version]]
     /\ member' = [n \in Members |->
          IF n = m THEN [status |-> "member", operator |-> o,
                         access |-> invitation[i].access]
          ELSE IF n \in MembershipOf(o) THEN Gone ELSE member[n]]
     /\ invitation' = [invitation EXCEPT ![i].status = "accepted"]
     /\ appointed' = Appointed(o, invitation[i].access.role, invitation[i].by)
  /\ hashes' = hashes + 1
  /\ Ends(r)
  /\ UNCHANGED rotations

RevokeInvitation(r, actor, i) ==
  /\ Guarded(actor, "team:manage") /\ invitation[i] # NoInvitation
  /\ Start(r, [at |-> "revoke", invitation |-> i])
RevokeWrite(r) ==
  /\ At(r, "revoke")
  /\ invitation' = [invitation EXCEPT ![request[r].invitation].status = "revoked"]
  /\ Ends(r)
  /\ UNCHANGED <<operator, member, hashes, history>>

(* A week passes.                                                          *)
ExpireInvitation(i) ==
  /\ invitation[i] # NoInvitation /\ invitation[i].live
  /\ invitation' = [invitation EXCEPT ![i].live = FALSE]
  /\ UNCHANGED <<operator, member, request, hashes, history>>

-------------------------------------------------------------------------------
(* Changing and removing members.                                          *)

UpdateStart(r, actor, m, change) ==
  /\ Guarded(actor, "team:manage")
  /\ Start(r, [at |-> "update", target |-> m, change |-> change,
               by |-> RoleOf(actor)])

Mut_AdminsMakeOwners(q, now) ==
  /\ assertCanManageTarget(q.by, now.role)
\* The change of a member that is `now`, asked for by a role.
MayUpdate(q, now) ==
  /\ assertCanManageTarget(q.by, now.role)
  /\ q.change.role \notin {Keep, now.role} => assertCanManageTarget(q.by, q.change.role)

\* The member is read, and whether it is the last owner if that matters.
UpdateRead(r) ==
  /\ At(r, "update")
  /\ LET q == request[r] IN
     /\ member[q.target] \notin Absent
     /\ MayUpdate(q, member[q.target].access)
     /\ Reads(r, [at |-> IF q.change.role # Keep /\ q.change.role # "owner"
                              /\ member[q.target].access.role = "owner"
                         THEN "demote" ELSE "rescope",
                  target |-> q.target, change |-> q.change, by |-> q.by,
                  seen |-> member[q.target].access])

countOtherOwners(m) == Owners \ {m} # {}

UpdateCount(r) ==
  /\ At(r, "demote")
  /\ countOtherOwners(request[r].target)
  /\ Reads(r, [request[r] EXCEPT !.at = "rescope"])

Given(value, stored) == IF value = Keep THEN stored ELSE value

\* The applications of a restricted member are read from its rows as they
\* are by now, its scope is the one that was read before.
UpdateScope(r) ==
  /\ At(r, "rescope")
  /\ LET q == request[r]
         rows == IF member[q.target] \in Absent THEN {} ELSE member[q.target].access.apps
         scope == Given(q.change.scope, q.seen.scope)
         apps == Given(q.change.apps, IF scope = "restricted" THEN rows ELSE {})
         access == [role |-> Given(q.change.role, q.seen.role), scope |-> scope, apps |-> apps]
     IN
     /\ Grantable(access)
     /\ Reads(r, [at |-> "update write", target |-> q.target, by |-> q.by,
                  change |-> q.change, access |-> access])

\* A member that is gone by now is not written, and gets no applications.
UpdateWrite(r) ==
  /\ At(r, "update write")
  /\ LET q == request[r]
         replaces == q.change.scope # Keep \/ q.change.apps # Keep
         apps == IF ~replaces THEN member[q.target].access.apps
                 ELSE IF q.access.scope = "restricted" THEN q.access.apps ELSE {}
     IN
     IF member[q.target] \in Absent
     THEN /\ ~(replaces /\ q.access.scope = "restricted")
          /\ UNCHANGED <<member, appointed>>
     ELSE /\ member' = [member EXCEPT ![q.target].access =
                          [q.access EXCEPT !.apps = apps]]
          /\ appointed' = Appointed(member[q.target].operator, q.access.role, q.by)
  /\ Ends(r)
  /\ UNCHANGED <<operator, invitation, hashes, rotations>>

RemoveStart(r, actor, m) ==
  /\ Guarded(actor, "team:manage")
  /\ Start(r, [at |-> "remove", target |-> m,
               by |-> RoleOf(actor)])

RemoveRead(r) ==
  /\ At(r, "remove")
  /\ LET q == request[r] IN
     /\ member[q.target] \notin Absent
     /\ assertCanManageTarget(q.by, member[q.target].access.role)
     /\ Reads(r, [at |-> IF member[q.target].access.role = "owner"
                         THEN "remove owner" ELSE "remove write",
                  target |-> q.target, operator |-> member[q.target].operator])

RemoveCount(r) ==
  /\ At(r, "remove owner")
  /\ countOtherOwners(request[r].target)
  /\ Reads(r, [request[r] EXCEPT !.at = "remove write"])

\* The operator is disabled whatever membership it has by now.
RemoveWrite(r) ==
  /\ At(r, "remove write")
  /\ operator' = [operator EXCEPT ![request[r].operator].status = "disabled"]
  /\ member' = [member EXCEPT ![request[r].target] = Gone]
  /\ Ends(r)
  /\ UNCHANGED <<invitation, hashes, history>>

(* An operator changes its password: compare and set on the hash that was  *)
(* verified.                                                               *)
RotateRead(r, o) ==
  /\ operator[o].status # "none"
  /\ Start(r, [at |-> "rotate", operator |-> o, seen |-> operator[o].hash])

Mut_LastWriterWins(o, seen) == TRUE
Unrotated(o, seen) == operator[o].hash = seen

RotateWrite(r) ==
  /\ At(r, "rotate") /\ hashes < MaxHashes
  /\ LET o == request[r].operator
         seen == request[r].seen IN
     IF Unrotated(o, seen)
     THEN /\ operator' = [operator EXCEPT ![o].hash = hashes + 1, ![o].version = @ + 1]
          /\ hashes' = hashes + 1
          /\ rotations' = rotations \cup {<<o, seen, hashes + 1>>}
     ELSE UNCHANGED <<operator, hashes, rotations>>
  /\ Ends(r)
  /\ UNCHANGED <<member, invitation, appointed>>

Next ==
  \/ \E r \in Requests :
       \/ Drop(r) \/ InviteRead(r) \/ RevokeWrite(r)
       \/ UpdateRead(r) \/ UpdateCount(r) \/ UpdateScope(r) \/ UpdateWrite(r)
       \/ RemoveRead(r) \/ RemoveCount(r) \/ RemoveWrite(r) \/ RotateWrite(r)
       \/ \E m \in Members : BootstrapWrite(r, m) \/ AcceptWrite(r, m)
       \/ \E i \in Invitations : InviteInsert(r, i) \/ AcceptRead(r, i)
       \/ \E o \in Operators : BootstrapRead(r, o) \/ RotateRead(r, o)
       \/ \E actor, email \in Operators, access \in Accesses :
            InviteStart(r, actor, email, access)
       \/ \E actor \in Operators, i \in Invitations : RevokeInvitation(r, actor, i)
       \/ \E actor \in Operators, m \in Members :
            RemoveStart(r, actor, m) \/ \E c \in Changes : UpdateStart(r, actor, m, c)
  \/ \E i \in Invitations : ExpireInvitation(i)

Spec == Init /\ [][Next]_vars

-------------------------------------------------------------------------------
(* An admin cannot manufacture owners: every owner was made one by an owner *)
(* or by the first login, whatever was read before another request wrote,   *)
(* and however a stale role came to be written back.                        *)
OwnersComeFromOwners == \A m \in Owners : member[m].operator \in appointed

(* "At least one owner must remain", once there was one.                    *)
AnOwnerRemains ==
  (\E o \in Operators : operator[o] # NoOperator)
    => \E m \in Owners : operator[member[m].operator].status = "active"

(* Two concurrent password changes never both report success: no password   *)
(* that was replaced is replaced again.                                     *)
RotationsNeverLost ==
  \A a, b \in rotations : a[1] = b[1] /\ a[2] = b[2] => a = b
===============================================================================
