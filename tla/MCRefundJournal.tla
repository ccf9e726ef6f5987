---------------------------- MODULE MCRefundJournal ----------------------------
(* What the console's operators do under their own names, for TLC: refunds  *)
(* (RefundJournal, one sale and the notices of its refund) or the team      *)
(* (Team).  The two share no row, so an execution is one of either; they    *)
(* share model values, so that one symmetry group serves both.              *)
EXTENDS RefundJournal, TLC

CONSTANTS
  Members, Invitations, Roles, Apps, Accesses, Changes, Keep, MaxHashes  \* the team

VARIABLES component,
  operator, member, invitation, request, hashes, appointed, rotations

people == <<operator, member, invitation, request, hashes, appointed, rotations>>

\* Refund notices that name the order and the refund.
FullNotices == [order : {TRUE}, named : {TRUE}, amount : BOOLEAN]

\* PayPal and Waffo name the refund, Creem does not.
NamedReplies == [named : {TRUE}, status : {"pending", "succeeded", "failed"}]
AnyReply == [named : BOOLEAN, status : {"pending", "succeeded", "failed"}]

\* An owner's invitation, promotions to owner and demotions to restricted admin.
OwnerAccess == {[role |-> "owner", scope |-> "all", apps |-> {}]}
RoleChanges == {[role |-> "owner", scope |-> Keep, apps |-> Keep],
                [role |-> "admin", scope |-> "restricted", apps |-> {"app"}]}

\* The operators are the events' model values, the requests the clerks'.
Team == INSTANCE Team WITH Operators <- Events, Requests <- Clerks

ASSUME OperatorsAssumption == Team!TeamAssumption

MCInit == component \in {"journal", "team"} /\ JournalInit /\ Team!Init
MCNext ==
  /\ component' = component
  /\ \/ component = "journal" /\ JournalNext /\ UNCHANGED people
     \/ component = "team" /\ Team!Next /\ UNCHANGED journalVars
MCSpec == MCInit /\ [][MCNext]_<<component, journalVars, people>>

Symmetry == Permutations(Clerks) \cup Permutations(Events) \cup Permutations(Members)

(* Every row and every request is well formed.                             *)
OperatorsTypeOK == IF component = "journal" THEN JournalTypeOK ELSE Team!TypeOK

(* An admin cannot manufacture owners: an owner was made one by an owner,  *)
(* through whatever invitations and changes of roles.                      *)
OwnersComeFromOwners == component = "team" => Team!OwnersComeFromOwners

(* A password that was changed is never replaced by a change that was      *)
(* made from the password before it.                                       *)
RotationsNeverLost == component = "team" => Team!RotationsNeverLost

(* "At least one owner must remain", once there was one.                   *)
AnOwnerRemains == component = "team" => Team!AnOwnerRemains
================================================================================
