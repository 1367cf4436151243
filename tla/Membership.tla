----------------------------- MODULE Membership -----------------------------
(***************************************************************************)
(* Membership of one conversation: creation, invitations, roles,           *)
(* conversation bans, leaving and rejoining, together with the Project     *)
(* bans and settings that every command checks.                            *)
(*                                                                         *)
(* Every action is one committed transaction.  They are atomic here        *)
(* because each takes the Project row (FOR SHARE; Project bans and         *)
(* settings take it FOR UPDATE) and then the conversation row FOR UPDATE   *)
(* before it reads what its guard tests.  A refused command changes        *)
(* nothing and is no action; so is one whose expected_version is stale.    *)
(***************************************************************************)
EXTENDS EventLog, FiniteSets

CONSTANTS
  User,        \* humans and bots of the Project (system users cannot join)
  Bots,        \* users.kind = 'bot'
  Admins,      \* users.role = 'admin'
  Flags,       \* feature flags of project_settings, all enabled at first
  Switchable   \* the flags a settings update of the model may change

ASSUME MembershipAssumption ==
  /\ Bots \subseteq User
  /\ Admins \subseteq User \ Bots
  /\ Switchable \subseteq Flags
  /\ MaxEvents \in Nat
  /\ None \notin User

VARIABLES
  conversation_type,  \* "absent" before creation
  metadata_version,   \* conversations.resource_version
  role,               \* "none": no conversation_members row
  left,               \* members with left_at set
  banned,             \* members with conversation_members.banned
  member_version,     \* conversation_members.version
  founders,           \* history: the members inserted by Create
  project_banned,     \* users with banned_at set
  flags               \* the flags that are on

memberVars == <<conversation_type, metadata_version, role, left, banned,
                member_version, founders>>
projectVars == <<project_banned, flags>>
membershipVars == <<logVars, memberVars, projectVars>>

Types == {"DIRECT", "GROUP", "CHANNEL"}

MemberInit ==
  /\ LogInit
  /\ conversation_type = "absent"
  /\ metadata_version = 0
  /\ role = [u \in User |-> "none"]
  /\ left = {}
  /\ banned = {}
  /\ member_version = [u \in User |-> 0]
  /\ founders = {}
  /\ project_banned = {}
  /\ flags = Flags

Active(u) == role[u] # "none" /\ u \notin left

(* The definitions called ...Mutant are plausible slips of the definition that    *)
(* follows them.  No specification uses them: the runs show that each would be    *)
(* found.                                                                         *)

\* The commands that DIRECT conversations do not support.
NotDirect == conversation_type # "DIRECT"

\* A field that a member patch does not mention keeps its value (COALESCE).
PatchedMutant(field, old) == field
Patched(field, old) == IF field = "keep" THEN old ELSE field

\* lockUsers: the actor is an unbanned human, and inviting a bot needs the flag.
UsersAllowedMutant(a, invited) ==
  /\ a \notin project_banned
  /\ (invited \cup {a}) \cap Bots # {} => "allow_bots" \in flags

UsersAllowed(a, invited) ==
  /\ a \notin project_banned
  /\ a \notin Bots
  /\ (invited \cup {a}) \cap Bots # {} => "allow_bots" \in flags

\* membershipTx: in addition the actor is an active, unbanned member.
CanManage(a, invited) ==
  /\ UsersAllowed(a, invited)
  /\ Active(a)
  /\ a \notin banned

\* keepModerator: somebody else keeps the authority u is about to lose.
KeepModeratorMutant(u) ==
  \E w \in User \ {u} : role[w] = "moderator" /\ w \notin banned

KeepModerator(u) ==
  \E w \in User \ {u} : role[w] = "moderator" /\ w \notin left /\ w \notin banned

-----------------------------------------------------------------------------
(* Commands on the conversation and its members                            *)

Create(a, type, members) ==
  /\ conversation_type = "absent"
  /\ a \notin members
  /\ type = "DIRECT" => Cardinality(members) = 1
  /\ UsersAllowed(a, members)
  /\ conversation_type' = type
  /\ metadata_version' = 1
  /\ founders' = members \cup {a}
  /\ role' = [u \in User |->
                IF u = a /\ type # "DIRECT" THEN "moderator"
                ELSE IF u \in founders' THEN "member" ELSE "none"]
  /\ member_version' = [u \in User |-> IF u \in founders' THEN 1 ELSE 0]
  /\ AppendEvent("conversation.created", None, 0)
  /\ UNCHANGED <<left, banned, projectVars>>

Patch(a) ==
  /\ CanManage(a, {})
  /\ NotDirect
  /\ role[a] = "moderator"
  /\ metadata_version' = metadata_version + 1
  /\ AppendEvent("conversation.updated", None, 0)
  /\ UNCHANGED <<conversation_type, role, left, banned, member_version, founders,
                 projectVars>>

\* Active members of the batch keep their row; the others are inserted or rejoin
\* as ordinary members, each with one event.
AddMembers(a, batch) ==
  LET added == {u \in batch : ~Active(u)}
  IN /\ CanManage(a, batch)
     /\ NotDirect
     /\ role[a] = "moderator"
     /\ added # {}
     /\ role' = [u \in User |-> IF u \in added THEN "member" ELSE role[u]]
     /\ left' = left \ added
     /\ banned' = banned \ added
     /\ member_version' = [u \in User |-> IF u \in added THEN member_version[u] + 1
                                          ELSE member_version[u]]
     /\ AppendEvents("conversation.members.added", added)
     /\ UNCHANGED <<conversation_type, metadata_version, founders, projectVars>>

\* p.role and p.banned are "keep" when the patch does not mention them; p.muted
\* says whether it sets the personal mute, which nothing else reads.
MemberPatch == [role : {"keep", "member", "moderator"},
                banned : {"keep", "yes", "no"}, muted : BOOLEAN]

PatchMember(a, u, p) ==
  LET authority == p.role # "keep" \/ p.banned # "keep"
      loses     == p.role = "member" \/ p.banned = "yes"
  IN /\ authority \/ p.muted
     /\ CanManage(a, {})
     /\ authority => NotDirect
     /\ p.muted => u = a
     /\ authority => role[a] = "moderator"
     /\ Active(u)
     /\ p.role = "moderator" => u \notin Bots
     /\ role[u] = "moderator" /\ loses => KeepModerator(u)
     /\ role' = [role EXCEPT ![u] = Patched(p.role, @)]
     /\ banned' = CASE p.banned = "keep" -> banned
                    [] p.banned = "yes"  -> banned \cup {u}
                    [] p.banned = "no"   -> banned \ {u}
     /\ member_version' = [member_version EXCEPT ![u] = @ + 1]
     /\ AppendEvent("conversation.member.updated", u, 0)
     /\ UNCHANGED <<conversation_type, metadata_version, left, founders, projectVars>>

RemoveMember(a, u) ==
  /\ CanManage(a, {})
  /\ NotDirect
  /\ u # a => role[a] = "moderator"
  /\ Active(u)
  /\ role[u] = "moderator" => KeepModerator(u)
  /\ left' = left \cup {u}
  /\ member_version' = [member_version EXCEPT ![u] = @ + 1]
  /\ AppendEvent("conversation.member.left", u, 0)
  /\ UNCHANGED <<conversation_type, metadata_version, role, banned, founders,
                 projectVars>>

-----------------------------------------------------------------------------
(* Project administration                                                  *)

\* An administrator who is the last unbanned one cannot be banned.
BanUser(a, u) ==
  /\ a \in Admins \ project_banned
  /\ u \notin project_banned
  /\ u \in Admins => \E w \in Admins \ {u} : w \notin project_banned
  /\ project_banned' = project_banned \cup {u}
  /\ UNCHANGED <<logVars, memberVars, flags>>

UnbanUser(a, u) ==
  /\ a \in Admins \ project_banned
  /\ u \in project_banned
  /\ project_banned' = project_banned \ {u}
  /\ UNCHANGED <<logVars, memberVars, flags>>

UpdateFlags(a, f) ==
  /\ a \in Admins \ project_banned
  /\ f \in Switchable
  /\ flags' = IF f \in flags THEN flags \ {f} ELSE flags \cup {f}
  /\ UNCHANGED <<logVars, memberVars, project_banned>>

MemberNext ==
  \E a \in User :
    \/ \E type \in Types, members \in SUBSET (User \ {a}) : Create(a, type, members)
    \/ Patch(a)
    \/ \E batch \in SUBSET User : AddMembers(a, batch)
    \/ \E u \in User, p \in MemberPatch : PatchMember(a, u, p)
    \/ \E u \in User : RemoveMember(a, u)
    \/ \E u \in User : BanUser(a, u) \/ UnbanUser(a, u)
    \/ \E f \in Switchable : UpdateFlags(a, f)

MemberSpec == MemberInit /\ [][MemberNext]_membershipVars

-----------------------------------------------------------------------------
(* Properties                                                              *)

MemberTypeOK ==
  /\ event_sequence \in Nat
  /\ conversation_type \in Types \cup {"absent"}
  /\ metadata_version \in Nat
  /\ role \in [User -> {"none", "member", "moderator"}]
  /\ left \subseteq User
  /\ banned \subseteq User
  /\ member_version \in [User -> Nat]
  /\ founders \subseteq User
  /\ project_banned \subseteq User
  /\ flags \subseteq Flags

\* A GROUP or CHANNEL never loses its last active moderator who is not banned in
\* it, whatever the order of demotions, bans, removals and rejoins: nobody could
\* ever again invite, unban or promote.
ModeratorKept ==
  conversation_type \in {"GROUP", "CHANNEL"} =>
    \E u \in User : role[u] = "moderator" /\ u \notin left /\ u \notin banned

\* Only a human ever holds the moderator role, through creation, promotion and
\* rejoining alike, and a DIRECT conversation has none.
ModeratorsHuman ==
  \A u \in User : role[u] = "moderator" =>
    u \notin Bots /\ conversation_type \in {"GROUP", "CHANNEL"}

\* Each membership row was reached by as many member events as its version says:
\* no change of a role, ban or membership is missing from the log or logged twice.
MembershipLogged ==
  /\ \A u \in User :
       Cardinality({e \in conversation_events : e.ref = u}) + (IF u \in founders THEN 1 ELSE 0)
         = member_version[u]
  /\ Cardinality({e \in conversation_events : e.ref = None}) = metadata_version

\* While somebody is able to administer the conversation (a moderator neither
\* banned in it nor in the Project), no membership command takes that away.
AbleModerator ==
  \E u \in User : /\ role[u] = "moderator"
                  /\ u \notin left \cup banned \cup project_banned

AbleModeratorKept ==
  [][AbleModerator /\ UNCHANGED project_banned => AbleModerator']_membershipVars
=============================================================================
