------------------------- MODULE ConversationProofs -------------------------
(***************************************************************************)
(* Proofs about the commands of one conversation, for every set of users,  *)
(* messages, bodies, attachments and reactions, every cap and every bound  *)
(* on the events.  First those of Membership, which Conversation extends:  *)
(* the event log, the roles and the versions of the members.               *)
(*                                                                         *)
(* The inductive invariant of the content has one part for each thing the  *)
(* commands keep in step with each other: rows and their events, receipts, *)
(* links, the preview, the chain of forwards, the caps and the             *)
(* checkpoints.  Each part is proved in a section of its own.              *)
(***************************************************************************)
EXTENDS Conversation, FiniteSetTheorems, WellFoundedInduction, TLAPS

-----------------------------------------------------------------------------
(* The log                                                                 *)

\* One AppendEvent keeps the log dense: Append takes the next sequence and inserts
\* the same envelope in both tables.
LEMMA AppendDense ==
  ASSUME event_sequence \in Nat, LogDense,
         NEW kind, NEW ref, NEW v, AppendEvent(kind, ref, v)
  PROVE  event_sequence' \in Nat /\ LogDense'
<1> DEFINE e == Envelope(event_sequence + 1, kind, ref, v)
<1>1. /\ event_sequence' = event_sequence + 1
      /\ conversation_events' = conversation_events \cup {e}
      /\ outbox_events' = outbox_events \cup {e}
  BY DEF AppendEvent
<1>2. e.sequence = event_sequence + 1
  BY DEF Envelope
<1>3. \A f \in conversation_events : f.sequence \in 1..event_sequence
  BY DEF LogDense
<1> HIDE DEF e
<1>4. {f.sequence : f \in conversation_events'} = 1..event_sequence'
  <2>1. ASSUME NEW f \in conversation_events' PROVE f.sequence \in 1..event_sequence'
    BY <1>1, <1>2, <1>3
  <2>2. ASSUME NEW i \in 1..event_sequence'
        PROVE \E f \in conversation_events' : f.sequence = i
    <3>1. CASE i = event_sequence + 1
      BY <3>1, <1>1, <1>2
    <3>2. CASE i \in 1..event_sequence
      BY <3>2, <1>1 DEF LogDense
    <3> QED BY <3>1, <3>2, <1>1
  <2> QED BY <2>1, <2>2
<1>5. \A f, g \in conversation_events' : f.sequence = g.sequence => f = g
  BY <1>1, <1>2, <1>3 DEF LogDense
<1> QED BY <1>1, <1>4, <1>5 DEF LogDense

\* A batch of Appends keeps the log dense, in whatever order it is made.
LEMMA AppendEventsDense ==
  ASSUME event_sequence \in Nat, LogDense, MaxEvents \in Nat,
         NEW kind, NEW S, AppendEvents(kind, S)
  PROVE  event_sequence' \in Nat /\ LogDense'
<1>0. PICK n \in 1..MaxEvents : \E order \in [S -> 1..n] :
         /\ \A i \in 1..n : \E r \in S : order[r] = i
         /\ \A r, t \in S : order[r] = order[t] => r = t
         /\ event_sequence + n <= MaxEvents
         /\ event_sequence' = event_sequence + n
         /\ conversation_events' = conversation_events \cup
              {Envelope(event_sequence + order[r], kind, r, 0) : r \in S}
         /\ outbox_events' = outbox_events \cup
              {Envelope(event_sequence + order[r], kind, r, 0) : r \in S}
  BY Zenon DEF AppendEvents
<1>1. PICK order \in [S -> 1..n] :
         /\ \A i \in 1..n : \E r \in S : order[r] = i
         /\ \A r, t \in S : order[r] = order[t] => r = t
         /\ event_sequence + n <= MaxEvents
         /\ event_sequence' = event_sequence + n
         /\ conversation_events' = conversation_events \cup
              {Envelope(event_sequence + order[r], kind, r, 0) : r \in S}
         /\ outbox_events' = outbox_events \cup
              {Envelope(event_sequence + order[r], kind, r, 0) : r \in S}
  BY <1>0
<1> DEFINE new == {Envelope(event_sequence + order[r], kind, r, 0) : r \in S}
<1>2. n \in Nat \ {0} /\ \A r \in S : order[r] \in 1..n
  BY <1>1
<1>3. \A f \in conversation_events : f.sequence \in 1..event_sequence
  BY DEF LogDense
<1>4. \A f \in new : \E r \in S :
        f = Envelope(event_sequence + order[r], kind, r, 0)
          /\ f.sequence = event_sequence + order[r]
  BY DEF Envelope
<1>5. \A i \in 1..n : \E f \in new : f.sequence = event_sequence + i
  <2> SUFFICES ASSUME NEW i \in 1..n PROVE \E f \in new : f.sequence = event_sequence + i
    OBVIOUS
  <2>1. PICK r \in S : order[r] = i
    BY <1>1
  <2>2. Envelope(event_sequence + order[r], kind, r, 0) \in new
    OBVIOUS
  <2> QED BY <2>1, <2>2 DEF Envelope
<1>6. conversation_events' = conversation_events \cup new
  BY <1>1
<1> HIDE DEF new
<1>7. {f.sequence : f \in conversation_events'} = 1..event_sequence'
  <2>1. ASSUME NEW f \in conversation_events' PROVE f.sequence \in 1..event_sequence'
    BY <1>1, <1>2, <1>3, <1>4, <1>6
  <2>2. ASSUME NEW i \in 1..event_sequence'
        PROVE \E f \in conversation_events' : f.sequence = i
    <3>1. CASE i \in 1..event_sequence
      BY <3>1, <1>6 DEF LogDense
    <3>2. CASE i > event_sequence
      <4>1. i - event_sequence \in 1..n /\ event_sequence + (i - event_sequence) = i
        BY <3>2, <1>1, <1>2
      <4> QED BY <4>1, <1>5, <1>6
    <3> QED BY <3>1, <3>2, <1>1
  <2> QED BY <2>1, <2>2
<1>8. \A f, g \in conversation_events' : f.sequence = g.sequence => f = g
  <2> SUFFICES ASSUME NEW f \in conversation_events', NEW g \in conversation_events',
                      f.sequence = g.sequence
               PROVE  f = g
    OBVIOUS
  <2>1. CASE f \in conversation_events /\ g \in conversation_events
    BY <2>1 DEF LogDense
  <2>2. CASE f \in new /\ g \in new
    <3>1. PICK r \in S : f = Envelope(event_sequence + order[r], kind, r, 0)
                           /\ f.sequence = event_sequence + order[r]
      BY <2>2, <1>4
    <3>2. PICK t \in S : g = Envelope(event_sequence + order[t], kind, t, 0)
                           /\ g.sequence = event_sequence + order[t]
      BY <2>2, <1>4
    <3>3. order[r] = order[t]
      BY <3>1, <3>2, <1>2
    <3> QED BY <3>1, <3>2, <3>3, <1>1
  <2>3. CASE f \in new /\ g \in conversation_events
    BY <2>3, <1>2, <1>3, <1>4
  <2>4. CASE f \in conversation_events /\ g \in new
    BY <2>4, <1>2, <1>3, <1>4
  <2> QED BY <2>1, <2>2, <2>3, <2>4, <1>6
<1>9. outbox_events' = conversation_events'
  BY <1>1 DEF LogDense
<1> QED BY <1>1, <1>2, <1>7, <1>8, <1>9 DEF LogDense

-----------------------------------------------------------------------------
(* The inductive invariant of the members                                  *)

\* Before creation there is no member: without this a first moderator could be
\* created already banned, or a command could run on rows left from nowhere.
NothingBeforeCreation ==
  conversation_type = "absent" =>
    /\ \A u \in User : role[u] = "none"
    /\ left = {} /\ banned = {}

MemberInv ==
  /\ MemberTypeOK
  /\ LogDense
  /\ NothingBeforeCreation
  /\ ModeratorKept
  /\ ModeratorsHuman

\* The initial state satisfies the invariant.
LEMMA MemberInitInv == MemberInit => MemberInv
<1> SUFFICES ASSUME MemberInit PROVE MemberInv
  OBVIOUS
<1> USE DEF MemberInit, LogInit
<1>1. MemberTypeOK
  BY DEF MemberTypeOK
<1>2. LogDense
  BY DEF LogDense
<1>3. NothingBeforeCreation /\ ModeratorKept /\ ModeratorsHuman
  BY DEF NothingBeforeCreation, ModeratorKept, ModeratorsHuman
<1> QED BY <1>1, <1>2, <1>3 DEF MemberInv

\* Creation: the creator of a GROUP or CHANNEL is its first moderator.
LEMMA CreateInv ==
  ASSUME MemberInv, NEW a \in User, NEW ct \in Types,
         NEW members \in SUBSET (User \ {a}), Create(a, ct, members)
  PROVE  MemberInv'
<1> USE DEF MemberInv
<1>1. event_sequence' \in Nat /\ LogDense'
  BY AppendDense DEF Create, MemberTypeOK
<1>2. /\ conversation_type' = ct /\ metadata_version' = 1
      /\ founders' = members \cup {a}
      /\ left' = {} /\ banned' = {}
      /\ UNCHANGED projectVars
  BY DEF Create, NothingBeforeCreation
<1>3. /\ role' = [u \in User |-> IF u = a /\ ct # "DIRECT" THEN "moderator"
                                 ELSE IF u \in founders' THEN "member" ELSE "none"]
      /\ member_version' = [u \in User |-> IF u \in founders' THEN 1 ELSE 0]
      /\ a \notin Bots
  BY DEF Create, UsersAllowed
<1>4. MemberTypeOK'
  BY <1>1, <1>2, <1>3 DEF MemberTypeOK, projectVars
<1>5. NothingBeforeCreation'
  BY <1>2 DEF NothingBeforeCreation, Types
<1>6. ModeratorKept'
  BY <1>2, <1>3 DEF ModeratorKept, Types
<1>7. ModeratorsHuman'
  BY <1>2, <1>3 DEF ModeratorsHuman, Types
<1> QED BY <1>1, <1>4, <1>5, <1>6, <1>7

\* Invitation: only members who are not active change, so no moderator is lost
\* and nobody becomes one.
LEMMA AddMembersInv ==
  ASSUME MemberInv, NEW a \in User, NEW batch \in SUBSET User, AddMembers(a, batch)
  PROVE  MemberInv'
<1> DEFINE added == {u \in batch : ~Active(u)}
<1> USE DEF MemberInv
<1>1. event_sequence' \in Nat /\ LogDense'
  BY AppendEventsDense, MembershipAssumption DEF AddMembers, MemberTypeOK
<1>2. /\ role' = [u \in User |-> IF u \in added THEN "member" ELSE role[u]]
      /\ left' = left \ added /\ banned' = banned \ added
      /\ member_version' = [u \in User |-> IF u \in added THEN member_version[u] + 1
                                           ELSE member_version[u]]
      /\ UNCHANGED <<conversation_type, metadata_version, founders, projectVars>>
      /\ role[a] = "moderator"
  BY DEF AddMembers
<1>3. \A u \in User : u \notin left /\ role[u] = "moderator" => u \notin added
  BY DEF Active
<1> HIDE DEF added
<1>4. MemberTypeOK'
  BY <1>1, <1>2 DEF MemberTypeOK, projectVars
<1>5. NothingBeforeCreation'
  BY <1>2 DEF NothingBeforeCreation
<1>6. ModeratorKept'
  BY <1>2, <1>3 DEF ModeratorKept
<1>7. ModeratorsHuman'
  BY <1>2 DEF ModeratorsHuman
<1> QED BY <1>1, <1>4, <1>5, <1>6, <1>7

\* A member patch takes the authority of a moderator away only when KeepModerator
\* finds another, and gives it to humans only.
LEMMA PatchMemberInv ==
  ASSUME MemberInv, NEW a \in User, NEW u \in User, NEW p \in MemberPatch,
         PatchMember(a, u, p)
  PROVE  MemberInv'
<1> USE DEF MemberInv
<1>1. event_sequence' \in Nat /\ LogDense'
  BY AppendDense DEF PatchMember, MemberTypeOK
<1>2. /\ UNCHANGED <<conversation_type, metadata_version, left, founders, projectVars>>
      /\ member_version' = [member_version EXCEPT ![u] = @ + 1]
      /\ role' = [role EXCEPT ![u] = IF p.role = "keep" THEN @ ELSE p.role]
      /\ banned' = CASE p.banned = "keep" -> banned
                     [] p.banned = "yes"  -> banned \cup {u}
                     [] p.banned = "no"   -> banned \ {u}
  BY DEF PatchMember, Patched
<1>3. p.role \in {"keep", "member", "moderator"} /\ p.banned \in {"keep", "yes", "no"}
  BY DEF MemberPatch
<1>4. /\ p.role = "moderator" => u \notin Bots /\ role[a] = "moderator"
      /\ role[u] = "moderator" /\ (p.role = "member" \/ p.banned = "yes") => KeepModerator(u)
      /\ role[a] # "none"
  BY DEF PatchMember, CanManage, Active
<1>5. /\ banned' \subseteq banned \cup {u}
      /\ p.banned # "yes" => banned' \subseteq banned
  BY <1>2, <1>3
<1>6. \A w \in User : role'[w] = IF w = u /\ p.role # "keep" THEN p.role ELSE role[w]
  BY <1>2 DEF MemberTypeOK
<1>7. MemberTypeOK'
  BY <1>1, <1>2, <1>3, <1>5 DEF MemberTypeOK, projectVars
<1>8. NothingBeforeCreation'
  BY <1>2, <1>4 DEF NothingBeforeCreation
<1>9. ModeratorKept'
  <2> SUFFICES ASSUME conversation_type \in {"GROUP", "CHANNEL"}
               PROVE  \E w \in User : role'[w] = "moderator" /\ w \notin left /\ w \notin banned'
    BY <1>2 DEF ModeratorKept
  <2>1. PICK w \in User : role[w] = "moderator" /\ w \notin left /\ w \notin banned
    BY DEF ModeratorKept
  <2>2. CASE w # u
    BY <2>1, <2>2, <1>5, <1>6
  <2>3. CASE w = u /\ (p.role = "member" \/ p.banned = "yes")
    <3>1. PICK v \in User \ {u} : role[v] = "moderator" /\ v \notin left /\ v \notin banned
      BY <2>1, <2>3, <1>4 DEF KeepModerator
    <3> QED BY <3>1, <1>5, <1>6
  <2>4. CASE w = u /\ p.role # "member" /\ p.banned # "yes"
    BY <2>1, <2>4, <1>3, <1>5, <1>6
  <2> QED BY <2>2, <2>3, <2>4
<1>10. ModeratorsHuman'
  BY <1>2, <1>4, <1>6 DEF ModeratorsHuman
<1> QED BY <1>1, <1>7, <1>8, <1>9, <1>10

\* Leaving or being removed is refused to the last moderator.
LEMMA RemoveMemberInv ==
  ASSUME MemberInv, NEW a \in User, NEW u \in User, RemoveMember(a, u)
  PROVE  MemberInv'
<1> USE DEF MemberInv
<1>1. event_sequence' \in Nat /\ LogDense'
  BY AppendDense DEF RemoveMember, MemberTypeOK
<1>2. /\ UNCHANGED <<conversation_type, metadata_version, role, banned, founders, projectVars>>
      /\ left' = left \cup {u}
      /\ member_version' = [member_version EXCEPT ![u] = @ + 1]
      /\ role[u] = "moderator" => KeepModerator(u)
      /\ role[u] # "none"
  BY DEF RemoveMember, Active
<1>3. MemberTypeOK'
  BY <1>1, <1>2 DEF MemberTypeOK, projectVars
<1>4. NothingBeforeCreation'
  BY <1>2 DEF NothingBeforeCreation
<1>5. ModeratorKept'
  BY <1>2 DEF ModeratorKept, KeepModerator
<1>6. ModeratorsHuman'
  BY <1>2 DEF ModeratorsHuman
<1> QED BY <1>1, <1>3, <1>4, <1>5, <1>6

\* A step that leaves members and log alone keeps the invariant; it may change
\* Project bans and settings.
LEMMA MembersUnchangedInv ==
  ASSUME MemberInv, UNCHANGED <<logVars, memberVars>>,
         project_banned' \subseteq User, flags' \subseteq Flags
  PROVE  MemberInv'
<1> USE DEF MemberInv, logVars, memberVars
<1>1. MemberTypeOK'
  BY DEF MemberTypeOK
<1>2. LogDense'
  BY DEF LogDense
<1>3. NothingBeforeCreation' /\ ModeratorKept' /\ ModeratorsHuman'
  BY DEF NothingBeforeCreation, ModeratorKept, ModeratorsHuman
<1> QED BY <1>1, <1>2, <1>3

\* Every membership command and administrative step keeps the invariant.
LEMMA MemberNextInv == MemberInv /\ [MemberNext]_membershipVars => MemberInv'
<1> SUFFICES ASSUME MemberInv, [MemberNext]_membershipVars PROVE MemberInv'
  OBVIOUS
<1>1. CASE UNCHANGED membershipVars
  BY <1>1, MembersUnchangedInv DEF membershipVars, projectVars, MemberInv, MemberTypeOK
<1>2. ASSUME NEW a \in User, NEW ct \in Types, NEW members \in SUBSET (User \ {a}),
             Create(a, ct, members)
      PROVE  MemberInv'
  BY <1>2, CreateInv
<1>3. ASSUME NEW a \in User, Patch(a) PROVE MemberInv'
  <2>1. event_sequence' \in Nat /\ LogDense'
    BY <1>3, AppendDense DEF Patch, MemberTypeOK, MemberInv
  <2>2. MemberTypeOK'
    BY <1>3, <2>1 DEF Patch, MemberTypeOK, MemberInv, projectVars
  <2>3. NothingBeforeCreation' /\ ModeratorKept' /\ ModeratorsHuman'
    BY <1>3 DEF Patch, MemberInv, NothingBeforeCreation, ModeratorKept, ModeratorsHuman
  <2> QED BY <2>1, <2>2, <2>3 DEF MemberInv
<1>4. ASSUME NEW a \in User, NEW batch \in SUBSET User, AddMembers(a, batch) PROVE MemberInv'
  BY <1>4, AddMembersInv
<1>5. ASSUME NEW a \in User, NEW u \in User, NEW p \in MemberPatch, PatchMember(a, u, p)
      PROVE  MemberInv'
  BY <1>5, PatchMemberInv
<1>6. ASSUME NEW a \in User, NEW u \in User, RemoveMember(a, u) PROVE MemberInv'
  BY <1>6, RemoveMemberInv
<1>7. ASSUME NEW a \in User, NEW u \in User, BanUser(a, u) \/ UnbanUser(a, u)
      PROVE  MemberInv'
  BY <1>7, MembersUnchangedInv DEF BanUser, UnbanUser, MemberInv, MemberTypeOK
<1>8. ASSUME NEW a \in User, NEW f \in Switchable, UpdateFlags(a, f) PROVE MemberInv'
  BY <1>8, MembersUnchangedInv, MembershipAssumption
     DEF UpdateFlags, MemberInv, MemberTypeOK
<1> QED BY <1>1, <1>2, <1>3, <1>4, <1>5, <1>6, <1>7, <1>8 DEF MemberNext

\* The invariant holds in every behaviour of the membership commands.
THEOREM MemberInvariant == MemberSpec => []MemberInv
<1>1. MemberInit => MemberInv
  BY MemberInitInv
<1>2. MemberInv /\ [MemberNext]_membershipVars => MemberInv'
  BY MemberNextInv
<1> QED BY <1>1, <1>2, PTL DEF MemberSpec

\* The rows keep the types the schema gives them.
THEOREM MemberTypes == MemberSpec => []MemberTypeOK
BY MemberInvariant, PTL DEF MemberInv

\* No sequence of commands leaves a GROUP or CHANNEL without a moderator who is
\* active and not banned in it.
THEOREM ModeratorAlwaysKept == MemberSpec => []ModeratorKept
BY MemberInvariant, PTL DEF MemberInv

\* Bots never moderate, and nobody moderates a DIRECT conversation.
THEOREM ModeratorsAlwaysHuman == MemberSpec => []ModeratorsHuman
BY MemberInvariant, PTL DEF MemberInv

\* The log of a conversation is dense and equal to what the outbox publishes.
THEOREM LogAlwaysDense == MemberSpec => []LogDense
BY MemberInvariant, PTL DEF MemberInv

-----------------------------------------------------------------------------
(* The events of each member                                               *)

EventsAbout(r) == {e \in conversation_events : e.ref = r}

\* The count of events cannot be read off an unbounded log, and a founder is counted
\* once because nobody has a row, or an event, before creation.
EventsCounted ==
  /\ IsFiniteSet(conversation_events)
  /\ \A r : Cardinality(EventsAbout(r)) \in Nat
  /\ MembershipLogged
  /\ conversation_type = "absent" =>
       metadata_version = 0 /\ founders = {} /\ \A u \in User : member_version[u] = 0

\* One AppendEvent adds one event to those of its reference.
LEMMA AppendCounts ==
  ASSUME event_sequence \in Nat, LogDense, IsFiniteSet(conversation_events),
         NEW kind, NEW ref, NEW v, AppendEvent(kind, ref, v)
  PROVE  /\ IsFiniteSet(conversation_events')
         /\ \A r : Cardinality(EventsAbout(r)')
                     = Cardinality(EventsAbout(r)) + (IF r = ref THEN 1 ELSE 0)
<1> DEFINE e == Envelope(event_sequence + 1, kind, ref, v)
<1>1. conversation_events' = conversation_events \cup {e}
  BY DEF AppendEvent
<1>2. e.sequence = event_sequence + 1 /\ e.ref = ref
  BY DEF Envelope
<1>3. \A f \in conversation_events : f.sequence \in 1..event_sequence
  BY DEF LogDense
<1> HIDE DEF e
<1>4. IsFiniteSet(conversation_events')
  BY <1>1, FS_AddElement
<1>5. \A r : IsFiniteSet(EventsAbout(r))
  BY FS_Subset DEF EventsAbout
<1>6. Cardinality(EventsAbout(ref)') = Cardinality(EventsAbout(ref)) + 1
  <2>1. EventsAbout(ref)' = EventsAbout(ref) \cup {e} /\ e \notin EventsAbout(ref)
    BY <1>1, <1>2, <1>3 DEF EventsAbout
  <2> QED BY <2>1, <1>5, FS_AddElement
<1>7. ASSUME NEW r, r # ref
      PROVE  Cardinality(EventsAbout(r)') = Cardinality(EventsAbout(r)) + 0
  <2>1. EventsAbout(r)' = EventsAbout(r)
    BY <1>1, <1>2, <1>7 DEF EventsAbout
  <2>2. Cardinality(EventsAbout(r)) \in Nat
    BY <1>5, FS_CardinalityType
  <2> QED BY <2>1, <2>2
<1> QED BY <1>4, <1>6, <1>7

\* A batch of Appends adds one event to those of each reference of the batch.
LEMMA AppendEventsCounts ==
  ASSUME event_sequence \in Nat, LogDense, IsFiniteSet(conversation_events),
         MaxEvents \in Nat, NEW kind, NEW S, AppendEvents(kind, S)
  PROVE  /\ IsFiniteSet(conversation_events')
         /\ \A r : Cardinality(EventsAbout(r)')
                     = Cardinality(EventsAbout(r)) + (IF r \in S THEN 1 ELSE 0)
<1>0. PICK n \in 1..MaxEvents : \E order \in [S -> 1..n] :
         /\ \A i \in 1..n : \E r \in S : order[r] = i
         /\ \A r, t \in S : order[r] = order[t] => r = t
         /\ event_sequence + n <= MaxEvents
         /\ event_sequence' = event_sequence + n
         /\ conversation_events' = conversation_events \cup
              {Envelope(event_sequence + order[r], kind, r, 0) : r \in S}
         /\ outbox_events' = outbox_events \cup
              {Envelope(event_sequence + order[r], kind, r, 0) : r \in S}
  BY Zenon DEF AppendEvents
<1>1. PICK order \in [S -> 1..n] :
         /\ \A i \in 1..n : \E r \in S : order[r] = i
         /\ \A r, t \in S : order[r] = order[t] => r = t
         /\ conversation_events' = conversation_events \cup
              {Envelope(event_sequence + order[r], kind, r, 0) : r \in S}
  BY <1>0
<1> DEFINE E(r) == Envelope(event_sequence + order[r], kind, r, 0)
           new == {E(r) : r \in S}
<1>2. conversation_events' = conversation_events \cup new
  BY <1>1
<1>3. \A r : E(r).sequence = event_sequence + order[r] /\ E(r).ref = r
  BY DEF Envelope
<1>4. \A f \in conversation_events : f.sequence \in 1..event_sequence
  BY DEF LogDense
<1>5. \A r \in S : order[r] \in 1..n
  OBVIOUS
<1>6. \A r \in S : E(r) \notin conversation_events
  BY <1>3, <1>4, <1>5
<1>7. IsFiniteSet(new)
  <2> DEFINE f == [e \in new |-> e.sequence - event_sequence]
  <2>1. \A e \in new : f[e] \in 1..n /\ \E r \in S : e = E(r) /\ f[e] = order[r]
    <3> HIDE DEF E
    <3> QED BY <1>3, <1>5
  <2>2. f \in [new -> 1..n]
    <3> HIDE DEF new
    <3> QED BY <2>1
  <2>3. \A d, e \in new : f[d] = f[e] => d = e
    <3> HIDE DEF f, new, E
    <3> QED BY <1>1, <2>1
  <2>4. f \in Injection(new, 1..n)
    <3> HIDE DEF f, new
    <3> QED BY <2>2, <2>3 DEF Injection, IsInjective
  <2>5. IsFiniteSet(1..n)
    BY FS_Interval
  <2> HIDE DEF f, new
  <2> QED BY <2>4, <2>5, FS_Injection
<1>8. IsFiniteSet(conversation_events')
  <2> HIDE DEF new
  <2> QED BY <1>2, <1>7, FS_Union
<1>9. \A r : IsFiniteSet(EventsAbout(r))
  BY FS_Subset DEF EventsAbout
<1>10. ASSUME NEW r \in S
       PROVE  Cardinality(EventsAbout(r)') = Cardinality(EventsAbout(r)) + 1
  <2>1. EventsAbout(r)' = EventsAbout(r) \cup {E(r)} /\ E(r) \notin EventsAbout(r)
    <3> HIDE DEF E
    <3> QED BY <1>2, <1>3, <1>6 DEF EventsAbout
  <2> HIDE DEF E
  <2> QED BY <2>1, <1>9, FS_AddElement
<1>11. ASSUME NEW r, r \notin S
       PROVE  Cardinality(EventsAbout(r)') = Cardinality(EventsAbout(r)) + 0
  <2>1. EventsAbout(r)' = EventsAbout(r)
    <3> HIDE DEF E
    <3> QED BY <1>2, <1>3, <1>11 DEF EventsAbout
  <2>2. Cardinality(EventsAbout(r)) \in Nat
    BY <1>9, FS_CardinalityType
  <2> QED BY <2>1, <2>2
<1> QED BY <1>8, <1>10, <1>11

\* MembershipLogged in terms of EventsAbout.
LEMMA LoggedParts ==
  /\ MembershipLogged <=>
       /\ \A u \in User : Cardinality(EventsAbout(u)) + (IF u \in founders THEN 1 ELSE 0)
                            = member_version[u]
       /\ Cardinality(EventsAbout(None)) = metadata_version
  /\ MembershipLogged' <=>
       /\ \A u \in User : Cardinality(EventsAbout(u)') + (IF u \in founders' THEN 1 ELSE 0)
                            = member_version'[u]
       /\ Cardinality(EventsAbout(None)') = metadata_version'
BY DEF MembershipLogged, EventsAbout

LEMMA CountedInit == MemberInit => EventsCounted
<1> SUFFICES ASSUME MemberInit PROVE EventsCounted
  OBVIOUS
<1>1. \A r : EventsAbout(r) = {}
  BY DEF MemberInit, LogInit, EventsAbout
<1>2. \A r : Cardinality(EventsAbout(r)) = 0
  BY <1>1, FS_EmptySet
<1>3. IsFiniteSet(conversation_events)
  BY FS_EmptySet DEF MemberInit, LogInit
<1>4. MembershipLogged
  BY <1>2, LoggedParts DEF MemberInit
<1> QED BY <1>2, <1>3, <1>4 DEF EventsCounted, MemberInit

\* An event about r, whose version or that of the conversation moves with it.
LEMMA CountedAppend ==
  ASSUME MemberInv, EventsCounted, NEW kind, NEW r, NEW v, AppendEvent(kind, r, v),
         founders' = founders,
         conversation_type' = conversation_type, conversation_type # "absent",
         \A u \in User : member_version'[u] = member_version[u] + (IF u = r THEN 1 ELSE 0),
         metadata_version' = metadata_version + (IF r = None THEN 1 ELSE 0)
  PROVE  EventsCounted'
<1>1. /\ IsFiniteSet(conversation_events')
      /\ \A t : Cardinality(EventsAbout(t)')
                  = Cardinality(EventsAbout(t)) + (IF t = r THEN 1 ELSE 0)
  BY AppendCounts DEF MemberInv, MemberTypeOK, EventsCounted
<1>2. \A t : Cardinality(EventsAbout(t)) \in Nat
  BY DEF EventsCounted
<1>3. MembershipLogged'
  <2>1. ASSUME NEW u \in User
        PROVE  Cardinality(EventsAbout(u)') + (IF u \in founders' THEN 1 ELSE 0)
                 = member_version'[u]
    <3>1. Cardinality(EventsAbout(u)) + (IF u \in founders THEN 1 ELSE 0) = member_version[u]
      BY LoggedParts DEF EventsCounted
    <3> QED BY <3>1, <1>1, <1>2
  <2>2. Cardinality(EventsAbout(None)') = metadata_version'
    <3>1. Cardinality(EventsAbout(None)) = metadata_version
      BY LoggedParts DEF EventsCounted
    <3> QED BY <3>1, <1>1, <1>2
  <2> QED BY <2>1, <2>2, LoggedParts
<1>4. \A t : Cardinality(EventsAbout(t)') \in Nat
  BY <1>1, <1>2
<1> QED BY <1>1, <1>3, <1>4 DEF EventsCounted

LEMMA CountedQuiet ==
  ASSUME EventsCounted, conversation_events' = conversation_events, UNCHANGED memberVars
  PROVE  EventsCounted'
BY DEF EventsCounted, EventsAbout, MembershipLogged, memberVars

\* Every membership command logs what it changes, once.
LEMMA CountedStep ==
  ASSUME MemberInv, EventsCounted, [MemberNext]_membershipVars
  PROVE  EventsCounted'
<1> USE MembershipAssumption DEF MemberInv, MemberTypeOK
<1>1. ASSUME NEW a \in User, NEW ct \in Types, NEW members \in SUBSET (User \ {a}),
             Create(a, ct, members)
      PROVE  EventsCounted'
  <2>1. /\ AppendEvent("conversation.created", None, 0)
        /\ conversation_type = "absent" /\ conversation_type' = ct
        /\ metadata_version' = 1
        /\ founders' \subseteq User
        /\ member_version' = [u \in User |-> IF u \in founders' THEN 1 ELSE 0]
    BY <1>1 DEF Create
  <2>2. /\ IsFiniteSet(conversation_events')
        /\ \A t : Cardinality(EventsAbout(t)')
                    = Cardinality(EventsAbout(t)) + (IF t = None THEN 1 ELSE 0)
    BY <2>1, AppendCounts DEF EventsCounted
  <2>3. \A t : Cardinality(EventsAbout(t)) \in Nat
    BY DEF EventsCounted
  <2>4. ASSUME NEW u \in User PROVE Cardinality(EventsAbout(u)) = 0
    <3>1. Cardinality(EventsAbout(u)) + 0 = 0
      BY <2>1, LoggedParts DEF EventsCounted
    <3> QED BY <2>3, <3>1
  <2>5. Cardinality(EventsAbout(None)) = 0
    BY <2>1, LoggedParts DEF EventsCounted
  <2>6. MembershipLogged'
    <3>1. \A u \in User : Cardinality(EventsAbout(u)')
                            + (IF u \in founders' THEN 1 ELSE 0) = member_version'[u]
      BY <2>1, <2>2, <2>4
    <3>2. Cardinality(EventsAbout(None)') = metadata_version'
      BY <2>1, <2>2, <2>5
    <3> QED BY <3>1, <3>2, LoggedParts
  <2>7. \A t : Cardinality(EventsAbout(t)') \in Nat
    BY <2>2, <2>3
  <2> QED BY <2>1, <2>2, <2>6, <2>7 DEF EventsCounted, Types
<1>2. ASSUME NEW a \in User, Patch(a) PROVE EventsCounted'
  <2>1. role[a] = "moderator" /\ conversation_type # "absent"
    BY <1>2 DEF Patch, NothingBeforeCreation
  <2>2. /\ AppendEvent("conversation.updated", None, 0)
        /\ UNCHANGED <<conversation_type, founders, member_version>>
        /\ metadata_version' = metadata_version + 1
    BY <1>2 DEF Patch
  <2> QED BY <2>1, <2>2, CountedAppend
<1>3. ASSUME NEW a \in User, NEW batch \in SUBSET User, AddMembers(a, batch)
      PROVE  EventsCounted'
  <2> DEFINE added == {u \in batch : ~Active(u)}
  <2>1. /\ AppendEvents("conversation.members.added", added)
        /\ UNCHANGED <<conversation_type, metadata_version, founders>>
        /\ member_version' = [u \in User |-> IF u \in added THEN member_version[u] + 1
                                             ELSE member_version[u]]
        /\ conversation_type # "absent" /\ added \subseteq User
    BY <1>3 DEF AddMembers, NothingBeforeCreation
  <2> HIDE DEF added
  <2>2. /\ IsFiniteSet(conversation_events')
        /\ \A t : Cardinality(EventsAbout(t)')
                    = Cardinality(EventsAbout(t)) + (IF t \in added THEN 1 ELSE 0)
    BY <2>1, AppendEventsCounts DEF EventsCounted
  <2>3. \A t : Cardinality(EventsAbout(t)) \in Nat
    BY DEF EventsCounted
  <2>4. ASSUME NEW u \in User
        PROVE  Cardinality(EventsAbout(u)') + (IF u \in founders' THEN 1 ELSE 0)
                 = member_version'[u]
    <3>1. Cardinality(EventsAbout(u)) + (IF u \in founders THEN 1 ELSE 0) = member_version[u]
      BY LoggedParts DEF EventsCounted
    <3> QED BY <3>1, <2>1, <2>2, <2>3
  <2>5. Cardinality(EventsAbout(None)') = metadata_version'
    <3>1. Cardinality(EventsAbout(None)) = metadata_version
      BY LoggedParts DEF EventsCounted
    <3> QED BY <3>1, <2>1, <2>2, <2>3
  <2>6. MembershipLogged'
    BY <2>4, <2>5, LoggedParts
  <2>7. \A t : Cardinality(EventsAbout(t)') \in Nat
    BY <2>2, <2>3
  <2> QED BY <2>1, <2>2, <2>6, <2>7 DEF EventsCounted
<1>4. ASSUME NEW a \in User, NEW u \in User, NEW p \in MemberPatch, PatchMember(a, u, p)
      PROVE  EventsCounted'
  <2>1. conversation_type # "absent"
    BY <1>4 DEF PatchMember, CanManage, Active, NothingBeforeCreation
  <2>2. /\ AppendEvent("conversation.member.updated", u, 0)
        /\ UNCHANGED <<conversation_type, metadata_version, founders>>
        /\ member_version' = [member_version EXCEPT ![u] = @ + 1]
    BY <1>4 DEF PatchMember
  <2> QED BY <2>1, <2>2, CountedAppend
<1>5. ASSUME NEW a \in User, NEW u \in User, RemoveMember(a, u) PROVE EventsCounted'
  <2>1. conversation_type # "absent"
    BY <1>5 DEF RemoveMember, CanManage, Active, NothingBeforeCreation
  <2>2. /\ AppendEvent("conversation.member.left", u, 0)
        /\ UNCHANGED <<conversation_type, metadata_version, founders>>
        /\ member_version' = [member_version EXCEPT ![u] = @ + 1]
    BY <1>5 DEF RemoveMember
  <2> QED BY <2>1, <2>2, CountedAppend
<1>6. CASE UNCHANGED <<logVars, memberVars>>
  BY <1>6, CountedQuiet DEF logVars
<1> QED BY <1>1, <1>2, <1>3, <1>4, <1>5, <1>6
        DEF MemberNext, membershipVars, BanUser, UnbanUser, UpdateFlags

\* Every membership row was reached by as many events as its version says, and the
\* conversation by as many as its own.
THEOREM MembershipAlwaysLogged == MemberSpec => []MembershipLogged
<1>1. MemberInit => EventsCounted
  BY CountedInit
<1>2. MemberInv /\ EventsCounted /\ [MemberNext]_membershipVars => EventsCounted'
  BY CountedStep
<1>3. EventsCounted => MembershipLogged
  BY DEF EventsCounted
<1> QED BY <1>1, <1>2, <1>3, MemberInvariant, PTL DEF MemberSpec

-----------------------------------------------------------------------------
(* The inductive invariant of the content                                  *)

ContentTypeOK ==
  /\ message_sequence \in Nat
  /\ last_message_id \in Message \cup {None}
  /\ status \in [Message -> {"none", "active", "expired", "deleted"}]
  /\ type \in [Message -> {"TEXT", "IMAGE"}]
  /\ sender \in [Message -> User \cup {None}]
  /\ sequence \in [Message -> Nat]
  /\ version \in [Message -> Nat]
  /\ body \in [Message -> Body \cup {Wiped}]
  /\ reply_to \in [Message -> Message \cup {None}]
  /\ forwarded_from \in [Message -> Message \cup {None}]
  /\ origin \in [Message -> User \cup {None}]
  /\ client \in [Message -> Client \cup {None}]
  /\ indexed \subseteq Message
  /\ reactions \subseteq Message \X User \X Emoji
  /\ pins \subseteq Message
  /\ lapsed \subseteq Message
  /\ attachment_status \in [Attachment -> {"absent", "ready", "attached", "deleted"}]
  /\ uploader \in [Attachment -> User \cup {None}]
  /\ links \subseteq Message \X Attachment
  /\ last_read \in [User -> Nat]
  /\ last_delivered \in [User -> Nat]

\* A message has a row exactly when it has a sequence; the row has a sender, the
\* client_message_id it was sent as and a version.
RowsComplete ==
  \A m \in Message :
    IF Exists(m)
    THEN /\ sequence[m] \in 1..message_sequence
         /\ version[m] >= 1
         /\ sender[m] \in User
         /\ client[m] \in Client
    ELSE sequence[m] = 0 /\ version[m] = 0

\* Only the creation of a message has the kind "message.created".
EventsTyped ==
  \A e \in conversation_events :
    /\ e.version \in Nat
    /\ e.kind = "message.created" => e.ref \in Message
    /\ e.kind = "message.deleted" => e.ref \in Message

\* The receipt of a command names a message of its sender and client_message_id;
\* the one receipt a message leaves behind is its own unless that one lapsed.
ReceiptsValid ==
  /\ \A r \in idempotency :
       /\ r.message \in Message /\ Exists(r.message)
       /\ sender[r.message] = r.sender /\ client[r.message] = r.client
  /\ \A m \in Message : Exists(m) =>
       \E r \in idempotency :
         /\ ReceiptsOf(sender[m], client[m]) = {r}
         /\ sequence[m] <= sequence[r.message]
         /\ r.message = m \/ m \in lapsed

\* Some assignment of authors to messages follows the forwards back to the first
\* message of their chain and agrees with every author snapshot that is kept.
Authored(author) ==
  \A m \in Message : Exists(m) =>
    /\ author[m] \in User
    /\ forwarded_from[m] = None => author[m] = sender[m] /\ origin[m] = None
    /\ forwarded_from[m] # None =>
         /\ Exists(forwarded_from[m])
         /\ sequence[forwarded_from[m]] < sequence[m]
         /\ author[m] = author[forwarded_from[m]]
         /\ status[m] # "deleted" => origin[m] = author[m]

OriginsKept == \E author \in [Message -> User \cup {None}] : Authored(author)

\* Nobody has read what was not delivered, or was delivered what was not sent.
CheckpointsOrdered ==
  \A u \in User : last_read[u] <= last_delivered[u] /\ last_delivered[u] <= message_sequence

\* Cardinality is defined for finite sets only.
RelationsFinite ==
  /\ IsFiniteSet(pins)
  /\ \A m \in Message : IsFiniteSet(KindsOn(m))

ContentInv ==
  /\ ContentTypeOK
  /\ RowsComplete
  /\ EventsTyped
  /\ VersionsLogged
  /\ Tombstones
  /\ MessageOrder
  /\ AttachmentsLinked
  /\ ReceiptsValid
  /\ LastMessageValid
  /\ OriginsKept
  /\ RelationsFinite
  /\ RelationsBounded
  /\ CheckpointsOrdered

-----------------------------------------------------------------------------
(* The log                                                                 *)

\* What one AppendEvent does to the log, told by the events of one reference.
LEMMA AppendAdds ==
  ASSUME event_sequence \in Nat, LogDense,
         NEW kind, NEW ref, NEW v, AppendEvent(kind, ref, v)
  PROVE  LET e == Envelope(event_sequence + 1, kind, ref, v)
         IN /\ event_sequence' = event_sequence + 1
            /\ e.sequence = event_sequence + 1 /\ e.kind = kind /\ e.ref = ref /\ e.version = v
            /\ \A f \in conversation_events : f.sequence \in 1..event_sequence
            /\ e \notin conversation_events
            /\ conversation_events' = conversation_events \cup {e}
            /\ EventsOf(ref)' = EventsOf(ref) \cup {e}
            /\ \A r : r # ref => EventsOf(r)' = EventsOf(r)
<1> DEFINE e == Envelope(event_sequence + 1, kind, ref, v)
<1>1. /\ event_sequence' = event_sequence + 1
      /\ conversation_events' = conversation_events \cup {e}
  BY DEF AppendEvent
<1>2. e.sequence = event_sequence + 1 /\ e.kind = kind /\ e.ref = ref /\ e.version = v
  BY DEF Envelope
<1>3. \A f \in conversation_events : f.sequence \in 1..event_sequence
  BY DEF LogDense
<1> HIDE DEF e
<1>4. e \notin conversation_events
  BY <1>2, <1>3
<1>5. EventsOf(ref)' = EventsOf(ref) \cup {e} /\ \A r : r # ref => EventsOf(r)' = EventsOf(r)
  BY <1>1, <1>2 DEF EventsOf
<1> QED BY <1>1, <1>2, <1>3, <1>4, <1>5 DEF e

\* The kinds of the events about messages that the properties tell apart.
ContentKinds == {"message.created", "message.updated", "message.deleted"}

\* A step that appends no event about a message.
OtherEvents ==
  /\ conversation_events \subseteq conversation_events'
  /\ \A e \in conversation_events' \ conversation_events :
       /\ e.ref \in User \cup {None}
       /\ e.version \in Nat
       /\ e.kind \notin ContentKinds

LEMMA AppendOther ==
  ASSUME event_sequence \in Nat, LogDense, NEW kind, NEW ref \in User \cup {None},
         NEW v \in Nat, kind \notin ContentKinds, AppendEvent(kind, ref, v)
  PROVE  OtherEvents /\ event_sequence' >= event_sequence
<1>1. PICK e : /\ conversation_events' = conversation_events \cup {e}
               /\ e.ref = ref /\ e.version = v /\ e.kind = kind
               /\ event_sequence' = event_sequence + 1
  BY AppendAdds
<1> QED BY <1>1 DEF OtherEvents

LEMMA NoOther == UNCHANGED logVars => OtherEvents /\ event_sequence' = event_sequence
BY DEF logVars, OtherEvents

LEMMA AppendEventsOther ==
  ASSUME event_sequence \in Nat, MaxEvents \in Nat, NEW kind, NEW S \in SUBSET User,
         kind \notin ContentKinds, AppendEvents(kind, S)
  PROVE  OtherEvents /\ event_sequence' >= event_sequence
<1>1. PICK n \in 1..MaxEvents : \E order \in [S -> 1..n] :
         /\ \A i \in 1..n : \E r \in S : order[r] = i
         /\ \A r, t \in S : order[r] = order[t] => r = t
         /\ event_sequence + n <= MaxEvents
         /\ event_sequence' = event_sequence + n
         /\ conversation_events' = conversation_events \cup
              {Envelope(event_sequence + order[r], kind, r, 0) : r \in S}
         /\ outbox_events' = outbox_events \cup
              {Envelope(event_sequence + order[r], kind, r, 0) : r \in S}
  BY Zenon DEF AppendEvents
<1>2. PICK order \in [S -> 1..n] :
         /\ event_sequence' = event_sequence + n
         /\ conversation_events' = conversation_events \cup
              {Envelope(event_sequence + order[r], kind, r, 0) : r \in S}
  BY <1>1
<1> DEFINE new == {Envelope(event_sequence + order[r], kind, r, 0) : r \in S}
<1>3. \A e \in new : e.ref \in User /\ e.version = 0 /\ e.kind = kind
  BY DEF Envelope
<1>4. conversation_events' = conversation_events \cup new
  BY <1>2
<1> HIDE DEF new
<1>5. event_sequence' >= event_sequence
  BY <1>2
<1> QED BY <1>3, <1>4, <1>5 DEF OtherEvents

\* The membership commands append no event about a message, and no counter or
\* version of theirs runs backwards.
LEMMA MemberStepOther ==
  ASSUME MemberInv, MemberNext
  PROVE  /\ OtherEvents
         /\ event_sequence' >= event_sequence
<1> USE DEF MemberInv, MemberTypeOK
<1>1. ASSUME NEW a \in User, NEW type_ \in Types, NEW members \in SUBSET (User \ {a}),
             Create(a, type_, members)
      PROVE  OtherEvents /\ event_sequence' >= event_sequence
  BY <1>1, AppendOther DEF Create, ContentKinds
<1>2. ASSUME NEW a \in User, Patch(a)
      PROVE  OtherEvents /\ event_sequence' >= event_sequence
  BY <1>2, AppendOther DEF Patch, ContentKinds
<1>3. ASSUME NEW a \in User, NEW batch \in SUBSET User, AddMembers(a, batch)
      PROVE  OtherEvents /\ event_sequence' >= event_sequence
  <2>1. {u \in batch : ~Active(u)} \in SUBSET User
    OBVIOUS
  <2> QED BY <1>3, <2>1, AppendEventsOther, MembershipAssumption DEF AddMembers, ContentKinds
<1>4. ASSUME NEW a \in User, NEW u \in User, NEW p \in MemberPatch, PatchMember(a, u, p)
      PROVE  OtherEvents /\ event_sequence' >= event_sequence
  BY <1>4, AppendOther DEF PatchMember, ContentKinds
<1>5. ASSUME NEW a \in User, NEW u \in User, RemoveMember(a, u)
      PROVE  OtherEvents /\ event_sequence' >= event_sequence
  BY <1>5, AppendOther DEF RemoveMember, ContentKinds
<1>6. ASSUME NEW a \in User, NEW u \in User, BanUser(a, u) \/ UnbanUser(a, u)
      PROVE  OtherEvents /\ event_sequence' >= event_sequence
  BY <1>6, NoOther DEF BanUser, UnbanUser
<1>7. ASSUME NEW a \in User, NEW f \in Switchable, UpdateFlags(a, f)
      PROVE  OtherEvents /\ event_sequence' >= event_sequence
  BY <1>7, NoOther DEF UpdateFlags
<1> QED BY <1>1, <1>2, <1>3, <1>4, <1>5, <1>6, <1>7 DEF MemberNext

-----------------------------------------------------------------------------
(* The classes of steps                                                    *)

\* What a new message does to the attachments: an image takes one that no message
\* has.
Attaches(m, kind) ==
  /\ uploader' \in [Attachment -> User \cup {None}]
  /\ IF kind = "IMAGE"
     THEN \E a \in Attachment :
            /\ attachment_status[a] # "attached"
            /\ attachment_status' = [attachment_status EXCEPT ![a] = "attached"]
            /\ links' = links \cup {<<m, a>>}
     ELSE UNCHANGED <<attachment_status, links>>

\* What Send and Forward have in common.
Stored(u, c, m) ==
  \E command \in SendCommand \cup ForwardCommand, kind \in {"TEXT", "IMAGE"},
     content \in Body, reply, source \in Message \cup {None}, author \in User \cup {None} :
    /\ Store(u, c, m, command, kind, content, reply, source, author)
    /\ Attaches(m, kind)
    /\ NoLiveReceipt(u, c)
    /\ CheckContent(content)
    /\ WriteAccess(u)
    /\ source = None => author = None
    /\ source # None => Live(source) /\ author = OriginalSender(source)

\* What the four relation commands have in common.
Related(u, m) ==
  /\ Live(m)
  /\ ActivityAccess(u)
  /\ \E kind \in {"reaction.created", "reaction.deleted", "message.pinned",
                  "message.unpinned"} : Publish(kind, m)
  /\ \A r \in reactions' : r \in reactions \/ r \in {m} \X {u} \X Emoji
  /\ pins' \subseteq pins \cup {m}

\* The steps that write no message, relation, receipt or link.
Aside ==
  /\ UNCHANGED <<messageVars, relationVars, dedupVars, links>>
  /\ OtherEvents
  /\ event_sequence' >= event_sequence

LEMMA SendStored ==
  ASSUME ContentTypeOK,
         NEW u \in User, NEW c \in Client, NEW m \in Message, NEW command \in SendCommand,
         Send(u, c, m, command)
  PROVE  Stored(u, c, m)
<1>1. /\ command.type \in {"TEXT", "IMAGE"}
      /\ command.body \in Body
      /\ command.reply \in Message \cup {None}
      /\ command.type = "IMAGE" => command.attachment \in Attachment
  BY DEF SendCommand
<1>2. Attaches(m, command.type)
  <2>1. CASE command.type = "IMAGE"
    <3>1. attachment_status[command.attachment] # "attached"
      BY <2>1 DEF Send, ReadyFor
    <3> QED BY <1>1, <2>1, <3>1 DEF Send, Attaches, ContentTypeOK
  <2>2. CASE command.type # "IMAGE"
    BY <2>2 DEF Send, Attaches, attachmentVars, ContentTypeOK
  <2> QED BY <2>1, <2>2
<1>3. /\ Store(u, c, m, command, command.type, command.body, command.reply, None, None)
      /\ NoLiveReceipt(u, c) /\ CheckContent(command.body) /\ WriteAccess(u)
  BY DEF Send
<1> QED BY <1>1, <1>2, <1>3 DEF Stored

LEMMA ForwardStored ==
  ASSUME ContentTypeOK, Tombstones,
         NEW u \in User, NEW c \in Client, NEW m \in Message, NEW source \in Message,
         NEW copy \in Attachment \cup {None}, Forward(u, c, m, source, copy)
  PROVE  Stored(u, c, m)
<1>1. /\ type[source] \in {"TEXT", "IMAGE"}
      /\ Live(source) /\ CheckContent(body[source])
      /\ NoLiveReceipt(u, c) /\ WriteAccess(u)
      /\ Store(u, c, m, [source |-> source], type[source], body[source], None, source,
               OriginalSender(source))
  BY DEF Forward, SourceAllowed, ContentTypeOK
<1>2. body[source] \in Body
  BY <1>1 DEF Tombstones, Live, ContentTypeOK
<1>3. OriginalSender(source) \in User \cup {None}
  BY DEF OriginalSender, ContentTypeOK
<1>4. Attaches(m, type[source])
  <2>1. CASE type[source] = "IMAGE"
    BY <2>1 DEF Forward, Attaches, ContentTypeOK
  <2>2. CASE type[source] # "IMAGE"
    BY <2>2 DEF Forward, Attaches, attachmentVars, ContentTypeOK
  <2> QED BY <2>1, <2>2
<1>5. [source |-> source] \in SendCommand \cup ForwardCommand /\ source # None
  BY ConversationAssumption DEF ForwardCommand
<1> QED BY <1>1, <1>2, <1>3, <1>4, <1>5 DEF Stored

LEMMA RelationRelated ==
  ASSUME NEW u \in User, NEW m \in Message, NEW e \in Emoji,
         React(u, m, e) \/ Unreact(u, m, e)
  PROVE  Related(u, m)
<1>1. /\ Live(m) /\ ActivityAccess(u)
      /\ Publish("reaction.created", m) \/ Publish("reaction.deleted", m)
      /\ \A r \in reactions' : r \in reactions \/ r \in {m} \X {u} \X Emoji
      /\ pins' = pins
  BY DEF React, Unreact, RelationAccess
<1> QED BY <1>1 DEF Related

LEMMA PinRelated ==
  ASSUME NEW u \in User, NEW m \in Message, Pin(u, m) \/ Unpin(u, m)
  PROVE  Related(u, m)
<1>1. /\ Live(m) /\ ActivityAccess(u)
      /\ Publish("message.pinned", m) \/ Publish("message.unpinned", m)
      /\ reactions' = reactions
      /\ pins' \subseteq pins \cup {m}
  BY DEF Pin, Unpin, PinAccess, RelationAccess
<1> QED BY <1>1 DEF Related

\* Every step is of one of seven classes.
LEMMA StepClasses ==
  ASSUME MemberInv, ContentTypeOK, Tombstones, [Next]_vars
  PROVE  \/ \E u \in User, c \in Client, m \in Message : Stored(u, c, m)
         \/ \E u \in User, m \in Message, b \in Body : Edit(u, m, b)
         \/ \E u \in User, m \in Message : Delete(u, m)
         \/ \E u \in User, m \in Message : Related(u, m)
         \/ \E m \in Message : Expire(m)
         \/ \E m \in Message : Lapse(m)
         \/ Aside
<1>1. CASE MemberNext /\ UNCHANGED contentVars
  BY <1>1, MemberStepOther DEF Aside, contentVars, attachmentVars
<1>2. CASE UNCHANGED vars
  BY <1>2, NoOther DEF Aside, vars, membershipVars, contentVars, attachmentVars, MemberInv,
                       MemberTypeOK
<1>3. ASSUME NEW u \in User, NEW kind, NEW s, Receipt(u, kind, s) PROVE Aside
  <2>1. member_version[u] + 1 \in Nat /\ event_sequence \in Nat /\ LogDense
    BY DEF MemberInv, MemberTypeOK
  <2>2. OtherEvents /\ event_sequence' >= event_sequence
    <3> DEFINE k == IF kind = "read" THEN "message.read" ELSE "message.delivered"
    <3>1. AppendEvent(k, u, member_version[u] + 1)
      BY <1>3 DEF Receipt
    <3>2. k \notin ContentKinds
      BY DEF ContentKinds
    <3> HIDE DEF k
    <3> QED BY <2>1, <3>1, <3>2, AppendOther
  <2> QED BY <1>3, <2>2 DEF Receipt, Aside, attachmentVars
<1>4. ASSUME NEW a \in Attachment, NEW u, Upload(u, a) \/ Reclaim(a) PROVE Aside
  BY <1>4, NoOther DEF Upload, Reclaim, Aside, membershipVars, MemberInv, MemberTypeOK
<1>5. ASSUME NEW a, NEW words, UpdateBlacklist(a, words) PROVE Aside
  BY <1>5, NoOther DEF UpdateBlacklist, Aside, membershipVars, attachmentVars, MemberInv,
                       MemberTypeOK
<1>6. CASE SendStep
  BY <1>6, SendStored DEF SendStep
<1>7. CASE ForwardStep
  BY <1>7, ForwardStored DEF ForwardStep
<1>8. CASE MutationStep
  BY <1>8 DEF MutationStep
<1>9. CASE RelationStep
  BY <1>9, RelationRelated, PinRelated DEF RelationStep
<1>10. CASE ReceiptStep
  BY <1>10, <1>3 DEF ReceiptStep
<1>11. CASE TimeStep
  BY <1>11 DEF TimeStep
<1>12. CASE UploadStep
  BY <1>12, <1>4 DEF UploadStep
<1>13. CASE BlacklistStep
  BY <1>13, <1>5 DEF BlacklistStep
<1> QED BY <1>1, <1>2, <1>6, <1>7, <1>8, <1>9, <1>10, <1>11, <1>12, <1>13 DEF Next

-----------------------------------------------------------------------------
(* The latest message                                                      *)

\* A nonempty set of naturals has a least element.
LEMMA LeastNatural ==
  ASSUME NEW S \in SUBSET Nat, S # {}
  PROVE  \E n \in S : \A k \in S : n <= k
<1> DEFINE R == OpToRel(<, Nat)
<1>1. IsWellFoundedOn(R, Nat)
  BY NatLessThanWellFounded
<1>2. \A x, y : <<x, y>> \in R <=> x \in Nat /\ y \in Nat /\ x < y
  BY DEF OpToRel
<1> HIDE DEF R
<1>3. \E n \in S : \A y \in S : <<y, n>> \notin R
  BY <1>1, WFMin, Zenon
<1>4. PICK n \in S : \A y \in S : <<y, n>> \notin R
  BY <1>3
<1>5. \A y \in S : ~(y < n)
  BY <1>2, <1>4
<1> QED BY <1>5

\* A function with bounded natural values takes its greatest value on a set.
LEMMA GreatestBelow ==
  ASSUME NEW bound \in Nat, NEW T, T # {}, NEW f, \A k \in T : f[k] \in 0..bound
  PROVE  \E n \in T : \A k \in T : f[k] <= f[n]
<1> DEFINE D == {bound - f[k] : k \in T}
<1>1. D \in SUBSET Nat /\ D # {}
  OBVIOUS
<1>2. PICK d \in D : \A c \in D : d <= c
  BY <1>1, LeastNatural
<1>3. PICK n \in T : d = bound - f[n]
  OBVIOUS
<1>4. \A k \in T : bound - f[n] <= bound - f[k]
  BY <1>2, <1>3
<1> QED BY <1>4

\* LatestLive is what its comment says: the CHOOSE has something to choose.
LEMMA LatestLiveIsLatest ==
  ASSUME ContentTypeOK, RowsComplete, NEW m \in Message
  PROVE  /\ LatestLive(m) = None \/ LatestLive(m) \in {n \in Message \ {m} : Live(n)}
         /\ \A k \in Message \ {m} : Live(k) =>
              LatestLive(m) # None /\ sequence[k] <= sequence[LatestLive(m)]
<1> DEFINE live == {n \in Message \ {m} : Live(n)}
           latest == CHOOSE n \in live : \A k \in live : sequence[k] <= sequence[n]
<1>1. CASE live = {}
  BY <1>1 DEF LatestLive
<1>2. CASE live # {}
  <2>1. \A k \in live : sequence[k] \in 0..message_sequence
    BY DEF RowsComplete, Live, Exists, ContentTypeOK
  <2>2. message_sequence \in Nat
    BY DEF ContentTypeOK
  <2> HIDE DEF live
  <2>3. \E n \in live : \A k \in live : sequence[k] <= sequence[n]
    BY <1>2, <2>1, <2>2, GreatestBelow
  <2>4. latest \in live /\ \A k \in live : sequence[k] <= sequence[latest]
    BY <2>3
  <2>5. LatestLive(m) = latest
    BY <1>2 DEF LatestLive, live
  <2>6. latest # None
    BY <2>4, ConversationAssumption DEF live
  <2> HIDE DEF latest
  <2> QED BY <2>4, <2>5, <2>6 DEF live
<1> QED BY <1>1, <1>2

-----------------------------------------------------------------------------
(* Types and rows                                                          *)

LEMMA TypesInit == Init => ContentTypeOK
BY DEF Init, ContentTypeOK

LEMMA StoredTypes ==
  ASSUME ContentTypeOK, NEW u \in User, NEW c \in Client, NEW m \in Message, Stored(u, c, m)
  PROVE  ContentTypeOK'
<1>1. PICK command \in SendCommand \cup ForwardCommand, kind \in {"TEXT", "IMAGE"},
           content \in Body, reply \in Message \cup {None}, source \in Message \cup {None},
           author \in User \cup {None} :
        /\ Store(u, c, m, command, kind, content, reply, source, author)
        /\ Attaches(m, kind)
  BY DEF Stored
<1>2. /\ message_sequence' \in Nat
      /\ last_message_id' \in Message \cup {None}
      /\ status' \in [Message -> {"none", "active", "expired", "deleted"}]
      /\ type' \in [Message -> {"TEXT", "IMAGE"}]
      /\ sender' \in [Message -> User \cup {None}]
      /\ sequence' \in [Message -> Nat]
      /\ version' \in [Message -> Nat]
      /\ body' \in [Message -> Body \cup {Wiped}]
      /\ reply_to' \in [Message -> Message \cup {None}]
      /\ forwarded_from' \in [Message -> Message \cup {None}]
      /\ origin' \in [Message -> User \cup {None}]
      /\ client' \in [Message -> Client \cup {None}]
      /\ indexed' \subseteq Message
  BY <1>1 DEF Store, NextSequence, ContentTypeOK
<1>3. /\ UNCHANGED <<reactions, pins, lapsed, last_read, last_delivered>>
  BY <1>1 DEF Store, relationVars, checkpointVars
<1>4. /\ attachment_status' \in [Attachment -> {"absent", "ready", "attached", "deleted"}]
      /\ uploader' \in [Attachment -> User \cup {None}]
      /\ links' \subseteq Message \X Attachment
  <2>1. CASE kind = "IMAGE"
    BY <1>1, <2>1 DEF Attaches, ContentTypeOK
  <2>2. CASE kind # "IMAGE"
    BY <1>1, <2>2 DEF Attaches, ContentTypeOK
  <2> QED BY <2>1, <2>2
<1> QED BY <1>2, <1>3, <1>4 DEF ContentTypeOK

LEMMA EditTypes ==
  ASSUME ContentTypeOK, NEW u \in User, NEW m \in Message, NEW b \in Body, Edit(u, m, b)
  PROVE  ContentTypeOK'
BY DEF Edit, ContentTypeOK, relationVars, dedupVars, attachmentVars, checkpointVars

LEMMA DeleteTypes ==
  ASSUME ContentTypeOK, RowsComplete, NEW u \in User, NEW m \in Message, Delete(u, m)
  PROVE  ContentTypeOK'
<1>1. last_message_id' \in Message \cup {None}
  BY LatestLiveIsLatest DEF Delete
<1>2. /\ status' \in [Message -> {"none", "active", "expired", "deleted"}]
      /\ version' \in [Message -> Nat]
      /\ body' \in [Message -> Body \cup {Wiped}]
      /\ reply_to' \in [Message -> Message \cup {None}]
      /\ origin' \in [Message -> User \cup {None}]
      /\ indexed' \subseteq Message
      /\ UNCHANGED <<message_sequence, type, sender, sequence, forwarded_from, uploader,
                     dedupVars, checkpointVars>>
  BY DEF Delete, ContentTypeOK
<1>3. /\ reactions' \subseteq reactions
      /\ pins' \subseteq pins
      /\ links' \subseteq links
      /\ attachment_status' \in [Attachment -> {"absent", "ready", "attached", "deleted"}]
  BY DEF Delete, ContentTypeOK
<1> QED BY <1>1, <1>2, <1>3 DEF ContentTypeOK, dedupVars, checkpointVars

LEMMA RelatedTypes ==
  ASSUME ContentTypeOK, NEW u \in User, NEW m \in Message, Related(u, m)
  PROVE  ContentTypeOK'
<1>1. /\ reactions' \subseteq Message \X User \X Emoji
      /\ pins' \subseteq Message
  <2>1. \A r \in reactions' : r \in Message \X User \X Emoji
    BY DEF Related, ContentTypeOK
  <2> QED BY <2>1 DEF Related, ContentTypeOK
<1>2. version' \in [Message -> Nat] /\ UNCHANGED publishFrame
  BY DEF Related, Publish, ContentTypeOK
<1> QED BY <1>1, <1>2 DEF ContentTypeOK, publishFrame, dedupVars, attachmentVars,
                          checkpointVars

LEMMA ReceiptTypes ==
  ASSUME ContentTypeOK, NEW u \in User, NEW kind, NEW s \in Nat, Receipt(u, kind, s)
  PROVE  ContentTypeOK'
<1>1. /\ UNCHANGED <<messageVars, relationVars, dedupVars, attachmentVars>>
      /\ last_read' \in [User -> Nat]
      /\ last_delivered' \in [User -> Nat]
  BY DEF Receipt, Delivered, Larger, ContentTypeOK
<1> QED BY <1>1 DEF ContentTypeOK, messageVars, relationVars, dedupVars, attachmentVars

\* Every step keeps the types.
LEMMA TypesStep ==
  ASSUME ContentTypeOK, RowsComplete, Tombstones, [Next]_vars
  PROVE  ContentTypeOK'
<1>1. CASE UNCHANGED contentVars
  BY <1>1 DEF contentVars, messageVars, relationVars, dedupVars, attachmentVars,
              checkpointVars, ContentTypeOK
<1>2. ASSUME NEW m \in Message, Expire(m) \/ Lapse(m) PROVE ContentTypeOK'
  BY <1>2 DEF Expire, Lapse, messageVars, relationVars, dedupVars, attachmentVars,
              checkpointVars, ContentTypeOK
<1>3. ASSUME NEW u \in User, NEW a \in Attachment, Upload(u, a) PROVE ContentTypeOK'
  BY <1>3 DEF Upload, messageVars, relationVars, dedupVars, checkpointVars, ContentTypeOK
<1>4. ASSUME NEW a \in Attachment, Reclaim(a) PROVE ContentTypeOK'
  BY <1>4 DEF Reclaim, messageVars, relationVars, dedupVars, checkpointVars, ContentTypeOK
<1>5. ASSUME NEW a, NEW words, UpdateBlacklist(a, words) PROVE ContentTypeOK'
  BY <1>5 DEF UpdateBlacklist, messageVars, relationVars, dedupVars, attachmentVars,
              checkpointVars, ContentTypeOK
<1>6. CASE SendStep
  BY <1>6, SendStored, StoredTypes DEF SendStep
<1>7. CASE ForwardStep
  BY <1>7, ForwardStored, StoredTypes DEF ForwardStep
<1>8. CASE MutationStep
  BY <1>8, EditTypes, DeleteTypes DEF MutationStep
<1>9. CASE RelationStep
  BY <1>9, RelationRelated, PinRelated, RelatedTypes DEF RelationStep
<1>10. CASE ReceiptStep
  BY <1>10, ReceiptTypes DEF ReceiptStep, ContentTypeOK
<1> QED BY <1>1, <1>2, <1>3, <1>4, <1>5, <1>6, <1>7, <1>8, <1>9, <1>10
        DEF Next, TimeStep, UploadStep, BlacklistStep, vars

\* Every step keeps rows complete: a message is numbered once, when it is stored.
LEMMA RowsStep ==
  ASSUME MemberInv, ContentTypeOK, RowsComplete, Tombstones, [Next]_vars
  PROVE  RowsComplete'
<1> USE DEF Exists
<1>1. ASSUME NEW u \in User, NEW c \in Client, NEW m \in Message, Stored(u, c, m)
      PROVE  RowsComplete'
  <2>1. /\ message_sequence' = message_sequence + 1
        /\ status' = [status EXCEPT ![m] = "active"]
        /\ sender' = [sender EXCEPT ![m] = u]
        /\ sequence' = [sequence EXCEPT ![m] = message_sequence + 1]
        /\ version' = [version EXCEPT ![m] = 1]
        /\ client' = [client EXCEPT ![m] = c]
    BY <1>1 DEF Stored, Store, NextSequence
  <2> QED BY <2>1 DEF RowsComplete, ContentTypeOK
<1>2. ASSUME NEW u \in User, NEW m \in Message, NEW b \in Body, Edit(u, m, b)
      PROVE  RowsComplete'
  <2>1. /\ version' = [version EXCEPT ![m] = @ + 1]
        /\ UNCHANGED <<message_sequence, status, sender, sequence, client>>
        /\ Live(m)
    BY <1>2 DEF Edit, dedupVars
  <2> QED BY <2>1 DEF Live, RowsComplete, ContentTypeOK
<1>3. ASSUME NEW u \in User, NEW m \in Message, Delete(u, m) PROVE RowsComplete'
  BY <1>3 DEF Delete, MutationAccess, dedupVars, RowsComplete, ContentTypeOK
<1>4. ASSUME NEW u \in User, NEW m \in Message, Related(u, m) PROVE RowsComplete'
  <2>1. /\ Live(m)
        /\ version' = [version EXCEPT ![m] = @ + 1]
        /\ UNCHANGED publishFrame
    BY <1>4 DEF Related, Publish
  <2> QED BY <2>1 DEF Live, publishFrame, dedupVars, RowsComplete, ContentTypeOK
<1>5. ASSUME NEW m \in Message, Expire(m) PROVE RowsComplete'
  BY <1>5 DEF Expire, Live, dedupVars, RowsComplete, ContentTypeOK
<1>6. ASSUME NEW m \in Message, Lapse(m) PROVE RowsComplete'
  BY <1>6 DEF Lapse, messageVars, RowsComplete
<1>7. CASE Aside
  BY <1>7 DEF Aside, messageVars, dedupVars, RowsComplete
<1> QED BY <1>1, <1>2, <1>3, <1>4, <1>5, <1>6, <1>7, StepClasses

-----------------------------------------------------------------------------
(* Events and versions                                                     *)

\* A step of a class that writes no message leaves the events of messages alone.
LEMMA OtherEventsOf ==
  ASSUME OtherEvents
  PROVE  \A m \in Message : EventsOf(m)' = EventsOf(m)
<1>1. \A e \in conversation_events' \ conversation_events : e.ref \notin Message
  BY MembershipAssumption, ConversationAssumption DEF OtherEvents
<1> QED BY <1>1 DEF OtherEvents, EventsOf

LEMMA QuietLog ==
  ASSUME UNCHANGED membershipVars PROVE UNCHANGED conversation_events
BY DEF membershipVars, logVars

\* A command on a message m appends one event, which carries the new version of m.
Logs(m, kind, v) ==
  /\ AppendEvent(kind, m, v)
  /\ version' = [version EXCEPT ![m] = v]

LEMMA StoredLogs ==
  ASSUME NEW u, NEW c, NEW m, Stored(u, c, m)
  PROVE  Logs(m, "message.created", 1) /\ status[m] = "none"
BY DEF Stored, Store, Logs

LEMMA EditLogs ==
  ASSUME ContentTypeOK, NEW u, NEW m \in Message, NEW b, Edit(u, m, b)
  PROVE  Logs(m, "message.updated", version[m] + 1)
BY DEF Edit, Logs, ContentTypeOK

LEMMA DeleteLogs ==
  ASSUME ContentTypeOK, NEW u, NEW m \in Message, Delete(u, m)
  PROVE  Logs(m, "message.deleted", version[m] + 1)
BY DEF Delete, Logs, ContentTypeOK

LEMMA RelatedLogs ==
  ASSUME ContentTypeOK, NEW u, NEW m \in Message, Related(u, m)
  PROVE  \E kind : kind \notin ContentKinds /\ Logs(m, kind, version[m] + 1)
<1>1. PICK kind \in {"reaction.created", "reaction.deleted", "message.pinned",
                     "message.unpinned"} : Publish(kind, m)
  BY DEF Related
<1>2. kind \notin ContentKinds
  BY DEF ContentKinds
<1> QED BY <1>1, <1>2 DEF Publish, Logs, ContentTypeOK

\* The events of m carry the versions 1..version[m] before the step; the new one
\* carries the next.
LEMMA LogsVersions ==
  ASSUME MemberInv, ContentTypeOK, VersionsLogged, EventsTyped,
         NEW m \in Message, NEW kind, Logs(m, kind, version[m] + 1)
  PROVE  VersionsLogged' /\ EventsTyped'
<1>1. event_sequence \in Nat /\ LogDense /\ version[m] \in Nat
  BY DEF MemberInv, MemberTypeOK, ContentTypeOK
<1>2. PICK e : /\ e.kind = kind /\ e.ref = m /\ e.version = version[m] + 1
               /\ conversation_events' = conversation_events \cup {e}
               /\ EventsOf(m)' = EventsOf(m) \cup {e}
               /\ \A n : n # m => EventsOf(n)' = EventsOf(n)
  BY <1>1, AppendAdds DEF Logs
<1>3. version' = [version EXCEPT ![m] = version[m] + 1]
  BY DEF Logs
<1>4. EventsTyped'
  BY <1>1, <1>2 DEF EventsTyped
<1>5. ASSUME NEW n \in Message
      PROVE  /\ {f.version : f \in EventsOf(n)'} = 1..version'[n]
             /\ \A f, g \in EventsOf(n)' : f.version = g.version => f = g
  <2>1. CASE n # m
    BY <1>2, <1>3, <2>1 DEF VersionsLogged, ContentTypeOK
  <2>2. CASE n = m
    <3>1. /\ {f.version : f \in EventsOf(m)} = 1..version[m]
          /\ \A f, g \in EventsOf(m) : f.version = g.version => f = g
      BY DEF VersionsLogged
    <3>2. version'[m] = version[m] + 1
      BY <1>3 DEF ContentTypeOK
    <3>3. {f.version : f \in EventsOf(m)'} = 1..(version[m] + 1)
      <4>1. \A f \in EventsOf(m)' : f.version \in 1..(version[m] + 1)
        BY <1>1, <1>2, <3>1
      <4>2. ASSUME NEW i \in 1..(version[m] + 1)
            PROVE  \E f \in EventsOf(m)' : f.version = i
        <5>1. CASE i = version[m] + 1
          BY <1>2, <5>1
        <5>2. CASE i \in 1..version[m]
          <6>1. PICK f \in EventsOf(m) : f.version = i
            BY <3>1, <5>2
          <6> QED BY <1>2, <6>1
        <5> QED BY <1>1, <5>1, <5>2
      <4> QED BY <4>1, <4>2
    <3>4. \A f, g \in EventsOf(m)' : f.version = g.version => f = g
      <4>1. \A f \in EventsOf(m) : f.version \in 1..version[m]
        BY <3>1
      <4>2. \A f \in EventsOf(m) : f.version # e.version
        BY <1>1, <1>2, <4>1
      <4>3. \A f \in EventsOf(m)' : f = e \/ f \in EventsOf(m)
        BY <1>2
      <4> QED BY <3>1, <4>2, <4>3
    <3> QED BY <2>2, <3>2, <3>3, <3>4
  <2> QED BY <2>1, <2>2
<1> QED BY <1>4, <1>5 DEF VersionsLogged

\* Every step publishes the version it makes.
LEMMA VersionsStep ==
  ASSUME MemberInv, ContentTypeOK, RowsComplete, Tombstones, VersionsLogged, EventsTyped,
         [Next]_vars
  PROVE  VersionsLogged' /\ EventsTyped'
<1>1. ASSUME NEW u \in User, NEW c \in Client, NEW m \in Message, Stored(u, c, m)
      PROVE  VersionsLogged' /\ EventsTyped'
  <2>1. version[m] + 1 = 1
    BY <1>1, StoredLogs DEF RowsComplete, Exists
  <2> QED BY <1>1, <2>1, StoredLogs, LogsVersions
<1>2. ASSUME NEW u \in User, NEW m \in Message, NEW b \in Body, Edit(u, m, b)
      PROVE  VersionsLogged' /\ EventsTyped'
  BY <1>2, EditLogs, LogsVersions
<1>3. ASSUME NEW u \in User, NEW m \in Message, Delete(u, m)
      PROVE  VersionsLogged' /\ EventsTyped'
  BY <1>3, DeleteLogs, LogsVersions
<1>4. ASSUME NEW u \in User, NEW m \in Message, Related(u, m)
      PROVE  VersionsLogged' /\ EventsTyped'
  BY <1>4, RelatedLogs, LogsVersions
<1>5. ASSUME NEW m \in Message, Expire(m) \/ Lapse(m)
      PROVE  VersionsLogged' /\ EventsTyped'
  <2>1. UNCHANGED <<conversation_events, version>>
    BY <1>5, QuietLog DEF Expire, Lapse, messageVars
  <2> QED BY <2>1 DEF VersionsLogged, EventsTyped, EventsOf
<1>6. CASE Aside
  <2>1. UNCHANGED version /\ OtherEvents
    BY <1>6 DEF Aside, messageVars
  <2>2. EventsTyped'
    BY <2>1 DEF EventsTyped, OtherEvents, ContentKinds
  <2>3. VersionsLogged'
    BY <2>1, OtherEventsOf DEF VersionsLogged
  <2> QED BY <2>2, <2>3
<1> QED BY <1>1, <1>2, <1>3, <1>4, <1>5, <1>6, StepClasses

-----------------------------------------------------------------------------
(* Tombstones                                                              *)

\* The one thing that both halves of Tombstones say about the events of m.
DeletionLast(m) ==
  /\ (status[m] = "deleted") <=> \E e \in EventsOf(m) : e.kind = "message.deleted"
  /\ \A e, f \in EventsOf(m) :
       e.kind = "message.deleted" => f.sequence <= e.sequence /\ f.version <= e.version

Content(m) ==
  IF status[m] \in {"active", "expired"} THEN body[m] # Wiped /\ m \in indexed ELSE Bare(m)

LEMMA TombstonesParts ==
  /\ Tombstones <=> \A m \in Message : DeletionLast(m) /\ Content(m)
  /\ Tombstones' <=> \A m \in Message : DeletionLast(m)' /\ Content(m)'
BY DEF Tombstones, DeletionLast, Content

\* An event that follows a message's events, on a message not deleted before.
LEMMA DeletionLastLogs ==
  ASSUME MemberInv, ContentTypeOK, VersionsLogged, Tombstones,
         NEW m \in Message, NEW kind, Logs(m, kind, version[m] + 1), status[m] # "deleted",
         status'[m] = "deleted" <=> kind = "message.deleted",
         \A n \in Message : n # m => status'[n] = status[n]
  PROVE  \A n \in Message : DeletionLast(n)'
<1>1. event_sequence \in Nat /\ LogDense /\ version[m] \in Nat
  BY DEF MemberInv, MemberTypeOK, ContentTypeOK
<1>2. PICK e : /\ e.kind = kind /\ e.version = version[m] + 1
               /\ e.sequence = event_sequence + 1
               /\ \A f \in conversation_events : f.sequence \in 1..event_sequence
               /\ EventsOf(m)' = EventsOf(m) \cup {e}
               /\ \A n : n # m => EventsOf(n)' = EventsOf(n)
  BY <1>1, AppendAdds DEF Logs
<1>3. ASSUME NEW n \in Message, n # m PROVE DeletionLast(n)'
  BY <1>2, <1>3, TombstonesParts DEF DeletionLast
<1>4. \A f \in EventsOf(m) : f.kind # "message.deleted"
  BY DEF Tombstones
<1>5. \A f \in EventsOf(m) : f.version \in 1..version[m] /\ f.sequence \in 1..event_sequence
  BY <1>2 DEF VersionsLogged, EventsOf
<1>6. \A f \in EventsOf(m)' : f = e \/ f \in EventsOf(m)
  BY <1>2
<1>7. \A f, g \in EventsOf(m)' :
        f.kind = "message.deleted" => g.sequence <= f.sequence /\ g.version <= f.version
  <2> SUFFICES ASSUME NEW f \in EventsOf(m)', NEW g \in EventsOf(m)',
                      f.kind = "message.deleted"
               PROVE  g.sequence <= f.sequence /\ g.version <= f.version
    OBVIOUS
  <2>1. f = e
    BY <1>4, <1>6
  <2>2. g = e \/ g \in EventsOf(m)
    BY <1>6
  <2> QED BY <2>1, <2>2, <1>1, <1>2, <1>5
<1>8. (status'[m] = "deleted") <=> \E f \in EventsOf(m)' : f.kind = "message.deleted"
  <2>1. e \in EventsOf(m)'
    BY <1>2
  <2> QED BY <2>1, <1>2, <1>4, <1>6
<1>9. DeletionLast(m)'
  BY <1>7, <1>8 DEF DeletionLast
<1> QED BY <1>3, <1>9

LEMMA DeletionLastQuiet ==
  ASSUME ContentTypeOK, Tombstones,
         \A m \in Message : EventsOf(m)' = EventsOf(m)
                            /\ (status'[m] = "deleted" <=> status[m] = "deleted")
  PROVE  \A n \in Message : DeletionLast(n)'
BY TombstonesParts DEF DeletionLast

\* What a step leaves of a message it is not about.
LEMMA ContentKept ==
  ASSUME Tombstones, NEW n \in Message,
         body'[n] = body[n], reply_to'[n] = reply_to[n], origin'[n] = origin[n],
         n \in indexed' <=> n \in indexed, n \in pins' => n \in pins,
         \A r \in reactions' : r[1] = n => r \in reactions,
         \A l \in links' : l[1] = n => l \in links,
         status'[n] = status[n] \/ {status[n], status'[n]} \subseteq {"active", "expired"}
  PROVE  Content(n)'
<1>1. Content(n)
  BY TombstonesParts
<1> QED BY <1>1 DEF Content, Bare

\* Every step keeps tombstones final and bare.
LEMMA TombstonesStep ==
  ASSUME MemberInv, ContentTypeOK, RowsComplete, VersionsLogged, EventsTyped, Tombstones,
         [Next]_vars
  PROVE  Tombstones'
<1> USE DEF Live, Exists
<1>1. ASSUME NEW u \in User, NEW c \in Client, NEW m \in Message, Stored(u, c, m)
      PROVE  Tombstones'
  <2>1. PICK command \in SendCommand \cup ForwardCommand, kind \in {"TEXT", "IMAGE"},
             content \in Body, reply \in Message \cup {None}, source \in Message \cup {None},
             author \in User \cup {None} :
          /\ Store(u, c, m, command, kind, content, reply, source, author)
          /\ Attaches(m, kind)
    BY <1>1 DEF Stored
  <2>2. /\ status' = [status EXCEPT ![m] = "active"]
        /\ body' = [body EXCEPT ![m] = content]
        /\ reply_to' = [reply_to EXCEPT ![m] = reply]
        /\ origin' = [origin EXCEPT ![m] = author]
        /\ indexed' = indexed \cup {m}
        /\ UNCHANGED <<reactions, pins>>
    BY <2>1 DEF Store, relationVars
  <2>3. \A l \in links' : l \in links \/ l[1] = m
    BY <2>1 DEF Attaches
  <2>4. /\ version[m] + 1 = 1
        /\ Logs(m, "message.created", version[m] + 1)
        /\ status[m] # "deleted"
    BY <1>1, StoredLogs DEF RowsComplete
  <2>5. \A n \in Message : DeletionLast(n)'
    BY <2>2, <2>4, DeletionLastLogs DEF ContentTypeOK
  <2>6. \A n \in Message : n # m => Content(n)'
    BY <2>2, <2>3, ContentKept DEF ContentTypeOK
  <2>7. Content(m)'
    BY <2>2, ConversationAssumption DEF Content, ContentTypeOK
  <2> QED BY <2>5, <2>6, <2>7, TombstonesParts
<1>2. ASSUME NEW u \in User, NEW m \in Message, NEW b \in Body, Edit(u, m, b)
      PROVE  Tombstones'
  <2>1. /\ body' = [body EXCEPT ![m] = b]
        /\ indexed' = (indexed \ {m}) \cup {m}
        /\ UNCHANGED <<status, reply_to, origin, reactions, pins, links>>
        /\ status[m] = "active"
    BY <1>2 DEF Edit, relationVars, attachmentVars
  <2>2. \A n \in Message : DeletionLast(n)'
    BY <1>2, <2>1, EditLogs, DeletionLastLogs
  <2>3. \A n \in Message : n # m => Content(n)'
    BY <2>1, ContentKept DEF ContentTypeOK
  <2>4. Content(m)'
    BY <2>1, ConversationAssumption DEF Content, ContentTypeOK
  <2> QED BY <2>2, <2>3, <2>4, TombstonesParts
<1>3. ASSUME NEW u \in User, NEW m \in Message, Delete(u, m) PROVE Tombstones'
  <2>1. /\ status' = [status EXCEPT ![m] = "deleted"]
        /\ body' = [body EXCEPT ![m] = Wiped]
        /\ origin' = [origin EXCEPT ![m] = None]
        /\ reply_to' = [reply_to EXCEPT ![m] = None]
        /\ indexed' = indexed \ {m}
        /\ reactions' = {r \in reactions : r[1] # m}
        /\ pins' = pins \ {m}
        /\ links' = {l \in links : l[1] # m}
        /\ status[m] # "deleted"
    BY <1>3 DEF Delete
  <2>2. \A n \in Message : DeletionLast(n)'
    BY <1>3, <2>1, DeleteLogs, DeletionLastLogs DEF ContentTypeOK
  <2>3. \A n \in Message : n # m => Content(n)'
    BY <2>1, ContentKept DEF ContentTypeOK
  <2>4. Content(m)'
    BY <2>1 DEF Content, Bare, ContentTypeOK
  <2> QED BY <2>2, <2>3, <2>4, TombstonesParts
<1>4. ASSUME NEW u \in User, NEW m \in Message, Related(u, m) PROVE Tombstones'
  <2>1. /\ UNCHANGED <<status, body, reply_to, origin, indexed, links>>
        /\ status[m] = "active"
        /\ \A r \in reactions' : r \in reactions \/ r \in {m} \X {u} \X Emoji
        /\ pins' \subseteq pins \cup {m}
    BY <1>4 DEF Related, Publish, publishFrame, attachmentVars
  <2>2. \A n \in Message : DeletionLast(n)'
    BY <1>4, <2>1, RelatedLogs, DeletionLastLogs DEF ContentKinds
  <2>3. \A n \in Message : n # m => Content(n)'
    BY <2>1, ContentKept DEF ContentTypeOK
  <2>4. Content(m)'
    BY <2>1, TombstonesParts DEF Content
  <2> QED BY <2>2, <2>3, <2>4, TombstonesParts
<1>5. ASSUME NEW m \in Message, Expire(m) PROVE Tombstones'
  <2>1. /\ status' = [status EXCEPT ![m] = "expired"]
        /\ UNCHANGED <<body, reply_to, origin, indexed, reactions, pins, links,
                       conversation_events>>
        /\ status[m] = "active"
    BY <1>5, QuietLog DEF Expire, relationVars, attachmentVars
  <2>2. \A n \in Message : DeletionLast(n)'
    BY <2>1, DeletionLastQuiet DEF EventsOf, ContentTypeOK
  <2>3. \A n \in Message : Content(n)'
    BY <2>1, ContentKept DEF ContentTypeOK
  <2> QED BY <2>2, <2>3, TombstonesParts
<1>6. ASSUME UNCHANGED <<messageVars, relationVars, links>>,
             \A m \in Message : EventsOf(m)' = EventsOf(m)
      PROVE  Tombstones'
  <2>1. \A n \in Message : DeletionLast(n)'
    BY <1>6, DeletionLastQuiet DEF messageVars
  <2>2. \A n \in Message : Content(n)'
    BY <1>6, ContentKept DEF messageVars, relationVars
  <2> QED BY <2>1, <2>2, TombstonesParts
<1>7. ASSUME NEW m \in Message, Lapse(m) PROVE Tombstones'
  BY <1>6, <1>7, QuietLog DEF Lapse, attachmentVars, EventsOf
<1>8. CASE Aside
  BY <1>6, <1>8, OtherEventsOf DEF Aside
<1> QED BY <1>1, <1>2, <1>3, <1>4, <1>5, <1>7, <1>8, StepClasses

-----------------------------------------------------------------------------
(* The order of messages                                                   *)

LEMMA OrderQuiet ==
  ASSUME MessageOrder, UNCHANGED <<message_sequence, sequence>>,
         \A m \in Message : Exists(m)' <=> Exists(m),
         \A e \in conversation_events' :
           e \in conversation_events \/ e.kind # "message.created"
  PROVE  MessageOrder'
BY DEF MessageOrder

\* A step that appends one event of another kind and creates no message.
LEMMA OrderLogs ==
  ASSUME MemberInv, MessageOrder, UNCHANGED <<message_sequence, sequence>>,
         \A m \in Message : Exists(m)' <=> Exists(m),
         NEW m, NEW kind, NEW v, kind # "message.created", Logs(m, kind, v)
  PROVE  MessageOrder'
<1>1. event_sequence \in Nat /\ LogDense
  BY DEF MemberInv, MemberTypeOK
<1>2. PICK e : e.kind = kind /\ conversation_events' = conversation_events \cup {e}
  BY <1>1, AppendAdds DEF Logs
<1> QED BY <1>2, OrderQuiet

\* A message that does not exist has no event.
LEMMA NoEventsYet ==
  ASSUME ContentTypeOK, RowsComplete, VersionsLogged, NEW m \in Message, status[m] = "none"
  PROVE  \A e \in conversation_events : e.ref # m
<1>1. version[m] = 0
  BY DEF RowsComplete, Exists
<1>2. {e.version : e \in EventsOf(m)} = {}
  BY <1>1 DEF VersionsLogged
<1>3. EventsOf(m) = {}
  BY <1>2
<1> QED BY <1>3 DEF EventsOf

LEMMA OrderStored ==
  ASSUME MemberInv, ContentTypeOK, RowsComplete, VersionsLogged, EventsTyped, MessageOrder,
         NEW u \in User, NEW c \in Client, NEW m \in Message, Stored(u, c, m)
  PROVE  MessageOrder'
<1> DEFINE next == message_sequence + 1
<1>1. /\ message_sequence' = next
      /\ status[m] = "none"
      /\ status' = [status EXCEPT ![m] = "active"]
      /\ sequence' = [sequence EXCEPT ![m] = next]
      /\ AppendEvent("message.created", m, 1)
  BY DEF Stored, Store, NextSequence
<1>2. message_sequence \in Nat /\ event_sequence \in Nat /\ LogDense
  BY DEF MemberInv, MemberTypeOK, ContentTypeOK
<1>3. PICK e : /\ e.kind = "message.created" /\ e.ref = m
               /\ e.sequence = event_sequence + 1
               /\ \A f \in conversation_events : f.sequence \in 1..event_sequence
               /\ conversation_events' = conversation_events \cup {e}
  BY <1>1, <1>2, AppendAdds
<1>4. \A n \in Message : sequence[n] \in 0..message_sequence
  BY DEF RowsComplete, ContentTypeOK
<1>5. /\ \A n \in Message : sequence'[n] = IF n = m THEN next ELSE sequence[n]
      /\ \A n \in Message : Exists(n)' <=> n = m \/ Exists(n)
  BY <1>1 DEF ContentTypeOK, Exists
<1>6. {sequence[n] : n \in {k \in Message : Exists(k)}}' = 1..message_sequence'
  <2>1. ASSUME NEW n \in Message, Exists(n)' PROVE sequence'[n] \in 1..next
    BY <1>2, <1>5, <2>1 DEF RowsComplete
  <2>2. ASSUME NEW i \in 1..next
        PROVE  \E n \in Message : Exists(n)' /\ sequence'[n] = i
    <3>1. CASE i = next
      BY <1>5, <3>1
    <3>2. CASE i \in 1..message_sequence
      <4>1. PICK n \in Message : Exists(n) /\ sequence[n] = i
        BY <3>2 DEF MessageOrder
      <4>2. n # m
        BY <1>1, <4>1 DEF Exists
      <4> QED BY <1>5, <4>1, <4>2
    <3> QED BY <1>2, <3>1, <3>2
  <2> HIDE DEF next
  <2>3. {sequence'[n] : n \in {k \in Message : Exists(k)'}} = 1..next
    BY <2>1, <2>2
  <2> QED BY <1>1, <2>3
<1>7. \A n, k \in Message :
        Exists(n)' /\ Exists(k)' /\ sequence'[n] = sequence'[k] => n = k
  BY <1>2, <1>4, <1>5 DEF MessageOrder
<1>8. ASSUME NEW f \in conversation_events', NEW g \in conversation_events',
             f.kind = "message.created", g.kind = "message.created",
             sequence'[f.ref] < sequence'[g.ref]
      PROVE  f.sequence < g.sequence
  <2>1. \A h \in conversation_events : h.kind = "message.created" =>
          h.ref \in Message /\ h.ref # m /\ sequence'[h.ref] = sequence[h.ref]
    BY <1>1, <1>5, NoEventsYet DEF EventsTyped
  <2>2. (f = e \/ f \in conversation_events) /\ (g = e \/ g \in conversation_events)
    BY <1>3
  <2>3. CASE f \in conversation_events /\ g \in conversation_events
    BY <1>8, <2>1, <2>3 DEF MessageOrder
  <2>4. CASE f \in conversation_events /\ g = e
    BY <1>2, <1>3, <2>4
  <2>5. CASE f = e
    <3>1. sequence'[f.ref] = next
      BY <1>3, <1>5, <2>5
    <3>2. sequence'[g.ref] \in 0..next
      BY <1>2, <1>3, <1>4, <1>5, <2>1, <2>2, <1>8
    <3> QED BY <1>2, <1>8, <3>1, <3>2
  <2> QED BY <2>2, <2>3, <2>4, <2>5
<1> QED BY <1>6, <1>7, <1>8 DEF MessageOrder

\* Every step keeps the order of messages and that of their creation events equal.
LEMMA OrderStep ==
  ASSUME MemberInv, ContentTypeOK, RowsComplete, VersionsLogged, EventsTyped, Tombstones,
         MessageOrder, [Next]_vars
  PROVE  MessageOrder'
<1> USE DEF Exists
<1>1. ASSUME NEW u \in User, NEW m \in Message, NEW b \in Body, Edit(u, m, b)
      PROVE  MessageOrder'
  BY <1>1, EditLogs, OrderLogs DEF Edit
<1>2. ASSUME NEW u \in User, NEW m \in Message, Delete(u, m) PROVE MessageOrder'
  <2>1. /\ UNCHANGED <<message_sequence, sequence>>
        /\ status[m] # "none" /\ status' = [status EXCEPT ![m] = "deleted"]
    BY <1>2 DEF Delete, MutationAccess
  <2> QED BY <1>2, <2>1, DeleteLogs, OrderLogs DEF ContentTypeOK
<1>3. ASSUME NEW u \in User, NEW m \in Message, Related(u, m) PROVE MessageOrder'
  <2>1. UNCHANGED <<message_sequence, sequence, status>>
    BY <1>3 DEF Related, Publish, publishFrame
  <2> QED BY <1>3, <2>1, RelatedLogs, OrderLogs DEF ContentKinds
<1>4. ASSUME NEW m \in Message, Expire(m) PROVE MessageOrder'
  BY <1>4, QuietLog, OrderQuiet DEF Expire, Live, ContentTypeOK
<1>5. ASSUME NEW m \in Message, Lapse(m) PROVE MessageOrder'
  BY <1>5, QuietLog, OrderQuiet DEF Lapse, messageVars
<1>6. CASE Aside
  BY <1>6, OrderQuiet DEF Aside, OtherEvents, ContentKinds, messageVars
<1> QED BY <1>1, <1>2, <1>3, <1>4, <1>5, <1>6, OrderStored, StepClasses

-----------------------------------------------------------------------------
(* Receipts of commands                                                    *)

LEMMA ReceiptsQuiet ==
  ASSUME ReceiptsValid, UNCHANGED <<sender, sequence, client, idempotency>>,
         \A m \in Message : Exists(m)' <=> Exists(m), lapsed \subseteq lapsed'
  PROVE  ReceiptsValid'
BY DEF ReceiptsValid, ReceiptsOf

LEMMA ReceiptsStored ==
  ASSUME ContentTypeOK, RowsComplete, ReceiptsValid,
         NEW u \in User, NEW c \in Client, NEW m \in Message, Stored(u, c, m)
  PROVE  ReceiptsValid'
<1> USE DEF Exists
<1>1. PICK command : idempotency' = (idempotency \ ReceiptsOf(u, c)) \cup
        {[sender |-> u, client |-> c, message |-> m, command |-> command]}
  BY DEF Stored, Store
<1> DEFINE new == [sender |-> u, client |-> c, message |-> m, command |-> command]
<1>2. /\ status[m] = "none"
      /\ status' = [status EXCEPT ![m] = "active"]
      /\ sender' = [sender EXCEPT ![m] = u]
      /\ client' = [client EXCEPT ![m] = c]
      /\ sequence' = [sequence EXCEPT ![m] = message_sequence + 1]
      /\ lapsed' = lapsed
      /\ NoLiveReceipt(u, c)
  BY DEF Stored, Store, NextSequence
<1>3. new.sender = u /\ new.client = c /\ new.message = m
  OBVIOUS
<1>4. \A r \in idempotency' : r = new \/ (r \in idempotency /\ r \notin ReceiptsOf(u, c))
  BY <1>1
<1>5. /\ new \in idempotency'
      /\ \A r \in idempotency : r \notin ReceiptsOf(u, c) => r \in idempotency'
  BY <1>1
<1> HIDE DEF new
<1>6. \A n \in Message : sequence[n] \in 0..message_sequence
  BY DEF RowsComplete, ContentTypeOK
<1>7. message_sequence \in Nat
  BY DEF ContentTypeOK
<1>8. \A n \in Message : n # m =>
        /\ status'[n] = status[n] /\ sender'[n] = sender[n]
        /\ client'[n] = client[n] /\ sequence'[n] = sequence[n]
  BY <1>2 DEF ContentTypeOK
<1>9. /\ status'[m] = "active" /\ sender'[m] = u /\ client'[m] = c
      /\ sequence'[m] = message_sequence + 1
  BY <1>2 DEF ContentTypeOK
<1>10. ASSUME NEW r \in idempotency'
       PROVE  /\ r.message \in Message /\ Exists(r.message)'
              /\ sender'[r.message] = r.sender /\ client'[r.message] = r.client
  <2>1. CASE r = new
    BY <2>1, <1>3, <1>9
  <2>2. CASE r \in idempotency
    <3>1. r.message \in Message /\ Exists(r.message) /\ r.message # m
      BY <2>2, <1>2 DEF ReceiptsValid
    <3> QED BY <2>2, <3>1, <1>8 DEF ReceiptsValid
  <2> QED BY <2>1, <2>2, <1>4
<1>11. ReceiptsOf(u, c)' = {new}
  BY <1>3, <1>4, <1>5 DEF ReceiptsOf
<1>12. ASSUME NEW s, NEW d, ~(s = u /\ d = c)
       PROVE  ReceiptsOf(s, d)' = ReceiptsOf(s, d)
  BY <1>12, <1>3, <1>4, <1>5 DEF ReceiptsOf
<1>13. ASSUME NEW n \in Message, Exists(n)'
       PROVE  \E r \in idempotency' :
                /\ ReceiptsOf(sender[n], client[n])' = {r}
                /\ sequence'[n] <= sequence'[r.message]
                /\ r.message = n \/ n \in lapsed'
  <2>1. CASE n = m
    BY <2>1, <1>3, <1>5, <1>7, <1>9, <1>11
  <2>2. CASE n # m
    <3>1. PICK r \in idempotency :
            /\ ReceiptsOf(sender[n], client[n]) = {r}
            /\ sequence[n] <= sequence[r.message]
            /\ r.message = n \/ n \in lapsed
      BY <1>8, <1>13, <2>2 DEF ReceiptsValid
    <3>2. r.message \in Message /\ r.message # m
      BY <1>2 DEF ReceiptsValid
    <3>3. CASE sender[n] = u /\ client[n] = c
      <4>1. r \in ReceiptsOf(u, c)
        BY <3>1, <3>3
      <4>2. n \in lapsed
        BY <3>1, <4>1, <1>2 DEF NoLiveReceipt
      <4>3. sequence'[n] <= sequence'[new.message]
        BY <2>2, <1>3, <1>6, <1>7, <1>8, <1>9
      <4>4. ReceiptsOf(sender[n], client[n])' = {new}
        BY <2>2, <3>3, <1>8, <1>11
      <4> QED BY <4>2, <4>3, <4>4, <1>2, <1>5
    <3>4. CASE ~(sender[n] = u /\ client[n] = c)
      <4>1. ReceiptsOf(sender[n], client[n])' = {r}
        BY <2>2, <3>1, <3>4, <1>8, <1>12
      <4>2. r \in idempotency'
        BY <4>1 DEF ReceiptsOf
      <4> QED BY <2>2, <3>1, <3>2, <4>1, <4>2, <1>2, <1>8
    <3> QED BY <3>3, <3>4
  <2> QED BY <2>1, <2>2
<1> QED BY <1>10, <1>13 DEF ReceiptsValid

\* Every step keeps one receipt for each sender and client_message_id used.
LEMMA ReceiptsStep ==
  ASSUME MemberInv, ContentTypeOK, RowsComplete, Tombstones, ReceiptsValid, [Next]_vars
  PROVE  ReceiptsValid'
<1> USE DEF Exists
<1>1. ASSUME NEW u \in User, NEW m \in Message, NEW b \in Body, Edit(u, m, b)
      PROVE  ReceiptsValid'
  BY <1>1, ReceiptsQuiet DEF Edit, dedupVars
<1>2. ASSUME NEW u \in User, NEW m \in Message, Delete(u, m) PROVE ReceiptsValid'
  BY <1>2, ReceiptsQuiet DEF Delete, MutationAccess, dedupVars, ContentTypeOK
<1>3. ASSUME NEW u \in User, NEW m \in Message, Related(u, m) PROVE ReceiptsValid'
  BY <1>3, ReceiptsQuiet DEF Related, Publish, publishFrame, dedupVars
<1>4. ASSUME NEW m \in Message, Expire(m) PROVE ReceiptsValid'
  BY <1>4, ReceiptsQuiet DEF Expire, Live, dedupVars, ContentTypeOK
<1>5. ASSUME NEW m \in Message, Lapse(m) PROVE ReceiptsValid'
  BY <1>5, ReceiptsQuiet DEF Lapse, messageVars
<1>6. CASE Aside
  BY <1>6, ReceiptsQuiet DEF Aside, messageVars, dedupVars
<1> QED BY <1>1, <1>2, <1>3, <1>4, <1>5, <1>6, ReceiptsStored, StepClasses

\* Two messages under one client_message_id share one receipt, so at most one of
\* them is the message it names.
LEMMA ReceiptsImplyRetryOnce == ContentTypeOK /\ ReceiptsValid => RetryOnce
<1> SUFFICES ASSUME ContentTypeOK, ReceiptsValid PROVE RetryOnce
  OBVIOUS
<1>1. ASSUME NEW m \in Message, NEW n \in Message, Exists(m), Exists(n), m # n,
             sender[m] = sender[n], client[m] = client[n]
      PROVE  m \in lapsed \/ n \in lapsed
  <2>1. PICK r : ReceiptsOf(sender[m], client[m]) = {r} /\ (r.message = m \/ m \in lapsed)
    BY <1>1 DEF ReceiptsValid
  <2>2. PICK t : ReceiptsOf(sender[n], client[n]) = {t} /\ (t.message = n \/ n \in lapsed)
    BY <1>1 DEF ReceiptsValid
  <2>3. r = t
    BY <1>1, <2>1, <2>2
  <2> QED BY <1>1, <2>1, <2>2, <2>3
<1>2. ASSUME NEW m \in Message, Exists(m)
      PROVE  \E r \in idempotency :
               /\ ReceiptsOf(sender[m], client[m]) = {r}
               /\ sender[r.message] = sender[m] /\ client[r.message] = client[m]
               /\ sequence[m] <= sequence[r.message]
  <2>1. PICK r \in idempotency :
          ReceiptsOf(sender[m], client[m]) = {r} /\ sequence[m] <= sequence[r.message]
    BY <1>2 DEF ReceiptsValid
  <2>2. r.sender = sender[m] /\ r.client = client[m]
    BY <2>1 DEF ReceiptsOf
  <2> QED BY <2>1, <2>2 DEF ReceiptsValid
<1> QED BY <1>1, <1>2 DEF RetryOnce

-----------------------------------------------------------------------------
(* Attachments                                                             *)

LEMMA LinksQuiet ==
  ASSUME ContentTypeOK, AttachmentsLinked, UNCHANGED <<type, links>>,
         \A m \in Message : status'[m] \in {"active", "expired"}
                              <=> status[m] \in {"active", "expired"},
         \A a \in Attachment : attachment_status'[a] = "attached"
                                 <=> attachment_status[a] = "attached"
  PROVE  AttachmentsLinked'
BY DEF AttachmentsLinked

LEMMA LinksStored ==
  ASSUME ContentTypeOK, Tombstones, AttachmentsLinked,
         NEW u \in User, NEW c \in Client, NEW m \in Message, Stored(u, c, m)
  PROVE  AttachmentsLinked'
<1>1. PICK kind \in {"TEXT", "IMAGE"} :
        /\ Attaches(m, kind)
        /\ type' = [type EXCEPT ![m] = kind]
        /\ status' = [status EXCEPT ![m] = "active"]
        /\ status[m] = "none"
  BY DEF Stored, Store
<1>2. \A l \in links : l \in Message \X Attachment /\ l[1] # m
  BY <1>1 DEF Tombstones, Bare, ContentTypeOK
<1>3. \A n \in Message : n # m => type'[n] = type[n] /\ status'[n] = status[n]
  BY <1>1 DEF ContentTypeOK
<1>4. type'[m] = kind /\ status'[m] = "active"
  BY <1>1 DEF ContentTypeOK
<1>5. CASE kind = "IMAGE"
  <2>1. PICK a \in Attachment :
          /\ attachment_status[a] # "attached"
          /\ attachment_status' = [attachment_status EXCEPT ![a] = "attached"]
          /\ links' = links \cup {<<m, a>>}
    BY <1>1, <1>5 DEF Attaches
  <2>2. \A l \in links : l[2] # a
    <3>1. \A n \in Message : <<n, a>> \notin links
      BY <2>1 DEF AttachmentsLinked
    <3> QED BY <1>2, <3>1
  <2>3. \A b \in Attachment :
          (attachment_status'[b] = "attached") <=> \E n \in Message : <<n, b>> \in links'
    <3>1. attachment_status'[a] = "attached" /\ <<m, a>> \in links'
      BY <2>1 DEF ContentTypeOK
    <3>2. ASSUME NEW b \in Attachment, b # a
          PROVE  (attachment_status'[b] = "attached")
                   <=> \E n \in Message : <<n, b>> \in links'
      <4>1. attachment_status'[b] = attachment_status[b]
        BY <2>1, <3>2 DEF ContentTypeOK
      <4>2. \A n \in Message : <<n, b>> \in links' <=> <<n, b>> \in links
        BY <2>1, <3>2
      <4> QED BY <4>1, <4>2 DEF AttachmentsLinked
    <3> QED BY <3>1, <3>2
  <2>4. \A l, k \in links' : l[1] = k[1] \/ l[2] = k[2] => l = k
    BY <2>1, <2>2, <1>2 DEF AttachmentsLinked
  <2>5. \A n \in Message : (\E b \in Attachment : <<n, b>> \in links')
          <=> (type'[n] = "IMAGE" /\ status'[n] \in {"active", "expired"})
    <3>1. ASSUME NEW n \in Message, n # m
          PROVE  (\E b \in Attachment : <<n, b>> \in links')
                   <=> (type'[n] = "IMAGE" /\ status'[n] \in {"active", "expired"})
      BY <2>1, <1>3, <3>1 DEF AttachmentsLinked
    <3>2. <<m, a>> \in links' /\ type'[m] = "IMAGE" /\ status'[m] = "active"
      BY <2>1, <1>4, <1>5
    <3> QED BY <3>1, <3>2
  <2> QED BY <2>3, <2>4, <2>5 DEF AttachmentsLinked
<1>6. CASE kind # "IMAGE"
  <2>1. UNCHANGED <<attachment_status, links>>
    BY <1>1, <1>6 DEF Attaches
  <2>2. \A n \in Message : (\E b \in Attachment : <<n, b>> \in links)
          <=> (type'[n] = "IMAGE" /\ status'[n] \in {"active", "expired"})
    <3>1. ASSUME NEW n \in Message, n # m
          PROVE  (\E b \in Attachment : <<n, b>> \in links)
                   <=> (type'[n] = "IMAGE" /\ status'[n] \in {"active", "expired"})
      BY <1>3, <3>1 DEF AttachmentsLinked
    <3>2. \A b \in Attachment : <<m, b>> \notin links
      BY <1>2
    <3> QED BY <3>1, <3>2, <1>4, <1>6
  <2> QED BY <2>1, <2>2 DEF AttachmentsLinked
<1> QED BY <1>5, <1>6

LEMMA LinksDelete ==
  ASSUME ContentTypeOK, AttachmentsLinked,
         NEW u \in User, NEW m \in Message, Delete(u, m)
  PROVE  AttachmentsLinked'
<1> DEFINE attached == {a \in Attachment : <<m, a>> \in links}
<1>1. /\ status' = [status EXCEPT ![m] = "deleted"]
      /\ attachment_status' = [a \in Attachment |->
           IF a \in attached THEN "deleted" ELSE attachment_status[a]]
      /\ links' = {l \in links : l[1] # m}
      /\ type' = type
  BY DEF Delete
<1>2. \A l \in links : l \in Message \X Attachment
  BY DEF ContentTypeOK
<1>3. \A n \in Message, a \in Attachment :
        <<n, a>> \in links' <=> <<n, a>> \in links /\ n # m
  BY <1>1
<1>4. ASSUME NEW a \in Attachment
      PROVE  (attachment_status'[a] = "attached") <=> \E n \in Message : <<n, a>> \in links'
  <2>1. CASE <<m, a>> \in links
    <3>1. \A n \in Message : <<n, a>> \in links => n = m
      <4>1. \A l, k \in links : l[2] = k[2] => l = k
        BY DEF AttachmentsLinked
      <4>2. ASSUME NEW n \in Message, <<n, a>> \in links PROVE n = m
        <5>1. <<n, a>> = <<m, a>>
          BY <4>1, <4>2, <2>1
        <5> QED BY <5>1
      <4> QED BY <4>2
    <3>2. attachment_status'[a] = "deleted"
      BY <2>1, <1>1
    <3> QED BY <1>3, <3>1, <3>2
  <2>2. CASE <<m, a>> \notin links
    <3>1. attachment_status'[a] = attachment_status[a]
      BY <2>2, <1>1
    <3>2. (attachment_status[a] = "attached") <=> \E n \in Message : <<n, a>> \in links
      BY DEF AttachmentsLinked
    <3>3. \A n \in Message : <<n, a>> \in links' <=> <<n, a>> \in links
      BY <1>3, <2>2
    <3> QED BY <3>1, <3>2, <3>3
  <2> QED BY <2>1, <2>2
<1>5. \A l, k \in links' : l[1] = k[1] \/ l[2] = k[2] => l = k
  BY <1>1 DEF AttachmentsLinked
<1>6. \A n \in Message : (\E a \in Attachment : <<n, a>> \in links')
        <=> (type'[n] = "IMAGE" /\ status'[n] \in {"active", "expired"})
  <2>1. status'[m] = "deleted" /\ \A a \in Attachment : <<m, a>> \notin links'
    BY <1>1, <1>3 DEF ContentTypeOK
  <2>2. ASSUME NEW n \in Message, n # m
        PROVE  (\E a \in Attachment : <<n, a>> \in links')
                 <=> (type'[n] = "IMAGE" /\ status'[n] \in {"active", "expired"})
    <3>1. status'[n] = status[n] /\ type'[n] = type[n]
      BY <1>1, <2>2 DEF ContentTypeOK
    <3>2. \A a \in Attachment : <<n, a>> \in links' <=> <<n, a>> \in links
      BY <1>3, <2>2
    <3> QED BY <3>1, <3>2 DEF AttachmentsLinked
  <2> QED BY <2>1, <2>2
<1> QED BY <1>4, <1>5, <1>6 DEF AttachmentsLinked

\* Every step keeps attachments and messages linked one to one.
LEMMA LinksStep ==
  ASSUME MemberInv, ContentTypeOK, RowsComplete, Tombstones, AttachmentsLinked, [Next]_vars
  PROVE  AttachmentsLinked'
<1>1. CASE UNCHANGED contentVars
  BY <1>1, LinksQuiet DEF contentVars, messageVars, attachmentVars
<1>2. CASE SendStep
  BY <1>2, SendStored, LinksStored DEF SendStep
<1>3. CASE ForwardStep
  BY <1>3, ForwardStored, LinksStored DEF ForwardStep
<1>4. ASSUME NEW u \in User, NEW m \in Message, NEW b \in Body, Edit(u, m, b)
      PROVE  AttachmentsLinked'
  BY <1>4, LinksQuiet DEF Edit, attachmentVars
<1>5. CASE MutationStep
  BY <1>5, <1>4, LinksDelete DEF MutationStep
<1>6. ASSUME NEW u \in User, NEW m \in Message, Related(u, m) PROVE AttachmentsLinked'
  BY <1>6, LinksQuiet DEF Related, Publish, publishFrame, attachmentVars
<1>7. CASE RelationStep
  BY <1>7, <1>6, RelationRelated, PinRelated DEF RelationStep
<1>8. CASE ReceiptStep
  BY <1>8, LinksQuiet DEF ReceiptStep, Receipt, messageVars, attachmentVars
<1>9. CASE TimeStep
  BY <1>9, LinksQuiet DEF TimeStep, Expire, Lapse, Live, messageVars, attachmentVars,
                          ContentTypeOK
<1>10. CASE UploadStep
  BY <1>10, LinksQuiet DEF UploadStep, Upload, Reclaim, messageVars, ContentTypeOK
<1>11. CASE BlacklistStep
  BY <1>11, LinksQuiet DEF BlacklistStep, UpdateBlacklist, messageVars, attachmentVars
<1> QED BY <1>1, <1>2, <1>3, <1>5, <1>7, <1>8, <1>9, <1>10, <1>11 DEF Next, vars

-----------------------------------------------------------------------------
(* The preview                                                             *)

LEMMA PreviewQuiet ==
  ASSUME ContentTypeOK, LastMessageValid, UNCHANGED <<last_message_id, sequence>>,
         \A m \in Message :
           \/ status'[m] = status[m]
           \/ status[m] = "active" /\ status'[m] = "expired"
  PROVE  LastMessageValid'
BY DEF LastMessageValid, Live, ContentTypeOK

\* Every step keeps the preview of the conversation.
LEMMA PreviewStep ==
  ASSUME MemberInv, ContentTypeOK, RowsComplete, Tombstones, LastMessageValid, [Next]_vars
  PROVE  LastMessageValid'
<1>1. ASSUME NEW u \in User, NEW c \in Client, NEW m \in Message, Stored(u, c, m)
      PROVE  LastMessageValid'
  <2>1. /\ last_message_id' = m
        /\ status' = [status EXCEPT ![m] = "active"]
        /\ sequence' = [sequence EXCEPT ![m] = message_sequence + 1]
    BY <1>1 DEF Stored, Store, NextSequence
  <2>2. \A n \in Message : sequence[n] \in 0..message_sequence
    BY DEF RowsComplete, ContentTypeOK
  <2> QED BY <2>1, <2>2, ConversationAssumption DEF LastMessageValid, Live, ContentTypeOK
<1>2. ASSUME NEW u \in User, NEW m \in Message, NEW b \in Body, Edit(u, m, b)
      PROVE  LastMessageValid'
  BY <1>2, PreviewQuiet DEF Edit
<1>3. ASSUME NEW u \in User, NEW m \in Message, Delete(u, m) PROVE LastMessageValid'
  <2>1. /\ status' = [status EXCEPT ![m] = "deleted"]
        /\ sequence' = sequence
        /\ last_message_id' = LatestLive(m)
    BY <1>3 DEF Delete
  <2>2. \A n \in Message : Live(n)' <=> n # m /\ Live(n)
    BY <2>1 DEF Live, ContentTypeOK
  <2>3. \A n \in Message : n # m => status'[n] = status[n]
    BY <2>1 DEF ContentTypeOK
  <2>4. LatestLive(m) # None =>
          LatestLive(m) \in Message \ {m} /\ status[LatestLive(m)] = "active"
    BY LatestLiveIsLatest DEF Live
  <2>5. \A n \in Message : Live(n)' =>
          last_message_id' # None /\ sequence'[n] <= sequence'[last_message_id']
    BY <2>1, <2>2, LatestLiveIsLatest
  <2>6. last_message_id' # None => status'[last_message_id'] \in {"active", "expired"}
    BY <2>1, <2>3, <2>4
  <2> QED BY <2>5, <2>6 DEF LastMessageValid
<1>4. ASSUME NEW u \in User, NEW m \in Message, Related(u, m) PROVE LastMessageValid'
  BY <1>4, PreviewQuiet DEF Related, Publish, publishFrame
<1>5. ASSUME NEW m \in Message, Expire(m) PROVE LastMessageValid'
  BY <1>5, PreviewQuiet DEF Expire, Live, ContentTypeOK
<1>6. ASSUME NEW m \in Message, Lapse(m) PROVE LastMessageValid'
  BY <1>6, PreviewQuiet DEF Lapse, messageVars
<1>7. CASE Aside
  BY <1>7, PreviewQuiet DEF Aside, messageVars
<1> QED BY <1>1, <1>2, <1>3, <1>4, <1>5, <1>6, <1>7, StepClasses

-----------------------------------------------------------------------------
(* Forwards                                                                *)

LEMMA OriginsQuiet ==
  ASSUME ContentTypeOK, OriginsKept, UNCHANGED <<sender, sequence, forwarded_from>>,
         \A m \in Message :
           /\ Exists(m)' <=> Exists(m)
           /\ \/ origin'[m] = origin[m]
              \/ origin'[m] = None /\ status'[m] = "deleted"
           /\ status'[m] # "deleted" => status[m] # "deleted"
  PROVE  OriginsKept'
<1>1. PICK author \in [Message -> User \cup {None}] : Authored(author)
  BY DEF OriginsKept
<1>2. ASSUME NEW m \in Message, Exists(m)'
      PROVE  /\ author[m] \in User
             /\ forwarded_from'[m] = None => author[m] = sender'[m] /\ origin'[m] = None
             /\ forwarded_from'[m] # None =>
                  /\ Exists(forwarded_from[m])'
                  /\ sequence'[forwarded_from'[m]] < sequence'[m]
                  /\ author[m] = author[forwarded_from'[m]]
                  /\ status'[m] # "deleted" => origin'[m] = author[m]
  <2>1. Exists(m)
    BY <1>2
  <2>2. forwarded_from[m] # None => forwarded_from[m] \in Message
    BY DEF ContentTypeOK
  <2>3. forwarded_from[m] # None => Exists(forwarded_from[m])'
    BY <1>1, <2>1, <2>2 DEF Authored
  <2> QED BY <1>1, <2>1, <2>3 DEF Authored
<1>3. Authored(author)'
  BY <1>2 DEF Authored
<1> QED BY <1>3 DEF OriginsKept

\* The author snapshot of a forward is the author of the source's chain.
LEMMA OriginsStored ==
  ASSUME ContentTypeOK, RowsComplete, OriginsKept,
         NEW u \in User, NEW c \in Client, NEW m \in Message, Stored(u, c, m)
  PROVE  OriginsKept'
<1> USE DEF Exists
<1>0. PICK command \in SendCommand \cup ForwardCommand, kind \in {"TEXT", "IMAGE"},
           content \in Body, reply \in Message \cup {None}, source \in Message \cup {None},
           by \in User \cup {None} :
        /\ Store(u, c, m, command, kind, content, reply, source, by)
        /\ source = None => by = None
        /\ source # None => Live(source) /\ by = OriginalSender(source)
  BY DEF Stored
<1>1. /\ source \in Message \cup {None} /\ by \in User \cup {None}
      /\ forwarded_from' = [forwarded_from EXCEPT ![m] = source]
      /\ origin' = [origin EXCEPT ![m] = by]
      /\ source = None => by = None
      /\ source # None => Live(source) /\ by = OriginalSender(source)
  BY <1>0 DEF Store
<1>2. /\ status[m] = "none"
      /\ status' = [status EXCEPT ![m] = "active"]
      /\ sender' = [sender EXCEPT ![m] = u]
      /\ sequence' = [sequence EXCEPT ![m] = message_sequence + 1]
  BY DEF Stored, Store, NextSequence
<1>3. PICK author \in [Message -> User \cup {None}] : Authored(author)
  BY DEF OriginsKept
<1> DEFINE next == [author EXCEPT ![m] = IF source = None THEN u ELSE author[source]]
<1>4. next \in [Message -> User \cup {None}]
  BY <1>1
<1>5. ASSUME NEW n \in Message, n # m, Exists(n)'
      PROVE  /\ next[n] \in User
             /\ forwarded_from'[n] = None => next[n] = sender'[n] /\ origin'[n] = None
             /\ forwarded_from'[n] # None =>
                  /\ Exists(forwarded_from[n])'
                  /\ sequence'[forwarded_from'[n]] < sequence'[n]
                  /\ next[n] = next[forwarded_from'[n]]
                  /\ status'[n] # "deleted" => origin'[n] = next[n]
  <2>1. Exists(n) /\ next[n] = author[n]
    BY <1>2, <1>5 DEF ContentTypeOK
  <2>2. /\ status'[n] = status[n] /\ sender'[n] = sender[n] /\ sequence'[n] = sequence[n]
        /\ forwarded_from'[n] = forwarded_from[n] /\ origin'[n] = origin[n]
    BY <1>1, <1>2, <1>5 DEF ContentTypeOK
  <2>3. CASE forwarded_from[n] = None
    BY <1>3, <2>1, <2>2, <2>3 DEF Authored
  <2>4. CASE forwarded_from[n] # None
    <3> DEFINE s == forwarded_from[n]
    <3>1. s \in Message /\ Exists(s) /\ s # m
      BY <1>2, <1>3, <2>1, <2>4 DEF Authored, ContentTypeOK
    <3>2. status'[s] = status[s] /\ sequence'[s] = sequence[s] /\ next[s] = author[s]
      BY <1>2, <3>1 DEF ContentTypeOK
    <3> QED BY <1>3, <2>1, <2>2, <2>4, <3>1, <3>2 DEF Authored
  <2> QED BY <2>3, <2>4
<1>6. /\ sender'[m] = u /\ sequence'[m] = message_sequence + 1
      /\ forwarded_from'[m] = source /\ origin'[m] = by
      /\ next[m] = IF source = None THEN u ELSE author[source]
  BY <1>1, <1>2 DEF ContentTypeOK
<1>7. CASE source = None
  <2>1. Authored(next)'
    BY <1>1, <1>5, <1>6, <1>7 DEF Authored
  <2> QED BY <1>4, <2>1 DEF OriginsKept
<1>8. CASE source # None
  <2>1. source \in Message /\ source # m /\ Exists(source) /\ status[source] = "active"
    BY <1>1, <1>2, <1>8 DEF Live
  <2>2. /\ sequence'[source] = sequence[source] /\ status'[source] = status[source]
        /\ next[source] = author[source]
    BY <1>2, <2>1 DEF ContentTypeOK
  <2>3. sequence'[source] < sequence'[m]
    BY <1>6, <2>1, <2>2 DEF RowsComplete, ContentTypeOK
  <2>4. author[source] \in User /\ by = author[source]
    <3>1. CASE forwarded_from[source] = None
      BY <1>1, <1>3, <1>8, <2>1, <3>1 DEF Authored, OriginalSender
    <3>2. CASE forwarded_from[source] # None
      <4>1. author[source] \in User /\ origin[source] = author[source]
        BY <1>3, <2>1, <3>2 DEF Authored
      <4> QED BY <1>1, <1>8, <4>1, MembershipAssumption DEF OriginalSender
    <3> QED BY <3>1, <3>2
  <2>5. Authored(next)'
    BY <1>5, <1>6, <1>8, <2>1, <2>2, <2>3, <2>4 DEF Authored
  <2> QED BY <1>4, <2>5 DEF OriginsKept
<1> QED BY <1>7, <1>8

\* Every step keeps the author snapshots true to the chains of forwards.
LEMMA OriginsStep ==
  ASSUME MemberInv, ContentTypeOK, RowsComplete, Tombstones, OriginsKept, [Next]_vars
  PROVE  OriginsKept'
<1> USE DEF Exists
<1>1. ASSUME NEW u \in User, NEW m \in Message, NEW b \in Body, Edit(u, m, b)
      PROVE  OriginsKept'
  BY <1>1, OriginsQuiet DEF Edit
<1>2. ASSUME NEW u \in User, NEW m \in Message, Delete(u, m) PROVE OriginsKept'
  <2>1. /\ status' = [status EXCEPT ![m] = "deleted"]
        /\ origin' = [origin EXCEPT ![m] = None]
        /\ UNCHANGED <<sender, sequence, forwarded_from>>
        /\ status[m] # "none" /\ status[m] # "deleted"
    BY <1>2 DEF Delete, MutationAccess
  <2> QED BY <2>1, OriginsQuiet DEF ContentTypeOK
<1>3. ASSUME NEW u \in User, NEW m \in Message, Related(u, m) PROVE OriginsKept'
  BY <1>3, OriginsQuiet DEF Related, Publish, publishFrame
<1>4. ASSUME NEW m \in Message, Expire(m) PROVE OriginsKept'
  BY <1>4, OriginsQuiet DEF Expire, Live, ContentTypeOK
<1>5. ASSUME NEW m \in Message, Lapse(m) PROVE OriginsKept'
  BY <1>5, OriginsQuiet DEF Lapse, messageVars
<1>6. CASE Aside
  BY <1>6, OriginsQuiet DEF Aside, messageVars
<1> QED BY <1>1, <1>2, <1>3, <1>4, <1>5, <1>6, OriginsStored, StepClasses

-----------------------------------------------------------------------------
(* Reactions and pins                                                      *)

PinsBounded == IsFiniteSet(pins) /\ Cardinality({m \in pins : Live(m)}) <= MaxPins
KindsBounded(m) == IsFiniteSet(KindsOn(m)) /\ Cardinality(KindsOn(m)) <= MaxKinds

LEMMA RelationsParts ==
  /\ RelationsFinite /\ RelationsBounded <=>
       PinsBounded /\ \A m \in Message : KindsBounded(m)
  /\ (RelationsFinite /\ RelationsBounded)' <=>
       PinsBounded' /\ \A m \in Message : KindsBounded(m)'
BY DEF RelationsFinite, RelationsBounded, PinsBounded, KindsBounded

\* A part of a set within a cap is within the cap.
LEMMA SubsetBounded ==
  ASSUME NEW S, IsFiniteSet(S), NEW cap \in Nat, Cardinality(S) <= cap, NEW T \in SUBSET S
  PROVE  IsFiniteSet(T) /\ Cardinality(T) <= cap
<1>1. IsFiniteSet(T) /\ Cardinality(T) <= Cardinality(S)
  BY FS_Subset
<1>2. Cardinality(S) \in Nat /\ Cardinality(T) \in Nat
  BY <1>1, FS_CardinalityType
<1> QED BY <1>1, <1>2

\* A set below a cap is within it with one more element.
LEMMA AddBounded ==
  ASSUME NEW S, IsFiniteSet(S), NEW cap \in Nat, Cardinality(S) < cap, NEW x
  PROVE  IsFiniteSet(S \cup {x}) /\ Cardinality(S \cup {x}) <= cap
<1>1. /\ IsFiniteSet(S \cup {x})
      /\ Cardinality(S \cup {x}) = Cardinality(S)
           \/ Cardinality(S \cup {x}) = Cardinality(S) + 1
  BY FS_AddElement
<1>2. Cardinality(S) \in Nat
  BY FS_CardinalityType
<1> QED BY <1>1, <1>2

LEMMA PinsShrink ==
  ASSUME PinsBounded, pins' \subseteq pins, \A m \in pins' : Live(m)' => Live(m)
  PROVE  PinsBounded'
<1>1. IsFiniteSet(pins') /\ IsFiniteSet({m \in pins : Live(m)})
  BY FS_Subset DEF PinsBounded
<1>2. {m \in pins' : Live(m)'} \in SUBSET {m \in pins : Live(m)}
  OBVIOUS
<1>3. Cardinality({m \in pins' : Live(m)'}) <= MaxPins
  BY <1>1, <1>2, SubsetBounded, ConversationAssumption DEF PinsBounded
<1> QED BY <1>1, <1>3 DEF PinsBounded

LEMMA KindsShrink ==
  ASSUME NEW m \in Message, KindsBounded(m), \A r \in reactions' : r[1] = m => r \in reactions
  PROVE  KindsBounded(m)'
<1>1. KindsOn(m)' \in SUBSET KindsOn(m)
  BY DEF KindsOn
<1>2. IsFiniteSet(KindsOn(m)') /\ Cardinality(KindsOn(m)') <= MaxKinds
  BY <1>1, SubsetBounded, ConversationAssumption DEF KindsBounded
<1> QED BY <1>2 DEF KindsBounded

\* A step that adds no relation.
LEMMA RelationsShrink ==
  ASSUME RelationsFinite, RelationsBounded, pins' \subseteq pins,
         reactions' \subseteq reactions, \A m \in pins' : Live(m)' => Live(m)
  PROVE  RelationsFinite' /\ RelationsBounded'
BY RelationsParts, PinsShrink, KindsShrink

LEMMA ReactBounded ==
  ASSUME ContentTypeOK, RelationsFinite, RelationsBounded,
         NEW u \in User, NEW m \in Message, NEW e \in Emoji, React(u, m, e)
  PROVE  RelationsFinite' /\ RelationsBounded'
<1>1. /\ KindAllowed(m, e)
      /\ reactions' = reactions \cup {<<m, u, e>>}
      /\ UNCHANGED <<pins, status>>
  BY DEF React, Publish, publishFrame
<1>2. PinsBounded'
  BY <1>1, RelationsParts, PinsShrink DEF Live
<1>3. ASSUME NEW n \in Message, n # m PROVE KindsBounded(n)'
  <2>1. \A r \in reactions' : r[1] = n => r \in reactions
    BY <1>1, <1>3
  <2> QED BY <2>1, RelationsParts, KindsShrink
<1>4. KindsBounded(m)'
  <2>1. KindsOn(m)' = KindsOn(m) \cup {e}
    <3>1. \A w \in User : \A k : <<m, w, k>> \in reactions'
            <=> <<m, w, k>> \in reactions \/ (w = u /\ k = e)
      BY <1>1
    <3> QED BY <3>1 DEF KindsOn
  <2>2. KindsBounded(m)
    BY RelationsParts
  <2>3. CASE e \in KindsOn(m)
    <3>1. KindsOn(m)' = KindsOn(m)
      BY <2>1, <2>3
    <3> QED BY <2>2, <3>1 DEF KindsBounded
  <2>4. CASE e \notin KindsOn(m)
    <3>1. Cardinality(KindsOn(m)) < MaxKinds
      BY <1>1, <2>4 DEF KindAllowed
    <3>2. IsFiniteSet(KindsOn(m)') /\ Cardinality(KindsOn(m)') <= MaxKinds
      BY <2>1, <2>2, <3>1, AddBounded, ConversationAssumption DEF KindsBounded
    <3> QED BY <3>2 DEF KindsBounded
  <2> QED BY <2>3, <2>4
<1> QED BY <1>2, <1>3, <1>4, RelationsParts

LEMMA PinBounded ==
  ASSUME ContentTypeOK, RelationsFinite, RelationsBounded,
         NEW u \in User, NEW m \in Message, Pin(u, m)
  PROVE  RelationsFinite' /\ RelationsBounded'
<1> DEFINE S == {n \in pins : Live(n)}
<1>1. /\ Cardinality(S) < MaxPins
      /\ pins' = pins \cup {m}
      /\ UNCHANGED <<reactions, status>>
      /\ Live(m)
  BY DEF Pin, PinAccess, RelationAccess, Publish, publishFrame
<1>2. IsFiniteSet(pins) /\ IsFiniteSet(S) /\ IsFiniteSet(pins')
  BY <1>1, FS_Subset, FS_AddElement DEF RelationsFinite
<1>3. {n \in pins' : Live(n)'} = S \cup {m}
  BY <1>1 DEF Live
<1> HIDE DEF S
<1>4. Cardinality({n \in pins' : Live(n)'}) <= MaxPins
  BY <1>1, <1>2, <1>3, AddBounded, ConversationAssumption
<1>5. PinsBounded'
  BY <1>2, <1>4 DEF PinsBounded
<1>6. \A n \in Message : KindsBounded(n)'
  BY <1>1, RelationsParts, KindsShrink
<1> QED BY <1>5, <1>6, RelationsParts

\* Every step keeps reactions and pins within their caps.
LEMMA RelationsStep ==
  ASSUME MemberInv, ContentTypeOK, RowsComplete, Tombstones,
         RelationsFinite, RelationsBounded, [Next]_vars
  PROVE  RelationsFinite' /\ RelationsBounded'
<1> USE DEF Live
<1>1. ASSUME NEW u \in User, NEW c \in Client, NEW m \in Message, Stored(u, c, m)
      PROVE  RelationsFinite' /\ RelationsBounded'
  <2>1. /\ status[m] = "none" /\ status' = [status EXCEPT ![m] = "active"]
        /\ UNCHANGED <<reactions, pins>>
    BY <1>1 DEF Stored, Store, relationVars
  <2>2. m \notin pins
    BY <2>1 DEF Tombstones, Bare
  <2> QED BY <2>1, <2>2, RelationsShrink DEF ContentTypeOK
<1>2. ASSUME NEW u \in User, NEW m \in Message, NEW b \in Body, Edit(u, m, b)
      PROVE  RelationsFinite' /\ RelationsBounded'
  BY <1>2, RelationsShrink DEF Edit, relationVars
<1>3. ASSUME NEW u \in User, NEW m \in Message, Delete(u, m)
      PROVE  RelationsFinite' /\ RelationsBounded'
  <2>1. /\ status' = [status EXCEPT ![m] = "deleted"]
        /\ reactions' \subseteq reactions /\ pins' \subseteq pins
    BY <1>3 DEF Delete
  <2> QED BY <2>1, RelationsShrink DEF ContentTypeOK
<1>4. CASE RelationStep
  <2>1. ASSUME NEW u \in User, NEW m \in Message, NEW e \in Emoji, Unreact(u, m, e)
        PROVE  RelationsFinite' /\ RelationsBounded'
    BY <2>1, RelationsShrink DEF Unreact, Publish, publishFrame
  <2>2. ASSUME NEW u \in User, NEW m \in Message, Unpin(u, m)
        PROVE  RelationsFinite' /\ RelationsBounded'
    BY <2>2, RelationsShrink DEF Unpin, Publish, publishFrame
  <2> QED BY <1>4, <2>1, <2>2, ReactBounded, PinBounded DEF RelationStep
<1>5. CASE TimeStep
  <2>1. UNCHANGED <<reactions, pins>> /\ \A n \in Message : Live(n)' => Live(n)
    BY <1>5 DEF TimeStep, Expire, Lapse, relationVars, messageVars, ContentTypeOK
  <2> QED BY <2>1, RelationsShrink DEF ContentTypeOK
<1>6. ASSUME UNCHANGED <<messageVars, relationVars>>
      PROVE  RelationsFinite' /\ RelationsBounded'
  BY <1>6, RelationsShrink DEF messageVars, relationVars
<1>7. CASE Aside
  BY <1>6, <1>7 DEF Aside
<1>8. CASE SendStep \/ ForwardStep
  BY <1>1, <1>8, SendStored, ForwardStored DEF SendStep, ForwardStep
<1>9. CASE MutationStep
  BY <1>2, <1>3, <1>9 DEF MutationStep
<1>10. CASE ReceiptStep \/ UploadStep \/ BlacklistStep \/ UNCHANGED contentVars
  BY <1>6, <1>10 DEF ReceiptStep, UploadStep, BlacklistStep, Receipt, Upload, Reclaim,
                     UpdateBlacklist, contentVars
<1> QED BY <1>4, <1>5, <1>8, <1>9, <1>10 DEF Next, vars

\* The chain of forwards that RootAuthor follows is the one the snapshots were taken
\* along: RootAuthor has a value for every message, and it is the author.
LEMMA RootAuthorIsAuthor ==
  ASSUME ContentTypeOK, RowsComplete, MessageOrder,
         NEW author \in [Message -> User \cup {None}], Authored(author)
  PROVE  \A m \in Message : Exists(m) => RootAuthor[sequence[m]] = author[m]
<1> DEFINE At(i) == CHOOSE m \in Message : sequence[m] = i
           Follow(g) == [i \in 1..message_sequence |->
                           IF forwarded_from[At(i)] = None THEN sender[At(i)]
                           ELSE g[sequence[forwarded_from[At(i)]]]]
           witness == [i \in 1..message_sequence |-> author[At(i)]]
<1>1. RootAuthor = CHOOSE g : g = Follow(g)
  BY DEF RootAuthor
<1>2. ASSUME NEW m \in Message, Exists(m)
      PROVE  sequence[m] \in 1..message_sequence /\ At(sequence[m]) = m
  <2>1. sequence[m] \in 1..message_sequence
    BY <1>2 DEF RowsComplete
  <2>2. \A n \in Message : sequence[n] = sequence[m] => n = m
    <3>1. \A n \in Message : sequence[n] = sequence[m] => Exists(n)
      BY <2>1 DEF RowsComplete, ContentTypeOK
    <3> QED BY <1>2, <3>1 DEF MessageOrder
  <2> QED BY <2>1, <2>2
<1>3. ASSUME NEW i \in 1..message_sequence
      PROVE  At(i) \in Message /\ Exists(At(i)) /\ sequence[At(i)] = i
  <2>1. PICK m \in Message : Exists(m) /\ sequence[m] = i
    BY DEF MessageOrder
  <2>2. At(sequence[m]) = m
    BY <1>2, <2>1
  <2> HIDE DEF At
  <2> QED BY <2>1, <2>2
<1>4. witness = Follow(witness)
  <2>1. ASSUME NEW i \in 1..message_sequence
        PROVE  author[At(i)] = IF forwarded_from[At(i)] = None THEN sender[At(i)]
                               ELSE witness[sequence[forwarded_from[At(i)]]]
    <3> DEFINE m == At(i)
               s == forwarded_from[m]
    <3>1. m \in Message /\ Exists(m)
      BY <1>3
    <3> HIDE DEF m
    <3>2. CASE s = None
      BY <3>1, <3>2 DEF Authored, m
    <3>3. CASE s # None
      <4>1. s \in Message /\ Exists(s) /\ author[m] = author[s]
        BY <3>1, <3>3 DEF Authored, ContentTypeOK
      <4>2. sequence[s] \in 1..message_sequence /\ At(sequence[s]) = s
        BY <1>2, <4>1
      <4>3. witness[sequence[s]] = author[s]
        <5> HIDE DEF At
        <5> QED BY <4>2
      <4> QED BY <3>3, <4>1, <4>3 DEF m
    <3> QED BY <3>2, <3>3
  <2> HIDE DEF At
  <2> QED BY <2>1
<1>5. RootAuthor = Follow(RootAuthor)
  <2> HIDE DEF Follow, witness
  <2> QED BY <1>1, <1>4
<1>6. ASSUME NEW m \in Message, Exists(m)
      PROVE  RootAuthor[sequence[m]] = IF forwarded_from[m] = None THEN sender[m]
                                       ELSE RootAuthor[sequence[forwarded_from[m]]]
  <2>1. sequence[m] \in 1..message_sequence /\ At(sequence[m]) = m
    BY <1>2, <1>6
  <2> HIDE DEF At
  <2>2. Follow(RootAuthor)[sequence[m]] = IF forwarded_from[m] = None THEN sender[m]
                                          ELSE RootAuthor[sequence[forwarded_from[m]]]
    BY <2>1
  <2> QED BY <1>5, <2>2
<1> DEFINE wrong == {n \in Message : Exists(n) /\ RootAuthor[sequence[n]] # author[n]}
           S == {sequence[n] : n \in wrong}
<1>7. S = {}
  <2> SUFFICES ASSUME S # {} PROVE FALSE
    OBVIOUS
  <2>1. S \in SUBSET Nat
    BY DEF ContentTypeOK
  <2>2. PICK i \in S : \A k \in S : i <= k
    <3> HIDE DEF S
    <3> QED BY <2>1, LeastNatural
  <2>3. PICK m \in wrong : i = sequence[m]
    OBVIOUS
  <2>4. m \in Message /\ Exists(m) /\ RootAuthor[sequence[m]] # author[m]
    BY <2>3
  <2>5. forwarded_from[m] # None
    BY <1>6, <2>4 DEF Authored
  <2> DEFINE s == forwarded_from[m]
  <2>6. s \in Message /\ Exists(s) /\ sequence[s] < sequence[m] /\ author[m] = author[s]
    BY <2>4, <2>5 DEF Authored, ContentTypeOK
  <2>7. RootAuthor[sequence[m]] = RootAuthor[sequence[s]]
    BY <1>6, <2>4, <2>5
  <2>8. s \in wrong
    BY <2>4, <2>6, <2>7
  <2>9. sequence[m] <= sequence[s]
    BY <2>2, <2>3, <2>8
  <2> QED BY <2>6, <2>9 DEF ContentTypeOK
<1> QED BY <1>7

LEMMA OriginsImplyRoot ==
  ContentTypeOK /\ RowsComplete /\ MessageOrder /\ OriginsKept => OriginIsRoot
<1> SUFFICES ASSUME ContentTypeOK, RowsComplete, MessageOrder, OriginsKept PROVE OriginIsRoot
  OBVIOUS
<1>1. PICK author \in [Message -> User \cup {None}] : Authored(author)
  BY DEF OriginsKept
<1>2. \A m \in Message : Exists(m) => RootAuthor[sequence[m]] = author[m]
  BY <1>1, RootAuthorIsAuthor
<1> QED BY <1>1, <1>2 DEF OriginIsRoot, Authored, Exists

-----------------------------------------------------------------------------
(* Membership beside content                                               *)

\* A command on a message, a receipt or time changes no member but its version.
LEMMA MembersAppendInv ==
  ASSUME MemberInv, NEW kind, NEW r, NEW v, AppendEvent(kind, r, v),
         UNCHANGED <<conversation_type, metadata_version, role, left, banned, founders,
                     projectVars>>,
         member_version' \in [User -> Nat]
  PROVE  MemberInv'
<1>1. event_sequence' \in Nat /\ LogDense'
  BY AppendDense DEF MemberInv, MemberTypeOK
<1>2. MemberTypeOK'
  BY <1>1 DEF MemberInv, MemberTypeOK, projectVars
<1>3. NothingBeforeCreation' /\ ModeratorKept' /\ ModeratorsHuman'
  BY DEF MemberInv, NothingBeforeCreation, ModeratorKept, ModeratorsHuman
<1> QED BY <1>1, <1>2, <1>3 DEF MemberInv

LEMMA ContentCommandMembers ==
  ASSUME MemberInv, EventsCounted, NEW m \in Message, NEW kind, NEW v,
         AppendEvent(kind, m, v), UNCHANGED <<memberVars, projectVars>>,
         conversation_type # "absent"
  PROVE  MemberInv' /\ EventsCounted'
<1>1. MemberInv'
  BY MembersAppendInv DEF memberVars, MemberInv, MemberTypeOK
<1>2. EventsCounted'
  <2>1. m \notin User /\ m # None
    BY ConversationAssumption
  <2>2. \A u \in User : member_version'[u] = member_version[u] + (IF u = m THEN 1 ELSE 0)
    BY <2>1 DEF memberVars, MemberInv, MemberTypeOK
  <2>3. metadata_version' = metadata_version + (IF m = None THEN 1 ELSE 0)
    BY <2>1 DEF memberVars, MemberInv, MemberTypeOK
  <2> QED BY <2>2, <2>3, CountedAppend DEF memberVars
<1> QED BY <1>1, <1>2

LEMMA MembersQuiet ==
  ASSUME MemberInv, EventsCounted, UNCHANGED membershipVars
  PROVE  MemberInv' /\ EventsCounted'
BY MemberNextInv, CountedStep

\* Every step keeps what is proved of the membership commands.
LEMMA MembersStep ==
  ASSUME MemberInv, EventsCounted, ContentTypeOK, Tombstones, [Next]_vars
  PROVE  MemberInv' /\ EventsCounted'
<1>1. CASE MemberNext /\ UNCHANGED contentVars
  BY <1>1, MemberNextInv, CountedStep
<1>2. CASE UNCHANGED vars
  BY <1>2, MembersQuiet DEF vars
<1>3. ASSUME NEW u \in User, NEW c \in Client, NEW m \in Message, Stored(u, c, m)
      PROVE  MemberInv' /\ EventsCounted'
  <2>1. /\ AppendEvent("message.created", m, 1)
        /\ UNCHANGED <<memberVars, projectVars>>
        /\ conversation_type # "absent"
    BY <1>3 DEF Stored, Store, WriteAccess, ActivityAccess
  <2> QED BY <2>1, ContentCommandMembers
<1>4. ASSUME NEW u \in User, NEW m \in Message, NEW b \in Body, Edit(u, m, b)
      PROVE  MemberInv' /\ EventsCounted'
  BY <1>4, ContentCommandMembers DEF Edit, MutationAccess, WriteAccess, ActivityAccess
<1>5. ASSUME NEW u \in User, NEW m \in Message, Delete(u, m)
      PROVE  MemberInv' /\ EventsCounted'
  BY <1>5, ContentCommandMembers DEF Delete, MutationAccess, WriteAccess, ActivityAccess
<1>6. ASSUME NEW u \in User, NEW m \in Message, Related(u, m)
      PROVE  MemberInv' /\ EventsCounted'
  <2>1. PICK kind : Publish(kind, m)
    BY <1>6 DEF Related
  <2>2. /\ AppendEvent(kind, m, version[m] + 1)
        /\ UNCHANGED <<memberVars, projectVars>>
        /\ conversation_type # "absent"
    BY <1>6, <2>1 DEF Related, Publish, publishFrame, ActivityAccess
  <2> QED BY <2>2, ContentCommandMembers
<1>7. ASSUME NEW u \in User, NEW kind, NEW s, Receipt(u, kind, s)
      PROVE  MemberInv' /\ EventsCounted'
  <2> DEFINE k == IF kind = "read" THEN "message.read" ELSE "message.delivered"
  <2>1. /\ AppendEvent(k, u, member_version[u] + 1)
        /\ member_version' = [member_version EXCEPT ![u] = @ + 1]
        /\ UNCHANGED <<conversation_type, metadata_version, role, left, banned, founders,
                       projectVars>>
        /\ Active(u)
    BY <1>7 DEF Receipt
  <2> HIDE DEF k
  <2>2. MemberInv'
    BY <2>1, MembersAppendInv DEF MemberInv, MemberTypeOK
  <2>3. conversation_type # "absent"
    BY <2>1 DEF Active, MemberInv, NothingBeforeCreation
  <2>4. \A w \in User : member_version'[w] = member_version[w] + (IF w = u THEN 1 ELSE 0)
    BY <2>1 DEF MemberInv, MemberTypeOK
  <2>5. metadata_version' = metadata_version + (IF u = None THEN 1 ELSE 0)
    BY <2>1, MembershipAssumption DEF MemberInv, MemberTypeOK
  <2>6. EventsCounted'
    BY <2>1, <2>3, <2>4, <2>5, CountedAppend
  <2> QED BY <2>2, <2>6
<1>8. CASE TimeStep \/ UploadStep \/ BlacklistStep
  BY <1>8, MembersQuiet DEF TimeStep, UploadStep, BlacklistStep, Expire, Lapse, Upload,
                            Reclaim, UpdateBlacklist
<1>9. CASE SendStep \/ ForwardStep
  BY <1>3, <1>9, SendStored, ForwardStored DEF SendStep, ForwardStep
<1>10. CASE MutationStep
  BY <1>4, <1>5, <1>10 DEF MutationStep
<1>11. CASE RelationStep
  BY <1>6, <1>11, RelationRelated, PinRelated DEF RelationStep
<1>12. CASE ReceiptStep
  BY <1>7, <1>12 DEF ReceiptStep
<1> QED BY <1>1, <1>2, <1>8, <1>9, <1>10, <1>11, <1>12 DEF Next

-----------------------------------------------------------------------------
(* Checkpoints                                                             *)

\* What a step does to the checkpoints and to the sequence they refer to.
LEMMA CheckpointsEffect ==
  ASSUME MemberInv, ContentTypeOK, Tombstones, CheckpointsOrdered, [Next]_vars
  PROVE  /\ message_sequence' >= message_sequence
         /\ \/ UNCHANGED checkpointVars
            \/ \E u \in User, kind \in {"read", "delivered"}, s \in 1..message_sequence :
                 Receipt(u, kind, s)
<1> USE DEF ContentTypeOK
<1>1. ASSUME NEW u \in User, NEW c \in Client, NEW m \in Message, Stored(u, c, m)
      PROVE  message_sequence' >= message_sequence /\ UNCHANGED checkpointVars
  BY <1>1 DEF Stored, Store, NextSequence
<1>2. ASSUME NEW u \in User, NEW m \in Message, Related(u, m)
      PROVE  message_sequence' >= message_sequence /\ UNCHANGED checkpointVars
  BY <1>2 DEF Related, Publish, publishFrame
<1>3. CASE SendStep \/ ForwardStep
  BY <1>1, <1>3, SendStored, ForwardStored DEF SendStep, ForwardStep
<1>4. CASE MutationStep
  BY <1>4 DEF MutationStep, Edit, Delete
<1>5. CASE RelationStep
  BY <1>2, <1>5, RelationRelated, PinRelated DEF RelationStep
<1>6. CASE ReceiptStep
  <2>1. message_sequence' = message_sequence
    BY <1>6 DEF ReceiptStep, Receipt, messageVars
  <2> QED BY <1>6, <2>1 DEF ReceiptStep
<1>7. CASE TimeStep \/ UploadStep \/ BlacklistStep
  BY <1>7 DEF TimeStep, UploadStep, BlacklistStep, Expire, Lapse, Upload, Reclaim,
              UpdateBlacklist, messageVars
<1>8. CASE UNCHANGED contentVars
  BY <1>8 DEF contentVars, messageVars
<1> QED BY <1>3, <1>4, <1>5, <1>6, <1>7, <1>8 DEF Next, vars

\* A checkpoint never runs backwards, past the delivery or past what was sent.
LEMMA CheckpointsMove ==
  ASSUME MemberInv, ContentTypeOK, RowsComplete, Tombstones, CheckpointsOrdered, [Next]_vars
  PROVE  \A u \in User :
           /\ last_read'[u] \in last_read[u]..last_delivered'[u]
           /\ last_delivered'[u] \in last_delivered[u]..message_sequence'
<1>1. message_sequence' \in Int /\ message_sequence' >= message_sequence
  BY CheckpointsEffect, TypesStep DEF ContentTypeOK
<1>2. CASE UNCHANGED checkpointVars
  BY <1>1, <1>2 DEF checkpointVars, CheckpointsOrdered, ContentTypeOK
<1>3. ASSUME NEW w \in User, NEW kind, NEW s \in 1..message_sequence, Receipt(w, kind, s)
      PROVE  \A u \in User :
               /\ last_read'[u] \in last_read[u]..last_delivered'[u]
               /\ last_delivered'[u] \in last_delivered[u]..message_sequence'
  <2>1. /\ last_read' = [last_read EXCEPT ![w] =
                           IF kind = "read" THEN Larger(last_read[w], s) ELSE last_read[w]]
        /\ last_delivered' = [last_delivered EXCEPT ![w] = Larger(last_delivered[w], s)]
        /\ s <= message_sequence
    BY <1>3 DEF Receipt, Delivered
  <2>2. \A u \in User : /\ last_read[u] \in Nat /\ last_delivered[u] \in Nat
                        /\ last_read[u] <= last_delivered[u]
                        /\ last_delivered[u] <= message_sequence
    BY DEF CheckpointsOrdered, ContentTypeOK
  <2>3. ASSUME NEW u \in User, u # w
        PROVE  last_read'[u] = last_read[u] /\ last_delivered'[u] = last_delivered[u]
    BY <2>1, <2>3 DEF ContentTypeOK
  <2>4. /\ last_read'[w] = IF kind = "read" THEN Larger(last_read[w], s) ELSE last_read[w]
        /\ last_delivered'[w] = Larger(last_delivered[w], s)
    BY <2>1 DEF ContentTypeOK
  <2> QED BY <1>1, <2>1, <2>2, <2>3, <2>4 DEF Larger, ContentTypeOK
<1> QED BY <1>2, <1>3, CheckpointsEffect

-----------------------------------------------------------------------------
(* The invariant of every behaviour                                        *)

Inv == MemberInv /\ EventsCounted /\ ContentInv

LEMMA InitInv == Init => Inv
<1> SUFFICES ASSUME Init PROVE Inv
  OBVIOUS
<1> USE DEF Init
<1>1. MemberInv /\ EventsCounted
  BY MemberInitInv, CountedInit
<1>2. conversation_events = {}
  BY DEF MemberInit, LogInit
<1>3. ContentTypeOK /\ RowsComplete /\ EventsTyped
  BY <1>2, TypesInit DEF RowsComplete, EventsTyped, Exists
<1>4. VersionsLogged /\ Tombstones /\ MessageOrder
  BY <1>2 DEF VersionsLogged, Tombstones, MessageOrder, Bare, EventsOf, Exists
<1>5. AttachmentsLinked /\ ReceiptsValid /\ LastMessageValid
  BY DEF AttachmentsLinked, ReceiptsValid, LastMessageValid, Live, Exists
<1>6. OriginsKept
  <2>1. Authored([m \in Message |-> None])
    BY DEF Authored, Exists
  <2> QED BY <2>1 DEF OriginsKept
<1>7. RelationsFinite /\ RelationsBounded
  <2>1. {m \in pins : Live(m)} = {} /\ \A m \in Message : KindsOn(m) = {}
    BY DEF KindsOn
  <2> QED BY <2>1, FS_EmptySet, ConversationAssumption DEF RelationsFinite, RelationsBounded
<1>8. CheckpointsOrdered
  BY DEF CheckpointsOrdered
<1> QED BY <1>1, <1>3, <1>4, <1>5, <1>6, <1>7, <1>8 DEF Inv, ContentInv

LEMMA StepInv == Inv /\ [Next]_vars => Inv'
<1> SUFFICES ASSUME Inv, [Next]_vars PROVE Inv'
  OBVIOUS
<1> USE DEF Inv, ContentInv
<1>1. MemberInv' /\ EventsCounted'
  BY MembersStep
<1>2. ContentTypeOK' /\ RowsComplete'
  BY TypesStep, RowsStep
<1>3. VersionsLogged' /\ EventsTyped' /\ Tombstones' /\ MessageOrder'
  BY VersionsStep, TombstonesStep, OrderStep
<1>4. AttachmentsLinked' /\ ReceiptsValid' /\ LastMessageValid'
  BY LinksStep, ReceiptsStep, PreviewStep
<1>5. OriginsKept' /\ RelationsFinite' /\ RelationsBounded'
  BY OriginsStep, RelationsStep
<1>6. CheckpointsOrdered'
  <2>1. \A u \in User :
          /\ last_read'[u] \in last_read[u]..last_delivered'[u]
          /\ last_delivered'[u] \in last_delivered[u]..message_sequence'
    BY CheckpointsMove
  <2> QED BY <2>1 DEF CheckpointsOrdered
<1> QED BY <1>1, <1>2, <1>3, <1>4, <1>5, <1>6

\* The invariant holds in every behaviour of all the commands together.
THEOREM ConversationInvariant == Spec => []Inv
BY InitInv, StepInv, PTL DEF Spec

\* A GROUP or CHANNEL keeps a moderator, bots never moderate, the log is dense and
\* every membership row is logged, whatever is done to messages in between.
THEOREM MembersAlwaysSound ==
  Spec => [](MemberTypeOK /\ LogDense /\ ModeratorKept /\ ModeratorsHuman /\ MembershipLogged)
<1>1. Inv => MemberTypeOK /\ LogDense /\ ModeratorKept /\ ModeratorsHuman /\ MembershipLogged
  BY DEF Inv, MemberInv, EventsCounted
<1> QED BY <1>1, ConversationInvariant, PTL

\* Every version of a message is published by exactly one event.
THEOREM VersionsAlwaysLogged == Spec => []VersionsLogged
<1>1. Inv => VersionsLogged
  BY DEF Inv, ContentInv
<1> QED BY <1>1, ConversationInvariant, PTL

\* A tombstone is the last event of its message, and nothing of the message is kept.
THEOREM TombstonesAlwaysFinal == Spec => []Tombstones
<1>1. Inv => Tombstones
  BY DEF Inv, ContentInv
<1> QED BY <1>1, ConversationInvariant, PTL

\* Message sequences are dense and unique, and replay shows messages in that order.
THEOREM MessagesAlwaysOrdered == Spec => []MessageOrder
<1>1. Inv => MessageOrder
  BY DEF Inv, ContentInv
<1> QED BY <1>1, ConversationInvariant, PTL

\* The preview is a message that was not deleted, and no live message is newer.
THEOREM PreviewAlwaysValid == Spec => []LastMessageValid
<1>1. Inv => LastMessageValid
  BY DEF Inv, ContentInv
<1> QED BY <1>1, ConversationInvariant, PTL

\* An attachment belongs to one message, and goes with it.
THEOREM AttachmentsAlwaysLinked == Spec => []AttachmentsLinked
<1>1. Inv => AttachmentsLinked
  BY DEF Inv, ContentInv
<1> QED BY <1>1, ConversationInvariant, PTL

\* A command that is sent again while its receipt lives makes no second message.
THEOREM RetryAlwaysOnce == Spec => []RetryOnce
<1>1. Inv => RetryOnce
  BY ReceiptsImplyRetryOnce DEF Inv, ContentInv
<1> QED BY <1>1, ConversationInvariant, PTL

\* A forward names the author of the first message of its chain, however long.
THEOREM OriginAlwaysRoot == Spec => []OriginIsRoot
<1>1. Inv => OriginIsRoot
  BY OriginsImplyRoot DEF Inv, ContentInv
<1> QED BY <1>1, ConversationInvariant, PTL

\* The caps on pins and on distinct reactions hold.
THEOREM RelationsAlwaysBounded == Spec => []RelationsBounded
<1>1. Inv => RelationsBounded
  BY DEF Inv, ContentInv
<1> QED BY <1>1, ConversationInvariant, PTL

-----------------------------------------------------------------------------
(* What a step may never do                                                *)

\* Nothing new of a user who may not act appears.
LEMMA InertStepHolds == Inv /\ [Next]_vars => InertStep
<1> SUFFICES ASSUME Inv, [Next]_vars, NEW u \in User, Excluded(u)
             PROVE  /\ \A m \in Message : sender'[m] = u => sender[m] = u
                    /\ \A r \in reactions' : r[2] = u => r \in reactions
                    /\ last_read'[u] = last_read[u] /\ last_delivered'[u] = last_delivered[u]
  BY DEF InertStep
<1> USE DEF Inv, ContentInv
<1>1. ~ActivityAccess(u)
  BY DEF Excluded, ActivityAccess
<1>2. last_read'[u] = last_read[u] /\ last_delivered'[u] = last_delivered[u]
  <2>1. CASE UNCHANGED checkpointVars
    BY <2>1 DEF checkpointVars
  <2>2. ASSUME NEW w \in User, NEW kind, NEW s \in 1..message_sequence, Receipt(w, kind, s)
        PROVE  last_read'[u] = last_read[u] /\ last_delivered'[u] = last_delivered[u]
    <3>1. w # u
      BY <2>2 DEF Receipt, Excluded
    <3> QED BY <2>2, <3>1 DEF Receipt, ContentTypeOK
  <2> QED BY <2>1, <2>2, CheckpointsEffect
<1>3. /\ \A m \in Message : sender'[m] = u => sender[m] = u
      /\ \A r \in reactions' : r[2] = u => r \in reactions
  <2>1. ASSUME NEW w \in User, NEW c \in Client, NEW m \in Message, Stored(w, c, m)
        PROVE  (\A n \in Message : sender'[n] = u => sender[n] = u) /\ reactions' = reactions
    <3>1. w # u
      BY <1>1, <2>1 DEF Stored, WriteAccess
    <3>2. sender' = [sender EXCEPT ![m] = w] /\ reactions' = reactions
      BY <2>1 DEF Stored, Store, relationVars
    <3> QED BY <3>1, <3>2 DEF ContentTypeOK
  <2>2. ASSUME NEW w \in User, NEW m \in Message, Related(w, m)
        PROVE  sender' = sender /\ \A r \in reactions' : r[2] = u => r \in reactions
    <3>1. w # u
      BY <1>1, <2>2 DEF Related
    <3>2. sender' = sender
      BY <2>2 DEF Related, Publish, publishFrame
    <3>3. \A r \in reactions' : r \in reactions \/ r[2] = w
      BY <2>2 DEF Related
    <3> QED BY <3>1, <3>2, <3>3
  <2>3. ASSUME NEW w \in User, NEW m \in Message, NEW b \in Body, Edit(w, m, b)
        PROVE  sender' = sender /\ reactions' = reactions
    BY <2>3 DEF Edit, relationVars
  <2>4. ASSUME NEW w \in User, NEW m \in Message, Delete(w, m)
        PROVE  sender' = sender /\ reactions' \subseteq reactions
    BY <2>4 DEF Delete
  <2>5. ASSUME NEW m \in Message, Expire(m) \/ Lapse(m)
        PROVE  sender' = sender /\ reactions' = reactions
    BY <2>5 DEF Expire, Lapse, messageVars, relationVars
  <2>6. CASE Aside
    BY <2>6 DEF Aside, messageVars, relationVars
  <2> QED BY <2>1, <2>2, <2>3, <2>4, <2>5, <2>6, StepClasses
<1> QED BY <1>2, <1>3

\* Who has left or is banned writes nothing more.
THEOREM ExcludedAlwaysInert == Spec => ExcludedInert
<1>1. Inv /\ [Next]_vars => [InertStep]_vars
  BY InertStepHolds
<1> QED BY <1>1, ConversationInvariant, PTL DEF Spec, ExcludedInert

\* The new content an event announces passed the blacklist of that moment.
LEMMA ScreenedStepHolds == Inv /\ [Next]_vars => ScreenedStep
<1> SUFFICES ASSUME Inv, [Next]_vars PROVE ScreenedStep
  OBVIOUS
<1> USE DEF Inv, ContentInv
<1>1. event_sequence \in Nat /\ LogDense
  BY DEF MemberInv, MemberTypeOK
<1>2. ASSUME NEW m \in Message, NEW kind, NEW v, Logs(m, kind, v),
             kind \in {"message.created", "message.updated"} => body'[m] \notin rejected
      PROVE  ScreenedStep
  <2>1. PICK e : /\ e.kind = kind /\ e.ref = m
                 /\ conversation_events' = conversation_events \cup {e}
    BY <1>1, <1>2, AppendAdds DEF Logs
  <2> QED BY <1>2, <2>1 DEF ScreenedStep
<1>3. ASSUME NEW u \in User, NEW c \in Client, NEW m \in Message, Stored(u, c, m)
      PROVE  ScreenedStep
  <2>1. PICK content : body' = [body EXCEPT ![m] = content] /\ CheckContent(content)
    BY <1>3 DEF Stored, Store
  <2>2. body'[m] \notin rejected
    BY <2>1 DEF CheckContent, ContentTypeOK
  <2> QED BY <1>2, <1>3, <2>2, StoredLogs
<1>4. ASSUME NEW u \in User, NEW m \in Message, NEW b \in Body, Edit(u, m, b)
      PROVE  ScreenedStep
  <2>1. body'[m] \notin rejected
    BY <1>4 DEF Edit, CheckContent, ContentTypeOK
  <2> QED BY <1>2, <1>4, <2>1, EditLogs
<1>5. ASSUME NEW u \in User, NEW m \in Message, Delete(u, m) PROVE ScreenedStep
  BY <1>2, <1>5, DeleteLogs
<1>6. ASSUME NEW u \in User, NEW m \in Message, Related(u, m) PROVE ScreenedStep
  BY <1>2, <1>6, RelatedLogs DEF ContentKinds
<1>7. ASSUME NEW m \in Message, Expire(m) \/ Lapse(m) PROVE ScreenedStep
  BY <1>7, QuietLog DEF Expire, Lapse, ScreenedStep
<1>8. CASE Aside
  BY <1>8 DEF Aside, OtherEvents, ContentKinds, ScreenedStep
<1> QED BY <1>3, <1>4, <1>5, <1>6, <1>7, <1>8, StepClasses

\* What the blacklist rejects is never stored.
THEOREM ContentAlwaysScreened == Spec => ContentScreened
<1>1. Inv /\ [Next]_vars => [ScreenedStep]_vars
  BY ScreenedStepHolds
<1> QED BY <1>1, ConversationInvariant, PTL DEF Spec, ContentScreened

\* No membership command takes a version back.
LEMMA MemberVersionsGrow ==
  ASSUME MemberInv, EventsCounted, MemberNext
  PROVE  \A u \in User : member_version'[u] >= member_version[u]
<1>1. \A u \in User : member_version[u] \in Nat
  BY DEF MemberInv, MemberTypeOK
<1>2. ASSUME NEW a \in User, NEW t \in Types, NEW members \in SUBSET (User \ {a}),
             Create(a, t, members)
      PROVE  \A u \in User : member_version'[u] >= member_version[u]
  BY <1>2 DEF Create, EventsCounted
<1>3. ASSUME NEW a \in User, NEW batch \in SUBSET User, AddMembers(a, batch)
      PROVE  \A u \in User : member_version'[u] >= member_version[u]
  <2>1. PICK added : member_version' = [u \in User |-> IF u \in added THEN member_version[u] + 1
                                                       ELSE member_version[u]]
    BY <1>3 DEF AddMembers
  <2> QED BY <1>1, <2>1
<1>4. ASSUME NEW u \in User, member_version' = [member_version EXCEPT ![u] = @ + 1]
      PROVE  \A w \in User : member_version'[w] >= member_version[w]
  BY <1>1, <1>4 DEF MemberInv, MemberTypeOK
<1>5. ASSUME UNCHANGED member_version
      PROVE  \A w \in User : member_version'[w] >= member_version[w]
  BY <1>1, <1>5
<1>6. ASSUME NEW a \in User, NEW u \in User, NEW p \in MemberPatch, PatchMember(a, u, p)
      PROVE  \A w \in User : member_version'[w] >= member_version[w]
  BY <1>4, <1>6 DEF PatchMember
<1>7. ASSUME NEW a \in User, NEW u, NEW f,
             Patch(a) \/ BanUser(a, u) \/ UnbanUser(a, u) \/ UpdateFlags(a, f)
      PROVE  \A w \in User : member_version'[w] >= member_version[w]
  BY <1>5, <1>7 DEF Patch, BanUser, UnbanUser, UpdateFlags, memberVars
<1>8. ASSUME NEW a \in User, NEW u \in User, RemoveMember(a, u)
      PROVE  \A w \in User : member_version'[w] >= member_version[w]
  BY <1>4, <1>8 DEF RemoveMember
<1> QED BY <1>2, <1>3, <1>6, <1>7, <1>8 DEF MemberNext

\* Counters, versions and checkpoints only grow, within each other's bounds.
LEMMA CheckpointStepHolds == Inv /\ [Next]_vars => CheckpointStep
<1> SUFFICES ASSUME Inv, [Next]_vars PROVE CheckpointStep
  OBVIOUS
<1> USE DEF Inv, ContentInv
<1>1. message_sequence' >= message_sequence
  BY CheckpointsEffect
<1>2. \A u \in User :
        /\ last_read'[u] \in last_read[u]..last_delivered'[u]
        /\ last_delivered'[u] \in last_delivered[u]..message_sequence'
  BY CheckpointsMove
<1>3. /\ event_sequence' >= event_sequence
      /\ \A m \in Message : version'[m] >= version[m]
      /\ \A m \in Message : Exists(m) => sequence'[m] = sequence[m]
  <2> DEFINE P == /\ event_sequence' >= event_sequence
                  /\ \A m \in Message : version'[m] >= version[m]
                  /\ \A m \in Message : Exists(m) => sequence'[m] = sequence[m]
  <2>0. event_sequence \in Nat /\ LogDense /\ version \in [Message -> Nat]
    BY DEF MemberInv, MemberTypeOK, ContentTypeOK
  <2>1. ASSUME NEW m \in Message, NEW kind, Logs(m, kind, version[m] + 1)
        PROVE  /\ event_sequence' >= event_sequence
               /\ \A n \in Message : version'[n] >= version[n]
    <3>1. event_sequence' = event_sequence + 1
      BY <2>1 DEF Logs, AppendEvent
    <3>2. version' = [version EXCEPT ![m] = version[m] + 1]
      BY <2>1 DEF Logs
    <3> QED BY <2>0, <3>1, <3>2
  <2>2. ASSUME NEW u \in User, NEW c \in Client, NEW m \in Message, Stored(u, c, m) PROVE P
    <3>1. version[m] + 1 = 1 /\ Logs(m, "message.created", 1) /\ ~Exists(m)
      BY <2>2, StoredLogs DEF RowsComplete, Exists
    <3>2. sequence' = [sequence EXCEPT ![m] = NextSequence]
      BY <2>2 DEF Stored, Store
    <3> QED BY <2>1, <3>1, <3>2 DEF ContentTypeOK
  <2>3. ASSUME NEW u \in User, NEW m \in Message, NEW b \in Body, Edit(u, m, b) PROVE P
    BY <2>1, <2>3, EditLogs DEF Edit
  <2>4. ASSUME NEW u \in User, NEW m \in Message, Delete(u, m) PROVE P
    BY <2>1, <2>4, DeleteLogs DEF Delete
  <2>5. ASSUME NEW u \in User, NEW m \in Message, Related(u, m) PROVE P
    <3>1. sequence' = sequence
      BY <2>5 DEF Related, Publish, publishFrame
    <3> QED BY <2>1, <2>5, <3>1, RelatedLogs
  <2>6. ASSUME NEW m \in Message, Expire(m) \/ Lapse(m) PROVE P
    BY <2>0, <2>6 DEF Expire, Lapse, messageVars, membershipVars, logVars
  <2>7. CASE Aside
    BY <2>0, <2>7 DEF Aside, messageVars
  <2> QED BY <2>2, <2>3, <2>4, <2>5, <2>6, <2>7, StepClasses
<1>4. \A u \in User : member_version'[u] >= member_version[u]
  <2>0. member_version \in [User -> Nat]
    BY DEF MemberInv, MemberTypeOK
  <2>1. CASE MemberNext
    BY <2>1, MemberVersionsGrow
  <2>2. CASE ReceiptStep
    <3>1. PICK u \in User : member_version' = [member_version EXCEPT ![u] = @ + 1]
      BY <2>2 DEF ReceiptStep, Receipt
    <3> QED BY <2>0, <3>1
  <2>3. CASE UNCHANGED member_version
    BY <2>0, <2>3
  <2>4. ASSUME NEW u \in User, NEW m \in Message,
               \/ \E c \in Client : Stored(u, c, m)
               \/ \E b \in Body : Edit(u, m, b)
               \/ Delete(u, m)
               \/ Related(u, m)
        PROVE  UNCHANGED member_version
    <3>1. UNCHANGED memberVars
      BY <2>4 DEF Stored, Store, Edit, Delete, Related, Publish, publishFrame
    <3> QED BY <3>1 DEF memberVars
  <2>5. CASE SendStep \/ ForwardStep
    BY <2>3, <2>4, <2>5, SendStored, ForwardStored DEF SendStep, ForwardStep
  <2>6. CASE MutationStep
    BY <2>3, <2>4, <2>6 DEF MutationStep
  <2>7. CASE RelationStep
    BY <2>3, <2>4, <2>7, RelationRelated, PinRelated DEF RelationStep
  <2>8. CASE TimeStep \/ UploadStep \/ BlacklistStep
    BY <2>3, <2>8 DEF TimeStep, UploadStep, BlacklistStep, Expire, Lapse, Upload, Reclaim,
                      UpdateBlacklist, membershipVars, memberVars
  <2>9. CASE UNCHANGED vars
    BY <2>3, <2>9 DEF vars, membershipVars, memberVars
  <2> QED BY <2>1, <2>2, <2>5, <2>6, <2>7, <2>8, <2>9 DEF Next
<1> QED BY <1>1, <1>2, <1>3, <1>4 DEF CheckpointStep

\* No cursor, version or precondition a client holds ever runs backwards.
THEOREM CheckpointsAlwaysForward == Spec => Checkpoints
<1>1. Inv /\ [Next]_vars => [CheckpointStep]_vars
  BY CheckpointStepHolds
<1> QED BY <1>1, ConversationInvariant, PTL DEF Spec, Checkpoints
=============================================================================
