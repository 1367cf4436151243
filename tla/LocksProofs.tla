---------------------------- MODULE LocksProofs ----------------------------
(***************************************************************************)
(* The transactions of Locks act like the commands of Commands, for any    *)
(* number of users, conversations and transactions.  The argument: every   *)
(* row a command reads without locking it has a guard, a row that it has   *)
(* locked before; whoever writes the row holds row and guard FOR UPDATE.   *)
(* So nobody writes what a running transaction has read, and at its commit *)
(* all it decided by is still there.  The second part shows that only a    *)
(* download can be in a deadlock.                                          *)
(***************************************************************************)
EXTENDS Locks, TLAPS

\* The row that is locked before r is read without a lock.
Guard(r) ==
  CASE r[1] \in {"users", "allow_bots", "allow_delete"} -> Project
    [] r[1] = "conversation_members" -> Conversation(r[2])
    [] r[1] = "direct_pairs" -> PairKey(r[2], r[3])
    [] OTHER -> r

\* The first n statements of the plan p lock r.
Has(p, n, r, mode) == \E i \in 1..n : p[i].mode = mode /\ r \in p[i].rows

GuardHeld(p, n, r) == Has(p, n, Guard(r), "share") \/ Has(p, n, Guard(r), "update")

\* The plan reads r under a lock of r or of its guard.
ReadIn(p, r) == \E i \in 1..Len(p) : p[i].mode # "snapshot" /\ r \in p[i].rows

\* Every read without a lock comes after the lock of its guard.
Guarded(p) ==
  \A i \in 1..Len(p) :
    /\ p[i].mode \in Locking \cup {"read", "snapshot"}
    /\ p[i].mode = "read" => \A r \in p[i].rows : GuardHeld(p, i - 1, r)

\* What a command writes it holds FOR UPDATE, and the guard of it.
WritesLocked(cmd, p) ==
  \A r \in Written(cmd) :
    Has(p, Len(p), r, "update") /\ Has(p, Len(p), Guard(r), "update")

\* The rows by which a command decides, those of OthersStay included.
Needed(cmd) ==
  Inputs(cmd)
    \cup (IF cmd.kind \in {"demote", "remove"} THEN Members(cmd.conv) ELSE {})
    \cup (IF cmd.kind = "ban" THEN Accounts ELSE {})

\* What makes a plan one that acts like its command.
Sound(cmd) ==
  LET p == Plan(cmd)
  IN /\ Len(p) \in Nat
     /\ Guarded(p)
     /\ WritesLocked(cmd, p)
     /\ \A r \in Needed(cmd) : ReadIn(p, r)

-----------------------------------------------------------------------------
(* The plans, statement by statement                                      *)

LEMMA ReadAt ==
  ASSUME NEW p, NEW i \in 1..Len(p), NEW r, p[i] = Share(r) \/ p[i] = Update(r)
  PROVE  ReadIn(p, r)
<1>1. p[i].mode # "snapshot" /\ r \in p[i].rows
  BY DEF Share, Update, Step
<1> QED  BY <1>1 DEF ReadIn

LEMMA ReadManyAt ==
  ASSUME NEW p, NEW i \in 1..Len(p), NEW rows, p[i] = Step("read", rows), NEW r \in rows
  PROVE  ReadIn(p, r)
<1>1. p[i].mode # "snapshot" /\ r \in p[i].rows
  BY DEF Step
<1> QED  BY <1>1 DEF ReadIn

LEMMA HeldAt ==
  ASSUME NEW p, NEW n, NEW i \in 1..n, NEW r, p[i] = Update(r)
  PROVE  Has(p, n, r, "update")
<1>1. p[i].mode = "update" /\ r \in p[i].rows
  BY DEF Update, Step
<1> QED  BY <1>1 DEF Has

LEMMA HeldAtShared ==
  ASSUME NEW p, NEW n, NEW i \in 1..n, NEW r, p[i] = Share(r)
  PROVE  Has(p, n, r, "share")
<1>1. p[i].mode = "share" /\ r \in p[i].rows
  BY DEF Share, Step
<1> QED  BY <1>1 DEF Has

LEMMA LeastGreatest ==
  ASSUME NEW u \in User, NEW v \in User
  PROVE  u = Least(u, v) \/ u = Greatest(u, v)
BY DEF Least, Greatest

SendSteps(cmd, p) ==
  /\ Len(p) = 7
  /\ p[1] = Step("snapshot", {Setting("allow_bots")})  /\ p[2] = Share(Project)
  /\ p[3] = Share(Account(cmd.by))  /\ p[4] = Update(ClientKey(cmd.by, cmd.conv))
  /\ p[5] = Update(Conversation(cmd.conv))  /\ p[6] = Share(Member(cmd.conv, cmd.by))
  /\ p[7] = Update(Message(cmd.conv))

LEMMA SendPlan == ASSUME NEW cmd PROVE SendSteps(cmd, SendMessage(cmd))
BY DEF SendSteps, SendMessage, WriteAccess, ActivityAccess

DeleteSteps(cmd, p) ==
  /\ Len(p) = 8
  /\ p[1] = Step("snapshot", {Setting("allow_bots")})  /\ p[2] = Share(Project)
  /\ p[3] = Share(Account(cmd.by))  /\ p[4] = Update(Conversation(cmd.conv))
  /\ p[5] = Share(Member(cmd.conv, cmd.by))  /\ p[6] = Update(Message(cmd.conv))
  /\ p[7] = Step("read", {Setting("allow_delete")})  /\ p[8] = Update(Attachment(cmd.conv))

LEMMA DeletePlan == ASSUME NEW cmd PROVE DeleteSteps(cmd, DeleteMessage(cmd))
BY DEF DeleteSteps, DeleteMessage, MutationAccess, ActivityAccess

ForwardSteps(cmd, p) ==
  /\ Len(p) = 13
  /\ p[1] = Update(ForwardKey)  /\ p[2] = Step("snapshot", {Setting("allow_bots")})
  /\ p[3] = Share(Project)  /\ p[4] = Share(Account(cmd.by))
  /\ p[5] = Update(ClientKey(cmd.by, cmd.conv))  /\ p[6] = Update(Conversation(cmd.conv))
  /\ p[7] = Share(Member(cmd.conv, cmd.by))  /\ p[8] = Share(Member(cmd.source, cmd.by))
  /\ p[9] = Share(Message(cmd.source))  /\ p[10] = Share(Account(cmd.target))
  /\ p[11] = Update(Message(cmd.conv))  /\ p[12] = Share(Attachment(cmd.source))
  /\ p[13] = Update(Attachment(cmd.conv))

LEMMA ForwardPlan == ASSUME NEW cmd PROVE ForwardSteps(cmd, ForwardMessage(cmd))
BY DEF ForwardSteps, ForwardMessage, WriteAccess, ActivityAccess

ChangeSteps(cmd, p) ==
  /\ Len(p) = 8
  /\ p[1] = Share(Project)  /\ p[2] = Share(Account(Least(cmd.by, cmd.target)))
  /\ p[3] = Share(Account(Greatest(cmd.by, cmd.target)))
  /\ p[4] = Step("read", {Setting("allow_bots")})  /\ p[5] = Update(Conversation(cmd.conv))
  /\ p[6] = Share(Member(cmd.conv, cmd.by))  /\ p[7] = Update(Member(cmd.conv, cmd.target))
  /\ p[8] = Step("read", Members(cmd.conv))

LEMMA ChangePlan == ASSUME NEW cmd PROVE ChangeSteps(cmd, ChangeMember(cmd))
BY DEF ChangeSteps, ChangeMember, MembershipTx, LockUsers

DirectSteps(cmd, p) ==
  /\ Len(p) = 7
  /\ p[1] = Share(Project)  /\ p[2] = Share(Account(Least(cmd.by, cmd.target)))
  /\ p[3] = Share(Account(Greatest(cmd.by, cmd.target)))
  /\ p[4] = Step("read", {Setting("allow_bots")})
  /\ p[5] = Update(PairKey(Least(cmd.by, cmd.target), Greatest(cmd.by, cmd.target)))
  /\ p[6] = Step("read", {Pair(Least(cmd.by, cmd.target), Greatest(cmd.by, cmd.target))})
  /\ p[7] = Update(Pair(Least(cmd.by, cmd.target), Greatest(cmd.by, cmd.target)))

LEMMA DirectPlan == ASSUME NEW cmd PROVE DirectSteps(cmd, CreateDirect(cmd))
BY DEF DirectSteps, CreateDirect, LockUsers

BanSteps(cmd, p) ==
  /\ Len(p) = 4
  /\ p[1] = Update(Project)  /\ p[2] = Share(Account(cmd.by))
  /\ p[3] = Update(Account(cmd.target))  /\ p[4] = Step("read", Accounts)

LEMMA BanPlan == ASSUME NEW cmd PROVE BanSteps(cmd, ChangeBan(cmd))
BY DEF BanSteps, ChangeBan, AdminTx

SettingsSteps(cmd, p) ==
  /\ Len(p) = 3
  /\ p[1] = Update(Project)  /\ p[2] = Share(Account(cmd.by))
  /\ p[3] = Update(Setting(cmd.kind))

LEMMA SettingsPlan == ASSUME NEW cmd PROVE SettingsSteps(cmd, UpdateSettings(cmd))
BY DEF SettingsSteps, UpdateSettings, AdminTx

RoleSteps(cmd, p) ==
  /\ Len(p) = 2
  /\ p[1] = Update(Project)  /\ p[2] = Update(Account(cmd.target))

LEMMA RolePlan == ASSUME NEW cmd PROVE RoleSteps(cmd, SetRole(cmd))
BY DEF RoleSteps, SetRole

-----------------------------------------------------------------------------
(* Every plan is sound                                                     *)

LEMMA SendSound ==
  ASSUME NEW cmd \in Command, cmd.kind = "send"
  PROVE  Sound(cmd)
<1> DEFINE p == Plan(cmd)
<1>1. p = SendMessage(cmd)
  BY DEF Plan, Manages, Operates
<1>2. SendSteps(cmd, p)
  BY <1>1, SendPlan
<1> HIDE DEF p
<1> USE DEF SendSteps
<1>3. Guarded(p)
  BY <1>2 DEF Guarded, Locking, Step, Share, Update
<1>4. WritesLocked(cmd, p)
  <2>1. Written(cmd) = {Message(cmd.conv)}
    BY DEF Written, Manages, Operates
  <2>2. Guard(Message(cmd.conv)) = Message(cmd.conv)
    BY DEF Guard, Message
  <2>3. Has(p, 7, Message(cmd.conv), "update")
    BY <1>2, 7 \in 1..7, HeldAt
  <2> QED  BY <1>2, <2>1, <2>2, <2>3 DEF WritesLocked
<1>5. \A r \in Needed(cmd) : ReadIn(p, r)
  <2>1. Needed(cmd) = {Account(cmd.by), Member(cmd.conv, cmd.by), Message(cmd.conv)}
    BY DEF Needed, Inputs, Manages, Operates
  <2>2. ReadIn(p, Account(cmd.by))
    BY <1>2, 3 \in 1..Len(p), ReadAt
  <2>3. ReadIn(p, Member(cmd.conv, cmd.by))
    BY <1>2, 6 \in 1..Len(p), ReadAt
  <2>4. ReadIn(p, Message(cmd.conv))
    BY <1>2, 7 \in 1..Len(p), ReadAt
  <2> QED  BY <2>1, <2>2, <2>3, <2>4
<1> QED  BY <1>2, <1>3, <1>4, <1>5 DEF Sound, p

LEMMA DeleteSound ==
  ASSUME NEW cmd \in Command, cmd.kind = "delete"
  PROVE  Sound(cmd)
<1> DEFINE p == Plan(cmd)
<1>1. p = DeleteMessage(cmd)
  BY DEF Plan, Manages, Operates
<1>2. DeleteSteps(cmd, p)
  BY <1>1, DeletePlan
<1> HIDE DEF p
<1> USE DEF DeleteSteps
<1>3. Guarded(p)
  <2> SUFFICES ASSUME NEW i \in 1..Len(p)
               PROVE  /\ p[i].mode \in Locking \cup {"read", "snapshot"}
                      /\ p[i].mode = "read" => \A r \in p[i].rows : GuardHeld(p, i - 1, r)
    BY DEF Guarded
  <2>1. p[i].mode \in Locking \cup {"read", "snapshot"}
    BY <1>2 DEF Locking, Step, Share, Update
  <2>2. \A r \in {Setting("allow_delete")} : GuardHeld(p, 6, r)
    <3>1. \A r \in {Setting("allow_delete")} : Guard(r) = Project
      BY DEF Guard, Setting
    <3>2. Has(p, 6, Project, "share")
      BY <1>2, 2 \in 1..6, HeldAtShared
    <3> QED  BY <3>1, <3>2 DEF GuardHeld
  <2>3. p[i].mode = "read" => i = 7
    BY <1>2 DEF Step, Share, Update
  <2>4. /\ p[7].rows = {Setting("allow_delete")}
    BY <1>2 DEF Step
  <2> QED  BY <2>1, <2>2, <2>3, <2>4
<1>4. WritesLocked(cmd, p)
  <2>1. Written(cmd) = {Message(cmd.conv), Attachment(cmd.conv)}
    BY DEF Written, Manages, Operates
  <2>2. Guard(Message(cmd.conv)) = Message(cmd.conv)
    BY DEF Guard, Message
  <2>3. Has(p, 8, Message(cmd.conv), "update")
    BY <1>2, 6 \in 1..8, HeldAt
  <2>4. Guard(Attachment(cmd.conv)) = Attachment(cmd.conv)
    BY DEF Guard, Attachment
  <2>5. Has(p, 8, Attachment(cmd.conv), "update")
    BY <1>2, 8 \in 1..8, HeldAt
  <2> QED  BY <1>2, <2>1, <2>2, <2>3, <2>4, <2>5 DEF WritesLocked
<1>5. \A r \in Needed(cmd) : ReadIn(p, r)
  <2>1. Needed(cmd) = {Account(cmd.by), Member(cmd.conv, cmd.by), Message(cmd.conv),
                       Setting("allow_delete")}
    BY DEF Needed, Inputs, Manages, Operates
  <2>2. ReadIn(p, Account(cmd.by))
    BY <1>2, 3 \in 1..Len(p), ReadAt
  <2>3. ReadIn(p, Member(cmd.conv, cmd.by))
    BY <1>2, 5 \in 1..Len(p), ReadAt
  <2>4. ReadIn(p, Message(cmd.conv))
    BY <1>2, 6 \in 1..Len(p), ReadAt
  <2>5. ReadIn(p, Setting("allow_delete"))
    BY <1>2, 7 \in 1..Len(p), ReadManyAt
  <2> QED  BY <2>1, <2>2, <2>3, <2>4, <2>5
<1> QED  BY <1>2, <1>3, <1>4, <1>5 DEF Sound, p

LEMMA ForwardSound ==
  ASSUME NEW cmd \in Command, cmd.kind = "forward"
  PROVE  Sound(cmd)
<1> DEFINE p == Plan(cmd)
<1>1. p = ForwardMessage(cmd)
  BY DEF Plan, Manages, Operates
<1>2. ForwardSteps(cmd, p)
  BY <1>1, ForwardPlan
<1> HIDE DEF p
<1> USE DEF ForwardSteps
<1>3. Guarded(p)
  BY <1>2 DEF Guarded, Locking, Step, Share, Update
<1>4. WritesLocked(cmd, p)
  <2>1. Written(cmd) = {Message(cmd.conv), Attachment(cmd.conv)}
    BY DEF Written, Manages, Operates
  <2>2. Guard(Message(cmd.conv)) = Message(cmd.conv)
    BY DEF Guard, Message
  <2>3. Has(p, 13, Message(cmd.conv), "update")
    BY <1>2, 11 \in 1..13, HeldAt
  <2>4. Guard(Attachment(cmd.conv)) = Attachment(cmd.conv)
    BY DEF Guard, Attachment
  <2>5. Has(p, 13, Attachment(cmd.conv), "update")
    BY <1>2, 13 \in 1..13, HeldAt
  <2> QED  BY <1>2, <2>1, <2>2, <2>3, <2>4, <2>5 DEF WritesLocked
<1>5. \A r \in Needed(cmd) : ReadIn(p, r)
  <2>1. Needed(cmd) = {Account(cmd.by), Member(cmd.conv, cmd.by), Message(cmd.conv),
                       Member(cmd.source, cmd.by), Message(cmd.source),
                       Attachment(cmd.source)}
    BY DEF Needed, Inputs, Manages, Operates
  <2>2. ReadIn(p, Account(cmd.by))
    BY <1>2, 4 \in 1..Len(p), ReadAt
  <2>3. ReadIn(p, Member(cmd.conv, cmd.by))
    BY <1>2, 7 \in 1..Len(p), ReadAt
  <2>4. ReadIn(p, Message(cmd.conv))
    BY <1>2, 11 \in 1..Len(p), ReadAt
  <2>5. ReadIn(p, Member(cmd.source, cmd.by))
    BY <1>2, 8 \in 1..Len(p), ReadAt
  <2>6. ReadIn(p, Message(cmd.source))
    BY <1>2, 9 \in 1..Len(p), ReadAt
  <2>7. ReadIn(p, Attachment(cmd.source))
    BY <1>2, 12 \in 1..Len(p), ReadAt
  <2> QED  BY <2>1, <2>2, <2>3, <2>4, <2>5, <2>6, <2>7
<1> QED  BY <1>2, <1>3, <1>4, <1>5 DEF Sound, p

LEMMA ChangeSound ==
  ASSUME NEW cmd \in Command, cmd.kind \in Manages
  PROVE  Sound(cmd)
<1> DEFINE p == Plan(cmd)
<1>1. p = ChangeMember(cmd)
  BY DEF Plan, Manages, Operates
<1>2. ChangeSteps(cmd, p)
  BY <1>1, ChangePlan
<1> HIDE DEF p
<1> USE DEF ChangeSteps
<1>3. Guarded(p)
  <2> SUFFICES ASSUME NEW i \in 1..Len(p)
               PROVE  /\ p[i].mode \in Locking \cup {"read", "snapshot"}
                      /\ p[i].mode = "read" => \A r \in p[i].rows : GuardHeld(p, i - 1, r)
    BY DEF Guarded
  <2>1. p[i].mode \in Locking \cup {"read", "snapshot"}
    BY <1>2 DEF Locking, Step, Share, Update
  <2>2. \A r \in {Setting("allow_bots")} : GuardHeld(p, 3, r)
    <3>1. \A r \in {Setting("allow_bots")} : Guard(r) = Project
      BY DEF Guard, Setting
    <3>2. Has(p, 3, Project, "share")
      BY <1>2, 1 \in 1..3, HeldAtShared
    <3> QED  BY <3>1, <3>2 DEF GuardHeld
  <2>3. \A r \in Members(cmd.conv) : GuardHeld(p, 7, r)
    <3>1. \A r \in Members(cmd.conv) : Guard(r) = Conversation(cmd.conv)
      BY DEF Guard, Members, Member
    <3>2. Has(p, 7, Conversation(cmd.conv), "update")
      BY <1>2, 5 \in 1..7, HeldAt
    <3> QED  BY <3>1, <3>2 DEF GuardHeld
  <2>4. p[i].mode = "read" => i = 4 \/ i = 8
    BY <1>2 DEF Step, Share, Update
  <2>5. /\ p[4].rows = {Setting("allow_bots")} /\ p[8].rows = Members(cmd.conv)
    BY <1>2 DEF Step
  <2> QED  BY <2>1, <2>2, <2>3, <2>4, <2>5
<1>4. WritesLocked(cmd, p)
  <2>1. Written(cmd) = {Member(cmd.conv, cmd.target)}
    BY DEF Written, Manages, Operates
  <2>2. Guard(Member(cmd.conv, cmd.target)) = Conversation(cmd.conv)
    BY DEF Guard, Member
  <2>3. /\ Has(p, 8, Member(cmd.conv, cmd.target), "update")
        /\ Has(p, 8, Conversation(cmd.conv), "update")
    BY <1>2, 7 \in 1..8, 5 \in 1..8, HeldAt
  <2> QED  BY <1>2, <2>1, <2>2, <2>3 DEF WritesLocked
<1>5. \A r \in Needed(cmd) : ReadIn(p, r)
  <2>1. Needed(cmd) = {Account(cmd.by), Setting("allow_bots")} \cup Members(cmd.conv)
    BY DEF Needed, Inputs, Manages, Operates
  <2>2. ReadIn(p, Account(cmd.by))
    BY <1>2, LeastGreatest, 2 \in 1..Len(p), 3 \in 1..Len(p), ReadAt DEF Command
  <2>3. ReadIn(p, Setting("allow_bots"))
    BY <1>2, 4 \in 1..Len(p), ReadManyAt
  <2>4. \A r \in Members(cmd.conv) : ReadIn(p, r)
    BY <1>2, 8 \in 1..Len(p), ReadManyAt
  <2> QED  BY <2>1, <2>2, <2>3, <2>4
<1> QED  BY <1>2, <1>3, <1>4, <1>5 DEF Sound, p

LEMMA DirectSound ==
  ASSUME NEW cmd \in Command, cmd.kind = "direct"
  PROVE  Sound(cmd)
<1> DEFINE p == Plan(cmd)
<1>1. p = CreateDirect(cmd)
  BY DEF Plan, Manages, Operates
<1>2. DirectSteps(cmd, p)
  BY <1>1, DirectPlan
<1> HIDE DEF p
<1> USE DEF DirectSteps
<1>3. Guarded(p)
  <2> SUFFICES ASSUME NEW i \in 1..Len(p)
               PROVE  /\ p[i].mode \in Locking \cup {"read", "snapshot"}
                      /\ p[i].mode = "read" => \A r \in p[i].rows : GuardHeld(p, i - 1, r)
    BY DEF Guarded
  <2>1. p[i].mode \in Locking \cup {"read", "snapshot"}
    BY <1>2 DEF Locking, Step, Share, Update
  <2>2. \A r \in {Setting("allow_bots")} : GuardHeld(p, 3, r)
    <3>1. \A r \in {Setting("allow_bots")} : Guard(r) = Project
      BY DEF Guard, Setting
    <3>2. Has(p, 3, Project, "share")
      BY <1>2, 1 \in 1..3, HeldAtShared
    <3> QED  BY <3>1, <3>2 DEF GuardHeld
  <2>3. \A r \in {Pair(Least(cmd.by, cmd.target), Greatest(cmd.by, cmd.target))} :
          GuardHeld(p, 5, r)
    <3>1. \A r \in {Pair(Least(cmd.by, cmd.target), Greatest(cmd.by, cmd.target))} :
            Guard(r) = PairKey(Least(cmd.by, cmd.target), Greatest(cmd.by, cmd.target))
      BY DEF Guard, Pair
    <3>2. Has(p, 5, PairKey(Least(cmd.by, cmd.target), Greatest(cmd.by, cmd.target)), "update")
      BY <1>2, 5 \in 1..5, HeldAt
    <3> QED  BY <3>1, <3>2 DEF GuardHeld
  <2>4. p[i].mode = "read" => i = 4 \/ i = 6
    BY <1>2 DEF Step, Share, Update
  <2>5. /\ p[4].rows = {Setting("allow_bots")}
        /\ p[6].rows = {Pair(Least(cmd.by, cmd.target), Greatest(cmd.by, cmd.target))}
    BY <1>2 DEF Step
  <2> QED  BY <2>1, <2>2, <2>3, <2>4, <2>5
<1>4. WritesLocked(cmd, p)
  <2>1. Written(cmd) = {Pair(Least(cmd.by, cmd.target), Greatest(cmd.by, cmd.target))}
    BY DEF Written, Manages, Operates
  <2>2. Guard(Pair(Least(cmd.by, cmd.target), Greatest(cmd.by, cmd.target)))
          = PairKey(Least(cmd.by, cmd.target), Greatest(cmd.by, cmd.target))
    BY DEF Guard, Pair
  <2>3. /\ Has(p, 7, Pair(Least(cmd.by, cmd.target), Greatest(cmd.by, cmd.target)), "update")
        /\ Has(p, 7, PairKey(Least(cmd.by, cmd.target), Greatest(cmd.by, cmd.target)), "update")
    BY <1>2, 7 \in 1..7, 5 \in 1..7, HeldAt
  <2> QED  BY <1>2, <2>1, <2>2, <2>3 DEF WritesLocked
<1>5. \A r \in Needed(cmd) : ReadIn(p, r)
  <2>1. Needed(cmd) = {Account(cmd.by), Setting("allow_bots"),
                       Pair(Least(cmd.by, cmd.target), Greatest(cmd.by, cmd.target))}
    BY DEF Needed, Inputs, Manages, Operates
  <2>2. ReadIn(p, Account(cmd.by))
    BY <1>2, LeastGreatest, 2 \in 1..Len(p), 3 \in 1..Len(p), ReadAt DEF Command
  <2>3. ReadIn(p, Pair(Least(cmd.by, cmd.target), Greatest(cmd.by, cmd.target)))
    BY <1>2, 7 \in 1..Len(p), ReadAt
  <2>4. ReadIn(p, Setting("allow_bots"))
    BY <1>2, 4 \in 1..Len(p), ReadManyAt
  <2> QED  BY <2>1, <2>2, <2>3, <2>4
<1> QED  BY <1>2, <1>3, <1>4, <1>5 DEF Sound, p

LEMMA BanSound ==
  ASSUME NEW cmd \in Command, cmd.kind \in {"ban", "unban"}
  PROVE  Sound(cmd)
<1> DEFINE p == Plan(cmd)
<1>1. p = ChangeBan(cmd)
  BY DEF Plan, Manages, Operates
<1>2. BanSteps(cmd, p)
  BY <1>1, BanPlan
<1> HIDE DEF p
<1> USE DEF BanSteps
<1>3. Guarded(p)
  <2> SUFFICES ASSUME NEW i \in 1..Len(p)
               PROVE  /\ p[i].mode \in Locking \cup {"read", "snapshot"}
                      /\ p[i].mode = "read" => \A r \in p[i].rows : GuardHeld(p, i - 1, r)
    BY DEF Guarded
  <2>1. p[i].mode \in Locking \cup {"read", "snapshot"}
    BY <1>2 DEF Locking, Step, Share, Update
  <2>2. \A r \in Accounts : GuardHeld(p, 3, r)
    <3>1. \A r \in Accounts : Guard(r) = Project
      BY DEF Guard, Accounts, Account
    <3>2. Has(p, 3, Project, "update")
      BY <1>2, 1 \in 1..3, HeldAt
    <3> QED  BY <3>1, <3>2 DEF GuardHeld
  <2>3. p[i].mode = "read" => i = 4
    BY <1>2 DEF Step, Share, Update
  <2>4. /\ p[4].rows = Accounts
    BY <1>2 DEF Step
  <2> QED  BY <2>1, <2>2, <2>3, <2>4
<1>4. WritesLocked(cmd, p)
  <2>1. Written(cmd) = {Account(cmd.target)}
    BY DEF Written, Manages, Operates
  <2>2. Guard(Account(cmd.target)) = Project
    BY DEF Guard, Account
  <2>3. Has(p, 4, Account(cmd.target), "update") /\ Has(p, 4, Project, "update")
    BY <1>2, 3 \in 1..4, 1 \in 1..4, HeldAt
  <2> QED  BY <1>2, <2>1, <2>2, <2>3 DEF WritesLocked
<1>5. \A r \in Needed(cmd) : ReadIn(p, r)
  <2>1. Needed(cmd) = Accounts
    BY DEF Needed, Inputs, Manages, Operates
  <2> QED  BY <1>2, <2>1, 4 \in 1..Len(p), ReadManyAt
<1> QED  BY <1>2, <1>3, <1>4, <1>5 DEF Sound, p

LEMMA SettingsSound ==
  ASSUME NEW cmd \in Command, cmd.kind \in {"allow_bots", "allow_delete"}
  PROVE  Sound(cmd)
<1> DEFINE p == Plan(cmd)
<1>1. p = UpdateSettings(cmd)
  BY DEF Plan, Manages, Operates
<1>2. SettingsSteps(cmd, p)
  BY <1>1, SettingsPlan
<1> HIDE DEF p
<1> USE DEF SettingsSteps
<1>3. Guarded(p)
  BY <1>2 DEF Guarded, Locking, Step, Share, Update
<1>4. WritesLocked(cmd, p)
  <2>1. Written(cmd) = {Setting(cmd.kind)}
    BY DEF Written, Manages, Operates
  <2>2. Guard(Setting(cmd.kind)) = Project
    BY DEF Guard, Setting
  <2>3. Has(p, 3, Setting(cmd.kind), "update") /\ Has(p, 3, Project, "update")
    BY <1>2, 3 \in 1..3, 1 \in 1..3, HeldAt
  <2> QED  BY <1>2, <2>1, <2>2, <2>3 DEF WritesLocked
<1>5. \A r \in Needed(cmd) : ReadIn(p, r)
  <2>1. Needed(cmd) = {Account(cmd.by), Setting(cmd.kind)}
    BY DEF Needed, Inputs, Manages, Operates
  <2>2. ReadIn(p, Account(cmd.by))
    BY <1>2, 2 \in 1..Len(p), ReadAt
  <2>3. ReadIn(p, Setting(cmd.kind))
    BY <1>2, 3 \in 1..Len(p), ReadAt
  <2> QED  BY <2>1, <2>2, <2>3
<1> QED  BY <1>2, <1>3, <1>4, <1>5 DEF Sound, p

LEMMA RoleSound ==
  ASSUME NEW cmd \in Command, cmd.kind \in Operates
  PROVE  Sound(cmd)
<1> DEFINE p == Plan(cmd)
<1>1. p = SetRole(cmd)
  BY DEF Plan, Manages, Operates
<1>2. RoleSteps(cmd, p)
  BY <1>1, RolePlan
<1> HIDE DEF p
<1> USE DEF RoleSteps
<1>3. Guarded(p)
  BY <1>2 DEF Guarded, Locking, Step, Share, Update
<1>4. WritesLocked(cmd, p)
  <2>1. Written(cmd) = {Account(cmd.target)}
    BY DEF Written, Manages, Operates
  <2>2. Guard(Account(cmd.target)) = Project
    BY DEF Guard, Account
  <2>3. Has(p, 2, Account(cmd.target), "update") /\ Has(p, 2, Project, "update")
    BY <1>2, 2 \in 1..2, 1 \in 1..2, HeldAt
  <2> QED  BY <1>2, <2>1, <2>2, <2>3 DEF WritesLocked
<1>5. \A r \in Needed(cmd) : ReadIn(p, r)
  <2>1. Needed(cmd) = {Account(cmd.target)}
    BY DEF Needed, Inputs, Manages, Operates
  <2>2. ReadIn(p, Account(cmd.target))
    BY <1>2, 2 \in 1..Len(p), ReadAt
  <2> QED  BY <2>1, <2>2
<1> QED  BY <1>2, <1>3, <1>4, <1>5 DEF Sound, p

LEMMA OtherSound ==
  ASSUME NEW cmd \in Command,
         cmd.kind \notin Writes \cup Manages \cup Administers \cup Operates \cup {"direct"}
  PROVE  Sound(cmd)
<1> DEFINE p == Plan(cmd)
<1>1. p = Download(cmd) \/ p = Report(cmd) \/ p = PatchUser(cmd)
  BY DEF Plan, Writes, Manages, Administers, Operates
<1>2. Len(p) \in Nat /\ \A i \in 1..Len(p) : p[i].mode \in Locking \cup {"snapshot"}
  <2>1. CASE p = Download(cmd)
    BY <2>1 DEF Download, Locking, Share, Step
  <2>2. CASE p = Report(cmd)
    BY <2>2 DEF Report, AdminTx, Locking, Share, Update, Step
  <2>3. CASE p = PatchUser(cmd)
    BY <2>3 DEF PatchUser, Locking, Share, Update, Step
  <2> QED  BY <1>1, <2>1, <2>2, <2>3
<1>3. Written(cmd) = {} /\ Needed(cmd) = {}
  BY DEF Written, Needed, Inputs, Writes, Manages, Administers, Operates
<1> HIDE DEF p
<1> QED  BY <1>2, <1>3 DEF Sound, Guarded, WritesLocked, Locking, p

LEMMA PlanSound ==
  ASSUME NEW cmd \in Command
  PROVE  Sound(cmd)
BY SendSound, DeleteSound, ForwardSound, ChangeSound, DirectSound, BanSound, SettingsSound,
   RoleSound, OtherSound
   DEF Writes, Administers

-----------------------------------------------------------------------------

(* The inductive invariant: what a running transaction is at, that two of them     *)
(* never hold conflicting locks, that it has checked what it has read, and that     *)
(* what it has read is still so.                                                    *)

TypeOK ==
  /\ DOMAIN status = Tx /\ DOMAIN command = Tx /\ DOMAIN plan = Tx /\ DOMAIN seen = Tx
  /\ at \in [Tx -> Nat \ {0}]
  /\ \A t \in Tx : Running(t) =>
       /\ command[t] \in Command
       /\ plan[t] = Plan(command[t])
       /\ at[t] <= Len(plan[t]) + 1

Exclusion ==
  \A t \in Tx : \A t2 \in Tx \ {t} : \A i \in 1..(at[t] - 1), j \in 1..(at[t2] - 1) :
    Running(t) /\ Running(t2) /\ plan[t][i].mode = "update" /\ plan[t2][j].mode \in Locking =>
      plan[t][i].rows \cap plan[t2][j].rows = {}

Checked ==
  \A t \in Tx : Running(t) =>
    \A i \in 1..(at[t] - 1) : plan[t][i].mode # "snapshot" =>
      \A r \in plan[t][i].rows \cap Row : r \in DOMAIN seen[t] /\ Check(command[t], r, seen[t][r])

Inv == TypeOK /\ Exclusion /\ Checked /\ ReadsCurrent

LEMMA InitInv == Init => Inv
BY DEF Init, Inv, TypeOK, Exclusion, Checked, ReadsCurrent, Running

LEMMA TypeStep == Inv /\ [Next]_vars => TypeOK'
<1> SUFFICES ASSUME Inv, [Next]_vars PROVE TypeOK'
  OBVIOUS
<1>1. ASSUME NEW t \in Tx, Begin(t) PROVE TypeOK'
  <2>1. \A cmd \in Command : Len(Plan(cmd)) \in Nat
    BY PlanSound DEF Sound
  <2> QED  BY <1>1, <2>1 DEF Inv, TypeOK, Begin, Running
<1>2. ASSUME NEW t \in Tx, Advance(t) PROVE TypeOK'
  <2>1. Len(plan[t]) \in Nat /\ at[t] \in Nat
    BY <1>2, PlanSound DEF Sound, Inv, TypeOK, Advance, Ready
  <2> QED  BY <1>2, <2>1 DEF Inv, TypeOK, Advance, Ready, Running, Finished
<1>3. ASSUME NEW t \in Tx, End(t) PROVE TypeOK'
  BY <1>3 DEF Inv, TypeOK, End, Running
<1>4. CASE UNCHANGED vars
  BY <1>4 DEF Inv, TypeOK, vars, Running
<1> QED  BY <1>1, <1>2, <1>3, <1>4 DEF Next, Proceed, Refuse, SerializationFailure, Commit,
            Rollback, DeadlockVictim

\* Only Advance adds a lock, and not one that another transaction holds.
LEMMA ExclusionStep == Inv /\ [Next]_vars => Exclusion'
<1> SUFFICES ASSUME Inv, [Next]_vars PROVE Exclusion'
  OBVIOUS
<1>1. ASSUME NEW t \in Tx, Begin(t) PROVE Exclusion'
  BY <1>1 DEF Inv, TypeOK, Exclusion, Begin, Running
<1>2. ASSUME NEW t \in Tx, Advance(t) PROVE Exclusion'
  <2> SUFFICES ASSUME NEW u \in Tx, NEW v \in Tx \ {u},
                      NEW i \in 1..(at'[u] - 1), NEW j \in 1..(at'[v] - 1),
                      Running(u), Running(v), plan[u][i].mode = "update", plan[v][j].mode \in Locking
               PROVE  plan[u][i].rows \cap plan[v][j].rows = {}
    BY <1>2 DEF Exclusion, Advance, Running
  <2>1. \A w \in Tx : at'[w] = IF w = t THEN at[w] + 1 ELSE at[w]
    BY <1>2 DEF Inv, TypeOK, Advance
  <2>2. at \in [Tx -> Nat \ {0}]
    BY DEF Inv, TypeOK
  <2>3. CASE i \in 1..(at[u] - 1) /\ j \in 1..(at[v] - 1)
    BY <2>3 DEF Inv, Exclusion
  <2>4. CASE u = t /\ i = at[u]
    <3>1. j \in 1..(at[v] - 1)
      BY <2>1, <2>4
    <3>2. v \notin WaitsFor(t)
      BY <1>2 DEF Advance, Ready
    <3>3. \A r \in plan[u][i].rows : ~Holds(v, r, "update") /\ ~Holds(v, r, "share")
      BY <1>2, <2>4, <3>2 DEF Advance, Ready, WaitsFor, StepOf, Locking
    <3> QED  BY <3>1, <3>3 DEF Holds, Locking
  <2>5. CASE v = t /\ j = at[v]
    <3>1. i \in 1..(at[u] - 1)
      BY <2>1, <2>5
    <3>2. u \notin WaitsFor(t)
      BY <1>2 DEF Advance, Ready
    <3>3. \A r \in plan[v][j].rows : ~Holds(u, r, "update")
      BY <1>2, <2>5, <3>2 DEF Advance, Ready, WaitsFor, StepOf
    <3> QED  BY <3>1, <3>3 DEF Holds
  <2> QED  BY <2>1, <2>2, <2>3, <2>4, <2>5
<1>3. ASSUME NEW t \in Tx, End(t) PROVE Exclusion'
  BY <1>3 DEF Inv, TypeOK, Exclusion, End, Running
<1>4. CASE UNCHANGED vars
  BY <1>4 DEF Inv, Exclusion, vars, Running
<1> QED  BY <1>1, <1>2, <1>3, <1>4 DEF Next, Proceed, Refuse, SerializationFailure, Commit,
            Rollback, DeadlockVictim

\* A step of t that reads keeps what t has read before.
LEMMA ReadingSame ==
  ASSUME Inv, NEW t \in Tx, Running(t), ~Finished(t)
  PROVE  /\ \A i \in 1..(at[t] - 1) : plan[t][i].mode # "snapshot" =>
              \A r \in plan[t][i].rows \cap Row :
                r \in DOMAIN Reading(t) /\ Reading(t)[r] = db[r] /\ Reading(t)[r] = seen[t][r]
         /\ \A r \in StepOf(t).rows \cap Row : r \in DOMAIN Reading(t) /\ Reading(t)[r] = db[r]
<1>1. \A r \in StepOf(t).rows \cap Row : r \in DOMAIN Reading(t) /\ Reading(t)[r] = db[r]
  BY DEF Reading
<1>2. ASSUME NEW i \in 1..(at[t] - 1), plan[t][i].mode # "snapshot",
             NEW r \in plan[t][i].rows \cap Row
      PROVE  r \in DOMAIN Reading(t) /\ Reading(t)[r] = db[r] /\ Reading(t)[r] = seen[t][r]
  <2>1. r \in DOMAIN seen[t] /\ seen[t][r] = db[r]
    BY <1>2 DEF Inv, Checked, ReadsCurrent
  <2> QED  BY <2>1 DEF Reading
<1> QED  BY <1>1, <1>2

LEMMA CheckedStep == Inv /\ [Next]_vars => Checked'
<1> SUFFICES ASSUME Inv, [Next]_vars PROVE Checked'
  OBVIOUS
<1>1. ASSUME NEW t \in Tx, Begin(t) PROVE Checked'
  BY <1>1 DEF Inv, TypeOK, Checked, Begin, Running
<1>2. ASSUME NEW t \in Tx, Advance(t) PROVE Checked'
  <2> SUFFICES ASSUME NEW u \in Tx, Running(u), NEW i \in 1..(at'[u] - 1),
                      plan[u][i].mode # "snapshot", NEW r \in plan[u][i].rows \cap Row
               PROVE  r \in DOMAIN seen'[u] /\ Check(command[u], r, seen'[u][r])
    BY <1>2 DEF Checked, Advance, Running
  <2>1. CASE u # t
    <3>1. at'[u] = at[u] /\ seen'[u] = seen[u]
      BY <1>2, <2>1 DEF Inv, TypeOK, Advance
    <3> QED  BY <3>1 DEF Inv, Checked
  <2>2. CASE u = t
    <3>1. /\ seen'[t] = Reading(t) /\ at'[t] = at[t] + 1 /\ at[t] \in Nat \ {0}
          /\ Running(t) /\ ~Finished(t) /\ Accepted(t)
      BY <1>2 DEF Inv, TypeOK, Advance, Ready
    <3>2. CASE i = at[t]
      BY <2>2, <3>1, <3>2, ReadingSame DEF StepOf, Accepted
    <3>3. CASE i \in 1..(at[t] - 1)
      <4>1. r \in DOMAIN Reading(t) /\ Reading(t)[r] = seen[t][r]
        BY <2>2, <3>1, <3>3, ReadingSame
      <4> QED  BY <2>2, <3>1, <3>3, <4>1 DEF Inv, Checked
    <3> QED  BY <2>2, <3>1, <3>2, <3>3
  <2> QED  BY <2>1, <2>2
<1>3. ASSUME NEW t \in Tx, End(t) PROVE Checked'
  BY <1>3 DEF Inv, TypeOK, Checked, End, Running
<1>4. CASE UNCHANGED vars
  BY <1>4 DEF Inv, Checked, vars, Running
<1> QED  BY <1>1, <1>2, <1>3, <1>4 DEF Next, Proceed, Refuse, SerializationFailure, Commit,
            Rollback, DeadlockVictim

\* What t writes, nobody else has read: t holds the row and its guard FOR UPDATE, and
\* a reader would hold one of them.
LEMMA NobodyReads ==
  ASSUME Inv, NEW t \in Tx, Running(t), Finished(t), NEW u \in Tx \ {t}, Running(u),
         NEW i \in 1..(at[u] - 1), plan[u][i].mode # "snapshot", NEW r \in plan[u][i].rows
  PROVE  r \notin Written(command[t])
<1> SUFFICES ASSUME r \in Written(command[t]) PROVE FALSE
  OBVIOUS
<1>1. /\ command[t] \in Command /\ plan[t] = Plan(command[t]) /\ Len(plan[t]) \in Nat
      /\ at[t] \in Nat /\ at[t] = Len(plan[t]) + 1
  BY PlanSound DEF Inv, TypeOK, Finished, Sound
<1>2. /\ command[u] \in Command /\ plan[u] = Plan(command[u]) /\ Len(plan[u]) \in Nat
      /\ at[u] \in Nat /\ i \in 1..Len(plan[u])
  BY PlanSound DEF Inv, TypeOK, Sound
<1>3. Has(plan[t], at[t] - 1, r, "update") /\ Has(plan[t], at[t] - 1, Guard(r), "update")
  BY <1>1, PlanSound DEF Sound, WritesLocked
<1>4. \E j \in 1..(at[u] - 1), q \in {r, Guard(r)} :
        plan[u][j].mode \in Locking /\ q \in plan[u][j].rows
  <2>1. CASE plan[u][i].mode \in Locking
    BY <2>1
  <2>2. CASE plan[u][i].mode = "read"
    <3>1. GuardHeld(plan[u], i - 1, r)
      BY <1>2, <2>2, PlanSound DEF Sound, Guarded
    <3>2. PICK j \in 1..(i - 1) : plan[u][j].mode \in Locking /\ Guard(r) \in plan[u][j].rows
      BY <3>1 DEF GuardHeld, Has, Locking
    <3>3. j \in 1..(at[u] - 1)
      BY <1>2, <3>2
    <3> QED  BY <3>2, <3>3
  <2> QED  BY <1>2, <2>1, <2>2, PlanSound DEF Sound, Guarded
<1>5. PICK j \in 1..(at[u] - 1), q \in {r, Guard(r)} :
        plan[u][j].mode \in Locking /\ q \in plan[u][j].rows
  BY <1>4
<1>6. PICK k \in 1..(at[t] - 1) : plan[t][k].mode = "update" /\ q \in plan[t][k].rows
  BY <1>3, <1>5 DEF Has
<1>7. plan[t][k].rows \cap plan[u][j].rows = {}
  BY <1>5, <1>6 DEF Inv, Exclusion
<1> QED  BY <1>5, <1>6, <1>7

LEMMA CurrentStep == Inv /\ [Next]_vars => ReadsCurrent'
<1> SUFFICES ASSUME Inv, [Next]_vars PROVE ReadsCurrent'
  OBVIOUS
<1>1. ASSUME NEW t \in Tx, Begin(t) PROVE ReadsCurrent'
  BY <1>1 DEF Inv, TypeOK, ReadsCurrent, Begin, Running
<1>2. ASSUME NEW t \in Tx, Advance(t) PROVE ReadsCurrent'
  <2> SUFFICES ASSUME NEW u \in Tx, Running(u), NEW i \in 1..(at'[u] - 1),
                      plan[u][i].mode # "snapshot", NEW r \in plan[u][i].rows \cap Row
               PROVE  seen'[u][r] = db[r]
    BY <1>2 DEF ReadsCurrent, Advance, Running
  <2>1. CASE u # t
    <3>1. at'[u] = at[u] /\ seen'[u] = seen[u]
      BY <1>2, <2>1 DEF Inv, TypeOK, Advance
    <3> QED  BY <3>1 DEF Inv, ReadsCurrent
  <2>2. CASE u = t
    <3>1. /\ seen'[t] = Reading(t) /\ at'[t] = at[t] + 1 /\ at[t] \in Nat \ {0}
          /\ Running(t) /\ ~Finished(t)
      BY <1>2 DEF Inv, TypeOK, Advance, Ready
    <3> QED  BY <2>2, <3>1, ReadingSame DEF StepOf
  <2> QED  BY <2>1, <2>2
<1>3. ASSUME NEW t \in Tx, End(t), UNCHANGED db PROVE ReadsCurrent'
  BY <1>3 DEF Inv, TypeOK, ReadsCurrent, End, Running
<1>4. ASSUME NEW t \in Tx, Commit(t) PROVE ReadsCurrent'
  <2> SUFFICES ASSUME NEW u \in Tx, Running(u)', NEW i \in 1..(at'[u] - 1),
                      plan'[u][i].mode # "snapshot", NEW r \in plan'[u][i].rows \cap Row
               PROVE  seen'[u][r] = db'[r]
    BY DEF ReadsCurrent
  <2>1. /\ u # t /\ Running(u) /\ at'[u] = at[u] /\ plan'[u] = plan[u] /\ seen'[u] = seen[u]
    BY <1>4 DEF Inv, TypeOK, Commit, End, Running
  <2>2. r \notin Written(command[t])
    BY <1>4, <2>1, NobodyReads DEF Commit
  <2>3. db'[r] = db[r]
    BY <1>4, <2>2 DEF Commit, After
  <2> QED  BY <2>1, <2>3 DEF Inv, ReadsCurrent
<1>5. CASE UNCHANGED vars
  BY <1>5 DEF Inv, ReadsCurrent, vars, Running
<1> QED  BY <1>1, <1>2, <1>3, <1>4, <1>5 DEF Next, Proceed, Refuse, SerializationFailure,
            Rollback, DeadlockVictim

\* The locks of the repositories exclude each other, and what a transaction has read and
\* checked stays as it was read until it ends.
THEOREM LocksInvariant == Spec => []Inv
<1>1. Inv /\ [Next]_vars => Inv'
  BY TypeStep, ExclusionStep, CheckedStep, CurrentStep DEF Inv
<1> QED  BY InitInv, <1>1, PTL DEF Spec

\* No commit of another command changes what activityAccess, membershipTx, adminTx and
\* the statements after them have read.
THEOREM ReadsAlwaysCurrent == Spec => []ReadsCurrent
<1>1. Inv => ReadsCurrent
  BY DEF Inv
<1> QED  BY LocksInvariant, <1>1, PTL

-----------------------------------------------------------------------------

(* The refinement                                                          *)

LEMMA NeededRows ==
  ASSUME NEW cmd \in Command
  PROVE  Needed(cmd) \subseteq Row /\ Written(cmd) \subseteq Row
<1>1. /\ cmd.by \in User /\ cmd.target \in User /\ cmd.conv \in Conv /\ cmd.source \in Conv
      /\ Least(cmd.by, cmd.target) \in User /\ Greatest(cmd.by, cmd.target) \in User
  BY DEF Command, Least, Greatest
<1>2. /\ \A u \in User : Account(u) \in Row
      /\ \A c \in Conv : /\ Message(c) \in Row /\ Attachment(c) \in Row
                         /\ \A u \in User : Member(c, u) \in Row
      /\ \A u \in User, v \in User : Pair(u, v) \in Row
      /\ Setting("allow_bots") \in Row /\ Setting("allow_delete") \in Row
  <2>1. /\ Accounts \subseteq Row /\ Messages \subseteq Row /\ Attachments \subseteq Row
        /\ Pairs \subseteq Row /\ {Setting("allow_bots"), Setting("allow_delete")} \subseteq Row
        /\ \A c \in Conv : Members(c) \subseteq Row
    BY DEF Row
  <2> QED  BY <2>1 DEF Accounts, Messages, Attachments, Pairs, Members
<1>3. Accounts \subseteq Row /\ Members(cmd.conv) \subseteq Row
  BY <1>1, <1>2 DEF Accounts, Members
<1>4. Inputs(cmd) \subseteq Row
  <2>1. CASE cmd.kind \in Writes
    BY <1>1, <1>2, <2>1 DEF Inputs, Writes, Manages, Operates
  <2>2. CASE cmd.kind \in Manages \cup {"direct", "ban", "unban"}
    BY <1>1, <1>2, <1>3, <2>2 DEF Inputs, Manages, Operates
  <2>3. CASE cmd.kind \in {"allow_bots", "allow_delete"} \cup Operates
    BY <1>1, <1>2, <2>3 DEF Inputs, Manages, Operates
  <2> QED  BY <2>1, <2>2, <2>3 DEF Inputs, Writes
<1>5. Written(cmd) \subseteq Row
  BY <1>1, <1>2 DEF Written
<1> QED  BY <1>3, <1>4, <1>5 DEF Needed

\* At the commit, what the command decides by and what it changes is as it read it.
LEMMA SeenIsCurrent ==
  ASSUME Inv, NEW t \in Tx, Running(t), Finished(t),
         NEW r \in Needed(command[t]) \cup Written(command[t])
  PROVE  seen[t][r] = db[r] /\ Check(command[t], r, db[r])
<1>1. /\ command[t] \in Command /\ plan[t] = Plan(command[t]) /\ Len(plan[t]) \in Nat
      /\ at[t] \in Nat /\ at[t] = Len(plan[t]) + 1
  BY PlanSound DEF Inv, TypeOK, Finished, Sound
<1>2. r \in Row
  BY <1>1, NeededRows
<1>3. PICK i \in 1..Len(plan[t]) : plan[t][i].mode # "snapshot" /\ r \in plan[t][i].rows
  BY <1>1, PlanSound DEF Sound, WritesLocked, ReadIn, Has
<1> QED  BY <1>1, <1>2, <1>3 DEF Inv, Checked, ReadsCurrent

LEMMA CommitExecutes ==
  ASSUME Inv, NEW t \in Tx, Commit(t)
  PROVE  Allowed(command[t], db) /\ db' = After(command[t], db, db)
<1> DEFINE cmd == command[t]
<1>1. cmd \in Command /\ Running(t) /\ Finished(t) /\ OthersStay(cmd, seen[t])
      /\ db' = After(cmd, seen[t], db)
  BY DEF Inv, TypeOK, Commit
<1>2. \A r \in Needed(cmd) \cup Written(cmd) : seen[t][r] = db[r] /\ Check(cmd, r, db[r])
  BY <1>1, SeenIsCurrent
<1>3. \A r \in Inputs(cmd) : Check(cmd, r, db[r])
  BY <1>2 DEF Needed
<1>4. OthersStay(cmd, db)
  <2>1. CASE cmd.kind \in {"demote", "remove"}
    <3>1. \A u \in User : seen[t][Member(cmd.conv, u)] = db[Member(cmd.conv, u)]
      BY <1>2, <2>1 DEF Needed, Members
    <3>2. cmd.target \in User
      BY <1>1 DEF Command
    <3> QED  BY <1>1, <2>1, <3>1, <3>2 DEF OthersStay
  <2>2. CASE cmd.kind = "ban"
    <3>1. \A u \in User : seen[t][Account(u)] = db[Account(u)]
      BY <1>2, <2>2 DEF Needed, Accounts
    <3>2. cmd.target \in User
      BY <1>1 DEF Command
    <3> QED  BY <1>1, <2>2, <3>1, <3>2 DEF OthersStay
  <2> QED  BY <2>1, <2>2 DEF OthersStay
<1>5. \A r \in Written(cmd) : NewValue(cmd, seen[t], r) = NewValue(cmd, db, r)
  BY <1>2 DEF NewValue
<1> QED  BY <1>1, <1>3, <1>4, <1>5 DEF Allowed, After

\* Commands EXTENDS the same Rows.
LEMMA SameCommand == C!Command = Command
BY DEF C!Command, Command, C!Manages, Manages, C!Administers, Administers, C!Operates, Operates

LEMMA SameRows ==
  /\ C!Row = Row
  /\ \A cmd : C!Inputs(cmd) = Inputs(cmd) /\ C!Written(cmd) = Written(cmd)
BY DEF C!Row, Row, C!Inputs, Inputs, C!Written, Written,
   C!Project, Project, C!Setting, Setting, C!Accounts, Accounts, C!Account, Account,
   C!Conversation, Conversation, C!Members, Members, C!Member, Member, C!Message, Message,
   C!Attachment, Attachment, C!Pair, Pair, C!Conversations, Conversations,
   C!Messages, Messages, C!Attachments, Attachments, C!Pairs, Pairs, C!Least, Least, C!Greatest, Greatest,
   C!Manages, Manages, C!Operates, Operates

LEMMA SameDecision ==
  ASSUME NEW cmd, NEW rows, NEW r, NEW v
  PROVE  /\ C!Check(cmd, r, v) = Check(cmd, r, v)
         /\ C!OthersStay(cmd, rows) = OthersStay(cmd, rows)
         /\ C!NewValue(cmd, rows, r) = NewValue(cmd, rows, r)
BY DEF C!Check, Check, C!OthersStay, OthersStay, C!NewValue, NewValue,
   C!Setting, Setting, C!Account, Account, C!Member, Member, C!Message, Message,
   C!Attachment, Attachment, C!Pair, Pair, C!Pairs, Pairs, C!Writes, Writes, C!Manages, Manages,
   C!Administers, Administers, C!Operates, Operates

\* Every transaction of the repositories that commits is a command executed at once, at
\* its commit: the refinement of Commands.
THEOREM CommandsOneAtATime == Spec => OneAtATime
<1>1. Init => C!Init
  BY DEF Init
<1>2. Inv /\ [Next]_vars => [C!Next]_db
  <2> SUFFICES ASSUME Inv, Next, db' # db PROVE C!Next
    BY DEF vars
  <2>1. PICK t \in Tx : Commit(t)
    BY DEF Next, Proceed, Begin, Advance, Refuse, SerializationFailure, Rollback, DeadlockVictim
  <2>2. command[t] \in Command
    BY <2>1 DEF Inv, TypeOK, Commit
  <2>3. Allowed(command[t], db) /\ db' = After(command[t], db, db)
    BY <2>1, CommitExecutes
  <2>4. C!Execute(command[t])
    BY <2>3, SameRows, SameDecision DEF C!Execute, C!Allowed, Allowed, C!After, After
  <2> QED  BY <2>2, <2>4, SameCommand DEF C!Next
<1> QED  BY <1>1, <1>2, LocksInvariant, PTL DEF Spec, C!Spec, OneAtATime

-----------------------------------------------------------------------------
(* The order of the locks                                                  *)
(*                                                                         *)
(* The order in which the commands take their locks has no circle, as long *)
(* as no download is among them.  Follows says what a transaction may hold *)
(* when it locks a row; a circle would need somebody who holds a later row *)
(* and waits for an earlier one.                                           *)

\* The rows of a conversation, below it in the order.
Content == {"conversation_members", "messages", "attachments"}

\* Where in its plan p a command locks the row r, in the mode m.
Placed(cmd, p, i, r, m) ==
  /\ r[1] \in {"message.forward", "projects", "users", "allow_bots", "allow_delete",
               "message.dedup", "conversations", "chat.direct", "direct_pairs"} \cup Content
  /\ r[1] = "message.forward" => r = ForwardKey /\ cmd.kind = "forward"
  /\ r[1] = "projects" => r = Project
  /\ r \notin {ForwardKey, Project} =>
       Has(p, i - 1, Project, "share") \/ Has(p, i - 1, Project, "update")
  /\ r[1] \in {"allow_bots", "allow_delete"} => Has(p, i - 1, Project, "update")
  /\ r[1] \in Content /\ ~Has(p, i - 1, Project, "update") =>
       \/ r[2] = cmd.conv /\ Has(p, i - 1, Conversation(cmd.conv), "update")
       \/ cmd.kind = "forward" /\ m = "share" /\ r[2] = cmd.source

\* What a command may hold, the row s in mode n, when it locks the row r in mode m.
Follows(cmd, p, i, s, n, r, m) ==
  /\ r # ForwardKey
  /\ r = Project => s = ForwardKey
  /\ r[1] = "users" /\ m = "update" /\ ~Has(p, i - 1, Project, "update") => s = Project
  /\ s[1] = "users" => n = "share"
  /\ s[1] # "direct_pairs"
  /\ s[1] = "chat.direct" => r[1] = "direct_pairs"
  /\ s[1] = "message.dedup" => r[1] \in {"conversations", "users"} \cup Content
  /\ s[1] = "conversations" => r[1] \in {"users"} \cup Content
  /\ s[1] \in Content => r[1] \in {"users"} \cup Content
  /\ s[1] = "attachments" => r[1] = "attachments"
  /\ s[1] \in Content /\ n = "update" =>
       \/ cmd.kind = "forward"
       \/ cmd.kind = "delete" /\ s = Message(cmd.conv) /\ r = Attachment(cmd.conv)

\* The order of a plan: every lock is placed, and follows those before it.
Ordered(cmd, p) ==
  \A i \in 1..Len(p) : p[i].mode \in Locking =>
    \A r \in p[i].rows :
      /\ Placed(cmd, p, i, r, p[i].mode)
      /\ \A j \in 1..(i - 1) : p[j].mode \in Locking =>
           \A s \in p[j].rows : Follows(cmd, p, i, s, p[j].mode, r, p[i].mode)

-----------------------------------------------------------------------------
(* Every plan but that of a download is ordered                           *)

ReportSteps(cmd, p) ==
  /\ Len(p) = 4
  /\ p[1] = Update(Project)
  /\ p[2] = Share(Account(cmd.by))
  /\ p[3] = Share(Message(cmd.conv))
  /\ p[4] = Share(Member(cmd.conv, cmd.by))

LEMMA ReportPlan == ASSUME NEW cmd PROVE ReportSteps(cmd, Report(cmd))
BY DEF ReportSteps, Report, AdminTx

ProfileSteps(cmd, p) ==
  /\ Len(p) = 2
  /\ p[1] = Share(Project)
  /\ p[2] = Update(Account(cmd.by))

LEMMA ProfilePlan == ASSUME NEW cmd PROVE ProfileSteps(cmd, PatchUser(cmd))
BY DEF ProfileSteps, PatchUser

LEMMA SendOrdered ==
  ASSUME NEW cmd \in Command, NEW p, SendSteps(cmd, p), cmd.kind = "send"
  PROVE  Ordered(cmd, p)
<1>1. ASSUME NEW i \in 1..Len(p), p[i].mode \in Locking, NEW r \in p[i].rows
      PROVE  Placed(cmd, p, i, r, p[i].mode)
  BY <1>1 DEF SendSteps, Placed, Has, Locking, Content, Step, Share, Update, Project,
     ForwardKey, Setting, Account, ClientKey, Conversation, Member, Message
<1>2. ASSUME NEW i \in 1..Len(p), p[i].mode \in Locking, NEW r \in p[i].rows,
             NEW j \in 1..(i - 1), p[j].mode \in Locking, NEW s \in p[j].rows
      PROVE  Follows(cmd, p, i, s, p[j].mode, r, p[i].mode)
  BY <1>2 DEF SendSteps, Follows, Locking, Content, Step, Share, Update, Project,
     ForwardKey, Setting, Account, ClientKey, Conversation, Member, Message
<1> QED  BY <1>1, <1>2 DEF Ordered

LEMMA DeleteOrdered ==
  ASSUME NEW cmd \in Command, NEW p, DeleteSteps(cmd, p), cmd.kind = "delete"
  PROVE  Ordered(cmd, p)
<1>1. ASSUME NEW i \in 1..Len(p), p[i].mode \in Locking, NEW r \in p[i].rows
      PROVE  Placed(cmd, p, i, r, p[i].mode)
  BY <1>1 DEF DeleteSteps, Placed, Has, Locking, Content, Step, Share, Update,
     Project, ForwardKey, Setting, Account, Conversation, Member, Message, Attachment
<1>2. ASSUME NEW i \in 1..Len(p), p[i].mode \in Locking, NEW r \in p[i].rows,
             NEW j \in 1..(i - 1), p[j].mode \in Locking, NEW s \in p[j].rows
      PROVE  Follows(cmd, p, i, s, p[j].mode, r, p[i].mode)
  BY <1>2 DEF DeleteSteps, Follows, Locking, Content, Step, Share, Update, Project,
     ForwardKey, Setting, Account, Conversation, Member, Message, Attachment
<1> QED  BY <1>1, <1>2 DEF Ordered

LEMMA ForwardOrdered ==
  ASSUME NEW cmd \in Command, NEW p, ForwardSteps(cmd, p), cmd.kind = "forward"
  PROVE  Ordered(cmd, p)
<1>1. ASSUME NEW i \in 1..Len(p), p[i].mode \in Locking, NEW r \in p[i].rows
      PROVE  Placed(cmd, p, i, r, p[i].mode)
  BY <1>1 DEF ForwardSteps, Placed, Has, Locking, Content, Step, Share, Update,
     Project, ForwardKey, Setting, Account, ClientKey, Conversation, Member, Message,
     Attachment
<1>2. ASSUME NEW i \in 1..Len(p), p[i].mode \in Locking, NEW r \in p[i].rows,
             NEW j \in 1..(i - 1), p[j].mode \in Locking, NEW s \in p[j].rows
      PROVE  Follows(cmd, p, i, s, p[j].mode, r, p[i].mode)
  BY <1>2 DEF ForwardSteps, Follows, Locking, Content, Step, Share, Update, Project,
     ForwardKey, Setting, Account, ClientKey, Conversation, Member, Message,
     Attachment
<1> QED  BY <1>1, <1>2 DEF Ordered

LEMMA ChangeOrdered ==
  ASSUME NEW cmd \in Command, NEW p, ChangeSteps(cmd, p), cmd.kind \in Manages
  PROVE  Ordered(cmd, p)
<1>1. ASSUME NEW i \in 1..Len(p), p[i].mode \in Locking, NEW r \in p[i].rows
      PROVE  Placed(cmd, p, i, r, p[i].mode)
  BY <1>1 DEF ChangeSteps, Placed, Has, Locking, Content, Step, Share, Update,
     Project, ForwardKey, Setting, Account, Conversation, Member, Members
<1>2. ASSUME NEW i \in 1..Len(p), p[i].mode \in Locking, NEW r \in p[i].rows,
             NEW j \in 1..(i - 1), p[j].mode \in Locking, NEW s \in p[j].rows
      PROVE  Follows(cmd, p, i, s, p[j].mode, r, p[i].mode)
  BY <1>2 DEF ChangeSteps, Follows, Locking, Content, Step, Share, Update, Project,
     ForwardKey, Setting, Account, Conversation, Member, Members
<1> QED  BY <1>1, <1>2 DEF Ordered

LEMMA DirectOrdered ==
  ASSUME NEW cmd \in Command, NEW p, DirectSteps(cmd, p), cmd.kind = "direct"
  PROVE  Ordered(cmd, p)
<1>1. ASSUME NEW i \in 1..Len(p), p[i].mode \in Locking, NEW r \in p[i].rows
      PROVE  Placed(cmd, p, i, r, p[i].mode)
  BY <1>1 DEF DirectSteps, Placed, Has, Locking, Content, Step, Share, Update,
     Project, ForwardKey, Setting, Account, PairKey, Pair
<1>2. ASSUME NEW i \in 1..Len(p), p[i].mode \in Locking, NEW r \in p[i].rows,
             NEW j \in 1..(i - 1), p[j].mode \in Locking, NEW s \in p[j].rows
      PROVE  Follows(cmd, p, i, s, p[j].mode, r, p[i].mode)
  BY <1>2 DEF DirectSteps, Follows, Locking, Content, Step, Share, Update, Project,
     ForwardKey, Setting, Account, PairKey, Pair
<1> QED  BY <1>1, <1>2 DEF Ordered

LEMMA BanOrdered ==
  ASSUME NEW cmd \in Command, NEW p, BanSteps(cmd, p), cmd.kind \in {"ban", "unban"}
  PROVE  Ordered(cmd, p)
<1>1. ASSUME NEW i \in 1..Len(p), p[i].mode \in Locking, NEW r \in p[i].rows
      PROVE  Placed(cmd, p, i, r, p[i].mode)
  BY <1>1 DEF BanSteps, Placed, Has, Locking, Content, Step, Share, Update, Project,
     ForwardKey, Account
<1>2. ASSUME NEW i \in 1..Len(p), p[i].mode \in Locking, NEW r \in p[i].rows,
             NEW j \in 1..(i - 1), p[j].mode \in Locking, NEW s \in p[j].rows
      PROVE  Follows(cmd, p, i, s, p[j].mode, r, p[i].mode)
  BY <1>2 DEF BanSteps, Follows, Has, Locking, Content, Step, Share, Update, Project,
     ForwardKey, Account
<1> QED  BY <1>1, <1>2 DEF Ordered

LEMMA SettingsOrdered ==
  ASSUME NEW cmd \in Command, NEW p, SettingsSteps(cmd, p),
         cmd.kind \in {"allow_bots", "allow_delete"}
  PROVE  Ordered(cmd, p)
<1>1. ASSUME NEW i \in 1..Len(p), p[i].mode \in Locking, NEW r \in p[i].rows
      PROVE  Placed(cmd, p, i, r, p[i].mode)
  BY <1>1 DEF SettingsSteps, Placed, Has, Locking, Content, Step, Share, Update,
     Project, ForwardKey, Setting, Account
<1>2. ASSUME NEW i \in 1..Len(p), p[i].mode \in Locking, NEW r \in p[i].rows,
             NEW j \in 1..(i - 1), p[j].mode \in Locking, NEW s \in p[j].rows
      PROVE  Follows(cmd, p, i, s, p[j].mode, r, p[i].mode)
  BY <1>2 DEF SettingsSteps, Follows, Has, Locking, Content, Step, Share, Update,
     Project, ForwardKey, Setting, Account
<1> QED  BY <1>1, <1>2 DEF Ordered

LEMMA RoleOrdered ==
  ASSUME NEW cmd \in Command, NEW p, RoleSteps(cmd, p), cmd.kind \in Operates
  PROVE  Ordered(cmd, p)
<1>1. ASSUME NEW i \in 1..Len(p), p[i].mode \in Locking, NEW r \in p[i].rows
      PROVE  Placed(cmd, p, i, r, p[i].mode)
  BY <1>1 DEF RoleSteps, Placed, Has, Locking, Content, Step, Share, Update, Project,
     ForwardKey, Account
<1>2. ASSUME NEW i \in 1..Len(p), p[i].mode \in Locking, NEW r \in p[i].rows,
             NEW j \in 1..(i - 1), p[j].mode \in Locking, NEW s \in p[j].rows
      PROVE  Follows(cmd, p, i, s, p[j].mode, r, p[i].mode)
  BY <1>2 DEF RoleSteps, Follows, Has, Locking, Content, Step, Share, Update, Project,
     ForwardKey, Account
<1> QED  BY <1>1, <1>2 DEF Ordered

LEMMA ReportOrdered ==
  ASSUME NEW cmd \in Command, NEW p, ReportSteps(cmd, p)
  PROVE  Ordered(cmd, p)
<1>1. ASSUME NEW i \in 1..Len(p), p[i].mode \in Locking, NEW r \in p[i].rows
      PROVE  Placed(cmd, p, i, r, p[i].mode)
  BY <1>1 DEF ReportSteps, Placed, Has, Locking, Content, Step, Share, Update,
     Project, ForwardKey, Account, Member, Message
<1>2. ASSUME NEW i \in 1..Len(p), p[i].mode \in Locking, NEW r \in p[i].rows,
             NEW j \in 1..(i - 1), p[j].mode \in Locking, NEW s \in p[j].rows
      PROVE  Follows(cmd, p, i, s, p[j].mode, r, p[i].mode)
  BY <1>2 DEF ReportSteps, Follows, Has, Locking, Content, Step, Share, Update,
     Project, ForwardKey, Account, Member, Message
<1> QED  BY <1>1, <1>2 DEF Ordered

LEMMA ProfileOrdered ==
  ASSUME NEW cmd \in Command, NEW p, ProfileSteps(cmd, p)
  PROVE  Ordered(cmd, p)
<1>1. ASSUME NEW i \in 1..Len(p), p[i].mode \in Locking, NEW r \in p[i].rows
      PROVE  Placed(cmd, p, i, r, p[i].mode)
  BY <1>1 DEF ProfileSteps, Placed, Has, Locking, Content, Step, Share, Update,
     Project, ForwardKey, Account
<1>2. ASSUME NEW i \in 1..Len(p), p[i].mode \in Locking, NEW r \in p[i].rows,
             NEW j \in 1..(i - 1), p[j].mode \in Locking, NEW s \in p[j].rows
      PROVE  Follows(cmd, p, i, s, p[j].mode, r, p[i].mode)
  BY <1>2 DEF ProfileSteps, Follows, Locking, Content, Step, Share, Update, Project,
     ForwardKey, Account
<1> QED  BY <1>1, <1>2 DEF Ordered

LEMMA PlanOrdered ==
  ASSUME NEW cmd \in Command, cmd.kind # "download"
  PROVE  Ordered(cmd, Plan(cmd))
<1>1. \/ cmd.kind = "send" /\ Plan(cmd) = SendMessage(cmd)
      \/ cmd.kind = "delete" /\ Plan(cmd) = DeleteMessage(cmd)
      \/ cmd.kind = "forward" /\ Plan(cmd) = ForwardMessage(cmd)
      \/ cmd.kind \in Manages /\ Plan(cmd) = ChangeMember(cmd)
      \/ cmd.kind = "direct" /\ Plan(cmd) = CreateDirect(cmd)
      \/ cmd.kind \in {"ban", "unban"} /\ Plan(cmd) = ChangeBan(cmd)
      \/ cmd.kind \in {"allow_bots", "allow_delete"} /\ Plan(cmd) = UpdateSettings(cmd)
      \/ cmd.kind \in Operates /\ Plan(cmd) = SetRole(cmd)
      \/ Plan(cmd) = Report(cmd)
      \/ Plan(cmd) = PatchUser(cmd)
  BY DEF Plan, Manages, Operates
<1> QED
  BY <1>1, SendPlan, SendOrdered, DeletePlan, DeleteOrdered, ForwardPlan, ForwardOrdered,
     ChangePlan, ChangeOrdered, DirectPlan, DirectOrdered, BanPlan, BanOrdered,
     SettingsPlan, SettingsOrdered, RolePlan, RoleOrdered, ReportPlan, ReportOrdered,
     ProfilePlan, ProfileOrdered

-----------------------------------------------------------------------------

\* t waits for a lock of the row r, in the mode of its next step.
Waiting(t, r) ==
  Running(t) /\ ~Finished(t) /\ StepOf(t).mode \in Locking /\ r \in StepOf(t).rows

\* u holds the row r that t waits for.
Blocks(u, t, r) ==
  /\ u # t /\ Waiting(t, r)
  /\ \E n \in Locking : Holds(u, r, n) /\ (n = "update" \/ StepOf(t).mode = "update")

\* Placed, of a transaction that holds the row or waits for it.
Located(t, r, m) ==
  /\ r[1] \in {"message.forward", "projects", "users", "allow_bots", "allow_delete",
               "message.dedup", "conversations", "chat.direct", "direct_pairs"} \cup Content
  /\ r[1] = "message.forward" => r = ForwardKey /\ command[t].kind = "forward"
  /\ r[1] = "projects" => r = Project
  /\ r \notin {ForwardKey, Project} => Holds(t, Project, "share") \/ Holds(t, Project, "update")
  /\ r[1] \in {"allow_bots", "allow_delete"} => Holds(t, Project, "update")
  /\ r[1] \in Content /\ ~Holds(t, Project, "update") =>
       \/ r[2] = command[t].conv /\ Holds(t, Conversation(r[2]), "update")
       \/ command[t].kind = "forward" /\ m = "share" /\ r[2] = command[t].source

LEMMA RunningPlan ==
  ASSUME Inv, NEW t \in Tx, Running(t), command[t].kind # "download"
  PROVE  /\ command[t] \in Command /\ plan[t] = Plan(command[t])
         /\ Len(plan[t]) \in Nat /\ at[t] \in Nat \ {0} /\ at[t] <= Len(plan[t]) + 1
         /\ Ordered(command[t], plan[t])
BY PlanSound, PlanOrdered DEF Inv, TypeOK, Sound

LEMMA PlacedLocated ==
  ASSUME Inv, NEW t \in Tx, Running(t), NEW i \in 1..at[t], NEW r, NEW m,
         Placed(command[t], plan[t], i, r, m)
  PROVE  Located(t, r, m)
<1>1. at[t] \in Nat
  BY DEF Inv, TypeOK
<1>2. \A s, n : Has(plan[t], i - 1, s, n) => Holds(t, s, n)
  BY <1>1 DEF Has, Holds
<1> QED  BY <1>2 DEF Placed, Located

LEMMA WaitingLocated ==
  ASSUME Inv, NEW t \in Tx, NEW r, Waiting(t, r), command[t].kind # "download"
  PROVE  Located(t, r, StepOf(t).mode)
<1>1. at[t] \in 1..Len(plan[t])
  BY RunningPlan DEF Waiting, Finished
<1>2. Placed(command[t], plan[t], at[t], r, StepOf(t).mode)
  BY <1>1, RunningPlan DEF Ordered, Waiting, StepOf
<1> QED  BY <1>1, <1>2, PlacedLocated DEF Waiting

LEMMA HeldLocated ==
  ASSUME Inv, NEW t \in Tx, NEW r, NEW m \in Locking, Holds(t, r, m), command[t].kind # "download"
  PROVE  Located(t, r, m)
<1>1. PICK i \in 1..(at[t] - 1) : plan[t][i].mode = m /\ r \in plan[t][i].rows
  BY DEF Holds
<1>2. i \in 1..Len(plan[t]) /\ i \in 1..at[t]
  BY <1>1, RunningPlan DEF Holds
<1>3. Placed(command[t], plan[t], i, r, m)
  BY <1>1, <1>2, RunningPlan DEF Ordered, Holds
<1> QED  BY <1>2, <1>3, PlacedLocated DEF Holds

LEMMA HeldFollows ==
  ASSUME Inv, NEW t \in Tx, NEW r, Waiting(t, r), command[t].kind # "download",
         NEW s, NEW n \in Locking, Holds(t, s, n)
  PROVE  Follows(command[t], plan[t], at[t], s, n, r, StepOf(t).mode)
<1>1. at[t] \in 1..Len(plan[t])
  BY RunningPlan DEF Waiting, Finished
<1> QED  BY <1>1, RunningPlan DEF Ordered, Holds, Waiting, StepOf

LEMMA Excluded ==
  ASSUME Inv, NEW t \in Tx, NEW u \in Tx, t # u, NEW r, NEW m \in Locking,
         Holds(t, r, "update"), Holds(u, r, m)
  PROVE  FALSE
BY DEF Inv, Exclusion, Holds

\* The argument in Follows and Placed: whoever holds the Project FOR UPDATE waits for
\* nobody, and the others stand in the order client key, conversation, its members,
\* message and attachment.  Only a forward holds such rows of a conversation that it
\* does not hold, and there is one forward at a time.
LEMMA NoCircle ==
  ASSUME Inv, NEW D \in SUBSET Tx, Deadlocked(D), \A t \in D : command[t].kind # "download"
  PROVE  FALSE
<1> USE DEF Locking
<1>1. \A t \in D : \E u, r : u \in D /\ Blocks(u, t, r)
  <2> SUFFICES ASSUME NEW t \in D PROVE \E u, r : u \in D /\ Blocks(u, t, r)
    OBVIOUS
  <2>1. PICK u \in D : u \in WaitsFor(t)
    BY DEF Deadlocked
  <2> QED  BY <2>1 DEF WaitsFor, Blocks, Waiting
<1>2. \A t \in D : \E u, r : u \in D /\ Blocks(t, u, r)
  <2> SUFFICES ASSUME NEW t \in D PROVE \E u, r : u \in D /\ Blocks(t, u, r)
    OBVIOUS
  <2>1. PICK u \in D : t \in WaitsFor(u)
    BY DEF Deadlocked
  <2> QED  BY <2>1 DEF WaitsFor, Blocks, Waiting
<1>3. \A t \in D : ~Holds(t, Project, "update")
  <2> SUFFICES ASSUME NEW t \in D, Holds(t, Project, "update") PROVE FALSE
    OBVIOUS
  <2>1. PICK u, r : u \in D /\ Blocks(u, t, r)
    BY <1>1
  <2>2. PICK n \in Locking : Holds(u, r, n)
    BY <2>1 DEF Blocks
  <2>3. r \notin {ForwardKey, Project}
    BY <2>1, HeldFollows DEF Blocks, Follows, ForwardKey, Project
  <2>4. Holds(u, Project, "share") \/ Holds(u, Project, "update")
    BY <2>1, <2>2, <2>3, HeldLocated DEF Located
  <2> QED  BY <2>1, <2>4, Excluded DEF Blocks
<1>4. ASSUME NEW t \in D, NEW u \in D, NEW r, Blocks(u, t, r)
      PROVE  r \notin {ForwardKey, Project}
  <2>1. ASSUME NEW v \in D, NEW x \in D, NEW q, Blocks(x, v, q) PROVE q # ForwardKey
    <3>1. PICK y, s : y \in D /\ Blocks(v, y, s)
      BY <1>2
    <3> QED  BY <2>1, <3>1, HeldFollows DEF Blocks, Follows
  <2>2. PICK y, s : y \in D /\ Blocks(t, y, s)
    BY <1>2
  <2>3. r = Project => s = ForwardKey
    BY <1>4, <2>2, HeldFollows DEF Blocks, Follows
  <2> QED  BY <1>4, <2>1, <2>2, <2>3
<1>5. ASSUME NEW t \in D, NEW u \in D, NEW r, Blocks(u, t, r)
      PROVE  r[1] # "users"
  <2> SUFFICES ASSUME r[1] = "users" PROVE FALSE
    OBVIOUS
  <2>1. CASE StepOf(t).mode = "update"
    <3>1. PICK y, s : y \in D /\ Blocks(t, y, s)
      BY <1>2
    <3>2. ~Has(plan[t], at[t] - 1, Project, "update")
      BY <1>3, <1>5 DEF Has, Holds, Blocks, Waiting
    <3>3. s = Project
      BY <1>5, <2>1, <3>1, <3>2, HeldFollows DEF Blocks, Follows
    <3> QED  BY <1>4, <3>1, <3>3
  <2>2. CASE Holds(u, r, "update")
    <3>1. PICK y, s : y \in D /\ Blocks(y, u, s)
      BY <1>1
    <3> QED  BY <2>2, <3>1, HeldFollows DEF Blocks, Follows
  <2> QED  BY <1>5, <2>1, <2>2 DEF Blocks
<1>6. ASSUME NEW t \in D, NEW u \in D, NEW r, Blocks(u, t, r)
      PROVE  r[1] \notin {"direct_pairs", "chat.direct", "allow_bots", "allow_delete"}
  <2>1. ASSUME NEW v \in D, NEW x \in D, NEW q, Blocks(x, v, q) PROVE q[1] # "direct_pairs"
    <3>1. PICK y, s : y \in D /\ Blocks(y, x, s)
      BY <1>1
    <3> QED  BY <2>1, <3>1, HeldFollows DEF Blocks, Follows
  <2>2. PICK y, s : y \in D /\ Blocks(y, u, s)
    BY <1>1
  <2>3. r[1] = "chat.direct" => s[1] = "direct_pairs"
    BY <1>6, <2>2, HeldFollows DEF Blocks, Follows
  <2>4. r[1] \notin {"allow_bots", "allow_delete"}
    BY <1>3, <1>6, WaitingLocated DEF Blocks, Located
  <2> QED  BY <1>6, <2>1, <2>2, <2>3, <2>4
<1>7. \A t \in D, u \in D : command[t].kind = "forward" /\ command[u].kind = "forward" => t = u
  <2>1. ASSUME NEW t \in D, command[t].kind = "forward" PROVE Holds(t, ForwardKey, "update")
    <3>1. PICK u, r : u \in D /\ Blocks(u, t, r)
      BY <1>1
    <3>2. plan[t][1] = Update(ForwardKey)
      <4>1. plan[t] = Plan(command[t])
        BY <2>1, <3>1, RunningPlan DEF Blocks, Waiting
      <4>2. plan[t] = ForwardMessage(command[t])
        BY <2>1, <4>1 DEF Plan, Manages, Operates
      <4> QED  BY <4>2, ForwardPlan DEF ForwardSteps
    <3>3. r # ForwardKey
      BY <1>4, <3>1
    <3>4. at[t] # 1
      BY <3>1, <3>2, <3>3 DEF Blocks, Waiting, StepOf, Update, Step
    <3>5. 1 \in 1..(at[t] - 1) /\ Running(t)
      BY <3>1, <3>4, RunningPlan DEF Blocks, Waiting
    <3> QED  BY <3>2, <3>5 DEF Holds, Update, Step
  <2> QED  BY <2>1, Excluded
\* What a waiting transaction holds of the rows of a conversation.
<1>8. ASSUME NEW t \in D, NEW u \in D, NEW r, Blocks(u, t, r), r[1] \in Content
      PROVE  /\ \/ r[2] = command[t].conv /\ Holds(t, Conversation(r[2]), "update")
                \/ command[t].kind = "forward" /\ StepOf(t).mode = "share"
             /\ \/ r[2] = command[u].conv /\ Holds(u, Conversation(r[2]), "update")
                \/ command[u].kind = "forward" /\ ~Holds(u, r, "update")
  <2>1. Located(t, r, StepOf(t).mode)
    BY <1>8, WaitingLocated DEF Blocks
  <2>2. \A n \in Locking : Holds(u, r, n) => Located(u, r, n)
    BY HeldLocated
  <2> QED  BY <1>3, <1>8, <2>1, <2>2 DEF Located, Blocks
<1>9. ASSUME NEW t \in D, NEW u \in D, NEW r, Blocks(u, t, r), command[t].kind = "forward"
      PROVE  r[1] \notin Content
  <2> SUFFICES ASSUME r[1] \in Content PROVE FALSE
    OBVIOUS
  <2>1. command[u].kind # "forward"
    BY <1>7, <1>9 DEF Blocks
  <2>2. r[2] = command[u].conv /\ Holds(u, Conversation(r[2]), "update")
    BY <1>8, <1>9, <2>1
  <2>3. StepOf(t).mode = "share" /\ Holds(u, r, "update")
    BY <1>8, <1>9, <2>1, <2>2, Excluded DEF Blocks
  <2>4. PICK w, s : w \in D /\ Blocks(w, u, s)
    BY <1>1
  <2>5. r = Message(command[u].conv) /\ s = Attachment(command[u].conv)
    BY <2>1, <2>3, <2>4, HeldFollows DEF Blocks, Follows
  <2>6. s[1] \in Content /\ s[1] = "attachments" /\ s[2] = r[2] /\ r[1] = "messages"
    BY <2>2, <2>5 DEF Attachment, Message, Content
  <2>7. command[w].kind = "forward"
    BY <1>8, <2>2, <2>4, <2>6, Excluded DEF Blocks
  <2>8. w = t
    BY <1>7, <1>9, <2>4, <2>7
  <2>9. PICK n \in Locking : Holds(t, s, n)
    BY <2>4, <2>8 DEF Blocks
  <2> QED  BY <1>9, <2>6, <2>9, HeldFollows DEF Blocks, Follows
<1>10. ASSUME NEW t \in D, NEW u \in D, NEW r, Blocks(u, t, r)
       PROVE  r[1] \notin Content
  <2> SUFFICES ASSUME r[1] \in Content PROVE FALSE
    OBVIOUS
  <2>1. command[t].kind # "forward"
    BY <1>9, <1>10
  <2>2. command[u].kind = "forward"
    BY <1>8, <1>10, <2>1, Excluded DEF Blocks
  <2>3. PICK w, s : w \in D /\ Blocks(w, u, s)
    BY <1>1
  <2>4. s[1] \in {"users"} \cup Content
    BY <1>10, <2>3, HeldFollows DEF Blocks, Follows
  <2> QED  BY <1>5, <1>9, <2>2, <2>3, <2>4
<1>11. ASSUME NEW t \in D, NEW u \in D, NEW r, Blocks(u, t, r)
       PROVE  r[1] # "conversations"
  <2>1. PICK w, s : w \in D /\ Blocks(w, u, s)
    BY <1>1
  <2>2. r[1] = "conversations" => s[1] \in {"users"} \cup Content
    BY <1>11, <2>1, HeldFollows DEF Blocks, Follows
  <2> QED  BY <1>5, <1>10, <2>1, <2>2
<1>12. ASSUME NEW t \in D, NEW u \in D, NEW r, Blocks(u, t, r)
       PROVE  r[1] # "message.dedup"
  <2>1. PICK w, s : w \in D /\ Blocks(w, u, s)
    BY <1>1
  <2>2. r[1] = "message.dedup" => s[1] \in {"conversations", "users"} \cup Content
    BY <1>12, <2>1, HeldFollows DEF Blocks, Follows
  <2> QED  BY <1>5, <1>10, <1>11, <2>1, <2>2
<1>13. PICK t, u, r : t \in D /\ u \in D /\ Blocks(u, t, r)
  BY <1>1 DEF Deadlocked
<1>14. Located(t, r, StepOf(t).mode)
  BY <1>13, WaitingLocated DEF Blocks
<1> QED
  BY <1>4, <1>5, <1>6, <1>10, <1>11, <1>12, <1>13, <1>14 DEF Located

\* Transactions of the repositories that wait for each other have a download (Get, which
\* locks the attachment before the Project and the message) among them.
THEOREM DeadlocksHaveDownloads == Spec => []OnlyDownloadsDeadlock
<1>1. Inv => OnlyDownloadsDeadlock
  BY NoCircle DEF OnlyDownloadsDeadlock
<1> QED  BY <1>1, LocksInvariant, PTL

=============================================================================
