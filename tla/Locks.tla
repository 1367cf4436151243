-------------------------------- MODULE Locks --------------------------------
(***************************************************************************)
(* The transactions that carry out the commands, statement by statement:   *)
(* the row locks they take in PostgreSQL under READ COMMITTED, the values  *)
(* they read on the way, and the write at the commit.                      *)
(*                                                                         *)
(* A step is one statement.  Its mode is                                   *)
(*   "share"     FOR SHARE, on the newest version of each row              *)
(*   "update"    FOR UPDATE, UPDATE, INSERT or an advisory lock            *)
(*   "read"      SELECT without a lock, on what is committed now           *)
(*   "snapshot"  tables a locking statement joins without locking them:    *)
(*               PostgreSQL reads them when the statement starts, before   *)
(*               it waits for its locks, and does not read them again      *)
(* A lock is held until the transaction ends.  Foreign keys lock rows the  *)
(* transaction holds already; pg_advisory_xact_lock is the lock of a row   *)
(* that has no value.  The cleaner of uploads is modelled in Attachments.  *)
(***************************************************************************)
EXTENDS Rows, Sequences

CONSTANT Tx   \* transactions

VARIABLES
  db,        \* committed rows
  status,    \* "idle", "running" or "ended"
  command,   \* its command
  plan,      \* its statements
  at,        \* the next of them
  seen       \* the values it read, by row

C == INSTANCE Commands WITH db <- db, User <- User, Bots <- Bots, Conv <- Conv,
                            Sent <- Sent, Kinds <- Kinds

vars == <<db, status, command, plan, at, seen>>

Step(mode, rows) == [mode |-> mode, rows |-> rows]
Share(r) == Step("share", {r})
Update(r) == Step("update", {r})

-----------------------------------------------------------------------------
(* The statements of each transaction.  MutationAccessEarly, MembershipTxShared  *)
(* and AdminTxShared are plausible slips that no specification uses: the runs    *)
(* show that each would be found.                                                *)

\* pg_advisory_xact_lock on a pair, on a client_message_id and on all forwards.  The
\* sends of a user to one conversation have one client_message_id: if they had two,
\* the second send would wait for the row of the conversation instead.
PairKey(u, v) == <<"chat.direct", u, v>>
ClientKey(u, c) == <<"message.dedup", u, c>>
ForwardKey == <<"message.forward", 0, 0>>

\* activityAccess reads the settings in the statement that locks the Project.  Edits
\* and deletions have no client_message_id to lock.
ActivityAccess(cmd, keys) ==
  <<Step("snapshot", {Setting("allow_bots")}), Share(Project), Share(Account(cmd.by))>>
    \o keys \o <<Update(Conversation(cmd.conv)), Share(Member(cmd.conv, cmd.by))>>

WriteAccess(cmd) == ActivityAccess(cmd, <<Update(ClientKey(cmd.by, cmd.conv))>>)

SendMessage(cmd) == WriteAccess(cmd) \o <<Update(Message(cmd.conv))>>

MutationAccessEarly(cmd) ==
  <<Step("snapshot", {Setting("allow_bots")}), Share(Project), Share(Account(cmd.by)),
    Update(Message(cmd.conv)), Update(Conversation(cmd.conv)),
    Share(Member(cmd.conv, cmd.by))>>

MutationAccess(cmd) == ActivityAccess(cmd, <<>>) \o <<Update(Message(cmd.conv))>>

DeleteMessage(cmd) ==
  MutationAccess(cmd)
    \o <<Step("read", {Setting("allow_delete")}), Update(Attachment(cmd.conv))>>

\* The target is locked as for a send, the source only FOR SHARE; cmd.target is the
\* author whose name the forward copies.
ForwardMessage(cmd) ==
  <<Update(ForwardKey)>> \o WriteAccess(cmd)
    \o <<Share(Member(cmd.source, cmd.by)), Share(Message(cmd.source)),
         Share(Account(cmd.target)), Update(Message(cmd.conv)),
         Share(Attachment(cmd.source)), Update(Attachment(cmd.conv))>>

\* lockProject, and lockUsers ORDER BY id.
LockUsers(cmd) ==
  <<Share(Project), Share(Account(Least(cmd.by, cmd.target))),
    Share(Account(Greatest(cmd.by, cmd.target))),
    Step("read", {Setting("allow_bots")})>>

MembershipTxShared(cmd) ==
  LockUsers(cmd) \o <<Share(Conversation(cmd.conv)), Share(Member(cmd.conv, cmd.by))>>

MembershipTx(cmd) ==
  LockUsers(cmd) \o <<Update(Conversation(cmd.conv)), Share(Member(cmd.conv, cmd.by))>>

ChangeMember(cmd) ==
  MembershipTx(cmd)
    \o <<Update(Member(cmd.conv, cmd.target)), Step("read", Members(cmd.conv))>>

CreateDirect(cmd) ==
  LET low == Least(cmd.by, cmd.target)
      high == Greatest(cmd.by, cmd.target)
  IN LockUsers(cmd)
       \o <<Update(PairKey(low, high)), Step("read", {Pair(low, high)}),
            Update(Pair(low, high))>>

AdminTxShared(cmd) == <<Share(Project), Share(Account(cmd.by))>>

\* FOR UPDATE OF p FOR SHARE OF u.
AdminTx(cmd) == <<Update(Project), Share(Account(cmd.by))>>

ChangeBan(cmd) ==
  AdminTx(cmd) \o <<Update(Account(cmd.target)), Step("read", Accounts)>>

UpdateSettings(cmd) == AdminTx(cmd) \o <<Update(Setting(cmd.kind))>>

SetRole(cmd) == <<Update(Project), Update(Account(cmd.target))>>

\* Get runs under REPEATABLE READ: its first statement fixes all it reads.
Download(cmd) ==
  <<Step("snapshot", {Attachment(cmd.conv), Project, Message(cmd.conv),
                      Member(cmd.conv, cmd.by)}),
    Share(Attachment(cmd.conv)), Share(Project), Share(Message(cmd.conv)),
    Share(Member(cmd.conv, cmd.by))>>

Report(cmd) ==
  AdminTx(cmd) \o <<Share(Message(cmd.conv)), Share(Member(cmd.conv, cmd.by))>>

PatchUser(cmd) == <<Share(Project), Update(Account(cmd.by))>>

Plan(cmd) ==
  CASE cmd.kind = "send" -> SendMessage(cmd)
    [] cmd.kind = "delete" -> DeleteMessage(cmd)
    [] cmd.kind = "forward" -> ForwardMessage(cmd)
    [] cmd.kind \in {"add", "promote", "demote", "remove"} -> ChangeMember(cmd)
    [] cmd.kind = "direct" -> CreateDirect(cmd)
    [] cmd.kind \in {"ban", "unban"} -> ChangeBan(cmd)
    [] cmd.kind \in {"allow_bots", "allow_delete"} -> UpdateSettings(cmd)
    [] cmd.kind \in {"appoint", "dismiss"} -> SetRole(cmd)
    [] cmd.kind = "download" -> Download(cmd)
    [] cmd.kind = "report" -> Report(cmd)
    [] OTHER -> PatchUser(cmd)

-----------------------------------------------------------------------------
(* Locks                                                                   *)

Running(t) == status[t] = "running"
StepOf(t) == plan[t][at[t]]
Finished(t) == at[t] > Len(plan[t])
RepeatableRead(t) == command[t].kind = "download"

Locking == {"share", "update"}

Holds(t, r, mode) ==
  /\ Running(t)
  /\ \E i \in 1..(at[t] - 1) :
       plan[t][i].mode = mode /\ r \in plan[t][i].rows

\* The other transactions whose locks conflict with the next step of t.
WaitsFor(t) ==
  IF Running(t) /\ ~Finished(t) /\ StepOf(t).mode \in Locking
  THEN {t2 \in Tx \ {t} : \E r \in StepOf(t).rows :
          \/ Holds(t2, r, "update")
          \/ Holds(t2, r, "share") /\ StepOf(t).mode = "update"}
  ELSE {}

\* Transactions that wait for each other in a circle.
Deadlocked(D) ==
  /\ D # {}
  /\ \A t \in D : WaitsFor(t) \cap D # {} /\ \E t2 \in D : t \in WaitsFor(t2)

-----------------------------------------------------------------------------
(* Steps of the transaction t                                              *)

Nothing == CHOOSE cmd \in Command : TRUE

Begin(t) ==
  /\ status[t] = "idle"
  /\ \E cmd \in Command :
       /\ command' = [command EXCEPT ![t] = cmd]
       /\ plan' = [plan EXCEPT ![t] = Plan(cmd)]
  /\ status' = [status EXCEPT ![t] = "running"]
  /\ at' = [at EXCEPT ![t] = 1]
  /\ UNCHANGED <<db, seen>>

\* The values of the next step are added to what t has read.
Reading(t) ==
  [r \in DOMAIN seen[t] \cup (StepOf(t).rows \cap Row) |->
     IF r \in StepOf(t).rows THEN db[r] ELSE seen[t][r]]

\* Under REPEATABLE READ a row that changed since the snapshot cannot be locked.
Unchanged(t) ==
  RepeatableRead(t) /\ StepOf(t).mode # "snapshot" =>
    \A r \in StepOf(t).rows : seen[t][r] = db[r]

\* What a statement returns is checked before the next one is sent.
Accepted(t) ==
  StepOf(t).mode # "snapshot" =>
    \A r \in DOMAIN Reading(t) : Check(command[t], r, Reading(t)[r])

\* COMMIT or ROLLBACK releases every lock.
End(t) ==
  /\ status' = [status EXCEPT ![t] = "ended"]
  /\ command' = [command EXCEPT ![t] = Nothing]
  /\ plan' = [plan EXCEPT ![t] = <<>>]
  /\ at' = [at EXCEPT ![t] = 1]
  /\ seen' = [seen EXCEPT ![t] = <<>>]

Ready(t) == Running(t) /\ ~Finished(t) /\ WaitsFor(t) = {}

Advance(t) ==
  /\ Ready(t) /\ Unchanged(t) /\ Accepted(t)
  /\ at' = [at EXCEPT ![t] = @ + 1]
  /\ seen' = [seen EXCEPT ![t] = Reading(t)]
  /\ UNCHANGED <<db, status, command, plan>>

Refuse(t) ==
  /\ \/ Ready(t) /\ Unchanged(t) /\ ~Accepted(t)
     \/ Running(t) /\ Finished(t) /\ ~OthersStay(command[t], seen[t])
  /\ End(t)
  /\ UNCHANGED db

\* SQLSTATE 40001: the command fails, nothing repeats it.
SerializationFailure(t) ==
  /\ Ready(t) /\ ~Unchanged(t)
  /\ End(t)
  /\ UNCHANGED db

Commit(t) ==
  /\ Running(t) /\ Finished(t)
  /\ OthersStay(command[t], seen[t])
  /\ db' = After(command[t], seen[t], db)
  /\ End(t)

\* The request is cancelled, times out, or its process or connection dies.
Rollback(t) ==
  /\ Running(t)
  /\ End(t)
  /\ UNCHANGED db

\* SQLSTATE 40P01: PostgreSQL aborts one of a circle; nothing repeats its command.
DeadlockVictim(t) ==
  /\ \E D \in SUBSET Tx : t \in D /\ Deadlocked(D)
  /\ End(t)
  /\ UNCHANGED db

Proceed(t) ==
  Advance(t) \/ Refuse(t) \/ SerializationFailure(t) \/ Commit(t) \/ DeadlockVictim(t)

Init ==
  /\ C!Init
  /\ status = [t \in Tx |-> "idle"]
  /\ command = [t \in Tx |-> Nothing]
  /\ plan = [t \in Tx |-> <<>>]
  /\ at = [t \in Tx |-> 1]
  /\ seen = [t \in Tx |-> <<>>]

Next == \E t \in Tx : Begin(t) \/ Proceed(t) \/ Rollback(t)

Spec == Init /\ [][Next]_vars

-----------------------------------------------------------------------------

(* A command acts as if it ran alone at its commit: everything its decision      *)
(* rests on is as it was read.  This is why one action per command is enough in   *)
(* Membership and Conversation.                                                   *)
OneAtATime == C!Spec

(* Whatever a transaction read under its locks, or under the lock of the row that  *)
(* guards it, stays so until it ends.                                              *)
ReadsCurrent ==
  \A t \in Tx : Running(t) =>
    \A i \in 1..(at[t] - 1) : plan[t][i].mode # "snapshot" =>
      \A r \in plan[t][i].rows \cap Row : seen[t][r] = db[r]

(* Project, users, conversation, members, message, attachment: the commands lock   *)
(* in an order that never makes a circle of two or more unless a download is one.  *)
OnlyDownloadsDeadlock ==
  \A D \in SUBSET Tx : Deadlocked(D) => \E t \in D : command[t].kind = "download"

(* Once allow_bots is off no bot writes.                                            *)
BotsBarred ==
  [][\A t \in Tx :
       Commit(t) /\ command[t].kind \in Writes /\ command[t].by \in Bots
         => db[Setting("allow_bots")]]_vars
=============================================================================
