-------------------------------- MODULE Rows --------------------------------
(***************************************************************************)
(* The rows of one Project as the commands see them: what a command reads, *)
(* what it demands of it and what it writes.  Every conversation has room  *)
(* for one message with one attachment, enough to tell a live message from *)
(* a tombstone.                                                            *)
(***************************************************************************)
EXTENDS Naturals

CONSTANTS
  User,    \* users, numbered so that their rows can be locked in order
  Bots,    \* users of kind bot
  Conv,    \* conversations, GROUPs created earlier
  Sent,    \* the conversations in which somebody has sent an image
  Kinds    \* the commands of an instance

ASSUME RowsAssumption ==
  /\ User \subseteq Nat \ {0} /\ Conv \subseteq Nat \ {0}
  /\ Bots \subseteq User /\ Sent \subseteq Conv

-----------------------------------------------------------------------------
(* Rows, named by their table and key                                      *)

Project == <<"projects", 0, 0>>
Setting(flag) == <<flag, 0, 0>>            \* one flag of project_settings
Account(u) == <<"users", u, 0>>
Conversation(c) == <<"conversations", c, 0>>
Member(c, u) == <<"conversation_members", c, u>>
Message(c) == <<"messages", c, 0>>
Attachment(c) == <<"attachments", c, 0>>
Pair(u, v) == <<"direct_pairs", u, v>>

Accounts == {Account(u) : u \in User}
Conversations == {Conversation(c) : c \in Conv}
Members(c) == {Member(c, u) : u \in User}
Messages == {Message(c) : c \in Conv}
Attachments == {Attachment(c) : c \in Conv}
Pairs == {Pair(u, v) : u \in User, v \in User}

Row ==
  {Project, Setting("allow_bots"), Setting("allow_delete")}
  \cup Accounts \cup Conversations \cup (UNION {Members(c) : c \in Conv})
  \cup Messages \cup Attachments \cup Pairs

Least(u, v) == IF u < v THEN u ELSE v
Greatest(u, v) == IF u < v THEN v ELSE u

-----------------------------------------------------------------------------
(* Commands                                                                *)

Writes == {"send", "delete", "forward"}
Manages == {"add", "promote", "demote", "remove"}
Administers == {"ban", "unban", "allow_bots", "allow_delete"}
Operates == {"appoint", "dismiss"}

\* Fields a command does not use are fixed.  A forward here is one between two
\* conversations, and a DIRECT pair has two members.
Command ==
  {cmd \in [kind : Kinds, by : User, conv : Conv, target : User, source : Conv] :
     /\ (cmd.kind = "forward") = (cmd.source # cmd.conv)
     /\ cmd.kind \notin Manages \cup {"forward", "direct", "ban", "unban"} => cmd.target = cmd.by
     /\ cmd.kind = "direct" => cmd.target # cmd.by
     /\ cmd.kind \in Administers \cup Operates \cup {"direct", "profile"} =>
          \A c \in Conv : cmd.conv <= c}

\* The rows whose values decide what a command does.  A bot that writes has its
\* allow_bots read too early for that (BotsBarred in Locks), so it is not one of them.
\* requireFeature and the blacklist read settings in the same way as delete does.
Inputs(cmd) ==
  CASE cmd.kind = "send" -> {Account(cmd.by), Member(cmd.conv, cmd.by), Message(cmd.conv)}
    [] cmd.kind = "delete" ->
         {Account(cmd.by), Member(cmd.conv, cmd.by), Message(cmd.conv), Setting("allow_delete")}
    [] cmd.kind = "forward" ->
         {Account(cmd.by), Member(cmd.conv, cmd.by), Message(cmd.conv),
          Member(cmd.source, cmd.by), Message(cmd.source), Attachment(cmd.source)}
    [] cmd.kind \in Manages ->
         {Account(cmd.by), Setting("allow_bots")} \cup Members(cmd.conv)
    [] cmd.kind = "direct" ->
         {Account(cmd.by), Setting("allow_bots"),
          Pair(Least(cmd.by, cmd.target), Greatest(cmd.by, cmd.target))}
    [] cmd.kind \in {"ban", "unban"} -> Accounts
    [] cmd.kind \in {"allow_bots", "allow_delete"} -> {Account(cmd.by), Setting(cmd.kind)}
    [] cmd.kind \in Operates -> {Account(cmd.target)}
    [] OTHER -> {}

\* What a command demands of the value v of row r.
Check(cmd, r, v) ==
  /\ r = Account(cmd.by) /\ cmd.kind \notin Operates \cup {"download"} =>
       /\ ~v.banned
       /\ cmd.kind \in Administers => v.admin
       /\ cmd.kind \in Manages \cup {"direct", "report"} => cmd.by \notin Bots
  /\ r = Setting("allow_bots") =>
       /\ cmd.kind \in Writes /\ cmd.by \in Bots => v
       /\ cmd.kind \in {"add", "direct"} /\ cmd.target \in Bots => v
  /\ r = Setting("allow_delete") /\ cmd.kind = "delete" => v
  /\ r = Member(cmd.conv, cmd.by)
     /\ cmd.kind \in Writes \cup Manages \cup {"download", "report"} =>
       /\ v # "none"
       /\ cmd.kind \in Manages \ {"remove"} => v = "moderator"
       /\ cmd.kind = "remove" /\ cmd.by # cmd.target => v = "moderator"
  /\ r = Member(cmd.conv, cmd.target) /\ cmd.kind \in Manages =>
       /\ IF cmd.kind = "add" THEN v = "none" ELSE v # "none"
       /\ cmd.kind = "promote" => cmd.target \notin Bots
  /\ r = Member(cmd.source, cmd.by) /\ cmd.kind = "forward" => v # "none"
  /\ r = Message(cmd.conv) => CASE cmd.kind \in {"send", "forward"} -> v.by = 0
                                [] cmd.kind = "delete" -> v = [by |-> cmd.by, live |-> TRUE]
                                [] OTHER -> v.live
  /\ r = Message(cmd.source) /\ cmd.kind = "forward" => v = [by |-> cmd.target, live |-> TRUE]
  /\ r = Attachment(cmd.conv) /\ cmd.kind = "download" => v = "attached"
  /\ r = Attachment(cmd.source) /\ cmd.kind = "forward" => v = "attached"
  /\ r \in Pairs => v = 0

\* keepModerator and the last administrator: somebody else has to stay.
OthersStay(cmd, rows) ==
  /\ cmd.kind \in {"demote", "remove"} /\ rows[Member(cmd.conv, cmd.target)] = "moderator" =>
       \E u \in User \ {cmd.target} : rows[Member(cmd.conv, u)] = "moderator"
  /\ cmd.kind = "ban" /\ rows[Account(cmd.target)].admin =>
       \E u \in User \ {cmd.target} : rows[Account(u)].admin /\ ~rows[Account(u)].banned

Allowed(cmd, rows) ==
  /\ \A r \in Inputs(cmd) : Check(cmd, r, rows[r])
  /\ OthersStay(cmd, rows)

Written(cmd) ==
  CASE cmd.kind = "send" -> {Message(cmd.conv)}
    [] cmd.kind \in {"delete", "forward"} -> {Message(cmd.conv), Attachment(cmd.conv)}
    [] cmd.kind \in Manages -> {Member(cmd.conv, cmd.target)}
    [] cmd.kind = "direct" -> {Pair(Least(cmd.by, cmd.target), Greatest(cmd.by, cmd.target))}
    [] cmd.kind \in {"ban", "unban"} \cup Operates -> {Account(cmd.target)}
    [] cmd.kind \in {"allow_bots", "allow_delete"} -> {Setting(cmd.kind)}
    [] OTHER -> {}

\* The value a command gives to the row r it writes.
NewValue(cmd, rows, r) ==
  CASE r = Message(cmd.conv) -> [by |-> cmd.by, live |-> cmd.kind # "delete"]
    [] r = Attachment(cmd.conv) -> IF cmd.kind = "delete" THEN "deleted" ELSE "attached"
    [] cmd.kind = "promote" -> "moderator"
    [] cmd.kind \in {"add", "demote"} -> "member"
    [] cmd.kind = "remove" -> "none"
    [] cmd.kind = "direct" -> cmd.by
    [] cmd.kind \in {"ban", "unban"} -> [rows[r] EXCEPT !.banned = cmd.kind = "ban"]
    [] cmd.kind \in Operates -> [rows[r] EXCEPT !.admin = cmd.kind = "appoint"]
    [] OTHER -> ~rows[r]

After(cmd, rows, base) ==
  [r \in Row |-> IF r \in Written(cmd) THEN NewValue(cmd, rows, r) ELSE base[r]]
=============================================================================
