------------------------------ MODULE Commands ------------------------------
(***************************************************************************)
(* What a client, an administrator and the operator may assume of the      *)
(* commands of one Project: a command acts at once, on the rows as they    *)
(* are at that moment.  Membership and Conversation take this for granted; *)
(* Locks shows that the transactions of the repositories keep it.          *)
(***************************************************************************)
EXTENDS Rows

VARIABLE db   \* the committed rows

\* All humans are moderators and administrators; one member has sent an image to some
\* conversations, and nobody has written to the others yet.
Init ==
  \E author \in User :
    db = [r \in Row |->
            CASE r \in Accounts -> [admin |-> r \notin {Account(b) : b \in Bots}, banned |-> FALSE]
              [] r \in UNION {Members(c) : c \in Conv} ->
                   IF r[3] \in Bots THEN "member" ELSE "moderator"
              [] r \in Messages ->
                   IF r[2] \in Sent THEN [by |-> author, live |-> TRUE]
                                    ELSE [by |-> 0, live |-> FALSE]
              [] r \in Attachments ->
                   IF r[2] \in Sent THEN "attached" ELSE "none"
              [] r \in {Setting("allow_bots"), Setting("allow_delete")} -> TRUE
              [] OTHER -> 0]

Execute(cmd) ==
  /\ Allowed(cmd, db)
  /\ db' = After(cmd, db, db)

\* A command that changes no row is not a step.
Next ==
  /\ db' # db
  /\ \E cmd \in Command : Execute(cmd)

Spec == Init /\ [][Next]_db
=============================================================================
