# AlUrMessenger: a verification project

TLA+ models of the messenger's server, the TLC runs that check them, and theorems
that TLAPS proves. Paths are relative to the repository, which is `src/` here.

    tlc -workers 2 -config Locks.cfg MCLocks     # one run
    tlapm LocksProofs.tla                        # the proofs of one module

## 1. The system

A Go server keeps Projects of users, conversations and messages in PostgreSQL. API
processes serve REST and WebSocket; worker processes publish the event outbox to
Kafka, turn the topic into Redis hints that wake the API processes, and clean up
uploads. PostgreSQL is the authority: a hint or a presence lease may be lost at any
time, a committed event never.

| Component | State | Operations | Interacts with |
|---|---|---|---|
| Event log (`event/repository`) | `event_sequence`, `conversation_events`, `outbox_events` | `Append` | called by every command inside its transaction |
| Conversations, membership (`conversation/repository`) | `conversations`, `conversation_members`, `direct_pairs` | Create, Patch, AddMembers, PatchMember, RemoveMember | Event log, Project bans, settings |
| Messages (`message/repository/postgres.go`, `mutations.go`) | `messages`, `message_idempotency`, `message_search`, preview | Send, Edit, Delete | membership, blacklist, attachments |
| Forwards (`forward.go`) | as messages, and copies of attachments | forward | two conversations |
| Reactions, pins (`relations.go`) | `message_reactions`, `pinned_messages` | React, SetPin | messages |
| Receipts, replay (`recovery.go`) | read and delivery checkpoints | Receipt, Replay, Snapshot | sessions |
| Outbox worker (`outbox/outbox.go`) | `published_at`, `next_attempt_at`, an advisory lock | Run, Batch, One | PostgreSQL, Kafka |
| Hint router (`outbox/router.go`) | `consumer_inbox`, committed offsets | Run, Handle | Kafka, Redis |
| Session (`realtime/session.go`, `connection.go`) | subscriptions and cursors, three bounded queues | run, read, write, heartbeat | Replay, Hub, Presence |
| Hub (`realtime/hub.go`) | the connections of a process, `draining` | add, identify, remove, Wake, Drain | sessions, Redis |
| Presence (`realtime/presence.go`) | leases and pending last-seen marks in Redis | Touch, Drop, Typing, Flush | sessions |
| Attachments (`attachment`) | `storage_objects`, `attachments` | Upload (Begin, put, Ready), Get, Cleaner.One | messages, object store |
| Moderation (`moderation`) | blacklist, reports, Project bans | Create, Update, Delete, Review, Ban, Unban | membership, messages |
| Administration (`policy`, `provision`) | settings, roles | Update, SetRole | every command |
| Admission (`platform/admission`) | counters in Redis | Take, Before, After | every request, every WebSocket command |
| API documents (`platform/apidocs`) | the page in a browser tab and the token typed into it | load, Authorize, Logout, Try it out | Admission |

All of them share the rows of one PostgreSQL database, and their transactions lock what they
read and write: `projects` first, then users, an advisory lock, the conversation, its member, the message,
its attachments. There is no lock in the processes themselves.

What is hard here: the commands of many processes on the rows of one conversation, under READ
COMMITTED, where a value read without a lock is already old; transactions that wait for each other;
retries after a lost answer; retention that ends with time and not with a command;
a publication that spans a database transaction and a broker; a consumer group that
moves partitions under a slow router; sockets whose reader, writer and polling loop
share bounded queues. `PROJECT.json` lists each hazard at its line.

What makes each component correct:

- Event log: sequences are dense, each committed change has its event, and the same
  events are replayed and published.
- Membership: a GROUP or CHANNEL keeps a moderator, only humans moderate, DIRECT
  pairs never change, every change is logged.
- Messages: sequences and order are those of the log, a retry stores nothing twice, a
  tombstone is final and empty, the preview is valid, rejected text is never stored.
- Transactions: a command acts as if it ran alone at its commit, and no order of locks makes a circle.
- Outbox and router: at-least-once, in order, eventually, with duplicates ignored.
- Sessions: every event of a subscription is delivered in order from its cursor, nothing is
  written that its user may not see any more, and whatever ends a connection ends all of it.
- Attachments: an object that can be used has its bytes, outlives its references and is
  removed in the end.
- Admission: no key passes its limit in a window, every window ends, and who waits `Retry-After` is not
  refused by the same window. API documents: no token outlives its page.

## 2. Modules

    EventLog            the log of one conversation
      Membership        members, roles, bans, Project administration
        Conversation    messages, relations, receipts on top of it
    Delivery            what the outbox promises (abstract)
      Outbox            the workers; implements Delivery
      Router            the routers; consumes Delivery
    Subscription        what a subscribed client sees (abstract)
      Session           run and write of one WebSocket; implements Subscription
    Connection          goroutines of the sockets of a process, Hub, leases
    Attachments         uploads, their use by messages, the cleaner
    Rows                rows, commands, what each reads, demands and writes
      Commands          a command acts at once (abstract)
      Locks             its transaction, statement by statement; implements Commands
    ApiDocs             the page /docs/api in a browser tab
      Admission         quotas, origins and tokens of the requests it and others send
    ConversationProofs, OutboxProofs, RouterProofs, SessionProofs, ConnectionProofs,
    AttachmentsProofs, LocksProofs, AdmissionProofs   theorems (section 4)
    MC*                 instances for TLC

**EventLog.** `AppendEvent` is `Append`: one increment and two inserts. An envelope keeps
its sequence, kind, the resource it names and that resource's version (0 where the payload
has none). `AppendEvents` is the loop of `AddMembers`, one call for each member in any order.

**Membership.** One conversation from before its creation. `role`, `left`, `banned` and
`member_version` are the columns of `conversation_members`; `project_banned` and `flags`
stand for `users.banned_at` and the switches of `project_settings`. Every action is one
transaction; that transactions act like single steps is what `Locks` is about.
Two histories are not in the code: `founders`, the members of the creation, and, by its
position in the log, each event's membership. Refused commands and commands whose
`expected_version` is stale change nothing and are no actions. `BanUser` checks the last
administrator as `Bans.change` does.

**Conversation.** Adds one variable per column the properties read. A message is `active`,
`expired` (`expires_at` passed, the row unchanged) or `deleted`. `Send`, `Forward`, `Edit`,
`Delete`, `React`/`Unreact`, `Pin`/`Unpin` and `Receipt` are the functions of
`message/repository`, each with its access check (`ActivityAccess`, `WriteAccess`,
`MutationAccess`, `RelationAccess`, `PinAccess`). `Store` is the common tail of `Send` and
`forward`. `Expire` and `Lapse` are time: the retention deadline and the 365 days of an
idempotency receipt. A retry that finds its live receipt writes nothing and is no action.
Bodies are model values; blacklist matching is membership in `rejected`.

**Delivery.** The contract of the topic: an event is known by its sequence in its
conversation, it is committed, arrives for the first time only after its predecessor, and
may arrive again.

**Outbox.** `Select` is the query of `Batch`; `Claim`/`Skip`, `Publish`, `Mark`/`Postpone`
are the steps of `One`, with the crash points between them. The advisory lock belongs to
the database session and not to the worker: `LoseSession` frees it while the worker goes
on publishing, and `Abandon` is the first statement that then fails. Produce requests are
in `inflight` until they arrive, and arrive also after their worker gave them up (`Fail`,
`ArriveLate`) or died. The row lock of the head adds nothing to the advisory lock, since nobody
else writes these columns.

**Router.** `Poll`, `Check`, `SendHint`, `Record`, `CommitOffset` are the steps of `Run` and
`Handle`. `Again` is any failure after the lock was taken. A router evicted from the
group while it has a record in hand keeps handling it (`Refused`): its commit is refused, and
with `BlockRebalanceOnPoll` its client cannot rejoin before `AllowRebalance`, which comes
after the record. The model lets the group lose all but one of its routers that way; if
it lost every one, hints would stop until a process restarts, and clients would live from
the one-second polling of their sessions (`docs/REALTIME.md`). Of Kafka the model assumes what
the code relies on: one owner of a partition, records in order, offsets committed only by the
owner.

**Subscription.** The contract of a stream: from the cursor it subscribed with, the client gets
the committed events one by one until the subscription ends.

**Session.** Two goroutines of one socket and the queue between them. `run` owns the subscriptions:
`Subscribe`, `Unsubscribe` and `OtherCommand` are `command`, `CatchUp` is a wake, which asks nobody about
the credential, `Poll` the tick of a second, which does, and `replay` is `Replay` (its transaction), then
one `Push` for each frame, since the writer works in between. `write` is `Top`, `Take`, `Verify`,
`Authorise`, `Reread` and `Write`, each a read of another service; `Reread` reads the event, or the message
of a reply to a message command, once more. A full queue sets `closing` (`Enqueue`), and a select between
`closing` and the queue may go either way (`CloseFirst`, `Take`). `live` and `cursor` are what the client
makes of the frames. `allowed` and `revoked` are histories: the permissions that held at some moment since
the writer took its frame, and the conversations announced as revoked since their last subscribe. The wake
channel is not modelled: `CatchUp` is always possible, and so nothing depends on a hint. A command that is
refused for its rate or its payload, and ephemeral frames are frames like `ack`; the expiry of the token
acts like `LogOut`; `resync.required` needs a gap in the log, which `LogDense` excludes.

**Connection.** The handler of each socket from `Hub.add` to `Hub.remove` (`main`), the reader,
the writer and the heartbeat it starts, and the three signals between them: the socket (`open`), the
context (`cancelled`) and the closing channel (`closing`). Only the ways in which a goroutine ends,
and what blocks it, are modelled: what the writer delivers is in `Session`. All connections belong to
one user, whose leases in Redis are limited. `Drain` notes its connections in one critical section, asks,
waits five seconds, forces, and waits for the WaitGroup. A failing Redis may have executed a
script (`TouchFails`, `BeatFails`); `lost` remembers which leases a failing handler left behind.

**Attachments.** One row of `storage_objects` per upload, one row of `attachments` for the upload and
for each forwarded copy, the bucket, and where each request and cleaner is. A request's
transaction holds the locks of the rows it checks until it commits and is one step; the cleaner's
is `Look`, the snapshot of its query, and `Claim`, which under READ COMMITTED locks the object row
and checks only that row again if it changed. `PutFails`, `ReadyFails` and `CleanerFails` are errors or
deaths between any two steps. `Age` is the hour and `Lapse` the 24 hours of `expires_at`; a put is
assumed to end, one way or the other, within the hour. Rows that another transaction holds locked
are skipped by the cleaner, therefore `Claim` takes any row its query found. Attached rows of
expired messages stay attached until the message is deleted, as in the code.

**Rows, Commands.** The tables of one Project as functions from row names to what decides commands:
whether a user is banned or an administrator, a member's role, who wrote a message and whether it is
live. `Inputs` are the rows a command decides by, `Check` is what it demands of each, `OthersStay` is
`keepModerator` and the last administrator, `NewValue` what it writes. `Commands` executes them in one step.

**Locks.** Each running transaction has a `plan`, the list of its statements in the order of the code:
`SendMessage`, `DeleteMessage`, `ForwardMessage`, `ChangeMember`, `CreateDirect`, `ChangeBan`,
`UpdateSettings`, `SetRole`, `Download`, `Report`, `PatchUser`. A statement reads in one of four modes:
FOR SHARE, FOR UPDATE (also UPDATE, INSERT and advisory locks), without a lock, or in the snapshot of a
statement that then waits for its locks; the last is what PostgreSQL does with a joined table that FOR
SHARE OF does not name. `Advance` reads and checks, `Commit` writes `NewValue` of what was *read*, on
top of what is *committed*, so that a stale read shows. `Refuse`, `Rollback`, `DeadlockVictim` (40P01)
and `SerializationFailure` (40001, `Get` under REPEATABLE READ) end a transaction without a trace:
nothing in the repository repeats a command. Writes appear at the commit; before it nobody can read
them, since readers under READ COMMITTED see committed rows only. One conversation holds one message
with one attachment, and the sends of a user to it have one client identifier, because with two the
second send would only wait at the next row instead. Edits,
reactions and pins lock the rows of a deletion in its order; receipts, which update the reader's own member
row, the first access of a user, typing, and the queries, which lock at most the reader's member row, have no
plan of their own. A step that all transactions share (`Begin`, `Accepted`, `Refuse`, `Commit`, and `Execute` of
`Commands`) names one transaction as its example; the plans name the code of each. The counters of events and
messages are no rows of this model: one UPDATE ... RETURNING reads, increments and locks them.

**ApiDocs.** `Settings` is the object that `initializer.js` gives to `SwaggerUIBundle`, and `Load`,
`Authorize`, `Logout`, `Close` are what the page does under such settings; of the vendored bundle only that
much is modelled, and as an external library: its minified file has no lines to point at. `Query` stands for
links that ask for other settings in their query string.

**Admission.** `Counted` is the Redis script, `Take` its call, which go-redis may repeat when an answer
is lost. A request passes `Before` (address, then origin), `Authenticate` and `After` (user); `Frame` is
a command of a WebSocket, which takes from the same user. `Fails` is Redis out of reach or an answer
that came too late; a failing Redis keeps its keys (an eviction or a flush would start every window
anew, as in the code). The counter stops growing one or two above the limit, since more makes no
difference. `admitted` and `blocker` are histories: what the window of a key has let pass, and whose
window a client is waiting for. Requests come from the page of `ApiDocs` with its methods and its token,
or from other clients with their own.

## 3. Runs

| Run | Instance | What it checks |
|---|---|---|
| `Conversation` | 2 humans, both administrators, 1 bot, 3 messages, 2 attachments, 2 client ids, caps of 1, 5 events, four focuses | members and their log, previews, message order, retries, authors of forwards, versions, tombstones, caps, linked attachments, rejected text never stored, excluded users inert, checkpoints |
| `MembershipAble` | 3 humans, 1 administrator | violated: see Findings |
| `Outbox` | 2 workers, 2 conversations of 2 events, batches of 1, 2 faults | marked only after arrival, refinement of Delivery, eventual publication |
| `Router` | 2 routers, 2 partitions of 2 events, 2 faults | no hint skipped, duplicates ignored, every event hinted |
| `Session` | 1 conversation of 2 events, queue of 2, batches of 1, 2 commands, 2 changes, 1 fault | types, refinement of Subscription, truthful sync.complete, content authorised, eventual delivery |
| `SessionRevoked` | the same without changes | violated: see Findings |
| `Connection` | 2 connections, 1 lease, 2 frames, 1 failure | a drain leaves nothing behind, everyone ends |
| `Attachments` | 2 uploads, 3 rows, 2 cleaners, 2 failures | types, ready objects stored, rows of an upload agree, eventual reclamation |
| `AttachmentsRace` | the same without failures | violated: see Findings |
| `Locks` | 2 transactions of any of 17 commands, 2 users, 2 conversations, 1 image | reads stay current, refinement of Commands, a deadlock needs a download |
| `LocksStale` | sends and switches of `allow_bots`, 1 bot | violated: see Findings |
| `Admission` | 1 address, 1 user, 2 requests, limits of 1, a window of 2 ticks | limits kept, waiting is enough, windows end, tokens forgotten |

Bounds. `MaxEvents` bounds the log and so every command of a behaviour; four or five events reach what
the properties are about (create, send, forward, forward again; create, send, pin, unpin or delete,
react). Every command is enabled in the one run of `MCConversation`; its `Focus` says which combinations
are extended: commands on members (`MembersFocus`), texts with replies, forwards, edits and repeated
commands, one receipt lapsed (`TextFocus`), reactions, pins and receipts while
members come and go (`RelationFocus`), images while the blacklist changes (`ImageFocus`). Each has one
expired message at most. A state one step beyond a focus is still checked. `InOrder` uses interchangeable messages, clients and attachments
in the order of their names, which stands for symmetry, and names the creator of a conversation. Caps of
1 stand for 32 reactions and 100 pins: the guards only compare. Two workers and two faults are the
smallest instance in which a worker with a lost session races its successor while a request of the first
is still on its way; batches of 1 of 2 ready heads make a batch leave a head behind. In `Session` a
queue of two overflows with two commands or one command and a batch, a threshold of 0 makes every frame
in the queue defer a catch-up, and event 2 is a receipt that can be hidden. Two cleaners claim one
object twice, three rows are an upload, its forward and another upload.

Two transactions in `Locks` are enough for a stale read, a lost write and a circle of two; the theorems
are about any number, and about bots, whom `Locks.cfg` leaves out for time (`LocksStale` has one). Two
users are the smallest number in which the last moderator matters and two locks on `users` can be
ordered; two conversations give a forward a source. Transactions are symmetric. In `Admission` limits of
1 make the second request the refused one, two ticks to a second make rounding matter, and a window of
one second is one that two requests can meet again. TLC's own check for deadlock, states without a
successor, is off: at the bound every behaviour may stop. Circles of transactions are a property of
`Locks`.

Fairness. The modules of commands, `Locks` included, have none: nothing forces a user to act. `Outbox`
assumes that live workers keep running `Batch` and `One` (both are bounded by contexts, and the
process is restarted by its orchestrator), that a request on its way arrives unless a
fault takes it, and that deadlines pass; nothing is assumed of which ready heads `Select`
takes. Faults are bounded, so that liveness reads "once the faults stop". `Router`
assumes that routers poll and handle, and of the topic the liveness that `Outbox` checks.

`Session` assumes
that both goroutines go on, because each of their reads and writes is bounded by a context, and
that the ticker makes `Poll` happen; nothing is assumed of wakes, clients or changes.
`Connection` assumes that each goroutine goes on when it can, since every wait in it has a deadline
or the context, and that a begun `Drain` goes on; it assumes nothing of frames, heartbeats, peers,
token expiry or whether there is a drain.
`Attachments` assumes only that workers are restarted and call `One` again, as `Run` does every
minute. `Admission` assumes that Redis keeps time (`Tick`), so that a stream of requests cannot hold
a window open, and nothing of clients or of Redis being reachable.

Each property has a mutant: a plausible slip of the code, written next to the definition as
`...Mutant`, under which TLC finds the property violated. No specification uses them.

### Findings

`keepModerator` (`internal/conversation/repository/membership.go:147`) protects the last
moderator against losing their role, being banned in the conversation or leaving, but does not
look at Project bans, although `internal/conversation/membership.go:12` speaks of "a live human
able to administer". `MembershipAble` shows it: two moderators, one banned in the Project, the
other leaves; nobody can administer the conversation while the ban lasts.

`subscription.revoked` is written by the writer when `Conversations.Get` returns any error
(`internal/realtime/session.go:201`), also when the database was merely unavailable, and `run` does not
learn of it: the subscription goes on behind a client that was told to remove it and clear its
cache (`WEBSOCKET_PROTOCOL.md:95`), with one event lost. `SessionRevoked` shows it with one failing read.

The cleaner's query (`internal/attachment/repository/reconcile.go:36`) decides on the snapshot of its
statement that nothing is attached and then locks only the object row, which `Send` never changes. A
`Send` that commits in between leaves an attached image whose object is removed, although
"attached references always win". It takes an upload older than an hour that is sent in the very
moment the cleaner reaches it. `AttachmentsRace` shows it.

`activityAccess` (`internal/message/repository/postgres.go:133`) reads `allow_bots` in the statement
that locks the Project. PostgreSQL takes the snapshot of that statement before it waits, and locks only
the Project, so that a bot's message that waits for an administrator's switch is decided by the value
from before the switch, and is stored after it; `docs/POLICIES.md:26` asks for a snapshot under the
lock. `LocksStale` shows it. `lockUsers` and `requireFeature` read in a statement after the lock and are
right. This is why `Inputs` leaves the flag out for bots that write: the refinement of `Commands` holds
for everything else they decide by.

Two observations that no run is about. `Get` locks an attachment before its Project and message
(`internal/attachment/repository/postgres.go:138`, `:161`), the other way round from a deletion or a
forward, and `OnlyDownloadsDeadlock` shows that among
the modelled transactions this is the only order that can make a circle;
PostgreSQL then aborts one of the two with 40P01, which becomes an error of the request.
`DECISIONS.md:55` speaks of a bounded retry of deadlocks and serialization failures, and there is none
in the code. And the 429 of an address is sent before the CORS headers are set
(`internal/platform/admission/admission.go:124`), so that the script of a page of another origin cannot
read its `Retry-After`.

## 4. Proofs

Each component has one module of theorems, for every value of its constants: any number of users,
messages, workers, routers, connections and requests, and any of the bounds that make TLC's instances
finite. Every invariant, action property and refinement of the passing runs is proved; only liveness is not.
TLC finds each invariant below to hold on the instances of section 3 (but for `EventsCounted`, whose
references range over all values).

**`ConversationProofs`, members.** From `MembershipAssumption` alone, for `MemberSpec`:
`MemberTypes` (`MemberTypeOK`), `ModeratorAlwaysKept`, `ModeratorsAlwaysHuman`, `LogAlwaysDense` and
`MembershipAlwaysLogged`. The inductive invariant `MemberInv` adds to the properties
`NothingBeforeCreation` (before the creation there is no member, no moderator and no event), without
which `ModeratorKept` is not preserved by commands on a conversation that does not exist.
`ModeratorKept` is preserved because each command either leaves some moderator alone or has
`KeepModerator` as a guard, and rejoining never takes a role from an active member; `ModeratorsHuman`
because a creator is never a bot and only the role patch makes moderators. `MembershipLogged` counts
events, so `EventsCounted` adds that the log is finite and that versions and founders are zero or empty
before the creation; `AppendCounts` says that one append adds one event to those of its reference.

**`ConversationProofs`, content.** From that and `ConversationAssumption`, for `Spec`: the five above
(`MembersAlwaysSound`), `VersionsAlwaysLogged`, `TombstonesAlwaysFinal`, `MessagesAlwaysOrdered`,
`PreviewAlwaysValid`, `AttachmentsAlwaysLinked`, `RetryAlwaysOnce`, `OriginAlwaysRoot`,
`RelationsAlwaysBounded`, and the action properties `ExcludedAlwaysInert`, `ContentAlwaysScreened` and
`CheckpointsAlwaysForward`. The invariant `Inv` is `MemberInv`, `EventsCounted` and `ContentInv`, whose
parts each have a section:

- `RowsComplete` (a row exists exactly when it has a sequence, and then has a sender, a client and a
  version) and `EventsTyped` (the kinds of events about messages refer to messages): every other part
  needs one of them, and `VersionsLogged` and `Tombstones` both.
- `ReceiptsValid` is the strengthening of `RetryOnce`: a receipt names a message of its own sender and
  `client_message_id`, there is one for the pair of every message, and it is the message's own unless the
  message's has lapsed. `RetryOnce` alone does not say which message a receipt replaced.
- `OriginsKept` is that of `OriginIsRoot`, whose definition follows a chain of forwards by recursion.
  It says instead that some assignment of authors agrees with each single forward, which a step
  can preserve; that the recursion then finds the same author is an argument by least counterexample
  on the sequences of the messages, which decrease along a chain.
- `RelationsFinite`: cardinalities of pins and reactions mean something, so that `RelationsBounded` can
  count the one that is added.
- `CheckpointsOrdered`: nobody has read what was not delivered to him, nor more than was sent.

`StepClasses` sorts the commands into those that store a message, edit, delete, change relations, let time
pass and do none of these; each part has one lemma for each class that can disturb it.

**`OutboxProofs`.** From `OutboxAssumption`: `PublishedAlwaysFirst`, and `OutboxImplementsDelivery`
(`OutboxSpec => InOrder`, `InOrder` being the specification of `Delivery` under the refinement mapping).
`OutboxInv` says what a lock means (`HolderFirst`: its holder works on the conversation it locked, and
exactly what precedes its event is marked published) and what is left when it is lost: the event of a busy
worker, and of every request still on its way, is `Due`, committed with all its predecessors in the
topic (`WorkDue`, `RequestsDue`). So a late request, of a crashed worker too, arrives as a duplicate or
as the next event and never early. `StepsOfContract` maps a commit to `Commit`, an arrival to `Deliver` or
`Redeliver`, and every other step to a stutter.

**`RouterProofs`.** For all constants: `NoHintEverSkipped` and `DuplicatesAlwaysIgnored`. `RouterInv` says
that all that precedes the record in a router's hand is in the inbox (`HandValid`: so the offset may be
committed by a router that lost the partition meanwhile), that the lock of an event has one holder
(`OneHolder`), that what the holder saw in the inbox is still so (`LockedUnseen`), and that hint and row
come before the offset (`HintedSent`, `DoneRecorded`).

**`SessionProofs`.** From `SessionAssumption`: `SessionTypes`, and with it that the queue stays within its
capacity and holds frames only; `ContentAlwaysAllowed`; `SyncAlwaysExact`; and
`SessionImplementsSubscription` (`SessionSpec => InSequence`, the specification of `Subscription`). There are
two invariants. `SessionInv` says what `write` knows at each place (`Asked`: the credential after
`Verify`, the membership after `Authorise`, the setting after `Reread`, each for frames with content
only), that `allowed` forgets nothing that holds now (`Remembered`, which turns an answer read
in one step into a permission that held), and that both goroutines have a frame where they need one
(`Busy`, `Held`). `Order` says where the frames lead: for each conversation the frame in the
hand of `write`, then those of the queue, take the client from its cursor to the position of `run`, one
event at a time (`Flowing`), and what `run` is about to enqueue continues from there (`PushingOrdered`).
When the connection is to be closed frames may be dropped, but `write` may still take one more: `LastFits`
and `HandFits` are what is left of `Flowing` then. `AllPast` keeps positions within the log and `Todo`
replays to subscriptions. `HandSays` reads off what writing the frame in hand does to the client.

**`ConnectionProofs`.** For all constants: `DrainAlwaysComplete` (`DrainLeavesNothing`).
`ConnectionInv` says that table and WaitGroup of the Hub know exactly the handlers that are on their way
(`HubCounts`), and what each handler still holds at each place: an open socket (`OpenAdmitted`), running
goroutines (`RunningJoined`) and, unless Redis failed it, a lease (`LeaseDropped`). A `Wait` that
returns while admission is stopped then leaves none of them.

**`AttachmentsProofs`.** From `AttachmentAssumption`: `AttachmentTypes`, `ReadyAlwaysStored` and
`RowsAlwaysAgree`. The invariant `AttachmentInv` adds that a row names an object inserted before it
(`RowsExist`), that an object has one upload row at most (`OneUpload`, so that `Ready` and `Claim` leave no
other row behind), that the bytes are stored when a request comes to `Ready` (`PutBeforeReady`) and that
a cleaner about to remove bytes has condemned their object (`Condemned`). The proofs do not use the bound
on a put.

**`LocksProofs`, transactions.** For any set of commands, from `RowsAssumption`: `ReadsAlwaysCurrent`, and
`CommandsOneAtATime` (`Spec => OneAtATime`, which is `Spec` of `Commands`): the transactions implement
the atomic commands. It is why `Membership` and `Conversation` have one action for each command.
Each row has a `Guard`, another row (the Project for users and settings, the conversation
for its members, an advisory lock for a pair) or itself. `PlanSound` goes through the plans once and
finds that every read without a lock comes after a lock of the guard, that whoever writes a row holds
both the row and its guard FOR UPDATE, and that a command reads all it decides by. The inductive
invariant `Inv` is types, `Exclusion` (no two transactions hold a row in conflicting modes), `Checked`
(what was read was accepted) and `ReadsCurrent`; a commit that wrote a row another transaction has read
would break `Exclusion` (`NobodyReads`). So at its commit a transaction decides by rows that are still
there (`CommitExecutes`), and its step is one of `Commands` or a stutter.

**`LocksProofs`, order of the locks.** From the same assumption, `DeadlocksHaveDownloads`
(`Spec => []OnlyDownloadsDeadlock`), for circles of any length. `Placed` and `Follows` state the order of
the locks: what a transaction already holds when it asks for a row, and what it may hold then.
`PlanOrdered` finds every plan but that of a download in that order. `NoCircle` then argues from the last
row class to the first that nobody in a circle waits for it, using that members, messages and attachments
below a conversation locked FOR UPDATE belong to one transaction alone, except the source of a
forward, and that forwards exclude each other.

**`AdmissionProofs`.** From `AdmissionAssumption`: `AlwaysWithinLimit`, `WaitAlwaysEnough` and the action
property `TokenAlwaysForgotten`. `AdmissionInv` says that a window counts at least those it let
pass (`AdmittedCounted`; it counts more where a request passed one limit and failed the next), that
the window that refused a request exists and ends before the request's wait does (`BlockerEnds`), and
that the page holds its own settings and no token but one typed into it (`PageInv`). `RetryAfterCovers` is
the rounding of `Retry-After` up to whole seconds, on which `WaitIsEnough` rests.

Only model-checked: `EventuallyPublished`, `EventuallyHinted`, `EventuallyDelivered`,
`EventuallyReclaimed`, `EveryoneEnds` and `WindowEnds`, for fairness and ENABLED are out of the prover's
reach; and the four violations of section 3, of which TLC shows a counterexample.

## 5. Plan

1. *Done:* EventLog, Membership, Conversation, Delivery, Outbox, Router, Subscription, Session, Connection,
   Attachments, Commands, Locks, ApiDocs and Admission, and the proofs of section 4.
2. Versions of settings, bans and blacklist entries (`expected_version`), the review of reports, the flush
   of last-seen marks and typing, and the proofs that go with them.
3. An abstract specification of a message's life, and the proof that `Conversation` implements it.

## 6. Not modelled

Queries (lists, history, search), the text rules of validation, encryption and token verification (no
state of their own), HTTP decoding, the preflight table, configuration, migrations, logging and start-up
(input and output), the generated emoji table, and of the vendored Swagger UI all that its settings do
not decide: its layout, and the rendering of the API description. `Conversation` has one conversation,
so the log of the target of a forward between two is not in it; the locks of such a forward are in
`Locks`. Versions of settings and of blacklist entries, reports and typing are in the plan.
