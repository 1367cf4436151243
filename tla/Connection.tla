----------------------------- MODULE Connection -----------------------------
(***************************************************************************)
(* How the WebSocket connections of one API process begin and end.  Each   *)
(* has the goroutine of its handler (ServeHTTP, which becomes run), and    *)
(* while it runs a reader, a writer and a heartbeat.  They end each other  *)
(* through the context, the socket and the closing channel; the Hub admits *)
(* and drains them, Redis keeps a lease for each.                          *)
(*                                                                         *)
(* What the writer delivers is the subject of Session.                     *)
(***************************************************************************)
EXTENDS Integers, FiniteSets

CONSTANTS
  Connection,
  MaxConnections,  \* 10000 in the code
  MaxLeases,       \* leases of one user, 16 in the code; here all are of one user
  Incoming,        \* length of the queue of commands, 16 in the code
  MaxFrames,       \* bound of the model on the frames of the clients
  MaxFaults        \* bound of the model on failures of Redis, reads and writes

ASSUME ConnectionAssumption ==
  /\ MaxConnections \in Nat /\ MaxLeases \in Nat /\ Incoming \in Nat
  /\ MaxFrames \in Nat /\ MaxFaults \in Nat

VARIABLES
  connections,  \* the keys of the Hub's table
  wg,           \* the counter of its WaitGroup
  draining,
  drain,        \* where Drain is
  asked,        \* the connections Drain found
  main,         \* main[c]: where the handler is
  reader, writer, beat,  \* the state of the other goroutines
  open,         \* connections whose socket is open
  cancelled,    \* connections whose context is cancelled
  closing,      \* connections whose closing channel is full
  incoming,     \* incoming[c]: frames in the queue of commands
  lease,        \* connections with a lease in Redis
  lost,         \* history: connections whose handler failed to take or drop its lease
  frames, faults

hubVars == <<connections, wg, draining, drain, asked>>
goroutines == <<reader, writer, beat>>
signals == <<open, cancelled, closing>>
leases == <<lease, lost>>
counters == <<frames, faults>>
connectionVars == <<hubVars, main, goroutines, signals, incoming, leases, counters>>

ConnectionInit ==
  /\ connections = {} /\ wg = 0
  /\ draining = FALSE /\ drain = "serving" /\ asked = {}
  /\ main = [c \in Connection |-> "none"]
  /\ reader = [c \in Connection |-> "none"]
  /\ writer = [c \in Connection |-> "none"]
  /\ beat = [c \in Connection |-> "none"]
  /\ open = {} /\ cancelled = {} /\ closing = {}
  /\ incoming = [c \in Connection |-> 0]
  /\ lease = {} /\ lost = {}
  /\ frames = 0 /\ faults = 0

Fault == faults < MaxFaults /\ faults' = faults + 1 /\ UNCHANGED frames
FrameComes == frames < MaxFrames /\ frames' = frames + 1 /\ UNCHANGED faults

Goto(c, place) == main' = [main EXCEPT ![c] = place]

-----------------------------------------------------------------------------
(* The handler                                                             *)

\* A slip: the flag is not looked at.  No specification uses it.
AdmitMutant(c) ==
  /\ main[c] = "none"
  /\ IF Cardinality(connections) < MaxConnections
     THEN /\ connections' = connections \cup {c} /\ wg' = wg + 1
          /\ open' = open \cup {c}
          /\ Goto(c, "auth")
     ELSE Goto(c, "refused") /\ UNCHANGED <<connections, wg, open>>
  /\ UNCHANGED <<draining, drain, asked, goroutines, cancelled, closing, incoming, leases, counters>>

\* Hub.add, under its lock.
Admit(c) ==
  /\ main[c] = "none"
  /\ IF ~draining /\ Cardinality(connections) < MaxConnections
     THEN /\ connections' = connections \cup {c} /\ wg' = wg + 1
          /\ open' = open \cup {c}
          /\ Goto(c, "auth")
     ELSE Goto(c, "refused") /\ UNCHANGED <<connections, wg, open>>
  /\ UNCHANGED <<draining, drain, asked, goroutines, cancelled, closing, incoming, leases, counters>>

\* The first frame is read and its credential verified, all within five seconds.
Authenticated(c) ==
  /\ main[c] = "auth"
  /\ c \in open \ cancelled
  /\ Goto(c, "touch")
  /\ UNCHANGED <<hubVars, goroutines, signals, incoming, leases, counters>>

\* A slip: the table and the counter are left as they are.  No specification uses it.
AuthFailsMutant(c) ==
  /\ main[c] = "auth"
  /\ open' = open \ {c}
  /\ Goto(c, "ended")
  /\ UNCHANGED <<hubVars, goroutines, cancelled, closing, incoming, leases, counters>>

\* The frame or the credential is bad, or the deadline passes.
AuthFails(c) ==
  /\ main[c] = "auth"
  /\ open' = open \ {c}
  /\ Goto(c, "remove")
  /\ UNCHANGED <<hubVars, goroutines, cancelled, closing, incoming, leases, counters>>

\* The script takes or renews a lease, and refuses a new one beyond the quota.
Granted(c) == c \in lease \/ Cardinality(lease) < MaxLeases

Touch(c) ==
  /\ main[c] = "touch" /\ c \notin cancelled
  /\ IF Granted(c)
     THEN lease' = lease \cup {c} /\ Goto(c, "identify") /\ UNCHANGED open
     ELSE open' = open \ {c} /\ Goto(c, "remove") /\ UNCHANGED lease
  /\ UNCHANGED <<hubVars, goroutines, cancelled, closing, incoming, lost, counters>>

\* Redis fails or the context is cancelled, perhaps after the script was executed.
TouchFails(c) ==
  /\ main[c] = "touch"
  /\ (c \in cancelled /\ UNCHANGED counters) \/ Fault
  /\ lease' \in {lease} \cup IF Granted(c) THEN {lease \cup {c}} ELSE {}
  /\ lost' = lost \cup {c}
  /\ open' = open \ {c}
  /\ Goto(c, "remove")
  /\ UNCHANGED <<hubVars, goroutines, cancelled, closing, incoming>>

\* Hub.identify writes its table once more; run starts the other goroutines.
Identify(c) ==
  /\ main[c] = "identify"
  /\ connections' = connections \cup {c}
  /\ reader' = [reader EXCEPT ![c] = "on"]
  /\ writer' = [writer EXCEPT ![c] = "on"]
  /\ beat' = [beat EXCEPT ![c] = "on"]
  /\ Goto(c, "run")
  /\ UNCHANGED <<wg, draining, drain, asked, signals, incoming, leases, counters>>

\* Leaving run cancels the context and closes the socket before it waits.
Leave(c) ==
  /\ open' = open \ {c}
  /\ cancelled' = cancelled \cup {c}
  /\ Goto(c, "join")

RunCommand(c) ==
  /\ main[c] = "run" /\ incoming[c] > 0
  /\ incoming' = [incoming EXCEPT ![c] = @ - 1]
  /\ UNCHANGED <<hubVars, main, goroutines, signals, leases, counters>>

RunCancelled(c) ==
  /\ main[c] = "run" /\ c \in cancelled
  /\ Leave(c)
  /\ UNCHANGED <<hubVars, goroutines, closing, incoming, leases, counters>>

\* The token expires, is revoked or cannot be verified.
RunStops(c) ==
  /\ main[c] = "run"
  /\ closing' = closing \cup {c}
  /\ Goto(c, "settle")
  /\ UNCHANGED <<hubVars, goroutines, open, cancelled, incoming, leases, counters>>

\* returnAfterClose: the writer has cancelled, or three seconds are over.
Settled(c) ==
  /\ main[c] = "settle"
  /\ Leave(c)
  /\ UNCHANGED <<hubVars, goroutines, closing, incoming, leases, counters>>

Joined(c) ==
  /\ main[c] = "join"
  /\ reader[c] = "ended" /\ writer[c] = "ended" /\ beat[c] = "ended"
  /\ Goto(c, "drop")
  /\ UNCHANGED <<hubVars, goroutines, signals, incoming, leases, counters>>

Drop(c) ==
  /\ main[c] = "drop"
  /\ lease' = lease \ {c}
  /\ Goto(c, "remove")
  /\ UNCHANGED <<hubVars, goroutines, signals, incoming, lost, counters>>

DropFails(c) ==
  /\ main[c] = "drop"
  /\ Fault
  /\ lost' = lost \cup {c}
  /\ Goto(c, "remove")
  /\ UNCHANGED <<hubVars, goroutines, signals, incoming, lease>>

\* The deferred calls, and Hub.remove as the last.
Remove(c) ==
  /\ main[c] = "remove"
  /\ open' = open \ {c} /\ cancelled' = cancelled \cup {c}
  /\ connections' = connections \ {c} /\ wg' = wg - 1
  /\ Goto(c, "ended")
  /\ UNCHANGED <<draining, drain, asked, goroutines, closing, incoming, leases, counters>>

-----------------------------------------------------------------------------
(* Reader, writer and heartbeat                                            *)

\* A frame is queued, or there is no room for it: the connection is to be closed.
Read(c) ==
  /\ reader[c] = "on" /\ c \in open \ cancelled
  /\ FrameComes
  /\ IF incoming[c] < Incoming
     THEN incoming' = [incoming EXCEPT ![c] = @ + 1] /\ UNCHANGED <<reader, closing>>
     ELSE /\ closing' = closing \cup {c}
          /\ reader' = [reader EXCEPT ![c] = "ended"]
          /\ UNCHANGED incoming
  /\ UNCHANGED <<hubVars, main, writer, beat, open, cancelled, leases>>

ReadInvalid(c) ==
  /\ reader[c] = "on" /\ c \in open \ cancelled
  /\ FrameComes
  /\ closing' = closing \cup {c}
  /\ reader' = [reader EXCEPT ![c] = "ended"]
  /\ UNCHANGED <<hubVars, main, writer, beat, open, cancelled, incoming, leases>>

\* The socket or the context ended: Read returns an error, and cancels.
ReadEnds(c) ==
  /\ reader[c] = "on" /\ (c \notin open \/ c \in cancelled)
  /\ cancelled' = cancelled \cup {c}
  /\ reader' = [reader EXCEPT ![c] = "ended"]
  /\ UNCHANGED <<hubVars, main, writer, beat, open, closing, incoming, leases, counters>>

\* write closes the socket with its close frame, and cancels as it returns.
WriteCloses(c) ==
  /\ writer[c] = "on" /\ c \in closing
  /\ open' = open \ {c} /\ cancelled' = cancelled \cup {c}
  /\ writer' = [writer EXCEPT ![c] = "ended"]
  /\ UNCHANGED <<hubVars, main, reader, beat, closing, incoming, leases, counters>>

WriteCancelled(c) ==
  /\ writer[c] = "on" /\ c \in cancelled
  /\ writer' = [writer EXCEPT ![c] = "ended"]
  /\ UNCHANGED <<hubVars, main, reader, beat, signals, incoming, leases, counters>>

\* A frame cannot be authorised or written in three seconds.
WriteFails(c) ==
  /\ writer[c] = "on"
  /\ Fault
  /\ open' = open \ {c} /\ cancelled' = cancelled \cup {c}
  /\ writer' = [writer EXCEPT ![c] = "ended"]
  /\ UNCHANGED <<hubVars, main, reader, beat, closing, incoming, leases>>

\* After a pong the lease is renewed; a lost one is taken again if the quota allows it.
Beat(c) ==
  /\ beat[c] = "on" /\ c \in open \ cancelled
  /\ IF Granted(c)
     THEN lease' = lease \cup {c} /\ UNCHANGED <<beat, closing>>
     ELSE /\ closing' = closing \cup {c}
          /\ beat' = [beat EXCEPT ![c] = "ended"]
          /\ UNCHANGED lease
  /\ UNCHANGED <<hubVars, main, reader, writer, open, cancelled, incoming, lost, counters>>

\* No pong, or Redis fails, perhaps after the script was executed.
BeatFails(c) ==
  /\ beat[c] = "on"
  /\ (c \notin open /\ UNCHANGED counters) \/ Fault
  /\ lease' \in {lease} \cup IF Granted(c) /\ c \in open THEN {lease \cup {c}} ELSE {}
  /\ closing' = closing \cup {c}
  /\ beat' = [beat EXCEPT ![c] = "ended"]
  /\ UNCHANGED <<hubVars, main, reader, writer, open, cancelled, incoming, lost>>

BeatCancelled(c) ==
  /\ beat[c] = "on" /\ c \in cancelled
  /\ beat' = [beat EXCEPT ![c] = "ended"]
  /\ UNCHANGED <<hubVars, main, reader, writer, signals, incoming, leases, counters>>

-----------------------------------------------------------------------------
(* Clients, time and Drain                                                 *)

\* The peer or the network closes the socket.
Disconnect(c) ==
  /\ c \in open
  /\ open' = open \ {c}
  /\ UNCHANGED <<hubVars, main, goroutines, cancelled, closing, incoming, leases, counters>>

\* 75 seconds without a renewal.
Expire(c) ==
  /\ c \in lease
  /\ lease' = lease \ {c}
  /\ UNCHANGED <<hubVars, main, goroutines, signals, incoming, lost, counters>>

\* Drain stops admission and notes the connections in one critical section.
DrainBegin ==
  /\ drain = "serving"
  /\ draining' = TRUE
  /\ asked' = connections
  /\ drain' = "stop"
  /\ UNCHANGED <<connections, wg, main, goroutines, signals, incoming, leases, counters>>

DrainStop ==
  /\ drain = "stop"
  /\ closing' = closing \cup asked
  /\ drain' = "wait"
  /\ UNCHANGED <<connections, wg, draining, asked, main, goroutines, open, cancelled,
                 incoming, leases, counters>>

\* Five seconds are over.
DrainForce ==
  /\ drain = "wait"
  /\ open' = open \ asked /\ cancelled' = cancelled \cup asked
  /\ drain' = "join"
  /\ UNCHANGED <<connections, wg, draining, asked, main, goroutines, closing, incoming,
                 leases, counters>>

DrainEnd ==
  /\ drain \in {"wait", "join"} /\ wg = 0
  /\ drain' = "done"
  /\ UNCHANGED <<connections, wg, draining, asked, main, goroutines, signals, incoming,
                 leases, counters>>

-----------------------------------------------------------------------------
Handler(c) ==
  \/ Authenticated(c) \/ AuthFails(c) \/ Touch(c) \/ TouchFails(c) \/ Identify(c)
  \/ RunCommand(c) \/ RunCancelled(c) \/ Settled(c) \/ Joined(c) \/ Drop(c) \/ DropFails(c)
  \/ Remove(c)
Reader(c) == Read(c) \/ ReadInvalid(c) \/ ReadEnds(c)
Writer(c) == WriteCloses(c) \/ WriteCancelled(c) \/ WriteFails(c)
Heartbeat(c) == Beat(c) \/ BeatFails(c) \/ BeatCancelled(c)
Drain == DrainBegin \/ DrainStop \/ DrainForce \/ DrainEnd

ConnectionNext ==
  \/ \E c \in Connection :
       \/ Admit(c) \/ Handler(c) \/ Reader(c) \/ Writer(c) \/ Heartbeat(c)
       \/ RunStops(c) \/ Disconnect(c) \/ Expire(c)
  \/ Drain

\* Every goroutine goes on when it can: its reads, writes and waits are bounded.  A reader
\* goes on only when its socket or context ends; what clients do is open, and whether Drain is ever
\* called too.
ConnectionFairness ==
  /\ \A c \in Connection :
       /\ WF_connectionVars(Handler(c))
       /\ WF_connectionVars(ReadEnds(c))
       /\ WF_connectionVars(WriteCloses(c) \/ WriteCancelled(c))
       /\ WF_connectionVars(BeatCancelled(c))
  /\ WF_connectionVars(DrainStop \/ DrainForce \/ DrainEnd)

ConnectionSpec == ConnectionInit /\ [][ConnectionNext]_connectionVars /\ ConnectionFairness

-----------------------------------------------------------------------------
(* Properties                                                              *)

\* When Drain returns, no connection is left: no goroutine, no entry of the table and no
\* lease, except leases a failing Redis did not give back.
DrainLeavesNothing ==
  drain = "done" =>
    /\ connections = {} /\ open = {}
    /\ \A c \in Connection :
         /\ main[c] \in {"none", "refused", "ended"}
         /\ "on" \notin {reader[c], writer[c], beat[c]}
    /\ lease \subseteq lost

Ending == closing \cup cancelled

\* Whatever asked a connection to end (its reader, its heartbeat, the token, the peer or
\* Drain), all its goroutines end and it leaves the Hub; and once begun, Drain returns.
EveryoneEnds ==
  Ending # {} \/ drain = "stop"
    ~> (\A c \in Ending : main[c] = "ended") /\ drain \in {"serving", "done"}
=============================================================================
