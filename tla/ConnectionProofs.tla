--------------------------- MODULE ConnectionProofs ---------------------------
(***************************************************************************)
(* Proofs about the Hub and its drain, for any number of connections,      *)
(* leases, frames and failures: once Drain has returned nothing is left.   *)
(***************************************************************************)
EXTENDS Connection, FiniteSetTheorems, TLAPS

-----------------------------------------------------------------------------
(* The inductive invariant                                                 *)

Places == {"none", "refused", "auth", "touch", "identify", "run", "settle", "join", "drop",
           "remove", "ended"}
States == {"none", "on", "ended"}

ConnectionTypeOK ==
  /\ main \in [Connection -> Places]
  /\ reader \in [Connection -> States]
  /\ writer \in [Connection -> States]
  /\ beat \in [Connection -> States]
  /\ connections \subseteq Connection /\ lease \subseteq Connection
  /\ drain \in {"serving", "stop", "wait", "join", "done"}

Admitted == {c \in Connection : main[c] \notin {"none", "refused", "ended"}}

\* The Hub's table and the WaitGroup know the handlers that are on their way.
HubCounts ==
  /\ connections = Admitted
  /\ IsFiniteSet(connections) /\ wg = Cardinality(connections)

\* A socket is open only while its handler is on its way.
OpenAdmitted == open \subseteq Admitted

Running(c) == "on" \in {reader[c], writer[c], beat[c]}

\* The handler waits for the other goroutines before it goes on.
RunningJoined == \A c \in Connection : Running(c) => main[c] \in {"run", "settle", "join"}

\* The handler has yet to drop the lease, or has failed to.
LeaseDropped ==
  \A c \in lease \ lost : main[c] \in {"identify", "run", "settle", "join", "drop"}

\* Drain stops admission first, and does not return before everybody is gone.
Drained ==
  /\ drain # "serving" => draining
  /\ drain = "done" => connections = {}

ConnectionInv ==
  /\ ConnectionTypeOK /\ HubCounts /\ OpenAdmitted /\ RunningJoined /\ LeaseDropped /\ Drained

-----------------------------------------------------------------------------
(* The handlers stay where they are                                        *)

goroutineTypes ==
  reader \in [Connection -> States] /\ writer \in [Connection -> States] /\ beat \in [Connection -> States]

\* What the reader, the writer, the heartbeat, the peer and time may do to a connection.
LEMMA StayInv ==
  ASSUME ConnectionInv, UNCHANGED <<connections, wg, draining, drain, main>>,
         goroutineTypes', open' \subseteq open,
         lease' \subseteq Connection, lost \subseteq lost',
         \A c \in Connection : Running(c)' => Running(c),
         \A c \in lease' \ lease : Running(c)
  PROVE  ConnectionInv'
<1>1. ConnectionTypeOK'
  BY DEF ConnectionInv, ConnectionTypeOK, goroutineTypes
<1>2. HubCounts' /\ OpenAdmitted' /\ Drained'
  BY DEF ConnectionInv, HubCounts, OpenAdmitted, Drained, Admitted
<1>3. RunningJoined'
  BY DEF ConnectionInv, RunningJoined
<1>4. LeaseDropped'
  BY DEF ConnectionInv, RunningJoined, LeaseDropped
<1> QED BY <1>1, <1>2, <1>3, <1>4 DEF ConnectionInv

LEMMA ReaderInv ==
  ASSUME ConnectionInv, NEW c \in Connection, Reader(c)
  PROVE  ConnectionInv'
<1> USE DEF Reader, Read, ReadInvalid, ReadEnds, hubVars, leases, ConnectionInv, ConnectionTypeOK, States
<1>1. UNCHANGED <<connections, wg, draining, drain, main, writer, beat, open, lease, lost>>
  OBVIOUS
<1>2. reader' \in [Connection -> States] /\ \A d \in Connection : reader'[d] = "on" => reader[d] = "on"
  OBVIOUS
<1> QED BY <1>1, <1>2, StayInv DEF goroutineTypes, Running

LEMMA WriterInv ==
  ASSUME ConnectionInv, NEW c \in Connection, Writer(c)
  PROVE  ConnectionInv'
<1> USE DEF Writer, WriteCloses, WriteCancelled, WriteFails, hubVars, leases, signals, ConnectionInv,
        ConnectionTypeOK, States
<1>1. UNCHANGED <<connections, wg, draining, drain, main, reader, beat, lease, lost>> /\ open' \subseteq open
  OBVIOUS
<1>2. writer' \in [Connection -> States] /\ \A d \in Connection : writer'[d] = "on" => writer[d] = "on"
  OBVIOUS
<1> QED BY <1>1, <1>2, StayInv DEF goroutineTypes, Running

\* The heartbeat may take a lease again; its handler waits for it.
LEMMA HeartbeatInv ==
  ASSUME ConnectionInv, NEW c \in Connection, Heartbeat(c)
  PROVE  ConnectionInv'
<1> USE DEF Heartbeat, Beat, BeatFails, BeatCancelled, hubVars, leases, signals, ConnectionInv,
        ConnectionTypeOK, States
<1>1. UNCHANGED <<connections, wg, draining, drain, main, reader, writer, open, lost>>
  OBVIOUS
<1>2. beat' \in [Connection -> States] /\ \A d \in Connection : beat'[d] = "on" => beat[d] = "on"
  OBVIOUS
<1>3. lease' \subseteq lease \cup {c} /\ beat[c] = "on"
  OBVIOUS
<1> QED BY <1>1, <1>2, <1>3, StayInv DEF goroutineTypes, Running

\* A command is taken from the queue, the peer goes, a lease expires, Drain asks or forces
\* connections to close.
LEMMA RestInv ==
  ASSUME ConnectionInv, \/ \E c \in Connection : RunCommand(c) \/ Disconnect(c) \/ Expire(c)
                        \/ UNCHANGED connectionVars
  PROVE  ConnectionInv'
<1> USE DEF RunCommand, Disconnect, Expire, connectionVars, hubVars, leases, signals, goroutines,
        ConnectionInv, ConnectionTypeOK
<1>1. UNCHANGED <<connections, wg, draining, drain, main, reader, writer, beat, lost>>
  OBVIOUS
<1>2. open' \subseteq open /\ lease' \subseteq lease
  OBVIOUS
<1> QED BY <1>1, <1>2, StayInv DEF goroutineTypes, Running

-----------------------------------------------------------------------------
(* The handlers go on                                                      *)

\* Handler c goes on, its entry in the table stays.
LEMMA MoveInv ==
  ASSUME ConnectionInv, NEW c \in Connection, NEW place \in Places, Goto(c, place),
         main[c] \notin {"none", "refused", "ended"}, place \notin {"none", "refused", "ended"},
         UNCHANGED <<connections, wg, draining, drain>>,
         goroutineTypes', open' \subseteq open,
         \A d \in Connection \ {c} : Running(d)' => Running(d),
         Running(c)' => place \in {"run", "settle", "join"},
         lease' \subseteq Connection, lost \subseteq lost', lease' \ lease \subseteq {c},
         c \in lease' \ lost' => place \in {"identify", "run", "settle", "join", "drop"}
  PROVE  ConnectionInv'
<1>1. /\ main \in [Connection -> Places]
      /\ main' \in [Connection -> Places] /\ main'[c] = place
      /\ \A d \in Connection \ {c} : main'[d] = main[d]
  BY DEF ConnectionInv, ConnectionTypeOK, Goto, Places
<1>2. Admitted' = Admitted
  BY <1>1 DEF Admitted
<1>3. ConnectionTypeOK'
  BY <1>1 DEF ConnectionInv, ConnectionTypeOK, goroutineTypes
<1>4. HubCounts' /\ OpenAdmitted' /\ Drained'
  BY <1>2 DEF ConnectionInv, HubCounts, OpenAdmitted, Drained
<1>5. RunningJoined'
  BY <1>1 DEF ConnectionInv, RunningJoined
<1>6. LeaseDropped'
  <2> SUFFICES ASSUME NEW d \in lease', d \notin lost'
               PROVE  main'[d] \in {"identify", "run", "settle", "join", "drop"}
    BY DEF LeaseDropped
  <2>1. CASE d = c
    BY <1>1, <2>1
  <2>2. CASE d # c
    BY <1>1, <2>2 DEF ConnectionInv, LeaseDropped, ConnectionTypeOK
  <2> QED BY <2>1, <2>2
<1> QED BY <1>3, <1>4, <1>5, <1>6 DEF ConnectionInv

LEMMA HandlerInv ==
  ASSUME ConnectionInv, NEW c \in Connection, Handler(c) \/ RunStops(c), ~Remove(c)
  PROVE  ConnectionInv'
<1> USE DEF hubVars, leases, signals, goroutines, Places
<1>1. /\ ConnectionTypeOK /\ goroutineTypes /\ lease \subseteq Connection
      /\ c \in lease \ lost => main[c] \in {"identify", "run", "settle", "join", "drop"}
      /\ Running(c) => main[c] \in {"run", "settle", "join"}
  BY DEF ConnectionInv, ConnectionTypeOK, goroutineTypes, LeaseDropped, RunningJoined
<1>2. CASE RunCommand(c)
  BY <1>2, RestInv
<1>3. CASE Authenticated(c)
  BY <1>1, <1>3, MoveInv DEF Authenticated, goroutineTypes, Running
<1>4. CASE AuthFails(c)
  BY <1>1, <1>4, MoveInv DEF AuthFails, goroutineTypes, Running
<1>5. CASE Touch(c)
  <2>1. Running(c)' = Running(c) /\ \A d \in Connection : Running(d)' = Running(d)
    BY <1>5 DEF Touch, Running
  <2>2. main[c] = "touch" /\ goroutineTypes' /\ lost' = lost /\ UNCHANGED <<connections, wg, draining, drain>>
    BY <1>1, <1>5 DEF Touch, goroutineTypes
  <2>3. CASE Granted(c)
    <3>1. lease' = lease \cup {c} /\ Goto(c, "identify") /\ open' = open
      BY <1>5, <2>3 DEF Touch
    <3> QED BY <1>1, <2>1, <2>2, <3>1, MoveInv
  <2>4. CASE ~Granted(c)
    <3>1. lease' = lease /\ Goto(c, "remove") /\ open' \subseteq open
      BY <1>5, <2>4 DEF Touch
    <3> QED BY <1>1, <2>1, <2>2, <3>1, MoveInv
  <2> QED BY <2>3, <2>4
<1>6. CASE TouchFails(c)
  <2>1. Running(c)' = Running(c) /\ \A d \in Connection : Running(d)' = Running(d)
    BY <1>6 DEF TouchFails, Running
  <2>2. /\ main[c] = "touch" /\ goroutineTypes' /\ lost' = lost \cup {c} /\ lease' \subseteq lease \cup {c}
        /\ UNCHANGED <<connections, wg, draining, drain>> /\ open' \subseteq open /\ Goto(c, "remove")
    BY <1>1, <1>6 DEF TouchFails, goroutineTypes
  <2> QED BY <1>1, <2>1, <2>2, MoveInv
<1>7. CASE Identify(c)
  <2>1. main[c] = "identify" /\ Goto(c, "run")
    BY <1>7 DEF Identify
  <2>2. connections' = connections
    BY <1>7, <2>1 DEF Identify, ConnectionInv, HubCounts, Admitted
  <2>3. goroutineTypes' /\ \A d \in Connection \ {c} : Running(d)' => Running(d)
    BY <1>1, <1>7 DEF Identify, goroutineTypes, Running, States
  <2>4. UNCHANGED <<wg, draining, drain, open, lease, lost>>
    BY <1>7 DEF Identify
  <2> QED BY <1>1, <2>1, <2>2, <2>3, <2>4, MoveInv
<1>8. CASE RunCancelled(c)
  BY <1>1, <1>8, MoveInv DEF RunCancelled, Leave, goroutineTypes, Running
<1>9. CASE RunStops(c)
  BY <1>1, <1>9, MoveInv DEF RunStops, goroutineTypes, Running
<1>10. CASE Settled(c)
  BY <1>1, <1>10, MoveInv DEF Settled, Leave, goroutineTypes, Running
<1>11. CASE Joined(c)
  BY <1>1, <1>11, MoveInv DEF Joined, goroutineTypes, Running
<1>12. CASE Drop(c)
  BY <1>1, <1>12, MoveInv DEF Drop, goroutineTypes, Running
<1>13. CASE DropFails(c)
  BY <1>1, <1>13, MoveInv DEF DropFails, goroutineTypes, Running
<1> QED BY <1>2, <1>3, <1>4, <1>5, <1>6, <1>7, <1>8, <1>9, <1>10, <1>11, <1>12, <1>13 DEF Handler

-----------------------------------------------------------------------------
(* Handlers come and go, Drain                                             *)

LEMMA AdmitInv ==
  ASSUME ConnectionInv, NEW c \in Connection, Admit(c)
  PROVE  ConnectionInv'
<1>0. /\ ConnectionTypeOK /\ HubCounts /\ OpenAdmitted /\ RunningJoined /\ LeaseDropped /\ Drained
      /\ main[c] = "none"
      /\ UNCHANGED <<draining, drain, reader, writer, beat, lease, lost>>
  BY DEF ConnectionInv, Admit, goroutines, leases
<1>1. CASE ~draining /\ Cardinality(connections) < MaxConnections
  <2>1. /\ connections' = connections \cup {c} /\ wg' = wg + 1 /\ open' = open \cup {c}
        /\ Goto(c, "auth")
    BY <1>1 DEF Admit
  <2>2. /\ main' \in [Connection -> Places] /\ main'[c] = "auth"
        /\ \A d \in Connection \ {c} : main'[d] = main[d]
    BY <1>0, <2>1 DEF ConnectionTypeOK, Goto, Places
  <2>3. Admitted' = Admitted \cup {c} /\ c \notin Admitted
    BY <1>0, <2>2 DEF Admitted
  <2>4. HubCounts'
    BY <1>0, <2>1, <2>3, FS_AddElement DEF HubCounts
  <2>5. ConnectionTypeOK' /\ OpenAdmitted'
    BY <1>0, <2>1, <2>2, <2>3 DEF ConnectionTypeOK, OpenAdmitted
  <2>6. Drained'
    BY <1>0, <1>1 DEF Drained
  <2>7. RunningJoined' /\ LeaseDropped'
    BY <1>0, <2>2 DEF RunningJoined, LeaseDropped, Running, ConnectionTypeOK
  <2> QED BY <2>4, <2>5, <2>6, <2>7 DEF ConnectionInv
<1>2. CASE ~(~draining /\ Cardinality(connections) < MaxConnections)
  <2>1. Goto(c, "refused") /\ UNCHANGED <<connections, wg, open>>
    BY <1>2 DEF Admit
  <2>2. /\ main' \in [Connection -> Places] /\ main'[c] = "refused"
        /\ \A d \in Connection \ {c} : main'[d] = main[d]
    BY <1>0, <2>1 DEF ConnectionTypeOK, Goto, Places
  <2>3. Admitted' = Admitted
    BY <1>0, <2>2 DEF Admitted
  <2>4. HubCounts' /\ ConnectionTypeOK' /\ OpenAdmitted' /\ Drained'
    BY <1>0, <2>1, <2>2, <2>3 DEF HubCounts, ConnectionTypeOK, OpenAdmitted, Drained
  <2>5. RunningJoined' /\ LeaseDropped'
    BY <1>0, <2>2 DEF RunningJoined, LeaseDropped, Running, ConnectionTypeOK
  <2> QED BY <2>4, <2>5 DEF ConnectionInv
<1> QED BY <1>1, <1>2

LEMMA RemoveInv ==
  ASSUME ConnectionInv, NEW c \in Connection, Remove(c)
  PROVE  ConnectionInv'
<1>0. /\ ConnectionTypeOK /\ HubCounts /\ OpenAdmitted /\ RunningJoined /\ LeaseDropped /\ Drained
      /\ main[c] = "remove" /\ Goto(c, "ended")
      /\ open' = open \ {c} /\ connections' = connections \ {c} /\ wg' = wg - 1
      /\ UNCHANGED <<draining, drain, reader, writer, beat, lease, lost>>
  BY DEF ConnectionInv, Remove, goroutines, leases
<1>1. /\ main' \in [Connection -> Places] /\ main'[c] = "ended"
      /\ \A d \in Connection \ {c} : main'[d] = main[d]
  BY <1>0 DEF ConnectionTypeOK, Goto, Places
<1>2. Admitted' = Admitted \ {c} /\ c \in Admitted
  BY <1>0, <1>1 DEF Admitted
<1>3. HubCounts'
  BY <1>0, <1>2, FS_RemoveElement DEF HubCounts
<1>4. ConnectionTypeOK' /\ OpenAdmitted' /\ Drained'
  BY <1>0, <1>1, <1>2 DEF ConnectionTypeOK, OpenAdmitted, Drained
<1>5. RunningJoined' /\ LeaseDropped'
  BY <1>0, <1>1 DEF RunningJoined, LeaseDropped, Running, ConnectionTypeOK
<1> QED BY <1>3, <1>4, <1>5 DEF ConnectionInv

LEMMA DrainInv == ASSUME ConnectionInv, Drain PROVE ConnectionInv'
<1> USE DEF Drain, DrainBegin, DrainStop, DrainForce, DrainEnd, goroutines, signals, leases
<1>1. /\ UNCHANGED <<connections, wg, main, reader, writer, beat, lease, lost>>
      /\ open' \subseteq open /\ drain' \in {"stop", "wait", "join", "done"}
  BY DEF ConnectionInv, ConnectionTypeOK
<1>2. draining' /\ (drain' = "done" => wg = 0)
  BY DEF ConnectionInv, Drained
<1>3. Drained'
  <2>1. wg = 0 => connections = {}
    BY FS_EmptySet DEF ConnectionInv, HubCounts
  <2> QED BY <1>1, <1>2, <2>1 DEF Drained
<1>4. ConnectionTypeOK' /\ HubCounts' /\ OpenAdmitted' /\ RunningJoined' /\ LeaseDropped'
  <2> HIDE DEF Drain
  <2> QED BY <1>1 DEF ConnectionInv, ConnectionTypeOK, HubCounts, OpenAdmitted, RunningJoined, LeaseDropped,
             Admitted, Running
<1> QED BY <1>3, <1>4 DEF ConnectionInv

LEMMA ConnectionInitInv == ConnectionInit => ConnectionInv
<1> SUFFICES ASSUME ConnectionInit PROVE ConnectionInv
  OBVIOUS
<1> USE DEF ConnectionInit
<1>1. ConnectionTypeOK /\ OpenAdmitted /\ RunningJoined /\ LeaseDropped /\ Drained
  BY DEF ConnectionTypeOK, OpenAdmitted, RunningJoined, LeaseDropped, Drained, Running, Places, States
<1>2. HubCounts
  BY FS_EmptySet DEF HubCounts, Admitted
<1> QED BY <1>1, <1>2 DEF ConnectionInv

LEMMA ConnectionStep == ConnectionInv /\ [ConnectionNext]_connectionVars => ConnectionInv'
<1> SUFFICES ASSUME ConnectionInv, [ConnectionNext]_connectionVars PROVE ConnectionInv'
  OBVIOUS
<1>1. ASSUME NEW c \in Connection, Handler(c) \/ RunStops(c) PROVE ConnectionInv'
  BY <1>1, HandlerInv, RemoveInv
<1> QED BY <1>1, AdmitInv, ReaderInv, WriterInv, HeartbeatInv, RestInv, DrainInv DEF ConnectionNext

-----------------------------------------------------------------------------
(* Theorems                                                                *)

\* The inductive invariant of the Hub, its connections and its drain.
THEOREM ConnectionInvariant == ConnectionSpec => []ConnectionInv
  BY ConnectionInitInv, ConnectionStep, PTL DEF ConnectionSpec

\* Once Drain has returned there is no handler, no goroutine, no open socket, no entry of
\* the table, and no lease but those a failing Redis did not give back.
THEOREM DrainAlwaysComplete == ConnectionSpec => []DrainLeavesNothing
<1>1. ConnectionInv => DrainLeavesNothing
  <2> SUFFICES ASSUME ConnectionInv, drain = "done"
               PROVE  /\ connections = {} /\ open = {}
                      /\ \A c \in Connection :
                           /\ main[c] \in {"none", "refused", "ended"}
                           /\ "on" \notin {reader[c], writer[c], beat[c]}
                      /\ lease \subseteq lost
    BY DEF DrainLeavesNothing
  <2>1. connections = {} /\ Admitted = {} /\ open = {}
    BY DEF ConnectionInv, Drained, HubCounts, OpenAdmitted
  <2>2. \A c \in Connection : main[c] \in {"none", "refused", "ended"}
    BY <2>1 DEF Admitted
  <2>3. \A c \in Connection : ~Running(c)
    BY <2>2 DEF ConnectionInv, RunningJoined
  <2>4. lease \subseteq lost
    BY <2>2 DEF ConnectionInv, LeaseDropped, ConnectionTypeOK
  <2> QED BY <2>1, <2>2, <2>3, <2>4 DEF Running
<1> QED BY <1>1, ConnectionInvariant, PTL
=============================================================================
