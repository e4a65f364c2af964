------------------------------- MODULE Reader -------------------------------
(***************************************************************************)
(* An RFID reader and its connection (server/rfid/reader.cpp).  Three      *)
(* threads share it: the manager's caller (ReaderManager::startAll,        *)
(* stopAll, removeReader), the read thread that waits for lines on the     *)
(* socket, and the reconnect thread that the read thread spawns when the   *)
(* connection is lost.  Only the spawning is under a mutex: connected_,    *)
(* scanning_, sock_ and reconnecting_ are plain variables that all three   *)
(* use.                                                                    *)
(*                                                                         *)
(* The steps are those of TcpReader; SerialReader differs in opening a     *)
(* port instead of connecting a socket.  What the reader reads is left     *)
(* out: while the socket is good, reading changes nothing here.            *)
(*                                                                         *)
(* Removing a reader destroys it: its destructor stops it as stopAll does, *)
(* and the base class then destroys reconnectThread_, which ends the       *)
(* process if a reconnect was ever spawned and not joined.                 *)
(***************************************************************************)
EXTENDS Integers

CONSTANTS
  MaxAttempts,   \* MAX_RECONNECT_ATTEMPTS
  AutoReconnect, \* autoReconnectEnabled_
  MaxLosses,     \* bound: connections the device closes
  MaxCalls       \* bound: calls of startAll, stopAll and removeReader

ASSUME ReaderAssumption ==
  /\ MaxAttempts \in Nat \ {0}
  /\ AutoReconnect \in BOOLEAN
  /\ MaxLosses \in Nat /\ MaxCalls \in Nat

VARIABLES
  sock,         \* sock_: "none" (-1), "fresh" (not connected yet), "good", "dead"
  connected,    \* connected_
  scanning,     \* scanning_
  reconnecting, \* reconnecting_
  attempts,     \* attempts of the reconnect loop
  manager, read, reconnect,   \* the places of the three threads
  removing,     \* the manager's call is the reader's destructor
  losses, calls

readerVars == <<sock, connected, scanning, reconnecting, attempts,
                manager, read, reconnect, removing, losses, calls>>
link == <<sock, connected, losses>>

\* "none": never created, or joined; "done": finished, and not joined yet.
\* "returning": reconnecting_ is reset, and the thread has only to end.
ReadPlaces == {"none", "loop", "lost", "trigger", "joining", "done"}
ReconnectPlaces == {"none", "attempt", "connecting", "restored", "leaving", "returning", "done"}
ManagerPlaces ==
  {"idle", "connect", "connecting", "start", "spawn", "stop", "disconnect",
   "destroy", "gone", "terminated"}

Finished(place) == place \in {"none", "done"}

IsConnected == connected /\ sock # "none"

ReaderInit ==
  /\ sock = "none"
  /\ connected = FALSE
  /\ scanning = FALSE
  /\ reconnecting = FALSE
  /\ attempts = 0
  /\ manager = "idle"
  /\ read = "none"
  /\ reconnect = "none"
  /\ removing = FALSE
  /\ losses = 0
  /\ calls = 0

-----------------------------------------------------------------------------
(* connect and disconnect; two threads may be in connect at a time, and both *)
(* then work on the one sock_.                                               *)

\* sock_ = socket(...), whatever sock_ held before.
OpenSocket ==
  /\ sock' = "fresh"
  /\ UNCHANGED <<connected, losses>>

ConnectSucceeds ==
  /\ sock = "fresh"
  /\ sock' = "good"
  /\ connected' = TRUE
  /\ UNCHANGED losses

\* close(sock_); connected_ keeps its value.
ConnectFails ==
  /\ sock' = "none"
  /\ UNCHANGED <<connected, losses>>

-----------------------------------------------------------------------------
(* The manager *)

StartAll ==
  /\ manager = "idle"
  /\ calls < MaxCalls
  /\ calls' = calls + 1
  /\ manager' = IF IsConnected THEN "start" ELSE "connect"
  /\ UNCHANGED <<link, scanning, reconnecting, attempts, read, reconnect, removing>>

ManagerOpens ==
  /\ manager = "connect"
  /\ OpenSocket
  /\ manager' = "connecting"
  /\ UNCHANGED <<scanning, reconnecting, attempts, read, reconnect, removing, calls>>

\* startAll does not look at what connect returned.
ManagerConnects ==
  /\ manager = "connecting"
  /\ ConnectSucceeds \/ ConnectFails
  /\ manager' = "start"
  /\ UNCHANGED <<scanning, reconnecting, attempts, read, reconnect, removing, calls>>

\* startScanning, up to the join
StartScanning ==
  /\ manager = "start"
  /\ scanning' = (connected \/ scanning)
  /\ manager' = IF connected THEN "spawn" ELSE "idle"
  /\ UNCHANGED <<link, reconnecting, attempts, read, reconnect, removing, calls>>

ReadJoined == Finished(read)

SpawnRead ==
  /\ manager = "spawn"
  /\ ReadJoined
  /\ read' = "loop"
  /\ manager' = "idle"
  /\ UNCHANGED <<link, scanning, reconnecting, attempts, reconnect, removing, calls>>

BugKeepsScanning == scanning
ScanningAfterStop == FALSE

\* stopAll or the destructor: stopScanning, up to the join
StopScanning ==
  /\ manager = "idle"
  /\ calls < MaxCalls
  /\ calls' = calls + 1
  /\ removing' \in BOOLEAN
  /\ scanning' = ScanningAfterStop
  /\ manager' = "stop"
  /\ UNCHANGED <<link, reconnecting, attempts, read, reconnect>>

JoinRead ==
  /\ manager = "stop"
  /\ ReadJoined
  /\ read' = "none"
  /\ manager' = "disconnect"
  /\ UNCHANGED <<link, scanning, reconnecting, attempts, reconnect, removing, calls>>

Disconnect ==
  /\ manager = "disconnect"
  /\ sock' = "none"
  /\ connected' = FALSE
  /\ manager' = IF removing THEN "destroy" ELSE "idle"
  /\ UNCHANGED <<losses, scanning, reconnecting, attempts,
                 read, reconnect, removing, calls>>

\* ~Reader joins nothing: a std::thread that is still joinable ends the process.
Destroy ==
  /\ manager = "destroy"
  /\ manager' = IF reconnect = "none" THEN "gone" ELSE "terminated"
  /\ UNCHANGED <<link, scanning, reconnecting, attempts, read, reconnect, removing, calls>>

-----------------------------------------------------------------------------
(* The read thread *)

\* The loop condition fails.
LoopEnds ==
  /\ read = "loop"
  /\ ~(scanning /\ connected)
  /\ read' = "done"
  /\ UNCHANGED <<link, scanning, reconnecting, attempts, manager, reconnect, removing, calls>>

\* select or read fails, or the device has closed the connection.
LoopFails ==
  /\ read = "loop"
  /\ scanning /\ connected
  /\ sock # "good"
  /\ read' = "lost"
  /\ UNCHANGED <<link, scanning, reconnecting, attempts, manager, reconnect, removing, calls>>

\* onConnectionLost; the status callback, which nobody sets, is left out.
ConnectionLost ==
  /\ read = "lost"
  /\ read' = IF AutoReconnect THEN "trigger" ELSE "done"
  /\ UNCHANGED <<link, scanning, reconnecting, attempts, manager, reconnect, removing, calls>>

\* triggerReconnect
BugNeverUnderWay == FALSE
UnderWay == reconnecting

TriggerIgnored ==
  /\ read = "trigger"
  /\ UnderWay
  /\ read' = "done"
  /\ UNCHANGED <<link, scanning, reconnecting, attempts, manager, reconnect, removing, calls>>

Trigger ==
  /\ read = "trigger"
  /\ ~UnderWay
  /\ reconnecting' = TRUE
  /\ read' = "joining"
  /\ UNCHANGED <<link, scanning, attempts, manager, reconnect, removing, calls>>

SpawnReconnect ==
  /\ read = "joining"
  /\ Finished(reconnect)
  /\ reconnect' = "attempt"
  /\ attempts' = 0
  /\ read' = "done"
  /\ UNCHANGED <<link, scanning, reconnecting, manager, removing, calls>>

-----------------------------------------------------------------------------
(* The reconnect thread *)

ReconnectOpens ==
  /\ reconnect = "attempt"
  /\ OpenSocket
  /\ reconnect' = "connecting"
  /\ UNCHANGED <<scanning, reconnecting, attempts, manager, read, removing, calls>>

Reconnected ==
  /\ reconnect = "connecting"
  /\ ConnectSucceeds
  /\ reconnect' = "restored"
  /\ UNCHANGED <<scanning, reconnecting, attempts, manager, read, removing, calls>>

\* Where the loop goes after a failed attempt.
AfterFailure == IF attempts + 1 < MaxAttempts THEN "attempt" ELSE "leaving"

ReconnectFails ==
  /\ reconnect = "connecting"
  /\ ConnectFails
  /\ attempts' = attempts + 1
  /\ reconnect' = AfterFailure
  /\ UNCHANGED <<scanning, reconnecting, manager, read, removing, calls>>

\* onConnectionRestored
ConnectionRestored ==
  /\ reconnect = "restored"
  /\ reconnect' = "leaving"
  /\ UNCHANGED <<link, scanning, reconnecting, attempts, manager, read, removing, calls>>

BugStaysReconnecting == reconnecting
ReconnectingAfter == FALSE

ReconnectResets ==
  /\ reconnect = "leaving"
  /\ reconnecting' = ReconnectingAfter
  /\ reconnect' = "returning"
  /\ UNCHANGED <<link, scanning, attempts, manager, read, removing, calls>>

ReconnectReturns ==
  /\ reconnect = "returning"
  /\ reconnect' = "done"
  /\ UNCHANGED <<link, scanning, reconnecting, attempts, manager, read, removing, calls>>

-----------------------------------------------------------------------------
\* The device or the network closes the connection.
Loss ==
  /\ manager # "terminated"
  /\ losses < MaxLosses
  /\ sock = "good"
  /\ sock' = "dead"
  /\ losses' = losses + 1
  /\ UNCHANGED <<connected, scanning, reconnecting, attempts,
                 manager, read, reconnect, removing, calls>>

InCall ==
  \/ ManagerOpens \/ ManagerConnects \/ StartScanning \/ SpawnRead
  \/ JoinRead \/ Disconnect \/ Destroy
ReadThread == LoopEnds \/ LoopFails \/ ConnectionLost \/ TriggerIgnored \/ Trigger \/ SpawnReconnect
ReconnectThread ==
  /\ manager # "terminated"
  /\ \/ ReconnectOpens \/ Reconnected \/ ReconnectFails \/ ConnectionRestored
     \/ ReconnectResets \/ ReconnectReturns

ReaderNext == StartAll \/ StopScanning \/ InCall \/ ReadThread \/ ReconnectThread \/ Loss

ReaderSpec == ReaderInit /\ [][ReaderNext]_readerVars

\* Every thread is scheduled; select returns within a second.
FairReaderSpec ==
  /\ ReaderSpec
  /\ WF_readerVars(InCall) /\ WF_readerVars(ReadThread) /\ WF_readerVars(ReconnectThread)

-----------------------------------------------------------------------------
(* Properties *)

\* The reader's flags, its socket and its threads' places keep their types.
ReaderTypeOK ==
  /\ sock \in {"none", "fresh", "good", "dead"}
  /\ connected \in BOOLEAN /\ scanning \in BOOLEAN /\ reconnecting \in BOOLEAN
  /\ attempts \in 0..MaxAttempts
  /\ manager \in ManagerPlaces /\ read \in ReadPlaces /\ reconnect \in ReconnectPlaces
  /\ removing \in BOOLEAN
  /\ losses \in Nat /\ calls \in Nat

\* reconnecting_ is set exactly while a reconnect thread is about to be spawned
\* or has not reset it yet, although it is reset outside the mutex that guards
\* its setting: no loss finds it set with nobody left to reset it.
AtWork == reconnect \in {"attempt", "connecting", "restored", "leaving"}
ReconnectingExact == reconnecting <=> read = "joining" \/ AtWork

\* stopAll and the destructor get past their join: the read thread they join may
\* be joining the reconnect thread in turn, but nobody waits in a circle.
StopReturns == manager = "stop" ~> manager \in {"idle", "gone", "terminated"}

\* A reconnect ends, restored or given up, or with the process.
ReconnectEnds == reconnecting ~> (~reconnecting \/ manager = "terminated")
=============================================================================
