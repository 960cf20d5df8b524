----------------------------- MODULE SocketPool -----------------------------
(***************************************************************************)
(* The life of the pooled WebSocket connections of UsageFlowSocketManager  *)
(* (src/pkg/socket/socket.go): the initial Connect, the reader goroutine   *)
(* of every connection, the keep-alive goroutine, the close-frame handler, *)
(* the reconnect tasks with their retry counter, and Close.                *)
(*                                                                         *)
(* Every slot of the pool is served by whoever will act on it next: a      *)
(* sleeping reconnect task, the holder of connectionMutex, or the reader   *)
(* of a live connection, whose exit starts a task.  The properties are     *)
(* about that relay: it must not be broken, and it must not be doubled.    *)
(*                                                                         *)
(* What a connection carries (messageHandlers, pendingRequests) is the     *)
(* subject of module AsyncSend.  Sleeps are not timed: a task runs at any  *)
(* moment after it was started.  Writes return: one that blocks with the   *)
(* lock of its connection held is a matter of AsyncSend, and not covered   *)
(* by the liveness here.                                                   *)
(***************************************************************************)
EXTENDS Integers, FiniteSets

CONSTANTS
    Index,          \* the slots 0 .. poolSize-1
    ConnId,         \* identities of PooledConnection objects, reused once dead
    MaxTries,       \* maxReconnectTries
    MaxConnects,    \* bound: calls of Connect
    MaxCloses,      \* bound: calls of Close
    MaxCloseFrames, \* bound: close frames received per slot
    MaxFaults       \* bound: failed dials, reads and pings, all slots together

ASSUME PoolAssumption ==
    /\ Index # {}
    /\ MaxTries \in Nat \ {0}
    /\ MaxConnects \in Nat /\ MaxCloses \in Nat
    /\ MaxCloseFrames \in Nat /\ MaxFaults \in Nat

VARIABLES
    connections,    \* m.connections: the connections in the pool
    idx,            \* conn.index
    wsOpen,         \* conn.ws not yet closed by this process
    connected,      \* conn.connected
    reader,         \* handleMessages of the connection
    mutex,          \* who holds connectionMutex
    dialing,        \* slots whose createConnection has not returned yet
    fresh,          \* created by the holder of the mutex, not yet in the pool
    failed,         \* slots whose dial failed during Connect
    slot, attempt,  \* arguments of the reconnect task that holds the mutex
    tasks,          \* tasks[i][a]: goroutines about to reconnect slot i, attempt a
    \* history, for the properties and the bounds only
    connects, closes, closeFrames, gaveUp, faults

connVars == <<idx, wsOpen, connected, reader>>
lockVars == <<mutex, dialing, fresh, failed, slot, attempt>>
history  == <<connects, closes, closeFrames, gaveUp, faults>>
vars     == <<connections, connVars, lockVars, tasks, history>>

Attempt == 0 .. MaxTries

ConnType ==
    /\ connections \subseteq ConnId
    /\ idx \in [ConnId -> Index]
    /\ wsOpen \in [ConnId -> BOOLEAN]
    /\ connected \in [ConnId -> BOOLEAN]
    /\ reader \in [ConnId -> {"none", "reading", "closing"}]

LockType ==
    /\ mutex \in {"free", "connect", "reconnect"}
    /\ dialing \subseteq Index
    /\ fresh \subseteq ConnId
    /\ failed \subseteq Index
    /\ slot \in Index
    /\ attempt \in 0 .. MaxTries - 1

TaskType == tasks \in [Index -> [Attempt -> Nat]]

HistoryType ==
    /\ connects \in 0 .. MaxConnects
    /\ closes \in 0 .. MaxCloses
    /\ closeFrames \in [Index -> 0 .. MaxCloseFrames]
    /\ gaveUp \in [Index -> Nat]
    /\ faults \in 0 .. MaxFaults

TypeOK == ConnType /\ LockType /\ TaskType /\ HistoryType

-----------------------------------------------------------------------------
(* Helpers *)

\* The pooled connections of a slot.
Pooled(i) == {c \in connections : idx[c] = i}

\* IsConnected: at least one pooled connection is active.
IsConnected == \E c \in connections : connected[c]

\* A PooledConnection object nobody refers to any more.
Unused(c) == reader[c] = "none" /\ c \notin connections \cup fresh

\* The object createConnection allocates.  Unused objects are all alike, so it
\* does not matter which one is taken.
NewConn == CHOOSE c \in ConnId : Unused(c)

\* "go func() { time.Sleep(...); m.reconnectConnectionWithRetry(i, a) }()"
Spawn(i, a) == tasks' = [tasks EXCEPT ![i][a] = @ + 1]

\* The environment lets one more dial, read or ping fail.
Fault == faults < MaxFaults /\ faults' = faults + 1

-----------------------------------------------------------------------------
(* NewUsageFlowSocketManager: an empty pool, Connect not yet called. *)
Init ==
    /\ connections = {}
    /\ idx = [c \in ConnId |-> CHOOSE i \in Index : TRUE]
    /\ wsOpen = [c \in ConnId |-> FALSE]
    /\ connected = [c \in ConnId |-> FALSE]
    /\ reader = [c \in ConnId |-> "none"]
    /\ mutex = "free"
    /\ dialing = {} /\ fresh = {} /\ failed = {}
    /\ slot = CHOOSE i \in Index : TRUE
    /\ attempt = 0
    /\ tasks = [i \in Index |-> [a \in Attempt |-> 0]]
    /\ connects = 0 /\ closes = 0 /\ faults = 0
    /\ closeFrames = [i \in Index |-> 0]
    /\ gaveUp = [i \in Index |-> 0]

(* Connect takes the mutex and dials every slot, unless the pool is alive. *)
ConnectBegin ==
    /\ mutex = "free"
    /\ connects < MaxConnects
    /\ ~IsConnected
    /\ connects' = connects + 1
    /\ mutex' = "connect"
    /\ dialing' = Index
    /\ UNCHANGED <<connections, connVars, fresh, failed, slot, attempt, tasks,
                   closes, closeFrames, gaveUp, faults>>

(* createConnection returns a connection: its reader is already running,   *)
(* although the connection is not in the pool yet.                         *)
DialSucceeds(i) ==
    /\ i \in dialing
    /\ \E c \in ConnId : Unused(c)
    /\ idx' = [idx EXCEPT ![NewConn] = i]
    /\ wsOpen' = [wsOpen EXCEPT ![NewConn] = TRUE]
    /\ connected' = [connected EXCEPT ![NewConn] = TRUE]
    /\ reader' = [reader EXCEPT ![NewConn] = "reading"]
    /\ dialing' = dialing \ {i}
    /\ fresh' = fresh \cup {NewConn}
    /\ UNCHANGED <<connections, mutex, failed, slot, attempt, tasks, history>>

(* A dial of Connect fails: the slot is retried once the pool is installed. *)
ConnectDialFails(i) ==
    /\ mutex = "connect"
    /\ i \in dialing
    /\ Fault
    /\ dialing' = dialing \ {i}
    /\ failed' = failed \cup {i}
    /\ UNCHANGED <<connections, connVars, mutex, fresh, slot, attempt, tasks,
                   connects, closes, closeFrames, gaveUp>>

\* Mutant: every slot gets a reconnect task, not only the failed ones.
ConnectInstallRetriesAll ==
    /\ mutex = "connect"
    /\ dialing = {}
    /\ connections' = fresh
    /\ tasks' = [i \in Index |-> [tasks[i] EXCEPT ![0] = @ + 1]]
    /\ fresh' = {} /\ failed' = {}
    /\ mutex' = "free"
    /\ UNCHANGED <<connVars, dialing, slot, attempt, history>>

(* All dials of Connect have returned: the successful ones become the pool *)
(* and every failed slot gets a reconnect task.                            *)
ConnectInstall ==
    /\ mutex = "connect"
    /\ dialing = {}
    /\ connections' = fresh
    /\ tasks' = [i \in Index |-> IF i \in failed
                                 THEN [tasks[i] EXCEPT ![0] = @ + 1]
                                 ELSE tasks[i]]
    /\ fresh' = {} /\ failed' = {}
    /\ mutex' = "free"
    /\ UNCHANGED <<connVars, dialing, slot, attempt, history>>

(* A reconnect task that used up its attempts returns without a successor. *)
GiveUp(i) ==
    /\ tasks[i][MaxTries] > 0
    /\ tasks' = [tasks EXCEPT ![i][MaxTries] = @ - 1]
    /\ gaveUp' = [gaveUp EXCEPT ![i] = @ + 1]
    /\ UNCHANGED <<connections, connVars, lockVars,
                   connects, closes, closeFrames, faults>>

\* Mutant: the connection found in the slot is neither closed nor marked.
ReconnectBeginLeavesOld(i, a) ==
    /\ a < MaxTries
    /\ tasks[i][a] > 0
    /\ mutex = "free"
    /\ mutex' = "reconnect"
    /\ slot' = i /\ attempt' = a
    /\ dialing' = {i}
    /\ tasks' = [tasks EXCEPT ![i][a] = @ - 1]
    /\ UNCHANGED <<connections, connVars, fresh, failed, history>>

(* A reconnect task gets the mutex and closes the connection it finds in   *)
(* its slot, whatever the state of that connection, before dialing.        *)
ReconnectBegin(i, a) ==
    /\ a < MaxTries
    /\ tasks[i][a] > 0
    /\ mutex = "free"
    /\ mutex' = "reconnect"
    /\ slot' = i /\ attempt' = a
    /\ dialing' = {i}
    /\ tasks' = [tasks EXCEPT ![i][a] = @ - 1]
    /\ \/ /\ Pooled(i) = {}
          /\ UNCHANGED <<wsOpen, connected>>
       \/ \E existing \in Pooled(i) :
            /\ wsOpen' = [wsOpen EXCEPT ![existing] = FALSE]
            /\ connected' = [connected EXCEPT ![existing] = FALSE]
    /\ UNCHANGED <<connections, idx, reader, fresh, failed, history>>

\* Mutant: a failed attempt has no successor.
ReconnectDialFailsSilently ==
    /\ mutex = "reconnect"
    /\ slot \in dialing
    /\ Fault
    /\ dialing' = {}
    /\ mutex' = "free"
    /\ UNCHANGED <<connections, connVars, fresh, failed, slot, attempt, tasks,
                   connects, closes, closeFrames, gaveUp>>

(* The dial of a reconnect task fails: the next attempt is another task. *)
ReconnectDialFails ==
    /\ mutex = "reconnect"
    /\ slot \in dialing
    /\ Fault
    /\ Spawn(slot, attempt + 1)
    /\ dialing' = {}
    /\ mutex' = "free"
    /\ UNCHANGED <<connections, connVars, fresh, failed, slot, attempt,
                   connects, closes, closeFrames, gaveUp>>

\* Mutant: the new connection is appended without a look at its slot.
ReconnectInstallAppends ==
    /\ mutex = "reconnect"
    /\ dialing = {}
    /\ connections' = connections \cup fresh
    /\ fresh' = {}
    /\ mutex' = "free"
    /\ UNCHANGED <<connVars, dialing, failed, slot, attempt, tasks, history>>

(* The new connection replaces the one of its slot, or is appended. *)
ReconnectInstall ==
    /\ mutex = "reconnect"
    /\ dialing = {}
    /\ \/ Pooled(slot) = {} /\ connections' = connections \cup fresh
       \/ \E old \in Pooled(slot) :
            connections' = (connections \ {old}) \cup fresh
    /\ fresh' = {}
    /\ mutex' = "free"
    /\ UNCHANGED <<connVars, dialing, failed, slot, attempt, tasks, history>>

(* A close frame arrives: the close handler runs inside ReadMessage, marks *)
(* the connection and starts a reconnect task of its own.                  *)
CloseFrame(c) ==
    /\ reader[c] = "reading"
    /\ wsOpen[c]
    /\ closeFrames[idx[c]] < MaxCloseFrames
    /\ closeFrames' = [closeFrames EXCEPT ![idx[c]] = @ + 1]
    /\ connected' = [connected EXCEPT ![c] = FALSE]
    /\ reader' = [reader EXCEPT ![c] = "closing"]
    /\ Spawn(idx[c], 0)
    /\ UNCHANGED <<connections, idx, wsOpen, lockVars,
                   connects, closes, gaveUp, faults>>

\* Mutant: the connection stays marked as connected.
ReaderReturnsUnmarked(c) ==
    /\ reader' = [reader EXCEPT ![c] = "none"]
    /\ Spawn(idx[c], 0)
    /\ UNCHANGED <<connections, idx, wsOpen, connected, lockVars,
                   connects, closes, closeFrames, gaveUp>>

(* The deferred function of handleMessages: the connection is marked and a *)
(* reconnect task is started.                                              *)
ReaderReturns(c) ==
    /\ connected' = [connected EXCEPT ![c] = FALSE]
    /\ reader' = [reader EXCEPT ![c] = "none"]
    /\ Spawn(idx[c], 0)
    /\ UNCHANGED <<connections, idx, wsOpen, lockVars,
                   connects, closes, closeFrames, gaveUp>>

\* Mutant: the loop of the reader does not look at connected.
ReaderExitsBlindly(c) ==
    /\ reader[c] # "none"
    /\ reader[c] = "closing" \/ ~wsOpen[c]
    /\ ReaderReturns(c)
    /\ UNCHANGED faults

(* The reader must return: ReadMessage reported the close frame, the       *)
(* socket was closed under it, or it sees connected = false (at the top of *)
(* its loop, at the latest when the read deadline expires).                *)
ReaderExits(c) ==
    /\ reader[c] # "none"
    /\ reader[c] = "closing" \/ ~wsOpen[c] \/ ~connected[c]
    /\ ReaderReturns(c)
    /\ UNCHANGED faults

(* The network drops a connection in use: ReadMessage fails. *)
ReadFails(c) ==
    /\ reader[c] = "reading"
    /\ wsOpen[c] /\ connected[c]
    /\ Fault
    /\ ReaderReturns(c)

(* pingConnection cannot write: it marks the connection and ends; the      *)
(* socket stays open and the reader keeps waiting.                         *)
PingFails(c) ==
    /\ connected[c]
    /\ Fault
    /\ connected' = [connected EXCEPT ![c] = FALSE]
    /\ UNCHANGED <<connections, idx, wsOpen, reader, lockVars, tasks,
                   connects, closes, closeFrames, gaveUp>>

(* Close (and Destroy) holds m.mu but not connectionMutex.  The manager is *)
(* handed out only after its first Connect has returned.                   *)
Close ==
    /\ connects > 1 \/ (connects = 1 /\ mutex # "connect")
    /\ closes < MaxCloses
    /\ closes' = closes + 1
    /\ wsOpen' = [c \in ConnId |-> wsOpen[c] /\ c \notin connections]
    /\ connected' = [c \in ConnId |-> connected[c] /\ c \notin connections]
    /\ connections' = {}
    /\ UNCHANGED <<idx, reader, lockVars, tasks,
                   connects, closeFrames, gaveUp, faults>>

Next ==
    \/ ConnectBegin
    \/ \E i \in Index : DialSucceeds(i)
    \/ \E i \in Index : ConnectDialFails(i)
    \/ ConnectInstall
    \/ \E i \in Index : GiveUp(i)
    \/ \E i \in Index, a \in Attempt : ReconnectBegin(i, a)
    \/ ReconnectDialFails
    \/ ReconnectInstall
    \/ \E c \in ConnId : CloseFrame(c)
    \/ \E c \in ConnId : ReaderExits(c)
    \/ \E c \in ConnId : ReadFails(c)
    \/ \E c \in ConnId : PingFails(c)
    \/ Close

(* What the runtime guarantees: goroutines run, sleeps end, a dial returns *)
(* and succeeds once the environment is out of faults, and sync.Mutex does *)
(* not starve a waiting task.  Faults, close frames and Close may happen   *)
(* or not.                                                                 *)
Fairness ==
    /\ WF_vars(ConnectBegin)
    /\ \A i \in Index :
         /\ WF_vars(DialSucceeds(i))
         /\ WF_vars(GiveUp(i))
         /\ \A a \in 0 .. MaxTries - 1 : SF_vars(ReconnectBegin(i, a))
    /\ WF_vars(ConnectInstall)
    /\ WF_vars(ReconnectInstall)
    /\ \A c \in ConnId : WF_vars(ReaderExits(c))

Spec == Init /\ [][Next]_vars
FairSpec == Spec /\ Fairness

-----------------------------------------------------------------------------
(* Safety *)

(* A slot of the pool never holds two connections, and the pool is never   *)
(* larger than poolSize, whatever Close, Connect and the retries do at the *)
(* same time (socket.go:354-367 replaces or appends).                      *)
OnePerIndex ==
    \A c, d \in connections : idx[c] = idx[d] => c = d

(* A usable connection is never lost: it is in the pool, or the holder of  *)
(* connectionMutex is about to put it there.  Otherwise two goroutines and *)
(* a socket would live for ever without a request ever using them.         *)
NoOrphan ==
    \A c \in ConnId : connected[c] => c \in connections \cup fresh

(* A connection that getConnection may pick has a running reader on an     *)
(* open socket, so a reply on it can be received.                          *)
ConnectedIsRead ==
    \A c \in ConnId : connected[c] => reader[c] = "reading" /\ wsOpen[c]

(* What the holder of connectionMutex works on is its own: nothing is in   *)
(* hand while the mutex is free, a reconnect task dials its slot only, and *)
(* what stands in that slot of the pool can no longer be used.             *)
HolderInv ==
    /\ mutex = "free" => dialing = {} /\ fresh = {} /\ failed = {}
    /\ mutex = "connect" => \A c \in connections : ~connected[c]
    /\ mutex = "reconnect" =>
         /\ failed = {}
         /\ dialing \subseteq {slot}
         /\ \A c \in fresh : idx[c] = slot
         /\ \A c \in Pooled(slot) : ~connected[c]
    /\ \A c \in fresh : c \notin connections /\ idx[c] \notin dialing \cup failed
    /\ \A c, d \in fresh : idx[c] = idx[d] => c = d
    /\ dialing \cap failed = {}

\* The goroutines that sleep before they reconnect slot i, numbered for each
\* attempt; the readers of the slot's connections; and whether the holder of
\* the mutex dials the slot, or will start a task for it.
Sleeping(i) == UNION {{<<a, n>> : n \in 1 .. tasks[i][a]} : a \in Attempt}
Readers(i)  == {c \in ConnId : reader[c] # "none" /\ idx[c] = i}
InHand(i) ==
    \/ mutex = "reconnect" /\ slot = i /\ i \in dialing
    \/ mutex = "connect" /\ i \in dialing \cup failed

(* Somebody will act on slot i next. *)
Attended(i) ==
    \/ \E a \in Attempt : tasks[i][a] > 0
    \/ InHand(i)
    \/ \E c \in ConnId : reader[c] # "none" /\ idx[c] = i

(* After Connect every slot stays attended until a task has given up: no   *)
(* interleaving of reader exits, failed dials and Close loses the relay.   *)
RelayKept ==
    connects > 0 => \A i \in Index : gaveUp[i] = 0 => Attended(i)

(* How many goroutines are going to reconnect slot i sooner or later. *)
Relays(i) ==
    Cardinality(Sleeping(i)) + Cardinality(Readers(i)) + (IF InHand(i) THEN 1 ELSE 0)

(* The relay of a slot is doubled by close frames and by nothing else: one *)
(* relay per Connect, one more per close frame that is never taken back,   *)
(* one less per task that gave up (socket.go:197-211 with 218-234).        *)
RelaysAccounted ==
    \A i \in Index : Relays(i) = connects + closeFrames[i] - gaveUp[i]

-----------------------------------------------------------------------------
(* Liveness *)

SlotUp(i) == \E c \in Pooled(i) : connected[c]

(* All failures of dials, reads and pings are repaired.  A slot that no    *)
(* task gives up is connected again and again, and if it receives no close *)
(* frame and nobody closes the manager, it ends with a connection that     *)
(* stays.  A slot that is given up (socket.go:305) may stay down for good. *)
SlotsRecover ==
    \A i \in Index :
        \/ <>(gaveUp[i] > 0)
        \/ /\ []<>SlotUp(i)
           /\ <>[]SlotUp(i) \/ <>(closeFrames[i] > 0 \/ closes > 0)

-----------------------------------------------------------------------------
(* What the documentation says of the pool and the code does not do. *)

(* "New opens and maintains the UsageFlow connection" (README.md:54): once *)
(* nothing fails any more, a slot ends with a connection that stays.  A    *)
(* close frame starts two reconnect tasks, and each closes the healthy     *)
(* connection of the other, for ever.                                      *)
StaysConnected == \A i \in Index : <>[]SlotUp(i)

=============================================================================
