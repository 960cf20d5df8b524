----------------------------- MODULE KeepAlive ------------------------------
(***************************************************************************)
(* Pings, pongs and deadlines of one pooled connection                     *)
(* (src/pkg/socket/socket.go): the reader with its read deadline, the ping *)
(* goroutine with its ticker and its write deadline, and the messages of   *)
(* the application, which are written without touching any deadline.       *)
(*                                                                         *)
(* Time is a tick; the periods are given in ticks.  A ping that is due and *)
(* a deadline that has passed are acted on before time goes on.  A living  *)
(* peer answers a ping, and a request, within the tick.  A write returns   *)
(* within the tick too; module AsyncSend has writes that block, and with   *)
(* them whoever needs the lock of the connection.                          *)
(*                                                                         *)
(* gorilla/websocket is external: the write deadline stays in force until  *)
(* it is set again, a write after it fails, and a failed write leaves an   *)
(* error that every later write returns.                                   *)
(***************************************************************************)
EXTENDS Integers

CONSTANTS
    PingPeriod,     \* pingPeriod
    PongWait,       \* pongWait
    WriteWait       \* writeWait

\* 30 s, 60 s and 10 s in the code: a pong arrives before the deadline.
ASSUME PeriodAssumption ==
    /\ PingPeriod \in Nat \ {0} /\ PongWait \in Nat /\ WriteWait \in Nat \ {0}
    /\ PingPeriod < PongWait

VARIABLES
    peer,           \* the server still answers
    connected,      \* conn.connected
    reading,        \* handleMessages is running
    sincePing,      \* ticks since the last tick of the ping ticker
    readLeft,       \* ticks until the read deadline
    writeLeft,      \* ticks until the write deadline, -1 when none was set
    broken,         \* the connection holds a write error
    \* history: ticks since the peer fell silent, since the first failed
    \* write, and since the connection was marked
    silentFor, brokenFor, markedFor

state == <<peer, connected, reading, sincePing, readLeft, writeLeft, broken>>
clocks == <<silentFor, brokenFor, markedFor>>
vars == <<state, clocks>>

NoDeadline == -1

TypeOK ==
    /\ peer \in BOOLEAN /\ connected \in BOOLEAN /\ reading \in BOOLEAN
    /\ sincePing \in 0 .. PingPeriod
    /\ readLeft \in 0 .. PongWait
    /\ writeLeft \in {NoDeadline} \cup 0 .. WriteWait
    /\ broken \in BOOLEAN
    /\ silentFor \in Nat /\ brokenFor \in Nat /\ markedFor \in Nat

\* createConnection: a read deadline, no write deadline, ticker started.
Init ==
    /\ peer = TRUE /\ connected = TRUE /\ reading = TRUE
    /\ sincePing = 0
    /\ readLeft = PongWait
    /\ writeLeft = NoDeadline
    /\ broken = FALSE
    /\ silentFor = 0 /\ brokenFor = 0 /\ markedFor = 0

Less(n) == IF n > 0 THEN n - 1 ELSE n

\* Can a message be written now?
WriteWorks(left) == ~broken /\ left # 0

(* Time goes on. *)
Tick ==
    /\ reading
    /\ readLeft > 0
    /\ connected => sincePing < PingPeriod
    /\ sincePing' = IF connected THEN sincePing + 1 ELSE sincePing
    /\ readLeft' = Less(readLeft)
    /\ writeLeft' = Less(writeLeft)
    /\ silentFor' = IF peer THEN 0 ELSE silentFor + 1
    /\ brokenFor' = IF broken THEN brokenFor + 1 ELSE 0
    /\ markedFor' = IF connected THEN 0 ELSE markedFor + 1
    /\ UNCHANGED <<peer, connected, reading, broken>>

\* Mutant: the ping goroutine ends without marking the connection.
PingUnmarked ==
    /\ connected
    /\ sincePing = PingPeriod
    /\ sincePing' = 0
    /\ writeLeft' = WriteWait
    /\ readLeft' = IF peer /\ WriteWorks(WriteWait) THEN PongWait ELSE readLeft
    /\ UNCHANGED <<peer, connected, reading, broken, clocks>>

\* Mutant: the read deadline is extended when the ping is written.
PingExtends ==
    /\ connected
    /\ sincePing = PingPeriod
    /\ sincePing' = 0
    /\ writeLeft' = WriteWait
    /\ connected' = WriteWorks(WriteWait)
    /\ readLeft' = PongWait
    /\ UNCHANGED <<peer, reading, broken, clocks>>

\* Mutant: a pong does not extend the read deadline.
PongIgnored ==
    /\ connected
    /\ sincePing = PingPeriod
    /\ sincePing' = 0
    /\ writeLeft' = WriteWait
    /\ connected' = WriteWorks(WriteWait)
    /\ UNCHANGED <<peer, reading, readLeft, broken, clocks>>

(* The ticker fires: a new write deadline, a ping, and the pong, which     *)
(* extends the read deadline.  A ping that cannot be written marks the     *)
(* connection; the goroutine ends.                                         *)
Ping ==
    /\ connected
    /\ sincePing = PingPeriod
    /\ sincePing' = 0
    /\ writeLeft' = WriteWait
    /\ connected' = WriteWorks(WriteWait)
    /\ readLeft' = IF peer /\ WriteWorks(WriteWait) THEN PongWait ELSE readLeft
    /\ UNCHANGED <<peer, reading, broken, clocks>>

(* asyncSend and Send write a message under the deadline they find; the    *)
(* reply of a living peer extends the read deadline.                       *)
AppWrite ==
    /\ connected
    /\ broken' = ~WriteWorks(writeLeft)
    /\ readLeft' = IF peer /\ WriteWorks(writeLeft) THEN PongWait ELSE readLeft
    /\ UNCHANGED <<peer, connected, reading, sincePing, writeLeft, clocks>>

(* The read deadline passes: the reader marks the connection and returns. *)
ReadExpires ==
    /\ reading
    /\ readLeft = 0
    /\ reading' = FALSE
    /\ connected' = FALSE
    /\ UNCHANGED <<peer, sincePing, readLeft, writeLeft, broken, clocks>>

\* Mutant: the reader goes on with a connection that was marked.
ServerMessageKeepsReading ==
    /\ peer /\ reading
    /\ readLeft' = PongWait
    /\ UNCHANGED <<peer, connected, reading, sincePing, writeLeft, broken, clocks>>

(* The server sends something of its own accord: the read deadline is      *)
(* extended, and the reader returns if the connection was marked.          *)
ServerMessage ==
    /\ peer /\ reading
    /\ readLeft' = PongWait
    /\ reading' = connected
    /\ UNCHANGED <<peer, connected, sincePing, writeLeft, broken, clocks>>

(* The server or the network dies without a word. *)
PeerFallsSilent ==
    /\ peer
    /\ peer' = FALSE
    /\ UNCHANGED <<connected, reading, sincePing, readLeft, writeLeft, broken, clocks>>

Next ==
    \/ Tick \/ Ping \/ AppWrite \/ ReadExpires \/ ServerMessage \/ PeerFallsSilent

Spec == Init /\ [][Next]_vars

-----------------------------------------------------------------------------
(* A peer that stopped answering is noticed in time: after pongWait of     *)
(* silence no request is given the connection any more, with or without    *)
(* traffic.                                                                *)
DeadPeerNoticed == connected => silentFor <= PongWait

(* A connection that cannot be written any more is taken out of use at the *)
(* next ping: requests fail on it for one ping period at most.             *)
BrokenNoticed == connected => brokenFor <= PingPeriod

(* The reader of a marked connection returns within pongWait, so that its  *)
(* slot is dialled again: messages of the server cannot keep it.           *)
MarkedIsRepaired == reading /\ ~connected => markedFor <= PongWait

(* Only silence and failed writes take a connection out of use: the pings  *)
(* of an idle connection keep it.  And a write to a connection in use      *)
(* fails only writeWait or more after a ping, whose deadline is then still *)
(* in force although the peer answers (socket.go:382).                     *)
HealthyKept ==
    /\ peer /\ ~broken => connected
    /\ connected /\ broken => brokenFor + WriteWait <= sincePing
=============================================================================
