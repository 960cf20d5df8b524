----------------------------- MODULE AsyncSend ------------------------------
(***************************************************************************)
(* Requests and replies over the pooled connections (asyncSend, SendAsync  *)
(* and the reader loop of src/pkg/socket/socket.go).  Several calls share  *)
(* a connection; replies are matched to calls by the message id through    *)
(* conn.messageHandlers; a connection may be marked, closed or replaced    *)
(* under a call at any of its steps, and a reply may come late, twice or   *)
(* never.                                                                  *)
(*                                                                         *)
(* A step of a call is one critical section of conn.mu, or one operation   *)
(* on its response channel.  The write is two steps, with conn.mu held in  *)
(* between: it may block, and until the first ping of the connection no    *)
(* write deadline ends it.  A call is identified with the id it generates. *)
(* Which connected connection getConnection prefers is left open, and what *)
(* becomes of the connections is driven by the actions of module           *)
(* SocketPool, seen here one connection at a time.                         *)
(***************************************************************************)
EXTENDS Integers, FiniteSets

CONSTANTS
    Call,       \* invocations of SendAsync
    Conn,       \* PooledConnection objects
    NoCall,     \* no response in the hands of a reader, nobody writing
    Sender      \* a Send, which waits for no answer

ASSUME CallAssumption == IsFiniteSet(Call) /\ {NoCall, Sender} \cap Call = {}

VARIABLES
    pool,       \* m.connections
    connected,  \* conn.connected
    wsOpen,     \* conn.ws not closed by this process
    deadline,   \* a ping has set a write deadline, which later writes keep
    writing,    \* who is in WriteMessage, with conn.mu held
    reader,     \* handleMessages of the connection
    pending,    \* conn.pendingRequests
    handlers,   \* the ids in conn.messageHandlers
    inHand,     \* the call whose channel the reader took out of the map
    sent,       \* calls whose message was written to the socket
    pc,         \* where each call is
    on,         \* the connection a call picked
    chan        \* responses in the channel of a call, capacity 1

lockVars == <<deadline, writing>>
connVars == <<pool, connected, wsOpen, reader, pending, handlers, inHand, lockVars>>
callVars == <<sent, pc, on, chan>>
vars     == <<connVars, callVars>>

TypeOK ==
    /\ pool \subseteq Conn
    /\ connected \in [Conn -> BOOLEAN]
    /\ wsOpen \in [Conn -> BOOLEAN]
    /\ deadline \in [Conn -> BOOLEAN]
    /\ writing \in [Conn -> Call \cup {NoCall, Sender}]
    /\ reader \in [Conn -> {"none", "reading", "stopping", "done"}]
    /\ pending \in [Conn -> Nat]
    /\ handlers \in [Conn -> SUBSET Call]
    /\ inHand \in [Conn -> Call \cup {NoCall}]
    /\ sent \subseteq Call
    /\ pc \in [Call -> {"ready", "picked", "checked", "registered",
                        "writing", "waiting", "leaving", "done"}]
    /\ on \in [Call -> Conn]
    /\ chan \in [Call -> 0 .. 1]

-----------------------------------------------------------------------------
(* Nothing dialled, nothing asked. *)
Init ==
    /\ pool = {}
    /\ connected = [c \in Conn |-> FALSE]
    /\ wsOpen = [c \in Conn |-> FALSE]
    /\ deadline = [c \in Conn |-> FALSE]
    /\ writing = [c \in Conn |-> NoCall]
    /\ reader = [c \in Conn |-> "none"]
    /\ pending = [c \in Conn |-> 0]
    /\ handlers = [c \in Conn |-> {}]
    /\ inHand = [c \in Conn |-> NoCall]
    /\ sent = {}
    /\ pc = [k \in Call |-> "ready"]
    /\ on \in [Call -> Conn]
    /\ chan = [k \in Call |-> 0]

-----------------------------------------------------------------------------
(* A call of SendAsync *)

Goto(k, l) == pc' = [pc EXCEPT ![k] = l]

\* Nobody writes to c, so that conn.mu can be taken.
Free(c) == writing[c] = NoCall

(* getConnection returns a pooled connection that is connected.  It looks  *)
(* at each under its lock, this one at this step... *)
Pick(k, c) ==
    /\ pc[k] = "ready"
    /\ c \in pool /\ connected[c] /\ Free(c)
    /\ on' = [on EXCEPT ![k] = c]
    /\ Goto(k, "picked")
    /\ UNCHANGED <<connVars, sent, chan>>

(* ... or none, the last one it looks at under its lock included. *)
PickNone(k) ==
    /\ pc[k] = "ready"
    /\ \A c \in pool : ~connected[c]
    /\ pool = {} \/ \E c \in pool : Free(c)
    /\ Goto(k, "done")
    /\ UNCHANGED <<connVars, sent, on, chan>>

(* asyncSend looks at the connection again, then lets go of the lock. *)
Check(k) ==
    /\ pc[k] = "picked" /\ Free(on[k])
    /\ Goto(k, IF connected[on[k]] THEN "checked" ELSE "done")
    /\ UNCHANGED <<connVars, sent, on, chan>>

(* The call is counted and its channel is registered, even if the          *)
(* connection went away since it was checked.                              *)
Register(k) ==
    /\ pc[k] = "checked" /\ Free(on[k])
    /\ pending' = [pending EXCEPT ![on[k]] = @ + 1]
    /\ handlers' = [handlers EXCEPT ![on[k]] = @ \cup {k}]
    /\ Goto(k, "registered")
    /\ UNCHANGED <<pool, connected, wsOpen, reader, inHand, lockVars,
                   sent, on, chan>>

(* No id could be generated or the payload has no JSON form. *)
EncodingFails(k) ==
    /\ pc[k] = "checked"
    /\ Goto(k, "done")
    /\ UNCHANGED <<connVars, sent, on, chan>>

\* Everything about a connection but who writes to it.
UnchangedButWriter ==
    UNCHANGED <<pool, connected, wsOpen, reader, pending, handlers, inHand, deadline>>

\* Lets go of conn.mu.
Unlock(c) == writing' = [writing EXCEPT ![c] = NoCall] /\ UnchangedButWriter

(* The call enters WriteMessage with conn.mu held. *)
WriteBegins(k) ==
    /\ pc[k] = "registered" /\ Free(on[k])
    /\ writing' = [writing EXCEPT ![on[k]] = k]
    /\ Goto(k, "writing")
    /\ UnchangedButWriter
    /\ UNCHANGED <<sent, on, chan>>

(* The message goes out.  Success says nothing of its arrival. *)
Write(k) ==
    /\ pc[k] = "writing"
    /\ wsOpen[on[k]]
    /\ sent' = sent \cup {k}
    /\ Goto(k, "waiting")
    /\ Unlock(on[k])
    /\ UNCHANGED <<on, chan>>

(* The write fails: always on a closed socket, now and then on an open     *)
(* one, and when its deadline has passed.                                  *)
WriteFails(k) ==
    /\ pc[k] = "writing"
    /\ Goto(k, "leaving")
    /\ Unlock(on[k])
    /\ UNCHANGED <<sent, on, chan>>

(* select: the response is in the channel. *)
Receive(k) ==
    /\ pc[k] = "waiting"
    /\ chan[k] = 1
    /\ chan' = [chan EXCEPT ![k] = 0]
    /\ Goto(k, "leaving")
    /\ UNCHANGED <<connVars, sent, on>>

\* Mutant: a call that timed out returns without its cleanup.
TimeOutWithoutCleanup(k) ==
    /\ pc[k] = "waiting"
    /\ Goto(k, "done")
    /\ UNCHANGED <<connVars, sent, on, chan>>

\* Mutant: a call waits for its response only, without a timer.
NoTimeOut(k) == FALSE /\ TimeOutWithoutCleanup(k)

(* select: two seconds have passed.  With both cases ready Go picks either. *)
TimeOut(k) ==
    /\ pc[k] = "waiting"
    /\ Goto(k, "leaving")
    /\ UNCHANGED <<connVars, sent, on, chan>>

\* Mutant: the handler is left in the map.
CleanupKeepsHandler(k) ==
    /\ pc[k] = "leaving" /\ Free(on[k])
    /\ pending' = [pending EXCEPT ![on[k]] = @ - 1]
    /\ Goto(k, "done")
    /\ UNCHANGED <<pool, connected, wsOpen, reader, handlers, inHand,
                   lockVars, sent, on, chan>>

(* cleanup: the call is no longer counted and its handler is gone. *)
Cleanup(k) ==
    /\ pc[k] = "leaving" /\ Free(on[k])
    /\ pending' = [pending EXCEPT ![on[k]] = @ - 1]
    /\ handlers' = [handlers EXCEPT ![on[k]] = @ \ {k}]
    /\ Goto(k, "done")
    /\ UNCHANGED <<pool, connected, wsOpen, reader, inHand, lockVars,
                   sent, on, chan>>

-----------------------------------------------------------------------------
(* The reader of a connection *)

\* Mutant: the handler stays in the map after its response arrived.
DeliverKeepsHandler(c, k) ==
    /\ reader[c] = "reading" /\ inHand[c] = NoCall
    /\ wsOpen[c] /\ Free(c)
    /\ k \in sent /\ k \in handlers[c]
    /\ inHand' = [inHand EXCEPT ![c] = k]
    /\ UNCHANGED <<pool, connected, wsOpen, reader, pending, handlers, lockVars,
                   callVars>>

(* A message that answers call k is read: its channel is looked up by ID   *)
(* or ReplyTo and taken out of the map.  Messages that match no handler    *)
(* (late, repeated or malformed ones) change nothing.                      *)
Deliver(c, k) ==
    /\ reader[c] = "reading" /\ inHand[c] = NoCall
    /\ wsOpen[c] /\ Free(c)
    /\ k \in sent /\ k \in handlers[c]
    /\ handlers' = [handlers EXCEPT ![c] = @ \ {k}]
    /\ inHand' = [inHand EXCEPT ![c] = k]
    /\ UNCHANGED <<pool, connected, wsOpen, reader, pending, lockVars, callVars>>

(* The response is offered to the channel without blocking, and the loop   *)
(* begins again unless the connection was marked meanwhile.                *)
HandOver(c) ==
    /\ inHand[c] # NoCall
    /\ chan' = [chan EXCEPT ![inHand[c]] = 1]
    /\ inHand' = [inHand EXCEPT ![c] = NoCall]
    /\ reader' = [reader EXCEPT ![c] = IF connected[c] THEN "reading" ELSE "stopping"]
    /\ UNCHANGED <<pool, connected, wsOpen, pending, handlers, lockVars,
                   sent, pc, on>>

\* Mutant: the handlers are cleared, the connection stays connected.
ReaderExitsUnmarked(c) ==
    /\ reader[c] \in {"reading", "stopping"} /\ inHand[c] = NoCall /\ Free(c)
    /\ reader' = [reader EXCEPT ![c] = "done"]
    /\ handlers' = [handlers EXCEPT ![c] = {}]
    /\ UNCHANGED <<pool, connected, wsOpen, pending, inHand, lockVars, callVars>>

(* handleMessages returns: a read failed or the connection is marked. *)
ReaderExits(c) ==
    /\ reader[c] \in {"reading", "stopping"} /\ inHand[c] = NoCall /\ Free(c)
    /\ reader' = [reader EXCEPT ![c] = "done"]
    /\ connected' = [connected EXCEPT ![c] = FALSE]
    /\ handlers' = [handlers EXCEPT ![c] = {}]
    /\ UNCHANGED <<pool, wsOpen, pending, inHand, lockVars, callVars>>

-----------------------------------------------------------------------------
(* The life of a connection, as the pool manager drives it *)

(* createConnection, and the connection enters the pool. *)
Install(c) ==
    /\ reader[c] = "none"
    /\ pool' = pool \cup {c}
    /\ connected' = [connected EXCEPT ![c] = TRUE]
    /\ wsOpen' = [wsOpen EXCEPT ![c] = TRUE]
    /\ reader' = [reader EXCEPT ![c] = "reading"]
    /\ UNCHANGED <<pending, handlers, inHand, lockVars, callVars>>

(* The close-frame handler or a failed ping marks the connection. *)
Mark(c) ==
    /\ connected[c] /\ Free(c)
    /\ connected' = [connected EXCEPT ![c] = FALSE]
    /\ UNCHANGED <<pool, wsOpen, reader, pending, handlers, inHand, lockVars, callVars>>

(* A reconnect task closes the connection and drops its handlers. *)
ReconnectCloses(c) ==
    /\ c \in pool /\ Free(c)
    /\ connected' = [connected EXCEPT ![c] = FALSE]
    /\ wsOpen' = [wsOpen EXCEPT ![c] = FALSE]
    /\ handlers' = [handlers EXCEPT ![c] = {}]
    /\ UNCHANGED <<pool, reader, pending, inHand, lockVars, callVars>>

(* Close of the manager takes the connections one after the other; the     *)
(* handlers stay for the reader to clear.                                  *)
Close(c) ==
    /\ c \in pool /\ Free(c)
    /\ connected' = [connected EXCEPT ![c] = FALSE]
    /\ wsOpen' = [wsOpen EXCEPT ![c] = FALSE]
    /\ UNCHANGED <<pool, reader, pending, handlers, inHand, lockVars, callVars>>

(* The reconnect task, or Close, takes what it closed out of the pool.  A  *)
(* replacement comes with Install, before or after: callers may see the    *)
(* pool with both or with neither, which is more than the code shows.      *)
Replace(c) ==
    /\ c \in pool
    /\ ~wsOpen[c]
    /\ pool' = pool \ {c}
    /\ UNCHANGED <<connected, wsOpen, reader, pending, handlers, inHand, lockVars, callVars>>

-----------------------------------------------------------------------------
(* Other users of the lock *)

(* The ping goroutine sets the write deadline; its own write ends by then. *)
Ping(c) ==
    /\ connected[c] /\ ~deadline[c] /\ Free(c)
    /\ deadline' = [deadline EXCEPT ![c] = TRUE]
    /\ UNCHANGED <<pool, connected, wsOpen, reader, pending, handlers, inHand, writing, callVars>>

(* A Send checks the connection and writes in one critical section... *)
SendBegins(c) ==
    /\ connected[c] /\ Free(c)
    /\ writing' = [writing EXCEPT ![c] = Sender]
    /\ UnchangedButWriter /\ UNCHANGED callVars

(* ... which ends with the write. *)
SendReturns(c) ==
    /\ writing[c] = Sender
    /\ Unlock(c) /\ UNCHANGED callVars

-----------------------------------------------------------------------------
CallStep(k) ==
    \/ \E c \in Conn : Pick(k, c)
    \/ PickNone(k)
    \/ Check(k)
    \/ Register(k)
    \/ EncodingFails(k)
    \/ WriteBegins(k)
    \/ Write(k)
    \/ WriteFails(k)
    \/ Receive(k)
    \/ TimeOut(k)
    \/ Cleanup(k)

ReaderStep(c) ==
    \/ \E k \in Call : Deliver(c, k)
    \/ HandOver(c)
    \/ ReaderExits(c)

LifeStep(c) ==
    \/ Install(c) \/ Mark(c) \/ ReconnectCloses(c) \/ Close(c) \/ Replace(c)
    \/ Ping(c) \/ SendBegins(c) \/ SendReturns(c)

Next ==
    \/ \E k \in Call : CallStep(k)
    \/ \E c \in Conn : ReaderStep(c)
    \/ \E c \in Conn : LifeStep(c)

\* A write to c ends: its deadline passes, or the socket is closed.
Bounded(c) == deadline[c] \/ ~wsOpen[c]

(* A goroutine that can run does run, timers expire, and a lock that is    *)
(* free again and again is taken (a mutex of Go starves nobody).  A write  *)
(* is known to end only if it is bounded.  Nothing is asked of the server, *)
(* the network or the pool manager.                                        *)
Fairness ==
    /\ \A k \in Call :
         /\ SF_vars(pc[k] \notin {"ready", "writing"} /\ CallStep(k))
         /\ WF_vars(Bounded(on[k]) /\ (Write(k) \/ WriteFails(k)))
    /\ \A c \in Conn : WF_vars(Bounded(c) /\ SendReturns(c))

Spec == Init /\ [][Next]_vars
FairSpec == Spec /\ Fairness

-----------------------------------------------------------------------------
(* Safety *)

\* Calls between their registration and their cleanup on connection c.
InFlight(c) == {k \in Call : on[k] = c /\ pc[k] \in {"registered", "writing", "waiting", "leaving"}}

(* The load that getConnection compares is the number of calls in flight   *)
(* on the connection, also across failed writes, timeouts and the death of *)
(* the connection: it never drifts and never goes below zero.              *)
PendingExact == \A c \in Conn : pending[c] = Cardinality(InFlight(c))

(* A handler belongs to a call in flight on that very connection: none is  *)
(* left behind by a call that returned, on a live or on a dead connection. *)
HandlersInFlight == \A c \in Conn : handlers[c] \subseteq InFlight(c)

(* A response on its way to a call finds room in the channel: the          *)
(* non-blocking send of the reader never throws a response away, because   *)
(* at most one response per call gets past the handler map.                *)
NoReplyDropped ==
    \A c \in Conn, k \in Call :
        /\ inHand[c] = k => chan[k] = 0 /\ on[k] = c
        /\ k \in handlers[c] => chan[k] = 0 /\ \A d \in Conn : inHand[d] # k

(* As long as its connection is up, a waiting call can still be answered:  *)
(* its handler is registered, or its response is on the way.  Handlers are *)
(* dropped only together with the connection (socket.go:218-225, 325-334). *)
AnswerableWhileConnected ==
    \A k \in Call :
        LET c == on[k] IN
        pc[k] \in {"registered", "writing", "waiting"} /\ connected[c]
            => k \in handlers[c] \/ inHand[c] = k \/ chan[k] = 1

-----------------------------------------------------------------------------
(* Liveness *)

\* A write to c that nothing bounds holds the lock of c.
Stalled(c) == ~Free(c) /\ ~Bounded(c)

(* Every call that picked a connection returns, whether the connection is  *)
(* marked, closed or replaced and whether it is answered or not, unless a  *)
(* write on that connection never returns although nothing ends it: one    *)
(* begun before the first ping set a deadline (socket.go:522-525, 382).    *)
(* Then every call on the connection waits for conn.mu, timers or not.     *)
EveryCallReturns ==
    \A k \in Call : pc[k] = "picked" ~> (pc[k] = "done" \/ []Stalled(on[k]))

=============================================================================
