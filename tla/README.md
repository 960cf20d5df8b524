# A TLA+ development for usageflow-go-middleware

This directory specifies, model-checks and partly proves the UsageFlow Go
middleware: the pool of WebSocket connections, requests and replies on it, the
polls that bring its configuration, the Gin interceptor that meters and guards
requests, whom it charges and how much, the function-level metering and tracing of
instrumented code, and the rewriter that instruments it. Paths are relative to
the repository; "socket.go" is `src/pkg/socket/socket.go`; "middleware.go",
"functions.go", "utils.go" and "response_capture.go" are in `src/pkg/middleware/`;
"tracker.go", "call.go", "track.go" and "schema.go" in `src/pkg/tracker/`;
"rewrite.go" in `src/internal/instrument/`.

    tlc -config MCSocketPool.cfg MCSocketPool        # a run
    tlapm SocketPoolProofs.tla                       # a proof module

`PROJECT.json` lists the runs, the source lines behind every definition, one
mutant for every property (a plausible bug that violates it), the hazards and
the theorems.

## 1. The system

| component | state it keeps | operations | talks to |
|---|---|---|---|
| Socket pool manager (socket.go) | `connections`, each with `ws`, `connected`, `pendingRequests`, `messageHandlers`; `connectionMutex`, `currentIndex` | `Connect`, `createConnection`, `reconnectConnectionWithRetry`, close handler, `handleMessages`, `pingConnection`, `getConnection`, `Send`, `SendAsync`, `Close` | the server over gorilla/websocket; called by everything below |
| Request interceptor (middleware.go 100-221, 459-730) | per request: ledger id, allocation id, flags in `gin.Context` | routing decision, `allocateRequest`, `useAllocationRequest`, handler, `ExecuteFulfillRequestWithMetadata` | pool manager; reads route maps, policies, blocks; wraps the tracker |
| Config updater (middleware.go 274-457, utils.go 14-32) | `ApiConfig`, `functionPolicies`, `BlockedEndpoints`, route maps, `reportAllFunctionAllocations`, `accountReachLimit` | three polls every 30 s, `Whitelist`, `ForceMonitorAll` | writes what interceptor and function metering read; switches the tracker |
| Call chain tracker (tracker.go, call.go, track.go) | `enabled`; per request `CallChain`, `liveRecords`, request id, ledger id | `WithTracking`, `BeginCall`, `End`, `Track`, `Snapshot`, `report_call_chain` | called by instrumented code; calls function metering back |
| Function metering (functions.go) | none of its own; the allocation id in the `Call` | `onDiscoveredFunctionStart`, `onDiscoveredFunctionEnd`, `syncFunctionPolicies` | pool manager, policies, the tracker's store |
| Identity extraction (middleware.go 871-993, utils.go) | none | `GetUserPrefix`, `GuessLedgerId` | policies, the HTTP request |
| Response capture (response_capture.go) | a 512 KiB buffer per request | `Write`, `enrichFulfillMetadataWithResponse` | the handler's writer |
| Schema extraction (schema.go) | none | `ExtractSchema` | reflection on values |
| Instrumentation (`src/internal/instrument`, `src/cmd`) | build-time files | `RewriteFile`, overlay, the two commands | the Go tool chain |

### What is hard about it, and what makes it right

* **Pool manager.** Every connection has a reader and a ping goroutine, close
  frames start tasks, tasks start tasks, all of them race with `Connect` and
  `Close`. Right means: a slot has one connection; a usable connection is in the
  pool and is read; whatever ends, exactly one successor acts on the slot next;
  slots recover when the network does.
* **Requests on it.** Replies are late, repeated or missing; the connection is
  marked, closed or replaced under a call; a write may block while it holds the
  connection's lock. Right means: counters and handler maps are exact, no response is
  dropped on its way, every call returns unless such a write never does.
* **Deadlines.** Read deadlines, ping write deadlines and application writes
  share a connection. Right means: the dead and the broken are noticed in bounded
  time, the living are left alone.
* **Interceptor.** A request reads shared state at several moments, fails open
  for outages and closed for denials, and settles before or after its handler.
  Right means: no order of events opens the gate of a rate limit, no refused
  request is served, nothing is settled twice.
* **Call chain.** `End` writes a record without the lock `Snapshot` takes;
  goroutines outlive the request. Right means: the report is complete and not
  torn for every call of the handler.
* **Function metering.** The policy is looked up twice, answers get lost. Right
  means: what is settled was granted and large enough, what is denied neither
  runs nor settles.

* **Config updater.** Each poll writes two pieces under two locks, replies come late,
  get lost or carry errors, and requests and `Whitelist` come in between. Right
  means: what is held never goes back and never stays half of one poll and half of
  another, the application's own exemptions survive, and in the end what is held is
  what the server has.
* **Identity and amounts.** The body of a request is a stream with three readers;
  policies are tried in an order that decides who is charged. The path to a number
  is chosen from one result and walked in a later one, by other rules. The captured
  response has a limit. Right means: the client the first policy names is charged the
  number that was returned or sent, and a body is whole or replaced.
* **Rewriter.** Names it gives and imports it uses meet names that are there, and it
  may get its own output. Right means: what compiled compiles and refers to what it
  did, each function that takes a context has one hook.

Every hazard is listed with its line in `PROJECT.json`.

## 2. The modules

**SocketPool** (socket.go 52-391, 568-602). One `PooledConnection` is a
`ConnId`; `reader` is its `handleMessages` goroutine ("closing" between the close
handler and the return), `tasks[i][a]` counts goroutines sleeping before
`reconnectConnectionWithRetry(i, a)`. `mutex`, `slot`, `attempt`, `dialing`,
`fresh` and `failed` are the locals of the holder of `connectionMutex`, whose
work is split where the code releases another lock or waits for the network:
`ConnectBegin`, `DialSucceeds`, `ConnectDialFails`, `ConnectInstall`;
`ReconnectBegin`, `ReconnectDialFails`, `ReconnectInstall`, `GiveUp`. `CloseFrame`,
`ReaderReturns`, `ReadFails`, `PingFails` and `Close` are the events on a
connection. Sleeps are untimed.

**AsyncSend** (socket.go 394-542, 217-296). One call is one id. Each critical
section of `conn.mu` or channel operation is a step: `Pick`, `Check`,
`Register`, the write, `Receive` or `TimeOut`, `Cleanup`; the reader does
`Deliver` (take the handler out of the map) and `HandOver` (the non-blocking
send) separately. The write is two steps, `WriteBegins` and `Write` or `WriteFails`,
with the lock held in between (`writing`), and so is that of a `Send` (`SendBegins`,
`SendReturns`): nobody else takes a step that needs the lock meanwhile (`Free`). A
write is certain to end once a `Ping` has set a write deadline, which stays, or the
socket is closed (`Bounded`). The life of a connection is reduced to `Install`, `Mark`,
`ReconnectCloses`, `Replace`, `ReaderExits` and `Close`. `Pick` may choose any
connected connection, a superset of what least-busy selection does.

**KeepAlive** (socket.go 173-194, 236-268, 372-391, 458-477). One connection
with its clocks in ticks. The deadline and latched-error rules of
gorilla/websocket are external and taken from the library version in `go.mod`.

**MeteringGate** is the abstract promise of the interceptor: each request is
decided once (exempt, paid, excused, refused) before it is served or rejected, and
at most `Quota` are paid for (`Safety`); every one is decided and ends (`Progress`).

**RequestInterceptor** (middleware.go 100-221, 459-730). One `pc` label per
access to shared state or message. The routing decision (`Route`), the rate limit
(`Identify`), the connection, the block and the policies are read at different
steps and change between any two. `connected` is the flag `u.connected`,
which every look at the connection renews and a send that fails takes down; `Answer` is
what the interceptor does with a failed allocation, by the error, the rate limit and
that flag, with every branch of middleware.go 156-198. A `SendAsync` is one step with an
outcome AsyncSend allows; the server is external. `Decision` and `Result` are the
refinement mapping to MeteringGate: `ImplementsGate` is its `Safety`,
`GateProgresses` its `Progress` under the mapping.

**CallChain** (tracker.go, call.go, track.go, middleware.go 224-272,
rewrite.go 198-338). Calls of the handler's goroutine form `stack`; others run
on goroutines that may outlive the request. `EndBegins`/`EndWrites` bracket the
unlocked write, and `Views` is what a snapshot may see meanwhile: the old, a
torn or the new record. The chain holds values and `live` the indices with
pointers, as in `AppendPtr`; `Synced` is `syncLiveRecordsLocked`.

**FunctionMetering** (functions.go, with the callers in call.go). One call in
scalars: calls of a request touch none of each other's state. `policies` is the
set of function policies that match the function; where several match by the end
of their key the order of the map decides, so `StartMetered` picks any.

**ConfigUpdater** (middleware.go 274-457, utils.go 14-32). A piece of the
configuration is the revision of the server it was taken from; revision 0 is the empty
one, with which everything starts and to which a reply without the expected fields
leads. `at` is the updater goroutine: it asks for policies, blocks and the application
configuration in turn, with an answer, an error, silence (and then perhaps a late
reply, which finds no handler) or a payload it cannot use; what one reply writes under
two locks are two steps. `Whitelist`, `ForceMonitorAll` and a request that decides,
identifies and looks for a block run between any two. Routes match as `Matches` says,
wildcards and blanks included.

**IdentityExtraction** (middleware.go 733-817, 871-993, utils.go 47-190).
`CollectMetadata` reads the body and puts it back; then the loop of `GetUserPrefix`
takes the policies one by one (`SkipFunction`, `Try`) until one names a place with a
text. A place is a record of what is found there: a header, a field of the body, a
claim of a token, a cookie in one of three notations.

**ValuePaths** (schema.go 10-237, functions.go 295-353) has a value as a tree. `Inside`
is what is so many steps inside it, each with the path `ExtractSchema` gives it, the
path it has in JSON (`at`) and what stands in between (`via`: an array, a key with a
dot, a field JSON leaves out, a struct); `Advertised` are the numbers among it down to
the limit of the schema. `Walk` is what `getValueByPath` finds, step by step, and
`Amount` what `toFloat64` makes of it. Each value says what `json.Marshal` makes of it
(`Encoding`): itself, a text (a `MarshalJSON`, a field tagged ",string"), or an error, as
of a function, a channel, a NaN, and of whatever has one of these in it (`Joint`). Where
the code goes through `json.Marshal`, the fields are those JSON has (`Lost` are the
others, of embedded structs too, and all those of a struct without such a JSON), and the
walk notes that it went there. `Closed` says that a set of values has all that is inside
them. **FunctionAmount** (functions.go 96-115, call.go 108-147): one result is reported,
a path of it is configured, the next result is settled. **ResponseCapture**
(response_capture.go): writes, the copy with its limit, parsing and the amount.
**MeteredData** composes the three along one request: it extends IdentityExtraction and
instantiates the other two.

**RewriteFile** (rewrite.go). A file is a sequence of functions, each with the names
that matter: of its parameters and results, what its receiver and type parameters bind,
what the top level of its body declares, and what the body uses from outside
(`Written`); `imports` is the name the tracker is imported by, the user's own or
`__uftracker`. `Visit` collects the functions and names their first parameter, `Import`
sees to the import, `Inject` names the results and puts the hook in, `Again` rewrites
the output. `Sound` is external: the part of the Go compiler that can object to this,
and whether the body's names still refer to what they did (`Resolves`).

**MC…** modules give the constants of runs; **…Proofs** modules hold theorems.

CallChain and FunctionMetering meet where `BeginCall` asks and `End` settles:
CallChain lets the callback answer anything (`Proceeds`, `Denied`), and
FunctionMetering assumes the store CallChain provides. RequestInterceptor
and FunctionMetering use the outcomes of AsyncSend, and AsyncSend the life cycle
of SocketPool, each as nondeterminism. What ConfigUpdater holds is, in the modules
that read it, a configuration that changes between any two of their steps.

## 3. The runs

| run | question | bounds |
|---|---|---|
| `pool` | safety of the pool, the count of relays, and do slots come back and stay | 2 slots, 5 connection objects, 2 attempts, 1 Connect, 1 Close, 1 close frame per slot, 2 faults |
| `pool_churn` | **violated**: does a slot settle after one close frame | no fault, one close frame |
| `async_send` | counters, handler maps, replies, every call returns | 2 calls, 2 connections |
| `keepalive` | silent, broken and marked connections noticed in time, others kept | ticks of 5 s: 6, 12 and 2 for 30, 60 and 10 s |
| `interceptor` | the gate, settlement, refinement of MeteringGate with its liveness | 2 requests, 1 unit of quota |
| `call_chain` | report complete and faithful | 3 interchangeable calls |
| `function_metering` | reservation and settlement of a call | 1 call, every set of matching policies |
| `config` | the pieces of the configuration, and what requests see of them | 2 revisions, 1 method, 2 URLs, 1 whitelisted route of the application |
| `endpoint_blocked` | **violated**: does a block of an endpoint stop every request on it | as `config` |
| `metered_data` | who is charged, how much, and what becomes of the bodies | 2 policies of every kind; 12 functions of 1 to 5 outcomes, 7 responses, 3 writes, 3 bytes captured |
| `rewrite` | is rewritten code sound, with one hook per function | files of 1 or 2 functions, 2 parameters, 2 results, 4 ways to import the tracker, 2 passes |
| `body_restored` | **violated**: does the handler get the body the client sent | 2 policies of every kind |

Why these bounds suffice: the pool's properties concern one slot (the second is
there for the shared mutex and list), a task that fails once and gives up on the
next covers first, middle and last attempt, and one close frame already doubles
a relay. Two calls share a connection, or sit on the old and the new one of a
slot. Two requests compete for one unit. Three calls are a caller, its nested
call and a goroutine beside them. Two revisions are a reply under way while a newer one
exists; the second takes back what the first brought (a cap, a block, routes by
wildcard). A second policy is one after a policy that bound the body or identified the
client. Four lengths of writes are below, at and above a limit of three. The shapes
of results put a number in every kind of value `ExtractSchema` looks into, with every
encoding. A name can clash within one function, an import within one file of two; the
names the rewriter gives are among those that files have, inside functions and around
them. Connection identities in SocketPool are reused once dead, so five stand for any number. Deadlock checking is off
where a run ends by design: bounds are used up, all requests have ended, or a reader
has returned.

**Properties.** SocketPool: `OnePerIndex`, `NoOrphan`, `ConnectedIsRead`, `RelayKept`,
`RelaysAccounted` (a slot's future reconnecters are exactly one per Connect plus one per
close frame minus one per task that gave up), `SlotsRecover`. AsyncSend: `PendingExact`,
`HandlersInFlight`, `NoReplyDropped`, `AnswerableWhileConnected`, `EveryCallReturns`.
KeepAlive: `DeadPeerNoticed`, `BrokenNoticed`, `MarkedIsRepaired`, `HealthyKept`.
RequestInterceptor: `PaidOrExcused`, `SettledOnce`, `BlockedIsSilent`, `ImplementsGate` (which
includes that no refused request is served), `GateProgresses`. CallChain: `LiveIndexed`,
`ReportFaithful`. FunctionMetering: `DeniedNeverRuns`, `SettledWasGranted`,
`MeasuredWasReserved`, `ChargedToRequest`, `CallEnds`. ConfigUpdater: `NoReplySplit`,
`WhitelistedBypasses`, `NeverGoesBack`, `Converges`.
IdentityExtraction: `BodyLostToBinding`, `FirstTextIdentifies`. FunctionAmount:
`ChargedAsReturned`. ResponseCapture: `KeptIsComplete`, `ChargedAsSent`. RewriteFile:
`RewriteSound`, `HookedOnce`. The violated ones are `StaysConnected` (SocketPool),
`BlocksHonoured` (ConfigUpdater) and `BodyReachesHandler` (IdentityExtraction). The type
invariants are theorems and no run checks them.

**Fairness.** Only what Go's scheduler and timers give: a goroutine that can run
does, a sleep or timeout ends, a dial returns. In `FairSpec` of SocketPool that is
weak fairness of the steps of tasks, dials and readers that are on their way out;
in AsyncSend of the steps of a call once it has picked a connection (the timer makes
`TimeOut` one of them), strong where a step needs a lock, since a mutex of Go starves
nobody, and for writes only if they are `Bounded`; in RequestInterceptor and
FunctionMetering of the steps of a request or a call, where handlers and functions are assumed to return.
Nothing is assumed of the server, the network, the updater or the user there.
SocketPool and KeepAlive take the writes of pings and close handlers for single steps:
`SlotsRecover` is for pools in which no write blocks for ever. One that does holds the
lock its reader needs to exit (218), and a reconnect task that is due to the slot waits for
that lock with `connectionMutex` held (326), so that no slot is dialled; `EveryCallReturns` is where such a write is
modelled.
`Converges` is a conditional: once publications and faults have come to an end
(`settled`), which they need not, the updater's goroutine and its ticker run on and the
server answers the polls that reach it.

**What the violated runs show.** (1) After one close frame two tasks close each other's
healthy connection for ever (socket.go 203, 228). (2) The block of a
whole endpoint does not stop requests with an identity: the ledger id they are looked up
by is longer than the one that is blocked (middleware.go 469 against `README.md` 108 and
`RELEASE_NOTES.md` 351). (3) A policy that takes the identity from the body binds the
body first and reads it for "Restore the body" (middleware.go 925) afterwards, when it is
gone: the handler finds nothing. `BodyLostToBinding` in the passing run says that this is
the only way.

**What else the passing runs show**, mostly in the exceptions their properties need:

* A slot that was given up is never dialled again, although the comment says "Will retry on
  next connection attempt" (socket.go 307; exception of `SlotsRecover`).
* The write deadline of a ping outlives it and breaks the connection of a living peer
  at the next application write (socket.go 382; `HealthyKept`).
* A denial whose text reads like an outage opens the gate (middleware.go 601-618;
  "deniedAsOutage" in `Decision` and in the theorem `RefusalsHold`).
* The 400 the README promises for an "unexpected connected allocation failure"
  (`README.md` 112, middleware.go 187-198) is never sent: whatever fails has an error, so
  that the branch before answers first, a response without an id for a rate-limited
  request with 429. Nor is the 429 without a rate limit (middleware.go 182), since what
  can fail then is a block alone. `Answer` has both; no run is spent on them.
* Functions called by whitelisted routes are metered, under the ledger id "unknown"
  (functions.go 33; `ChargedToRequest`). A measured amount may settle a small
  reservation where policies changed or were ambiguous (`MeasuredWasReserved`).
* A write begun in the first 30 seconds of a connection has no deadline. If the peer
  stops reading and the buffers are full it blocks, with `conn.mu` held, and the calls on
  that connection wait with it, timers or not (socket.go 522-525, 382; the exception of
  `EveryCallReturns`). So do, outside of what that property says, calls that choose a
  connection, which take the lock of each (403-410).
* An error reply with an object as payload empties a piece until the next poll
  (middleware.go 330, 410; `NeverGoesBack`). `accountReachLimit` is honoured in the
  reply of the application configuration only (middleware.go 385 against
  `RELEASE_NOTES.md` 13).
* Of the numbers advertised to the Console, those in arrays, under keys with a dot, those
  `omitempty` or another field of the name hides from JSON, and those JSON has as a text
  are charged as one unit; so are those in embedded structs, which JSON has at another
  path than the one advertised, and all of a struct `json.Marshal` refuses
  (`ChargedAsReturned`, `ChargedAsSent`). Numbers of Go types `toFloat64` does not know
  are charged as one unit too, unless JSON converts them: a bare `uint` as well, although
  the comments say that a scalar result is metered at path "return" (functions.go 299,
  schema.go 153).
* Five kinds of function are spoilt by a rewrite (`Spoilt` in `RewriteSound`): with
  several unnamed parameters; where a name the rewriter gives ("ctx" above all) is that
  of another parameter or result, the receiver, a type parameter or a local; where it is
  a name the body uses from outside, which it now hides; with two unnamed error results;
  and with a signature that hides what the hook uses, the tracker by whatever name it is
  imported, `nil` or `string`. Where the first parameter is what is named, even functions
  that take no context, if another one in the file does.

## 4. The proofs

All safety properties the passing runs check are theorems for every value of the
constants, checked by TLAPS, as are the type invariants; so is the refinement of
MeteringGate by RequestInterceptor (`GateImplemented`). Each proof
defines an inductive invariant, proves that it holds initially and is kept by
`[Next]_vars`, with one step or lemma per action, and concludes by PTL.

The only assumptions are the named `ASSUME`s on constants, which TLC evaluates in
the runs: finite sets of calls, requests and functions, natural bounds,
`PingPeriod < PongWait`, that revision 0 is empty, that a captured response is neither
`null` nor the placeholder of a body that was dropped (`ResponseAssumption`), that Go
values are trees, and what `json.Unmarshal` makes of a body has maps and float64 numbers
only (`ValuesAssumption`), that a file is at first one somebody wrote, of any functions
without hooks of the rewriter (`FilesAssumption`), and that
`fmt.Sprintf("__ufR%d", i)` gives each result a name of its own (`NamesAssumption`; the
prover knows nothing of the characters of a string).

* **SocketPoolProofs**: the properties support each other: that a connected
  connection is read (`ConnectedIsRead`) needs what the mutex holder has in hand
  (`HolderInv`, a theorem of its own), and `RelayKept` needs both, so `IInv` is their
  conjunction. It does not bound faults, close frames or calls of Connect.
  `RelaysAccounted` is a sum over the numbers of sleeping tasks at each attempt.
  The proof counts a set instead: the pairs of an attempt and the number of a task that
  sleeps before it, so that a task put to sleep adds one pair and one that wakes
  takes one away, whatever the number of attempts is (FiniteSetTheorems).
* **AsyncSendProofs**: `PendingExact` is proved by one lemma for a call entering
  `InFlight(c)` and one for a call leaving it, with the cardinality facts of
  FiniteSetTheorems. `LifeInv` adds that a call's connection was dialled and that its
  reader runs as long as it is connected.
* **KeepAliveProofs**: the invariant `Balance` ties the clocks together: time
  since the peer fell silent plus time left until the read deadline is at most
  `PongWait`, likewise for broken and marked connections, and what is broken since
  some time was pinged `WriteWait` before that.
* **RequestInterceptorProofs**: `ReqInv(r)` says for every label what the locals of a
  request and the server's books are, since the properties speak of the end only. For
  the refinement, `Charged` is the set of requests the server granted a unit to,
  `QuotaInv` says that their number and what is left are together at most the quota, and
  `BackedInv` that a request whose decision is "paid" is one of them. `StepMoves` shows
  for each step of a request that `Decision` and `Result` of it make one move of the
  gate or none, `OthersStay` that those of all other requests stay, `PaidBelowQuota`
  that a unit is left when a request becomes paid, and `MovesAreSteps` puts them
  together. The proof did not go through at first: arms of a `CASE` in the mapping
  overlapped, and which of two true arms counts is not specified in TLA+, although TLC
  takes the first. `Decision` now decides with `IF`.
* **CallChainProofs**: `StackInv` (a call of the handler in progress is on its stack,
  so none is when the handler has ended), `RecordInv` (where the record of a call
  is) and `IndexInv`; `SyncedKeeps` shows that a snapshot moves no entry and copies
  each live one. `ReportComplete` is an action property proved from them.
* **InstrumentationProofs**, about what instrumentation does at run time and at build
  time. For FunctionMetering `FreshInv` says that unless policies changed, they are
  exactly the one the call found; `FewPolicies` is the cardinality argument for an
  unambiguous match. For RewriteFile `HookedOnce` speaks of a finished file only, and
  `RewriteInv` says what leads there: the source is as somebody wrote it or as the
  rewriter leaves it (`SourceInv`); naming never changes whether a function wants a hook
  (`FileInv`); the targets are, without repetition, the functions looked at that are due
  one (`TargetsInv`); and the first `next - 1` of them have it while all others have
  what the source had (`InjectInv`). Files and the number of passes are arbitrary.
  `RewriteSound` needs to know all that has become of each function: `ShapeInv` says
  that it is as it was, visited, or visited and hooked, according to `next`, and that
  only a file somebody wrote ever gets hooks. What is left is about the names of one
  function before and after (`Rewritten`), and no longer about the file:
  `SoundUnlessSpoilt` takes the rules of `Sound` one by one, and shows for each way a function may be spoilt which rule of the compiler it breaks,
  and that nothing else does.
* **ConfigUpdaterProofs**: for every history of revisions. `ReplyFresh` says that the
  reply in hand is no older than the piece it will replace, and `HalfApplied` that the
  first of two pieces is already the reply's; from them follow `Forward` and
  `RepliesWhole`. `OwnRoutesKept` carries the exemptions over a poll.
* **MeteredDataProofs**, about the composition `DataSpec`, for any number of policies,
  any limit, and results and bodies of any shape and depth. `Gathered` says what the
  loop knows of the policies it has seen, and the properties of IdentityExtraction are
  `Gathered` at its end. `CopyInv` says how what was captured relates to what was
  written: equal until the limit is passed, and marked as cut from then on, unless an
  empty write met a full buffer. `KeptIsComplete` follows. The amounts compare two
  traversals of a tree. `WalkMeetsSchema` is that comparison: after k steps the walk
  along a path is at just those values that are k steps inside, have this path in JSON
  and are clear of arrays, dotted keys and lost fields, having gone through JSON if a
  struct was on the way; `AmountIsThere` concludes that a charge is a number the value
  has at the path, or one unit where it has none that can be reached. The induction over
  steps is over a set of numbers (`SetInduction`, from the well-founded order of the
  naturals), since a theorem with an operator for its parameter cannot be applied; that
  the recursive functions satisfy their equations (`Recursion`) is shown likewise, from
  their finite beginnings. `AmountInv` and `FunctionInv` carry what was charged through
  the steps of the request.

Only model-checked: liveness (`SlotsRecover`, `EveryCallReturns`, `CallEnds`,
`Converges`, `GateProgresses`), which the prover does not handle.

## 5. Not modelled, and the plan

Not modelled: writes that block in SocketPool and KeepAlive (see Fairness); a
`MarshalJSON` that yields an object of other fields; names like `__ufCall_0` in files
before their first rewrite, files that import C, and the form of import declarations;
the content of messages, records and request metadata, with the masking of
headers; the limits of `ExtractSchema` on keys, items and cycles, which only take
paths away; the promotion of token counts to metadata, which nothing reads; the names
and paths hooks record; the compiler wrapper, the overlay and the commands, which
are file and process I/O at build time; the examples. Wire types are data declarations.

Abstracted: the choice of `getConnection`, because any connected connection may be
picked in AsyncSend, whatever its unlocked `currentIndex` is; how keys of function
policies match, in FunctionMetering reduced to which match; the outcome of `SendAsync`
in the modules that use it. Left to one instance: the tracker's callbacks are package
variables, so a second middleware in a process takes over the first one's calls (call.go
36); and a second Connect, or one after Close, is bounded to what `pool` explores.

Next: the matching of policy keys, as a module that FunctionMetering would use; the
limits of `ExtractSchema` on keys and items, which make what is advertised depend on the
order of a map; and the compiler wrapper, as far as it decides which files of a build
are rewritten.
