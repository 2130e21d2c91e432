# A TLA+ model of lapq

lapq is a C++ client library for PostgreSQL. An application calls `connect`,
`exec`, `prepare` and `close` on a `lapq::Connection` (blocking) or a
`lapq::AsyncConnection` (callbacks on an asio `io_service`); the library drives
one server session through a state machine, `pv3::FSM`, over one of four
transports. This directory holds a model of it, the properties TLC checks on
small instances and the theorems TLAPS proves for all instances.

## The system and where it is modelled

| Part | Source (`src/src/`) | Module | Kept | Left out |
|---|---|---|---|---|
| State machine | `fsm.h`, `fsm.cpp` | `Protocol`, `FSM` | every API call, callback, table entry, error path | `closeComplete`/`CLOSE`: dead code |
| Transports | `connection.h`, `connection.cpp` | `Connection`, `FSM` | outstanding reads, writes, connect and handshake steps, their completions and failures | short reads, TLS records |
| Facades | `dbconnection.*` | `Client` | both classes, a new transport and machine at each connect | `close()` before the stream is up |
| Lifetimes | `fsm.cpp`, `dbconnection.cpp` | `Lifetime` | the machine a callback points to, the closure a handler runs in | what the operations read and write |
| What the library promises | - | `Session` | the abstract specification | |
| Server | external | `Backend`, `Exchange` | the orders of messages a client meets; statements, portals and transaction blocks | what a query computes |
| Message codec | `protocol.*`, `types.*` | `Codec`, `ResultSet`, `Exchange` | the bytes of every message but Password, headers included | Password with its MD5 digest |
| Result sets, errors, column formats | `dbresult.h`, `error.*`, `pgformat.*` | `ResultSet` | RecordSets, SQLError as a map, decoders, when they throw or read out of place | texts, output operators |
| Prepared statements | `dbquery.*` | `FSM`, `Exchange` | names, portals, bound values, what the server runs | |
| Options, TLS context | `util.*` | `Options`, `Exchange` | `getEnv`, `getSSLMode`, `setContext`, `verifyCertificate` | the contents of certificates |

Modules extend each other in these orders, and `Session` is instantiated by
`Client`:

    Protocol - Connection - FSM and Backend - Client - ClientProofs - ChainProofs
    ChainProofs - FinalProofs - SessionProofs
    ChainProofs - SyncProofs - ResultProofs
    Codec - CodecProofs
    Codec - ResultSet
    Codec - Options - Exchange - MCExchange
    Lifetime - LifetimeProofs

There are four models rather than one because they need different abstractions.
`Client` has interleavings and failures, and whole messages; `ResultSet` and
`Exchange` have bytes, and one message or one call at a time; `Lifetime` has
objects only. What one takes for granted another establishes: `ResultSet` uses
the order of messages that `RowsDescribed` of `Client` states, `Exchange` that
calls are taken one at a time (`ImplementsSession`), `Lifetime` that a machine
has one chain of operations (`OneChain`), and `Client` that messages are cut at
their ends (`FramesExact`).

### State and actions

**Client.** An API call is a number, its *op*. `calls[op]` is the sequence of
outcomes the handler of the call was called with (`ok`, `error`, `busy`) and
`results[op]` what was added to its ResultSet. `m_state`, `m_ehandler` and
`m_result` are the members of FSM, with an op in the place of a handler or a
pointer. `reads` and `writes` are the operations started on the stream that have
not completed, oldest first; `pending` is the step of connect or handshake that
is outstanding. `half` says that the header of the first message in `inbox` has
been consumed, `desync` that a read for a header was served bytes of a body;
nothing is said of what follows then, and no further read completes. A message
carries the op it answers, a ghost that lets properties tell whose result it is.

A callback of the code is one action: `connected`, `written`, `headerRead`,
`bodyRead` and their failing forms. `bodyRead` contains `next()` and, through
the table, the whole handler of the message. A callback ends by `receive`
(another read), `notify` (the handler is called) or `throw` (an exception leaves
the library). A handler captured with `std::move(eh)` after it had been moved
into `m_ehandler` is `"moved"`: calling it throws `std::bad_function_call`.

The blocking client is the same machine: the callbacks nest instead of being
queued, so the application makes a call only when no chain is running, and
`deferred` counts the `receive()` calls that wait in an outer frame (only
`authenticate` has one).

`Backend` is a server seen from the client: `Must` and `May` list the messages
it sends in each phase, `Accepts` the requests it takes. `Features` selects what
it may do besides the ordinary: ask for an MD5 or another authentication, reject
the user, refuse a Parse, send NULL, start a COPY, send notices or a fatal error
while idle, crash, refuse the connection.

**ResultSet** takes the messages of one simple query as bytes, runs the
deserialize functions and the column decoders on them, and says what the
application finds. `log` is the ghost of what the server meant, `unread` the
number of bytes the last message was left with. The application may have
registered a decoder of its own for a type.

**Exchange** starts with what an application, the environment and the system
provide (`setting`), runs `getEnv`, then either connects plainly or makes a TLS
context from files that are good, bad, missing or no regular files, sends an
SSLRequest and, if the server takes it, meets a peer (`handshake`); then come
simple queries, prepared queries and their values, and at last Terminate. What
is on the `wire` is bytes, with the meaning the writer gave them as a ghost; the
server reads the bytes, keeps statements and portals, knows transaction blocks,
and `runs` records what it ran for queries with a name. `MCExchange` gives five
DBQuery objects: two without a name, two that share a name, and one whose name
is the portal of those; with and without parameters.

**Lifetime** numbers machines and closures. `ops` are the machines with an
operation outstanding, `stack` the handlers that are running, innermost last: a
handler may call `exec`, which may be turned away and so run another handler at
once, or be taken, which assigns `m_ehandler` and destroys the closure that was
there, even the one that runs. `exec`, `close`, `connect` and `release` are what
the code does, at any time. The application keeps two rules, which the code does
not enforce and which are stated apart from it, in `Application` and `Refrain`:
it lets go of a connection, closes it or connects it again only when every call
that was taken has been answered; and once a call is taken no running handler
uses what it captured (`barred`). Both properties depend on them: `test/t3.cpp`
makes two calls through one `[&]` closure, does not keep the second rule, and is
outside of what is shown.

Definitions whose comment starts with *(Slip)* are variants of the definition
below them with a plausible mistake. No specification uses them; they show that
a property can fail.

## Runs

| Run | Question | States |
|---|---|---|
| `async` | the asynchronous client under a server that crashes, sends notices and fatal errors | 64,285 |
| `blocking` | the blocking client, prepared statements and SSL, a server that does not fail | 99,566 |
| `blocking_faults` | the same with every fault of the server but MD5 | 301,753 |
| `async_eager` | everything, MD5 included, close at any time | 583,443 |
| `resultset` | one query of several statements, in bytes | 28,460 |
| `exchange` | from the environment to what the server runs, in bytes | 425,689 |
| `lifetime` | handlers that call, close, reconnect or let go | 29,814 |

Bounds are constants. `MaxOps` = 3 calls let a call be made before, during and
after another one, and a session be lost and made again. `Budget`, the optional
messages of the server in one behaviour, is 1 or 2: enough for a row after a
row, a second result in one query, or a notice between requests. `MaxMsgs` = 5
messages allow two results with rows and an error. `MaxCalls` = 7 closures allow
handlers nested three deep on a second machine. In `exchange` at most two values
are bound to a query, one more than the parameters of its statement; the user and
the TLS mode come from every combination of their sources, the files from the
application or the environment.

What the runs show:

* `Synchronised`: in IDLE, the only state in which `exec` takes a query, both
  ends are between requests and nothing is left that answers one.
* `OkMeansComplete`, `ResultIsolation`, `NoLateResult`, `RowHasHome`: a call that
  succeeds has all of its results, in order; none of another call; none after
  its handler ran; and a row never meets a null or foreign `m_result`.
* `ErrorIsFinal`: after a transport error the machine takes nothing until the
  next connect.
* `Completes`, `Returns`: every call is answered, and every blocking call returns.
* `OneChain` (in `blocking_faults`), which implies `StreamContract`, `Framed`,
  `HandlerOnce`, `NoStrayMessage` and `SafeToDrop`: one chain of callbacks at a
  time, and none when every call is answered.
* `NoEscape`: with plain `connect` and `exec` and no NULL, no exception leaves
  the library, even when the server crashes.
* `EndIsFinal`, `RowsDescribed`, `CloseOkMeansClosed`: hold whatever the server
  does and whenever the application closes. `close()` takes over `m_ehandler` from
  a call that is running; the last says that no late answer to that call passes
  for the end of `close()`.
* `NoOtherDeadlock`: client and server wait for each other only after an
  authentication request the client skips over and in a COPY from the client.
* `ImplementsSession`: the client refines `Session` (calls one at a time, `busy`
  at once, one answer each, ready exactly after a successful one). The call being
  served is mapped to `m_ehandler` while a chain runs, `ready` to `IDLE`.
* `Faithful`, `ValuesKept`, `RowsWhole`, `ByName`, `ReadToTheEnd`: the RecordSets
  are those of the query, in order, with whole rows and the values that were
  sent; a name finds its leftmost column; every message is read to its last
  byte. The exceptions are stated in the properties, and are defects of the code:
  a NULL TEXT or INT4 throws, the columns after a NULL BOOL are read out of place,
  and a size of -1 is read as 65535.
* `Understood`: either end reads back what the other wrote, to the last byte.
* `ServerGetsOptions`, `NothingSkipped`, `ErrorMeansProblem`, `VerifiedPeer`: the
  first source of an option wins; `setContext` succeeds only with all files
  loaded and fails only for a reason (or because there is no default key: the
  error code of the last `is_regular_file` is returned); a peer that shall be
  verified is. A name that belongs to a directory is skipped without an error.
* `RunsAsAsked`, `DescribedIsRun`: the server runs the statement it has under the
  name of the DBQuery with all the values bound to it so far, or nothing, never
  what an earlier call left behind. (`bind` only adds: with a second set of values
  nothing runs.)
* `NameMeansOneText`: in a session a name stands for one text. Two DBQuery objects
  of one name share the text that was prepared first; `prepare()` does not report
  it (`prepare_error`).
* `MachineOutlivesCallbacks`, `ClosureOutlivesHandler`: under the two rules no
  callback meets a machine that is gone, and no handler that may use its closure
  has lost it, from whatever depth calls are turned away.

`Completes`, `Returns` and the liveness part of `Session` assume `Fairness`:
`io_service::run()` executes every handler that is ready, which is weak fairness
of `Transport`, and the server serves requests and sends the messages it must,
which is weak fairness of `reply \/ accept`. Nothing is assumed of optional
messages, of crashes or of the application. A connection the server neither
accepts nor loses is not modelled. Deadlock is checked in `async` and `blocking`:
`Finished` is the only state in which the system may stop. In `blocking_faults`
and `async_eager` it is switched off because client and server do wait for each
other there, and `NoOtherDeadlock` says when; in `resultset`, `exchange` and
`lifetime` because the application may stop.

### Disagreements between the code and what is written about it

| Run | What happens | Against |
|---|---|---|
| `reject` | `authError` reports success, machine left in AUTH | `README.md:21` |
| `md5` | two reads on one stream after an MD5 challenge; a blocking connect then does not return | asio's `read.hpp:735`, `test/connect.cpp:18` |
| `close_busy` | close during a query: its handler is never called | the guard in the comment at `fsm.cpp:205` |
| `prepare_error` | a refused prepare is reported as success | `test/t5.cpp:25` |
| `sql_error` | `emplace` keeps SQLSTATE 00000: an error reads as success | `README.md:32` |

## Proofs

All theorems hold for every value of the constants. The assumptions are those on
the constants (`MaxOpsAssumption`, `BlockingAssumption`, `BackendAssumption`,
`ClientAssumption`, `MaxCallsAssumption`), which TLC evaluates in the runs.

`ClientProofs`: `TypeCorrect`, `Spec => []TypeOK`. One lemma for each way a
callback ends (`ReceiveType`, `NotifyType`, `ThrowType`, `ReportType`), one for
`next`, one for each group of actions.

`ChainProofs`: under `Disciplined` (the application closes only a quiet machine,
the server does not ask for MD5; both are necessary, as `close_busy` and `md5`
show) `OneChain` is an invariant, and from it follow `StreamContract`,
`HandlerOnce`, `Framed`, `NoStrayMessage` and `SafeToDrop`. None of these is
inductive: that a completed read leaves no other one needs `SingleChain`; that
the handler has not been called before needs `Unanswered`; that a header read
meets a header needs `HalfRead`; that `authenticate` does not fork needs `NoMD5`.
Each callback is shown to keep the shape of the chain and to end in one of two
ways (`Ending`): answers untouched, or one answer and nothing outstanding. How
the calls are answered then follows once and for all from `EndingKeeps`.

`FinalProofs`: `EndIsFinal` for every client, because END has no row in the
table; and `ErrorIsFinal` for a disciplined one. A failed call might be followed
by a late message that makes the machine IDLE; `Stopped`, the strengthening,
says that a failed call was the last of its chain and nothing is outstanding but
a later close. `CloseOkMeansClosed` is proved for every client as well. Its
strengthening `ClosedInEnd` says that from `close()` to the next `connect()` the
machine is in END with no connect under way: there the only callback that can
report a success is the one that wrote Terminate, which closes the socket.

`SessionProofs`: `SessionImplemented`, the safety part of the refinement, for a
disciplined client and a server that rejects no start-up, as long as no exception
leaves the library; the disagreements `reject`, `md5` and `close_busy` show why
the first conditions are there, and an exception leaves a call without an answer.
Every callback either lets the chain go on, which is no step of `Session`, or
ends it with the answer of its call (`Goes`, `Answers`). Two more invariants are
needed: `Closing` ties END to `close()`, so that only the success of another call
makes the session ready, and `Admitted` follows the start-up messages, so that
`authError` is out of reach. `NoEscapeAlways` proves the condition on exceptions
for a `Plain` client, without TLS, prepared statements and NULL columns: there
every callback reports through the member `m_ehandler` (`ByMember`). Together
they give `PlainSession`.

`SyncProofs`: `SynchronisedAlways`, for a disciplined client. IDLE is entered on
ReadyForQuery, so what is to be shown is that the server sends nothing that
answers a call after it. The strengthening `InStep` relates both directions of
the stream to the phase of the server: of the requests under way only the last
makes the client wait; while the server answers there is no other; a ReadyForQuery
in the stream is the last answer in it; and a machine in IDLE is `AtRest`.

`ResultProofs`: `NoLateResult`, `RowHasHome` and `ResultIsolation`, for a
disciplined client that is `Unprepared`. `parse()` leaves `m_result` to an earlier
call, and `parse_error` adds to it (`prepare_error`), so the condition is
necessary for `Home`, that the machine points to the ResultSet of the call it
works for.
`Owned`, proved for every disciplined client from `InStep`, says that requests
and messages under way belong to that call or answer none, and that a row always
answers one. A message is added to a ResultSet only through `m_result`
(`AddsAtHome`), so the two together keep results apart.

`CodecProofs`: `Int16RoundTrip` and `Int32RoundTrip`, numbers are read back as
written from between any bytes; `FramesExact`, a message is cut out of a stream
of bytes exactly by the header `Message::serialize` writes.

`LifetimeProofs`: `LifetimesHold`, both properties of `Lifetime` for any number of
calls, machines and nested handlers. The inductive invariant `Alive` adds that
operations belong to the present machine exactly while a call is unanswered,
that what the machine owns is alive, and that no two running handlers share a
closure.

Only model-checked: liveness (`Completes`, `Returns`, the fairness of `Session`),
which with ENABLED is beyond the prover, and `NoOtherDeadlock`;
`OkMeansComplete`, which compares what was sent with the messages selected from a
ResultSet, where a proof would need induction over data; `RowsDescribed`, which
would need an invariant on the order of all messages in flight; the properties
of results for clients that prepare; `ResultSet` and `Exchange`, whose readers
are recursive over their input.

## Not modelled

* The bundled libraries under `src/lib` (asio, ttmath and others) make up nearly
  all of the lines of the source tree; lapq itself is some 3,800 lines in
  `src/src`. They are copies of other projects, not part of this system. asio
  appears as what lapq relies on: its contract for a stream and the order in
  which callbacks run. The models therefore cover a small share of the tree and
  most of lapq.
* The MD5 digest of the password, and the user and password themselves, which are
  fixed in `fsm.cpp`: whether the server takes them is its choice in `Backend`.
* TLS records and the contents of certificates: a certificate is loaded or not,
  and vouches for a peer or not.
* Output operators, texts of errors, debug output and macros: no state depends on
  them.
* `close()` before the stream is up, which writes to an unopened socket, and
  reads of part of a header or body, which asio's `read` does not return.
* The programs under `test` (their money and numeric decoders are applications of
  the decoder map, which `ResultSet` has) and the build files.
