-------------------------------- MODULE FSM --------------------------------
(***************************************************************************)
(* class FSM (fsm.h, fsm.cpp): the client state machine.  Its API calls    *)
(* start a chain of callbacks; each callback either starts the next read   *)
(* or write of the chain, or ends the chain by calling the handler of the  *)
(* call.  Every action below is one API call or one whole callback.        *)
(*                                                                         *)
(* An API call is identified by a number, its op.  "calls" and "results"   *)
(* are what the application sees of an op: the error codes its handler was *)
(* called with, and what was put in its ResultSet.                         *)
(*                                                                         *)
(* The error returns of deserialize() are out of reach here: a body has    *)
(* the length its header gives (EMSGSIZE) and a message is handed to the   *)
(* class of its type (EBADMSG).                                            *)
(***************************************************************************)
EXTENDS Connection

CONSTANT Blocking   \* TRUE: lapq::Connection; FALSE: lapq::AsyncConnection

ASSUME BlockingAssumption == Blocking \in BOOLEAN

VARIABLES
  m_state,
  m_ehandler,  \* the op whose handler the machine holds, 0 for none
  m_result,    \* the op whose ResultSet the machine points to, 0 for nullptr
  deferred,    \* receive() calls a blocking call makes when its callee returns
  raised,      \* exceptions that left io_service::run() or the API call
  calls,       \* for each op, the outcomes its handler was called with
  results      \* for each op, the messages added to its ResultSet

fsmVars == <<m_state, m_ehandler, m_result, deferred, raised, calls, results>>

Outcome == {"ok", "error", "busy"}
Exception == {"out_of_range", "bad_function_call", "length_error"}

\* closeComplete and State::CLOSE are dead code: no path sets CLOSE.
FSMTypeOK ==
  /\ m_state \in State \ {"CLOSE"}
  /\ m_ehandler \in 0 .. MaxOps
  /\ m_result \in 0 .. MaxOps
  /\ deferred \in Nat
  /\ raised \subseteq Exception
  /\ calls \in [Ops -> Seq(Outcome)]
  /\ results \in [Ops -> Seq(Message)]

\* No chain of callbacks is running.
Quiet == NoneOutstanding /\ deferred = 0

FSMInit ==
  /\ m_state = "AUTH"
  /\ m_ehandler = 0 /\ m_result = 0
  /\ deferred = 0 /\ raised = {}
  /\ calls = [i \in Ops |-> <<>>]
  /\ results = [i \in Ops |-> <<>>]

-----------------------------------------------------------------------------
(* The three ways a callback can leave the chain.  rs and the writes are   *)
(* the operations still outstanding once the one that completed is gone.   *)

\* receive(): read the header of the next message.
receive(rs) ==
  /\ reads' = Append(rs, "header")
  /\ UNCHANGED <<deferred, raised, calls>>

\* m_ehandler(ec).  The chain ends here, and a blocking call returns to the
\* receive() that waits in an outer frame, if there is one.
notify(out, rs) ==
  /\ calls' = [calls EXCEPT ![m_ehandler] = Append(@, out)]
  /\ IF deferred = 0
     THEN reads' = rs /\ deferred' = 0
     ELSE reads' = Append(rs, "header") /\ deferred' = deferred - 1
  /\ UNCHANGED raised

\* An exception leaves the callback, and every frame below it.
throw(e, rs) ==
  /\ raised' = raised \cup {e}
  /\ reads' = rs /\ deferred' = 0
  /\ UNCHANGED calls

\* An error reported through what the callback captured: calling a
\* std::function that was moved from throws.
report(eh, rs) ==
  \/ eh = "member" /\ notify("error", rs)
  \/ eh = "moved" /\ throw("bad_function_call", rs)

-----------------------------------------------------------------------------
(* API calls.                                                              *)

\* lapq::[Async]Connection::connect(): a new transport, a new FSM, and
\* FSM::connect() or FSM::connectSSL().
connectWith(op, step) ==
  /\ NewConnection(step)
  /\ m_state' = "AUTH" /\ m_ehandler' = op /\ m_result' = 0
  /\ UNCHANGED <<deferred, raised, calls, results>>

connect(op) == connectWith(op, "connect")

connectSSL(op) == connectWith(op, "sslConnect")

\* (Slip) A call turned away without calling its handler.
busy_silent(op) ==
  /\ m_state # "IDLE"
  /\ UNCHANGED fsmVars /\ UNCHANGED connVars

\* The common guard of exec() and parse(): a machine that is not IDLE calls
\* the handler it was given at once, and changes nothing.
busy(op) ==
  /\ m_state # "IDLE"
  /\ calls' = [calls EXCEPT ![op] = Append(@, "busy")]
  /\ UNCHANGED <<m_state, m_ehandler, m_result, deferred, raised, results>>
  /\ UNCHANGED connVars

\* (Slip) The guard for a busy machine left out, as it is in close().
start_unguarded(op, s, res, t, eh) ==
  /\ m_state' = s /\ m_ehandler' = op /\ m_result' = res
  /\ Write(writes, t, op, eh)
  /\ UNCHANGED <<deferred, raised, calls, results>>
  /\ UNCHANGED <<sock, pending, reads, half, desync, inbox, outbox, alive>>

\* An accepted call: the machine takes the handler and the ResultSet, and
\* starts its first write.
start(op, s, res, t, eh) ==
  /\ m_state = "IDLE"
  /\ m_state' = s /\ m_ehandler' = op /\ m_result' = res
  /\ Write(writes, t, op, eh)
  /\ UNCHANGED <<deferred, raised, calls, results>>
  /\ UNCHANGED <<sock, pending, reads, half, desync, inbox, outbox, alive>>

\* (Slip) The callback captures the handler that was moved away.
exec_moved(op) == busy(op) \/ start(op, "QUERY", op, "Query", "moved")

\* exec(const std::string &, ...)
exec(op) == busy(op) \/ start(op, "QUERY", op, "Query", "member")

\* (Slip) m_result is left to the previous call, as in parse().
execQuery_keepsResult(op) ==
  busy(op) \/ start(op, "EQUERY", m_result, "Bind", "moved")

\* exec(DBQuery *, ...): eh is moved into m_ehandler, then captured.
execQuery(op) == busy(op) \/ start(op, "EQUERY", op, "Bind", "moved")

\* parse(): leaves m_result alone.
parse(op) == busy(op) \/ start(op, "QUERY", m_result, "Parse", "moved")

\* (Slip) The machine waits for a CloseComplete the server does not send.
close_waits(op) ==
  /\ m_state' = "CLOSE" /\ m_ehandler' = op
  /\ Write(writes, "Terminate", op, "member")
  /\ UNCHANGED <<m_result, deferred, raised, calls, results>>
  /\ UNCHANGED <<sock, pending, reads, half, desync, inbox, outbox, alive>>

\* close(): the guard for a busy machine is commented out in the source.
close(op) ==
  /\ m_state' = "END" /\ m_ehandler' = op
  /\ Write(writes, "Terminate", op, "member")
  /\ UNCHANGED <<m_result, deferred, raised, calls, results>>
  /\ UNCHANGED <<sock, pending, reads, half, desync, inbox, outbox, alive>>

-----------------------------------------------------------------------------
(* Callbacks of connect() and handshake().                                 *)

\* What follows a completed step of the SSL connect and handshake.
NextSSLStep == [sslConnect |-> "sslRequest", sslRequest |-> "sslReply",
                sslReply |-> "sslHandshake"]

sslStep ==
  /\ pending \in DOMAIN NextSSLStep /\ alive
  /\ pending' = NextSSLStep[pending]
  /\ UNCHANGED <<sock, reads, writes, half, desync, inbox, outbox, alive>>
  /\ UNCHANGED fsmVars

\* The stream is up: write the StartUp message.
connected ==
  /\ pending = "connect" \/ (pending = "sslHandshake" /\ alive)
  /\ sock' = "open" /\ pending' = "none"
  /\ Write(writes, "StartUp", m_ehandler,
           IF pending = "connect" THEN "member" ELSE "moved")
  /\ UNCHANGED <<reads, half, desync, inbox, outbox, alive>>
  /\ UNCHANGED fsmVars

\* A step failed: refused, no 'S' in answer to SSLRequest, bad certificate.
connectFailed ==
  /\ pending # "none"
  /\ sock' = "closed" /\ pending' = "none"
  /\ report(IF pending = "connect" THEN "member" ELSE "moved", reads)
  /\ UNCHANGED <<writes, half, desync, inbox, outbox, alive>>
  /\ UNCHANGED <<m_state, m_ehandler, m_result, results>>

-----------------------------------------------------------------------------
(* Callbacks of write().                                                   *)

written ==
  /\ Transmitted
  /\ LET w == Head(writes) IN
     \/ /\ w.type \in LastWrite
        /\ writes' = Tail(writes)
        /\ receive(reads)
        /\ UNCHANGED sock
     \/ /\ w.type \in DOMAIN NextWrite
        /\ Write(Tail(writes), NextWrite[w.type], w.op, w.eh)
        /\ UNCHANGED <<sock, reads, deferred, raised, calls>>
     \/ /\ w.type = "Terminate"
        /\ writes' = Tail(writes) /\ sock' = "closed"
        /\ notify("ok", reads)
  /\ UNCHANGED <<pending, half, desync, inbox, alive>>
  /\ UNCHANGED <<m_state, m_ehandler, m_result, results>>

writeFailed ==
  /\ Broken /\ writes # <<>>
  /\ writes' = Tail(writes)
  /\ report(Head(writes).eh, reads)
  /\ sock' = IF Head(writes).type = "Terminate" THEN "closed" ELSE sock
  /\ UNCHANGED <<pending, half, desync, inbox, outbox, alive>>
  /\ UNCHANGED <<m_state, m_ehandler, m_result, results>>

-----------------------------------------------------------------------------
(* The actions of m_state_table.  m is the message, rs the reads left.     *)

\* Put the message in the ResultSet the machine points to.
addResult(m) ==
  results' = IF m_result = 0 THEN results
             ELSE [results EXCEPT ![m_result] = Append(@, m)]

\* AUTH_MD5_PASSWORD writes the password, whose callback calls receive(), and
\* falls out of the switch to another receive(): at once with an asynchronous
\* transport, when the write and all that follows it return with a blocking one.
authenticate(m, rs) ==
  /\ \/ /\ m.arg = "ok"
        /\ m_state' = "CONN" /\ receive(rs)
        /\ UNCHANGED writes
     \/ /\ m.arg = "md5"
        /\ m_state' = "AUTH"
        /\ Write(writes, "Password", m_ehandler, "member")
        /\ IF Blocking
           THEN deferred' = deferred + 1 /\ reads' = rs /\ UNCHANGED <<raised, calls>>
           ELSE receive(rs)
     \/ /\ m.arg \notin {"ok", "md5"}
        /\ receive(rs)
        /\ UNCHANGED <<m_state, writes>>
  /\ UNCHANGED results

\* The error code reported is that of deserialize(), which succeeded.
authError(m, rs) == notify("ok", rs) /\ UNCHANGED <<m_state, writes, results>>

backendKeyData(m, rs) == receive(rs) /\ UNCHANGED <<m_state, writes, results>>

parameterStatus(m, rs) == receive(rs) /\ UNCHANGED <<m_state, writes, results>>

\* (Slip) The handler is called and the next message is asked for as well.
readyForQuery_reads(m, rs) ==
  /\ m_state' = "IDLE"
  /\ calls' = [calls EXCEPT ![m_ehandler] = Append(@, "ok")]
  /\ reads' = Append(rs, "header")
  /\ UNCHANGED <<deferred, raised, writes, results>>

\* (Slip) The state is not set back.
readyForQuery_stuck(m, rs) == notify("ok", rs) /\ UNCHANGED <<m_state, writes, results>>

readyForQuery(m, rs) ==
  m_state' = "IDLE" /\ notify("ok", rs) /\ UNCHANGED <<writes, results>>

\* (Slip) The description is read and dropped.
rowDescription_dropped(m, rs) == receive(rs) /\ UNCHANGED <<m_state, writes, results>>

rowDescription(m, rs) ==
  addResult(m) /\ receive(rs) /\ UNCHANGED <<m_state, writes>>

\* The row is added before its columns are decoded: a NULL column, of size -1,
\* makes decodeText and decodeInt4 throw.
dataRow(m, rs) ==
  /\ addResult(m)
  /\ \/ m.arg # "null" /\ receive(rs)
     \/ m.arg = "null" /\ throw("length_error", rs)
  /\ UNCHANGED <<m_state, writes>>

commandComplete(m, rs) == receive(rs) /\ UNCHANGED <<m_state, writes, results>>

parseComplete(m, rs) == receive(rs) /\ UNCHANGED <<m_state, writes, results>>

bindComplete(m, rs) == receive(rs) /\ UNCHANGED <<m_state, writes, results>>

parameterDescription(m, rs) ==
  receive(rs) /\ UNCHANGED <<m_state, writes, results>>

noticeResponse(m, rs) == receive(rs) /\ UNCHANGED <<m_state, writes, results>>

\* (Slip) The error is read and dropped, as in authError().
query_error_dropped(m, rs) == receive(rs) /\ UNCHANGED <<m_state, writes, results>>

\* (Slip) No receive() after the error: the ReadyForQuery that follows it is
\* never read.
query_error_stops(m, rs) ==
  /\ addResult(m)
  /\ reads' = rs
  /\ UNCHANGED <<m_state, writes, deferred, raised, calls>>

query_error(m, rs) ==
  addResult(m) /\ receive(rs) /\ UNCHANGED <<m_state, writes>>

\* (Slip) END has the row of QUERY.
Rows_end(s) == {r \in m_state_table : r[1] = IF s = "END" THEN "QUERY" ELSE s}

Rows(s) == {r \in m_state_table : r[1] = s}

\* next(): m_state_table.at() throws in a state without a row; an event that
\* has no action in this state is skipped.
next(m, rs) ==
  \/ /\ Rows(m_state) = {}
     /\ throw("out_of_range", rs)
     /\ UNCHANGED <<m_state, writes, results>>
  \/ /\ Rows(m_state) # {}
     /\ \A r \in Rows(m_state) : r[2] # m.type
     /\ receive(rs)
     /\ UNCHANGED <<m_state, writes, results>>
  \/ \E r \in Rows(m_state) :
     /\ r[2] = m.type
     /\ \/ r[3] = "authenticate" /\ authenticate(m, rs)
        \/ r[3] = "authError" /\ authError(m, rs)
        \/ r[3] = "backendKeyData" /\ backendKeyData(m, rs)
        \/ r[3] = "parameterStatus" /\ parameterStatus(m, rs)
        \/ r[3] = "readyForQuery" /\ readyForQuery(m, rs)
        \/ r[3] = "rowDescription" /\ rowDescription(m, rs)
        \/ r[3] = "dataRow" /\ dataRow(m, rs)
        \/ r[3] = "commandComplete" /\ commandComplete(m, rs)
        \/ r[3] = "parseComplete" /\ parseComplete(m, rs)
        \/ r[3] = "bindComplete" /\ bindComplete(m, rs)
        \/ r[3] = "parameterDescription" /\ parameterDescription(m, rs)
        \/ r[3] = "noticeResponse" /\ noticeResponse(m, rs)
        \/ r[3] = "query_error" /\ query_error(m, rs)

-----------------------------------------------------------------------------
(* Callbacks of receive().                                                 *)

headerRead ==
  /\ HeaderArrived
  /\ half' = TRUE
  /\ reads' = Append(Tail(reads), "body")
  /\ UNCHANGED <<sock, pending, writes, desync, inbox, outbox, alive>>
  /\ UNCHANGED fsmVars

headerGarbled ==
  /\ FramingLost
  /\ desync' = TRUE
  /\ UNCHANGED <<sock, pending, reads, writes, half, inbox, outbox, alive>>
  /\ UNCHANGED fsmVars

bodyRead ==
  /\ BodyArrived
  /\ half' = FALSE /\ inbox' = Tail(inbox)
  /\ next(Head(inbox), Tail(reads))
  /\ UNCHANGED <<sock, pending, desync, outbox, alive, m_ehandler, m_result>>

\* (Slip) A failed read makes the machine IDLE again.
readFailed_idle ==
  /\ Broken /\ reads # <<>>
  /\ notify("error", Tail(reads))
  /\ m_state' = "IDLE"
  /\ UNCHANGED <<sock, pending, writes, half, desync, inbox, outbox, alive>>
  /\ UNCHANGED <<m_ehandler, m_result, results>>

readFailed ==
  /\ Broken /\ reads # <<>>
  /\ notify("error", Tail(reads))
  /\ UNCHANGED <<sock, pending, writes, half, desync, inbox, outbox, alive>>
  /\ UNCHANGED <<m_state, m_ehandler, m_result, results>>
=============================================================================
