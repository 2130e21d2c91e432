------------------------------- MODULE Client -------------------------------
(***************************************************************************)
(* The client library as an application meets it: lapq::Connection         *)
(* (Blocking) or lapq::AsyncConnection, over the FSM, a transport and a    *)
(* server.  The application makes at most MaxOps API calls.                *)
(***************************************************************************)
EXTENDS FSM, Backend

CONSTANTS
  Kinds,        \* the API calls the application makes
  EagerClose    \* the application may call close() while a call is running

Kind == {"connect", "connectSSL", "exec", "execQuery", "prepare", "close"}

ASSUME ClientAssumption == Kinds \subseteq Kind /\ EagerClose \in BOOLEAN

VARIABLES
  nextOp,    \* number of the next API call
  kind       \* for each op made, which call it is

vars == <<connVars, fsmVars, backendVars, nextOp, kind>>

\* Every variable holds a value of its type.
TypeOK ==
  /\ ConnectionTypeOK /\ FSMTypeOK /\ BackendTypeOK
  /\ nextOp \in 1 .. MaxOps + 1
  /\ kind \in [Ops -> Kind \cup {"none"}]

Init ==
  /\ ConnectionInit /\ FSMInit /\ BackendInit
  /\ nextOp = 1
  /\ kind = [i \in Ops |-> "none"]

-----------------------------------------------------------------------------
(* API calls.  A blocking call runs its chain of callbacks to the end, so  *)
(* the next call finds the machine Quiet.                                  *)

Call(k) ==
  /\ k \in Kinds /\ nextOp \in Ops
  /\ nextOp' = nextOp + 1
  /\ kind' = [kind EXCEPT ![nextOp] = k]

\* connect() replaces the transport and the FSM; the application calls it
\* again only when no callback of the old ones is outstanding.
Connect ==
  /\ Quiet
  /\ \/ Call("connect") /\ connect(nextOp)
     \/ Call("connectSSL") /\ connectSSL(nextOp)
  /\ NewSession

CanCall == sock # "none" /\ (Blocking => Quiet)

Exec ==
  /\ CanCall
  /\ Call("exec") /\ exec(nextOp)
  /\ UNCHANGED backendVars

\* Only the blocking class offers prepared statements.
ExecQuery ==
  /\ Blocking /\ CanCall
  /\ Call("execQuery") /\ execQuery(nextOp)
  /\ UNCHANGED backendVars

Prepare ==
  /\ Blocking /\ CanCall
  /\ Call("prepare") /\ parse(nextOp)
  /\ UNCHANGED backendVars

\* close() before the stream is up is left out.
Close ==
  /\ CanCall /\ pending = "none"
  /\ Quiet \/ EagerClose
  /\ Call("close") /\ close(nextOp)
  /\ UNCHANGED backendVars

Application == Connect \/ Exec \/ ExecQuery \/ Prepare \/ Close

-----------------------------------------------------------------------------
Transport ==
  /\ \/ sslStep \/ connected
     \/ ("refuse" \in Features \/ ~alive) /\ connectFailed
     \/ written \/ writeFailed
     \/ headerRead \/ headerGarbled \/ bodyRead \/ readFailed
  /\ UNCHANGED backendVars
  /\ UNCHANGED <<nextOp, kind>>

Server ==
  /\ reply \/ replyMore \/ accept \/ crash
  /\ UNCHANGED fsmVars
  /\ UNCHANGED <<nextOp, kind>>

\* The application has made its last call and nothing is under way.
Finished == nextOp = MaxOps + 1 /\ Quiet /\ UNCHANGED vars

Next == Application \/ Transport \/ Server \/ Finished

Spec == Init /\ [][Next]_vars

\* io_service::run() runs every callback that is ready; the server answers.
Fairness ==
  /\ WF_vars(Transport)
  /\ WF_vars((reply \/ accept) /\ UNCHANGED <<fsmVars, nextOp, kind>>)

FairSpec == Spec /\ Fairness

-----------------------------------------------------------------------------
(* Properties.                                                             *)

\* What asio asks of a program that uses async_read and async_write: no other
\* read is started on the stream before a read completes, and no other write
\* before a write completes.
StreamContract == Len(reads) <= 1 /\ Len(writes) <= 1

\* No read is ever served bytes of a message that another read has begun.
Framed == ~desync

\* A call is answered at most once: its handler is not called again by a late
\* callback, by an aborted operation or by the chain of another call.
HandlerOnce == \A i \in Ops : Len(calls[i]) <= 1

\* IDLE, the only state in which exec() and parse() accept a call, means that
\* both ends are between requests: no callback is outstanding, the header of no
\* message is half read, the server has taken all requests and is idle, and
\* what is left to read answers no request.
Synchronised ==
  m_state = "IDLE" =>
    /\ Quiet /\ ~half
    /\ alive => phase = "idle" /\ outbox = <<>>
    /\ \A i \in DOMAIN inbox : inbox[i].op = 0

Outcomes(i) == {calls[i][j] : j \in DOMAIN calls[i]}

Own(i) == SelectSeq(results[i], LAMBDA m : m.op = i)

\* A call of exec that reports success has put in its ResultSet all that the
\* server sent for it, in the order it was sent.
OkMeansComplete ==
  \A i \in Ops : kind[i] \in {"exec", "execQuery"} /\ "ok" \in Outcomes(i)
                => Own(i) = sent[i]

\* A ResultSet never holds what the server sent for another call.
ResultIsolation ==
  \A i \in Ops : \A j \in DOMAIN results[i] : results[i][j].op \in {0, i}

\* A row is only added after a row description, with only rows in between:
\* add_row() and add_column() take m_rset.back() and its field_spec() without
\* looking whether there is one.
RowsDescribed ==
  \A i \in Ops : \A j \in DOMAIN results[i] :
    results[i][j].type = "DataRow" =>
      \E d \in 1 .. j - 1 :
        /\ results[i][d].type = "RowDescription"
        /\ \A k \in d + 1 .. j : results[i][k].type = "DataRow"

\* When the machine is about to handle a DataRow, m_result, which dataRow()
\* dereferences without a check, points to the ResultSet of the call the row
\* was sent for.
RowHasHome ==
  BodyArrived /\ Head(inbox).type = "DataRow" /\ m_state \in {"QUERY", "EQUERY"}
    => m_result # 0 /\ m_result = Head(inbox).op

\* No message is read in IDLE or in END, the states without a row in
\* m_state_table, where next() throws std::out_of_range.
NoStrayMessage == "out_of_range" \notin raised

\* No exception leaves the library.
NoEscape == raised = {}

\* The session the machine is in: the calls made since the last connect.
SameSession(i) ==
  \A j \in i + 1 .. nextOp - 1 : kind[j] \notin {"connect", "connectSSL"}

\* After a call has failed the machine accepts no other one before the next
\* connect: an error code means the session is lost.
ErrorIsFinal ==
  \A i \in Ops : i < nextOp /\ SameSession(i) /\ "error" \in Outcomes(i)
                => m_state # "IDLE"

\* Nothing is added to a ResultSet once the handler of its call has run: the
\* application may have destroyed it.
NoLateResult ==
  [][\A i \in Ops : calls[i] # <<>> => results'[i] = results[i]]_vars

\* close() is final: no late message brings the machine back to another state.
EndIsFinal ==
  [][m_state = "END" => m_state' = "END" \/ Connect]_vars

\* A close() that reports success has closed the socket, whatever it interrupted:
\* it takes over m_ehandler from the running call, and a late answer to that call
\* must not pass for the end of close().
CloseOkMeansClosed ==
  \A i \in Ops : i < nextOp /\ SameSession(i) /\ kind[i] = "close" /\ "ok" \in Outcomes(i)
                => sock = "closed"

\* Once every call has been answered, or turned away, no callback is outstanding:
\* the application may drop the connection or connect it again, though callbacks
\* hold a raw pointer to the machine.
SafeToDrop == (\A i \in Ops : i < nextOp => calls[i] # <<>>) => Quiet

ClientWaits == reads # <<>> /\ writes = <<>> /\ inbox = <<>>

ServerWaits ==
  /\ alive
  /\ \A r \in Must : r[1] = phase => r[5] \notin Features \cup {"core"}
  /\ outbox # <<>> => \A r \in Accepts : r[1] = phase => r[2] # Head(outbox).type

\* Client and server wait for each other in two cases only: the server asked for
\* an authentication, or for COPY data, the machine skips over (the receive() at
\* the end of authenticate() and in next()).  There is no timeout to end either.
NoOtherDeadlock == ClientWaits /\ ServerWaits => phase \in {"other", "copyin"}

\* A connect that reports success has left the machine ready for a request.
ConnectOkMeansReady ==
  \A i \in Ops : kind[i] \in {"connect", "connectSSL"} /\ i = nextOp - 1
                /\ Quiet /\ "ok" \in Outcomes(i) => m_state = "IDLE"

\* A prepare that reports success was not refused by the server.
PrepareOkMeansParsed ==
  \A i \in Ops : kind[i] = "prepare" /\ "ok" \in Outcomes(i) => sent[i] = <<>>

\* Every chain of callbacks comes to its end: a blocking call returns.
Returns == ~Quiet ~> Quiet

\* Every call is answered: its handler is called.
Completes == \A i \in Ops : (i < nextOp) ~> (calls[i] # <<>>)

-----------------------------------------------------------------------------
(* Why StreamContract, HandlerOnce, Framed and NoStrayMessage hold when    *)
(* the application closes only a quiet machine and the server does not ask *)
(* for an MD5 password: one chain of callbacks at most.                    *)

Disciplined == "md5" \notin Features /\ ~EagerClose

\* At most one operation is outstanding, none in IDLE, and only the write of
\* Terminate in END.
SingleChain ==
  /\ deferred = 0
  /\ reads \in {<<>>, <<"header">>, <<"body">>}
  /\ Len(writes) <= 1
  /\ reads # <<>> => writes = <<>> /\ pending = "none"
  /\ writes # <<>> => pending = "none"
  /\ m_state = "IDLE" => NoneOutstanding
  /\ m_state = "END" => /\ reads = <<>> /\ pending = "none"
                        /\ writes # <<>> => Head(writes).type = "Terminate"

\* While a chain runs, its call is the one m_ehandler belongs to, and it has
\* not been answered; calls not made yet have no answer.
Unanswered ==
  /\ ~NoneOutstanding => /\ m_ehandler \in Ops /\ m_ehandler < nextOp
                         /\ calls[m_ehandler] = <<>>
  /\ \A i \in Ops : i >= nextOp => calls[i] = <<>>

\* A message is half read exactly while the read of its body is outstanding; a
\* session that broke in between starts no other read.
HalfRead ==
  /\ reads = <<"header">> => ~half
  /\ reads = <<"body">> => half
  /\ m_state = "IDLE" \/ pending # "none" \/ (writes # <<>> /\ m_state # "END")
       => ~half

NoMD5 == \A i \in DOMAIN inbox : inbox[i].arg # "md5"

\* The inductive invariant: one chain of callbacks, for one unanswered call, at
\* one place in the stream of messages.
OneChain ==
  SingleChain /\ Unanswered /\ HalfRead /\ NoMD5 /\ HandlerOnce /\ Framed
  /\ NoStrayMessage

\* What makes ErrorIsFinal inductive: a call that failed was the last of its
\* chain, so nothing is left that could make the machine IDLE; only close() may
\* start another one.
Stopped ==
  \A i \in Ops : i < nextOp /\ SameSession(i) /\ "error" \in Outcomes(i)
                => m_state # "IDLE" /\ (NoneOutstanding \/ m_state = "END")

\* What makes CloseOkMeansClosed inductive: from close() to the next connect() the
\* machine is in END with no connect under way, and m_ehandler belongs to a close()
\* only there.
ClosedInEnd ==
  /\ m_ehandler < nextOp
  /\ \A i \in Ops : i >= nextOp => calls[i] = <<>>
  /\ m_state = "END" => pending = "none"
  /\ m_ehandler # 0 /\ kind[m_ehandler] = "close" => m_state = "END"
  /\ \A i \in Ops : i < nextOp /\ SameSession(i) /\ kind[i] = "close" =>
       m_state = "END" /\ ("ok" \in Outcomes(i) => sock = "closed")

\* The phases in which the server owes an answer to a request it has all of.
Answering == {"auth", "password", "verify", "params", "ready", "stmt", "rows", "more"}

\* The server has nothing before the stream is up.
Begins == pending # "none" => phase \in {"startup", "gone"} /\ outbox = <<>> /\ inbox = <<>>

\* Of the requests under way only the last one makes the client wait for an answer.
LastWaits ==
  \A i \in DOMAIN outbox :
    outbox[i].type \in LastWrite => i = Len(outbox) /\ writes = <<>>

\* While the server answers a request there is no other.
AnswersAlone == phase \in Answering => outbox = <<>> /\ writes = <<>>

\* Once the server has said that it is ready, though the client may not have read
\* it yet, nothing is under way, and what the server says next answers nothing.
ReadyIsLast ==
  \A i \in DOMAIN inbox : inbox[i].type = "ReadyForQuery" =>
    /\ outbox = <<>> /\ writes = <<>> /\ phase \in {"idle", "gone"}
    /\ \A j \in DOMAIN inbox :
         j > i => inbox[j].op = 0 /\ inbox[j].type # "ReadyForQuery"

AtRest ==
  /\ outbox = <<>> /\ phase \in {"idle", "gone"}
  /\ \A i \in DOMAIN inbox : inbox[i].op = 0 /\ inbox[i].type # "ReadyForQuery"

\* What makes Synchronised inductive.
InStep ==
  /\ alive => phase # "gone"
  /\ phase = "idle" => cur = 0
  /\ Begins
  /\ m_state # "END" => LastWaits /\ AnswersAlone /\ ReadyIsLast
  /\ m_state = "IDLE" => AtRest

\* A client that prepares nothing: only parse() leaves m_result to another call.
Unprepared == Disciplined /\ "prepare" \notin Kinds

\* While the machine works for a call it points to the ResultSet of that call.
Home ==
  m_state \notin {"IDLE", "END"} =>
    /\ m_result \in {0, m_ehandler}
    /\ m_state \in {"QUERY", "EQUERY"} => m_result = m_ehandler

\* Why results do not mix: what is under way in either direction belongs to the
\* call the machine works for, or answers none, and rows always answer one.
Owned ==
  m_state # "END" =>
    /\ \A i \in DOMAIN writes : writes[i].op = m_ehandler /\ m_ehandler # 0
    /\ \A i \in DOMAIN outbox : outbox[i].op = m_ehandler /\ m_ehandler # 0
    /\ \A i \in DOMAIN inbox : /\ inbox[i].op \in {0, m_ehandler}
                               /\ inbox[i].type = "DataRow" => inbox[i].op # 0
    /\ phase # "gone" => cur \in {0, m_ehandler}
    /\ phase \in {"stmt", "rows", "more", "execRows"} => cur # 0

\* A chain that runs in END is that of a close(), and only a close() runs there.
Closing ==
  /\ ~NoneOutstanding => (m_state = "END" <=> kind[m_ehandler] = "close")
  /\ writes # <<>> /\ Head(writes).type = "Terminate" => m_state = "END"

\* A server that turns no start-up away: the first message a machine in AUTH
\* reads is an Authentication, and one it skips over is the last.
Admitted ==
  m_state = "AUTH" =>
    \/ inbox = <<>> /\ phase \in {"startup", "auth", "other", "gone"}
    \/ /\ inbox # <<>> /\ Head(inbox).type = "Authentication"
       /\ Head(inbox).arg # "ok" => Tail(inbox) = <<>> /\ phase \in {"other", "gone"}

\* A plain client uses neither TLS nor prepared statements, whose callbacks
\* capture a handler that was moved from, and reads no NULL column.
Plain ==
  Disciplined /\ "null" \notin Features /\ Kinds \subseteq {"connect", "exec", "close"}

\* Why NoEscape holds for a plain client: every callback reports through the
\* member m_ehandler.
ByMember ==
  /\ pending \in {"none", "connect"}
  /\ \A i \in DOMAIN writes : writes[i].eh = "member"
  /\ \A i \in DOMAIN inbox : inbox[i].arg # "null"

-----------------------------------------------------------------------------
\* The library implements the abstract session: the call being served is the
\* one whose handler the machine holds while callbacks are outstanding.
S == INSTANCE Session WITH running <- IF Quiet THEN 0 ELSE m_ehandler,
                           ready <- m_state = "IDLE"

\* Calls are taken one at a time, turned away or answered exactly once, as the
\* abstract session prescribes, and every call taken is answered.
ImplementsSession == S!Spec

\* Its safety part: every step is a step of the abstract session, or changes
\* nothing it shows.
SessionSteps == S!Steps
=============================================================================
