---------------------------- MODULE ClientProofs ----------------------------
(***************************************************************************)
(* Proofs about Client, for every number of calls, every server of         *)
(* Features and both kinds of transport.                                   *)
(***************************************************************************)
EXTENDS Client, SequenceTheorems, TLAPS

ReadKind == {"header", "body"}

\* The variables the three endings of a callback assign.
FlowTypeOK ==
  /\ reads \in Seq(ReadKind)
  /\ deferred \in Nat
  /\ raised \subseteq Exception
  /\ calls \in [Ops -> Seq(Outcome)]

\* receive(), which starts the next read, keeps the types.
LEMMA ReceiveType ==
  ASSUME FlowTypeOK, NEW rs \in Seq(ReadKind), receive(rs)
  PROVE  FlowTypeOK'
BY DEF FlowTypeOK, receive, ReadKind

\* Calling m_ehandler keeps the types.
LEMMA NotifyType ==
  ASSUME FlowTypeOK, NEW rs \in Seq(ReadKind), NEW out \in Outcome,
         notify(out, rs)
  PROVE  FlowTypeOK'
<1>1. calls' \in [Ops -> Seq(Outcome)]
  BY AppendProperties DEF FlowTypeOK, notify
<1>2. reads' \in Seq(ReadKind)
  BY AppendProperties DEF notify, ReadKind
<1>3. deferred' \in Nat
  BY DEF FlowTypeOK, notify
<1> QED BY <1>1, <1>2, <1>3 DEF FlowTypeOK, notify

\* An exception keeps the types.
LEMMA ThrowType ==
  ASSUME FlowTypeOK, NEW rs \in Seq(ReadKind), NEW e \in Exception,
         throw(e, rs)
  PROVE  FlowTypeOK'
BY DEF FlowTypeOK, throw

\* Reporting an error through either kind of capture keeps the types.
LEMMA ReportType ==
  ASSUME FlowTypeOK, NEW rs \in Seq(ReadKind), NEW eh, report(eh, rs)
  PROVE  FlowTypeOK'
BY NotifyType, ThrowType DEF report, Outcome, Exception

\* A write started by the machine is a request.
LEMMA WriteType ==
  ASSUME NEW ws \in Seq(Request), NEW t \in FrontendMsg, NEW op \in 0 .. MaxOps,
         NEW eh \in Captured, Write(ws, t, op, eh)
  PROVE  writes' \in Seq(Request)
<1>1. [type |-> t, op |-> op, eh |-> eh] \in Request
  BY DEF Request
<1> QED BY <1>1, AppendProperties DEF Write

\* The type invariant splits into the flow part and the rest.
LEMMA FlowOfType == ASSUME TypeOK PROVE FlowTypeOK
BY DEF TypeOK, ConnectionTypeOK, FSMTypeOK, FlowTypeOK, ReadKind

\* The ways next() can handle a message, without the table.
LEMMA NextCases ==
  ASSUME NEW m, NEW rs, next(m, rs)
  PROVE  \/ /\ Rows(m_state) = {}
            /\ throw("out_of_range", rs) /\ UNCHANGED <<m_state, writes, results>>
         \/ receive(rs) /\ UNCHANGED <<m_state, writes, results>>
         \/ authenticate(m, rs) \/ authError(m, rs) \/ readyForQuery(m, rs)
         \/ dataRow(m, rs) \/ rowDescription(m, rs) \/ query_error(m, rs)
<1> USE DEF next, backendKeyData, parameterStatus, commandComplete,
            parseComplete, bindComplete, parameterDescription, noticeResponse
<1>1. CASE \E r \in Rows(m_state) : r[2] = m.type
  BY <1>1, Zenon
<1>2. CASE ~ \E r \in Rows(m_state) : r[2] = m.type
  BY <1>2, Zenon
<1> QED BY <1>1, <1>2

\* Handling one message, in any state and whatever its type, keeps the types of
\* the variables the machine's actions assign.
LEMMA NextType ==
  ASSUME TypeOK, NEW m \in Message, NEW rs \in Seq(ReadKind), next(m, rs)
  PROVE  /\ FlowTypeOK'
         /\ m_state' \in State \ {"CLOSE"}
         /\ writes' \in Seq(Request)
         /\ results' \in [Ops -> Seq(Message)]
<1> USE FlowOfType
<1>0. /\ m_state \in State \ {"CLOSE"} /\ writes \in Seq(Request)
      /\ results \in [Ops -> Seq(Message)] /\ m_ehandler \in 0 .. MaxOps
      /\ deferred \in Nat
  BY DEF TypeOK, ConnectionTypeOK, FSMTypeOK
<1> DEFINE Same == UNCHANGED <<m_state, writes, results>>
           Goal == /\ FlowTypeOK'
                   /\ m_state' \in State \ {"CLOSE"}
                   /\ writes' \in Seq(Request)
                   /\ results' \in [Ops -> Seq(Message)]
<1>a. ASSUME addResult(m) PROVE results' \in [Ops -> Seq(Message)]
  BY <1>0, <1>a, AppendProperties DEF addResult
<1>b. ASSUME receive(rs), Same PROVE Goal
  BY <1>0, <1>b, ReceiveType
<1>c. ASSUME addResult(m), receive(rs), UNCHANGED <<m_state, writes>> PROVE Goal
  BY <1>0, <1>a, <1>c, ReceiveType
<1>1. CASE throw("out_of_range", rs) /\ Same
  BY <1>0, <1>1, ThrowType DEF Exception
<1>2. CASE receive(rs) /\ Same
  BY <1>b, <1>2
<1>3. CASE authenticate(m, rs)
  <2>1. CASE m.arg = "ok" /\ m_state' = "CONN" /\ receive(rs) /\ UNCHANGED writes
    BY <1>0, <1>3, <2>1, ReceiveType DEF authenticate, State
  <2>2. CASE m.arg = "md5"
    <3>1. Write(writes, "Password", m_ehandler, "member") /\ m_state' = "AUTH"
      BY <1>3, <2>2 DEF authenticate
    <3>2. writes' \in Seq(Request)
      BY <1>0, <3>1, WriteType DEF FrontendMsg, Captured
    <3>3. CASE Blocking
      BY <1>0, <1>3, <2>2, <3>1, <3>2, <3>3 DEF authenticate, FlowTypeOK, State
    <3>4. CASE ~Blocking
      BY <1>0, <1>3, <2>2, <3>1, <3>2, <3>4, ReceiveType DEF authenticate, State
    <3> QED BY <3>3, <3>4
  <2>3. CASE receive(rs) /\ UNCHANGED <<m_state, writes>>
    BY <1>0, <1>3, <2>3, ReceiveType DEF authenticate
  <2> QED BY <1>3, <2>1, <2>2, <2>3 DEF authenticate
<1>4. CASE authError(m, rs)
  BY <1>0, <1>4, NotifyType DEF authError, Outcome
<1>5. CASE readyForQuery(m, rs)
  BY <1>0, <1>5, NotifyType DEF readyForQuery, Outcome, State
<1>6. CASE dataRow(m, rs)
  <2>1. CASE receive(rs)
    BY <1>6, <1>c, <2>1 DEF dataRow
  <2>2. CASE throw("length_error", rs)
    BY <1>0, <1>6, <1>a, <2>2, ThrowType DEF dataRow, Exception
  <2> QED BY <1>6, <2>1, <2>2 DEF dataRow
<1>7. CASE rowDescription(m, rs) \/ query_error(m, rs)
  BY <1>7, <1>c DEF rowDescription, query_error
<1> HIDE DEF Same
<1>8. \/ throw("out_of_range", rs) /\ Same
      \/ receive(rs) /\ Same
      \/ authenticate(m, rs) \/ authError(m, rs) \/ readyForQuery(m, rs)
      \/ dataRow(m, rs) \/ rowDescription(m, rs) \/ query_error(m, rs)
  BY NextCases DEF Same
<1> QED BY <1>1, <1>2, <1>3, <1>4, <1>5, <1>6, <1>7, <1>8, Zenon

-----------------------------------------------------------------------------
(* Type correctness: one lemma for each group of actions.                  *)

\* An API call that is turned away or taken keeps the types.
LEMMA CallType ==
  ASSUME TypeOK, NEW k \in Kind, Call(k)
  PROVE  /\ nextOp \in Ops /\ nextOp \in 0 .. MaxOps
         /\ nextOp' \in 1 .. MaxOps + 1
         /\ kind' \in [Ops -> Kind \cup {"none"}]
BY MaxOpsAssumption DEF TypeOK, Call, Ops

\* A request that is turned away.
LEMMA BusyType ==
  ASSUME TypeOK, NEW op \in Ops, busy(op)
  PROVE  ConnectionTypeOK' /\ FSMTypeOK'
<1>1. ConnectionTypeOK'
  BY DEF TypeOK, busy, connVars, ConnectionTypeOK
<1>2. calls' \in [Ops -> Seq(Outcome)]
  BY AppendProperties DEF TypeOK, FSMTypeOK, busy, Outcome
<1> QED BY <1>1, <1>2 DEF TypeOK, FSMTypeOK, busy

\* A request that is taken.
LEMMA StartType ==
  ASSUME TypeOK, NEW op \in 0 .. MaxOps, NEW s \in {"QUERY", "EQUERY"},
         NEW res \in 0 .. MaxOps, NEW t \in FrontendMsg, NEW eh \in Captured,
         start(op, s, res, t, eh)
  PROVE  ConnectionTypeOK' /\ FSMTypeOK'
<1>1. writes' \in Seq(Request)
  BY WriteType DEF TypeOK, ConnectionTypeOK, start
<1>2. ConnectionTypeOK'
  BY <1>1 DEF TypeOK, ConnectionTypeOK, start
<1> QED BY <1>2 DEF TypeOK, FSMTypeOK, start, State

\* The API calls of the application.
LEMMA ApplicationType == ASSUME TypeOK, Application PROVE TypeOK'
<1>1. CASE Connect
  <2>1. PICK k \in {"connect", "connectSSL"}, step \in {"connect", "sslConnect"} :
             Call(k) /\ connectWith(nextOp, step)
    BY <1>1 DEF Connect, connect, connectSSL
  <2>2. /\ nextOp \in 0 .. MaxOps
        /\ nextOp' \in 1 .. MaxOps + 1
        /\ kind' \in [Ops -> Kind \cup {"none"}]
    BY <2>1, CallType DEF Kind
  <2>3. ConnectionTypeOK'
    <3>1. /\ sock' = "opening" /\ pending' = step
          /\ reads' = <<>> /\ writes' = <<>> /\ inbox' = <<>> /\ outbox' = <<>>
      BY <2>1 DEF connectWith, NewConnection
    <3>2. half' \in BOOLEAN /\ desync' \in BOOLEAN /\ alive' \in BOOLEAN
      BY <2>1, Zenon DEF connectWith, NewConnection
    <3> QED BY <3>1, <3>2 DEF ConnectionTypeOK, Pending
  <2>4. FSMTypeOK'
    BY <2>1, <2>2, MaxOpsAssumption DEF TypeOK, connectWith, FSMTypeOK, State
  <2>5. BackendTypeOK'
    BY <1>1, MaxOpsAssumption DEF TypeOK, Connect, NewSession, BackendTypeOK, Phase
  <2> QED BY <2>2, <2>3, <2>4, <2>5 DEF TypeOK
<1>2. CASE Exec \/ ExecQuery \/ Prepare \/ Close
  <2>0. PICK k \in Kind : Call(k)
    BY <1>2 DEF Exec, ExecQuery, Prepare, Close, Kind
  <2>1. /\ nextOp \in Ops /\ nextOp \in 0 .. MaxOps
        /\ nextOp' \in 1 .. MaxOps + 1
        /\ kind' \in [Ops -> Kind \cup {"none"}]
    BY <2>0, CallType
  <2>2. BackendTypeOK'
    BY <1>2 DEF TypeOK, BackendTypeOK, backendVars, Exec, ExecQuery, Prepare, Close
  <2>3. m_result \in 0 .. MaxOps
    BY DEF TypeOK, FSMTypeOK
  <2>4. CASE Exec
    <3>1. busy(nextOp) \/ start(nextOp, "QUERY", nextOp, "Query", "member")
      BY <2>4 DEF Exec, exec
    <3> QED BY <2>1, <2>2, <3>1, BusyType, StartType
            DEF TypeOK, FrontendMsg, Captured
  <2>5. CASE ExecQuery
    <3>1. busy(nextOp) \/ start(nextOp, "EQUERY", nextOp, "Bind", "moved")
      BY <2>5 DEF ExecQuery, execQuery
    <3> QED BY <2>1, <2>2, <3>1, BusyType, StartType
            DEF TypeOK, FrontendMsg, Captured
  <2>6. CASE Prepare
    <3>1. busy(nextOp) \/ start(nextOp, "QUERY", m_result, "Parse", "moved")
      BY <2>6 DEF Prepare, parse
    <3> QED BY <2>1, <2>2, <2>3, <3>1, BusyType, StartType
            DEF TypeOK, FrontendMsg, Captured
  <2>7. CASE Close
    <3>1. writes' \in Seq(Request)
      BY <2>1, <2>7, WriteType
         DEF TypeOK, ConnectionTypeOK, Close, close, FrontendMsg, Captured
    <3>2. ConnectionTypeOK'
      BY <2>7, <3>1 DEF TypeOK, ConnectionTypeOK, Close, close
    <3>3. FSMTypeOK'
      BY <2>1, <2>7 DEF TypeOK, FSMTypeOK, Close, close, State
    <3> QED BY <2>1, <2>2, <3>2, <3>3 DEF TypeOK
  <2> QED BY <1>2, <2>4, <2>5, <2>6, <2>7
<1> QED BY <1>1, <1>2 DEF Application

\* The callbacks of the transport.
LEMMA TransportType == ASSUME TypeOK, Transport PROVE TypeOK'
<1> USE FlowOfType
<1>0. /\ ConnectionTypeOK /\ FSMTypeOK /\ writes \in Seq(Request)
      /\ reads \in Seq(ReadKind) /\ m_ehandler \in 0 .. MaxOps
  BY DEF TypeOK, ConnectionTypeOK, FSMTypeOK, ReadKind
<1>a. /\ BackendTypeOK'
      /\ nextOp' \in 1 .. MaxOps + 1 /\ kind' \in [Ops -> Kind \cup {"none"}]
  BY DEF TypeOK, Transport, BackendTypeOK, backendVars
<1>b. SUFFICES ConnectionTypeOK' /\ FSMTypeOK'
  BY <1>a DEF TypeOK
<1>1. CASE sslStep
  <2>1. pending' \in Pending
    BY <1>1 DEF sslStep, NextSSLStep, Pending
  <2> QED BY <1>0, <1>1, <2>1 DEF sslStep, fsmVars, ConnectionTypeOK, FSMTypeOK
<1>2. CASE connected
  <2>1. writes' \in Seq(Request)
    BY <1>0, <1>2, WriteType DEF connected, FrontendMsg, Captured
  <2> QED BY <1>0, <1>2, <2>1
          DEF connected, fsmVars, ConnectionTypeOK, FSMTypeOK, Pending
<1>3. CASE connectFailed
  <2>1. FlowTypeOK'
    BY <1>0, <1>3, ReportType DEF connectFailed
  <2> QED BY <1>0, <1>3, <2>1
          DEF connectFailed, FlowTypeOK, ReadKind, ConnectionTypeOK, FSMTypeOK, Pending
<1>4. CASE written
  <2>1. Head(writes) \in Request /\ Tail(writes) \in Seq(Request)
    BY <1>0, <1>4, HeadTailProperties DEF written, Transmitted
  <2>2. outbox' \in Seq(Request)
    BY <1>0, <1>4, <2>1, AppendProperties DEF written, Transmitted, ConnectionTypeOK
  <2>3. FlowTypeOK' /\ writes' \in Seq(Request) /\ sock' \in {"open", "closed"}
    <3>0. sock = "open"
      BY <1>4 DEF written, Transmitted
    <3>1. CASE writes' = Tail(writes) /\ receive(reads) /\ UNCHANGED sock
      BY <1>0, <2>1, <3>0, <3>1, ReceiveType
    <3>2. CASE /\ Head(writes).type \in DOMAIN NextWrite
               /\ Write(Tail(writes), NextWrite[Head(writes).type],
                        Head(writes).op, Head(writes).eh)
               /\ UNCHANGED <<sock, reads, deferred, raised, calls>>
      <4>1. NextWrite[Head(writes).type] \in FrontendMsg
        BY <3>2 DEF NextWrite, FrontendMsg
      <4>2. Head(writes).op \in 0 .. MaxOps /\ Head(writes).eh \in Captured
        BY <2>1 DEF Request
      <4>3. writes' \in Seq(Request)
        BY <2>1, <3>2, <4>1, <4>2, WriteType
      <4> QED BY <3>0, <3>2, <4>3 DEF FlowTypeOK
    <3>3. CASE writes' = Tail(writes) /\ sock' = "closed" /\ notify("ok", reads)
      BY <1>0, <2>1, <3>3, NotifyType DEF Outcome
    <3> QED BY <1>4, <3>1, <3>2, <3>3 DEF written
  <2> QED BY <1>0, <1>4, <2>2, <2>3
          DEF written, FlowTypeOK, ReadKind, ConnectionTypeOK, FSMTypeOK
<1>5. CASE writeFailed
  <2>1. FlowTypeOK'
    BY <1>0, <1>5, ReportType DEF writeFailed
  <2>2. writes' \in Seq(Request)
    BY <1>0, <1>5, HeadTailProperties DEF writeFailed
  <2> QED BY <1>0, <1>5, <2>1, <2>2
          DEF writeFailed, FlowTypeOK, ReadKind, ConnectionTypeOK, FSMTypeOK
<1>6. CASE headerRead
  <2>1. reads' \in Seq(ReadKind)
    BY <1>0, <1>6, HeadTailProperties, AppendProperties
       DEF headerRead, HeaderArrived, ReadKind
  <2>2. half' \in BOOLEAN
    BY <1>6, Zenon DEF headerRead
  <2> QED BY <1>0, <1>6, <2>1, <2>2
          DEF headerRead, fsmVars, ReadKind, ConnectionTypeOK, FSMTypeOK
<1>7. CASE headerGarbled
  <2>1. desync' \in BOOLEAN
    BY <1>7, Zenon DEF headerGarbled
  <2> QED BY <1>0, <1>7, <2>1
          DEF headerGarbled, fsmVars, ConnectionTypeOK, FSMTypeOK
<1>8. CASE bodyRead
  <2>1. /\ Head(inbox) \in Message /\ Tail(inbox) \in Seq(Message)
        /\ Tail(reads) \in Seq(ReadKind)
    BY <1>0, <1>8, HeadTailProperties DEF bodyRead, BodyArrived, ConnectionTypeOK
  <2>2. next(Head(inbox), Tail(reads))
    BY <1>8 DEF bodyRead
  <2>3. /\ FlowTypeOK' /\ m_state' \in State \ {"CLOSE"}
        /\ writes' \in Seq(Request) /\ results' \in [Ops -> Seq(Message)]
    BY <2>1, <2>2, NextType
  <2>4. half' \in BOOLEAN
    BY <1>8, Zenon DEF bodyRead
  <2> QED BY <1>0, <1>8, <2>1, <2>3, <2>4
          DEF bodyRead, FlowTypeOK, ReadKind, ConnectionTypeOK, FSMTypeOK
<1>9. CASE readFailed
  <2>1. FlowTypeOK'
    BY <1>0, <1>9, HeadTailProperties, NotifyType DEF readFailed, Outcome
  <2> QED BY <1>0, <1>9, <2>1
          DEF readFailed, FlowTypeOK, ReadKind, ConnectionTypeOK, FSMTypeOK
<1> QED BY <1>1, <1>2, <1>3, <1>4, <1>5, <1>6, <1>7, <1>8, <1>9 DEF Transport

\* Sending the message of a rule of the server keeps the types.
LEMMA SendType ==
  ASSUME TypeOK, NEW r \in Must \cup May, send(r)
  PROVE  /\ ConnectionTypeOK'
         /\ phase' \in Phase /\ cur' \in 0 .. MaxOps
         /\ sent' \in [Ops -> Seq(Message)]
<1>1. r[2] \in BackendMsg /\ r[3] \in Arg /\ r[4] \in Phase
  BY DEF Must, May, BackendMsg, KnownMsg, UnknownMsg, Arg, Phase
<1>2. cur \in 0 .. MaxOps /\ ConnectionTypeOK /\ BackendTypeOK
  BY DEF TypeOK, BackendTypeOK
<1>3. [type |-> r[2], arg |-> r[3], op |-> cur] \in Message
  BY <1>1, <1>2 DEF Message
<1>4. inbox' \in Seq(Message)
  BY <1>2, <1>3, AppendProperties DEF send, ConnectionTypeOK
<1>5. alive' \in BOOLEAN
  BY Zenon DEF send
<1>6. ConnectionTypeOK'
  BY <1>2, <1>4, <1>5 DEF send, ConnectionTypeOK
<1>7. sent' \in [Ops -> Seq(Message)]
  BY <1>2, <1>3, AppendProperties DEF send, BackendTypeOK
<1>8. phase' \in Phase /\ cur' \in 0 .. MaxOps
  BY <1>1, <1>2, MaxOpsAssumption DEF send
<1> QED BY <1>6, <1>7, <1>8

\* The steps of the server.
LEMMA ServerType == ASSUME TypeOK, Server PROVE TypeOK'
<1>1. FSMTypeOK' /\ nextOp' \in 1 .. MaxOps + 1 /\ kind' \in [Ops -> Kind \cup {"none"}]
  BY DEF TypeOK, Server, fsmVars, FSMTypeOK
<1>2. SUFFICES ConnectionTypeOK' /\ BackendTypeOK'
  BY <1>1 DEF TypeOK
<1>3. CASE reply
  BY <1>3, SendType DEF reply, TypeOK, BackendTypeOK
<1>4. CASE replyMore
  <2>1. budget' \in 0 .. Budget
    BY <1>4, BackendAssumption DEF replyMore, TypeOK, BackendTypeOK
  <2> QED BY <1>4, <2>1, SendType DEF replyMore, BackendTypeOK
<1>5. CASE accept
  <2>1. PICK r \in Accepts : phase' = r[3] /\ alive' = (r[3] # "gone")
    BY <1>5 DEF accept
  <2>2. phase' \in Phase
    BY <2>1 DEF Accepts, Phase
  <2>3. alive' \in BOOLEAN
    BY <2>1, Zenon
  <2>4. Head(outbox) \in Request /\ Tail(outbox) \in Seq(Request)
    BY <1>5, HeadTailProperties DEF accept, TypeOK, ConnectionTypeOK
  <2>5. cur' \in 0 .. MaxOps
    BY <1>5, <2>4 DEF accept, Request
  <2> QED BY <1>5, <2>2, <2>3, <2>4, <2>5
          DEF accept, TypeOK, ConnectionTypeOK, BackendTypeOK
<1>6. CASE crash
  <2>1. alive' \in BOOLEAN
    BY <1>6, Zenon DEF crash
  <2> QED BY <1>6, <2>1 DEF crash, TypeOK, ConnectionTypeOK, BackendTypeOK, Phase
<1> QED BY <1>3, <1>4, <1>5, <1>6 DEF Server

\* TypeOK is inductive.
LEMMA TypeStep == TypeOK /\ [Next]_vars => TypeOK'
<1> SUFFICES ASSUME TypeOK, [Next]_vars PROVE TypeOK'
  OBVIOUS
<1>1. CASE UNCHANGED vars
  BY <1>1 DEF vars, connVars, fsmVars, backendVars, TypeOK, ConnectionTypeOK,
     FSMTypeOK, BackendTypeOK
<1>2. CASE Finished
  BY <1>1, <1>2 DEF Finished
<1> QED BY <1>1, <1>2, ApplicationType, TransportType, ServerType DEF Next

\* Every variable keeps its type, whatever the application and the server do;
\* in particular no handler of the machine ever sets State::CLOSE, the state
\* that closeComplete waits in.
THEOREM TypeCorrect == Spec => []TypeOK
<1>1. Init => TypeOK
  <2> SUFFICES ASSUME Init PROVE TypeOK
    OBVIOUS
  <2>1. ConnectionTypeOK
    <3>1. half \in BOOLEAN /\ desync \in BOOLEAN /\ alive \in BOOLEAN
      BY Zenon DEF Init, ConnectionInit
    <3> QED BY <3>1 DEF Init, ConnectionInit, ConnectionTypeOK, Pending
  <2>2. FSMTypeOK
    BY MaxOpsAssumption DEF Init, FSMInit, FSMTypeOK, State
  <2>3. BackendTypeOK
    BY MaxOpsAssumption, BackendAssumption DEF Init, BackendInit, BackendTypeOK, Phase
  <2> QED BY <2>1, <2>2, <2>3, MaxOpsAssumption DEF Init, TypeOK
<1> QED BY <1>1, TypeStep, PTL DEF Spec
=============================================================================
