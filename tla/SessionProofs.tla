--------------------------- MODULE SessionProofs ---------------------------
(***************************************************************************)
(* A disciplined client implements the abstract session, for any number of *)
(* calls and sessions, as long as no exception leaves the library and the  *)
(* server turns no start-up away; and a plain client lets none leave.      *)
(***************************************************************************)
EXTENDS FinalProofs

\* What is left of a chain after one of its callbacks: it goes on, or it has
\* ended with the answer to its call.
Goes == calls' = calls /\ ~NoneOutstanding' /\ m_state' # "IDLE"

Answers(out) ==
  /\ calls' = [calls EXCEPT ![m_ehandler] = <<out>>]
  /\ NoneOutstanding'
  /\ m_state' = "IDLE" <=> (out = "ok" /\ kind[m_ehandler] # "close")

\* The machine has a chain when a callback runs, and is not IDLE.
LEMMA Running ==
  ASSUME TypeOK, OneChain, Transport
  PROVE  ~NoneOutstanding /\ m_state # "IDLE"
<1>1. reads # <<>> \/ writes # <<>> \/ pending # "none"
  BY DEF Transport, sslStep, NextSSLStep, connected, connectFailed, written, Transmitted,
     writeFailed, headerRead, HeaderArrived, headerGarbled, FramingLost, bodyRead,
     BodyArrived, readFailed
<1> QED BY <1>1 DEF NoneOutstanding, OneChain, SingleChain

\* An error that is reported, and not thrown, ends the chain with that answer.
LEMMA ReportAnswers ==
  ASSUME TypeOK, OneChain, Transport, NoEscape', UNCHANGED m_state,
         NEW eh, report(eh, <<>>), pending' = "none", writes' = <<>>
  PROVE  Answers("error")
<1>1. ~throw("bad_function_call", <<>>)
  BY DEF throw, NoEscape
<1>2. notify("error", <<>>)
  BY <1>1 DEF report
<1> QED BY <1>2, Running, NotifyOnce DEF Answers, NoneOutstanding, Outcome

\* connect() and the handshake.
LEMMA ConnectStepSession ==
  ASSUME TypeOK, OneChain, Transport, NoEscape', sslStep \/ connected \/ connectFailed
  PROVE  Goes \/ Answers("error")
<1>0. pending # "none" /\ reads = <<>> /\ writes = <<>> /\ m_state # "IDLE"
  <2>1. pending # "none"
    BY DEF sslStep, NextSSLStep, connected, connectFailed
  <2> QED BY <2>1, LastOne, Running
<1>1. CASE sslStep
  BY <1>0, <1>1 DEF sslStep, NextSSLStep, fsmVars, Goes, NoneOutstanding
<1>2. CASE connected
  <2>1. PICK eh : Write(<<>>, "StartUp", m_ehandler, eh)
    BY <1>0, <1>2, Zenon DEF connected
  <2>2. Len(writes') = 1
    BY <2>1, WriteOnce
  <2>3. writes' # <<>>
    BY <2>2
  <2> QED BY <1>0, <1>2, <2>3 DEF connected, fsmVars, Goes, NoneOutstanding
<1>3. CASE connectFailed
  <2>1. /\ UNCHANGED <<writes, m_state>> /\ pending' = "none" /\ \E eh : report(eh, <<>>)
    BY <1>0, <1>3 DEF connectFailed
  <2> QED BY <1>0, <2>1, ReportAnswers
<1> QED BY <1>1, <1>2, <1>3

\* The callbacks of write(); close() ends here.
LEMMA WriteSession ==
  ASSUME TypeOK, OneChain, Closing, Transport, NoEscape', written \/ writeFailed
  PROVE  Goes \/ Answers("ok") \/ Answers("error")
<1>0. /\ writes # <<>> /\ Tail(writes) = <<>> /\ reads = <<>> /\ pending' = "none"
      /\ m_state # "IDLE" /\ UNCHANGED <<m_ehandler, m_state>>
  <2>1. writes # <<>>
    BY DEF written, Transmitted, writeFailed
  <2>2. UNCHANGED <<m_ehandler, m_state, pending>>
    BY DEF written, writeFailed
  <2> QED BY <2>1, <2>2, LastOne, Running
<1>1. CASE written
  <2>1. \/ writes' = <<>> /\ receive(<<>>)
        \/ /\ \E t, op, eh : Write(<<>>, t, op, eh)
           /\ UNCHANGED calls
        \/ writes' = <<>> /\ Head(writes).type = "Terminate" /\ notify("ok", <<>>)
    BY <1>0, <1>1, Zenon DEF written
  <2>2. CASE receive(<<>>)
    <3>1. reads' = <<"header">> /\ calls' = calls
      BY <2>2, ReceiveOnce
    <3>2. reads' # <<>>
      BY <3>1
    <3> QED BY <1>0, <3>1, <3>2 DEF Goes, NoneOutstanding
  <2>3. CASE (\E t, op, eh : Write(<<>>, t, op, eh)) /\ UNCHANGED calls
    <3>1. Len(writes') = 1
      BY <2>3, WriteOnce
    <3>2. writes' # <<>>
      BY <3>1
    <3> QED BY <1>0, <2>3, <3>2 DEF Goes, NoneOutstanding
  <2>4. CASE writes' = <<>> /\ Head(writes).type = "Terminate" /\ notify("ok", <<>>)
    <3>1. m_state = "END" /\ kind[m_ehandler] = "close"
      BY <1>0, <2>4, Running DEF Closing
    <3>2. reads' = <<>> /\ calls' = [calls EXCEPT ![m_ehandler] = <<"ok">>]
      BY <2>4, Running, NotifyOnce DEF Outcome
    <3> QED BY <1>0, <2>4, <3>1, <3>2 DEF Answers, NoneOutstanding
  <2> QED BY <2>1, <2>2, <2>3, <2>4
<1>2. CASE writeFailed
  <2>1. writes' = <<>> /\ \E eh : report(eh, <<>>)
    BY <1>0, <1>2, Zenon DEF writeFailed
  <2> QED BY <1>0, <2>1, ReportAnswers
<1> QED BY <1>1, <1>2

\* The callbacks of receive(); requests and connects end here.
LEMMA ReadSession ==
  ASSUME TypeOK, OneChain, Closing, Admitted, Transport, NoEscape',
         headerRead \/ headerGarbled \/ bodyRead \/ readFailed
  PROVE  Goes \/ Answers("ok") \/ Answers("error")
<1>0. /\ reads # <<>> /\ Tail(reads) = <<>> /\ writes = <<>> /\ pending' = "none"
      /\ m_state \notin {"IDLE", "END"} /\ ~NoneOutstanding
  <2>1. reads # <<>> /\ UNCHANGED pending
    BY DEF headerRead, headerGarbled, bodyRead, readFailed, HeaderArrived, FramingLost,
       BodyArrived
  <2> QED BY <2>1, LastOne, Running DEF OneChain, SingleChain
<1>1. CASE headerRead
  <2>1. reads' = Append(<<>>, "body") /\ UNCHANGED <<calls, m_state>>
    BY <1>0, <1>1, Zenon DEF headerRead, fsmVars
  <2>2. reads' # <<>>
    BY <2>1
  <2> QED BY <1>0, <2>1, <2>2 DEF Goes, NoneOutstanding
<1>2. CASE headerGarbled
  BY <1>0, <1>2 DEF headerGarbled, fsmVars, Goes, NoneOutstanding
<1>3. CASE bodyRead
  <2> DEFINE m == Head(inbox)
  <2>1. /\ next(m, <<>>) /\ inbox # <<>>
    BY <1>0, <1>3, Zenon DEF bodyRead, BodyArrived
  <2>2. m.arg # "md5"
    BY <2>1 DEF OneChain, NoMD5, TypeOK, ConnectionTypeOK
  <2>3. m_state = "AUTH" => m.type = "Authentication"
    BY <2>1 DEF Admitted
  <2>4. ~throw("length_error", <<>>) /\ ~throw("out_of_range", <<>>)
    BY DEF throw, NoEscape
  <2>5. \/ receive(<<>>) /\ writes' = writes /\ m_state' \in {m_state, "CONN"}
        \/ notify("ok", <<>>) /\ writes' = writes /\ m_state' = "IDLE"
    <3>1. ~(\E r \in Rows(m_state) : r[2] = m.type /\ r[3] = "authError")
      BY <2>3 DEF Rows, m_state_table
    <3>2. authenticate(m, <<>>) => receive(<<>>) /\ writes' = writes
                                   /\ m_state' \in {m_state, "CONN"}
      BY <2>2 DEF authenticate
    <3>3. dataRow(m, <<>>) \/ rowDescription(m, <<>>) \/ query_error(m, <<>>)
          => receive(<<>>) /\ writes' = writes /\ m_state' = m_state
      BY <2>4 DEF dataRow, rowDescription, query_error
    <3> QED BY <2>1, <2>4, <3>1, <3>2, <3>3 DEF next, backendKeyData, parameterStatus,
            readyForQuery, commandComplete, parseComplete, bindComplete,
            parameterDescription, noticeResponse
  <2>6. CASE receive(<<>>) /\ m_state' \in {m_state, "CONN"}
    <3>1. reads' = <<"header">> /\ calls' = calls
      BY <2>6, ReceiveOnce
    <3>2. reads' # <<>>
      BY <3>1
    <3> QED BY <1>0, <2>6, <3>1, <3>2 DEF Goes, NoneOutstanding
  <2>7. CASE notify("ok", <<>>) /\ writes' = writes /\ m_state' = "IDLE"
    <3>1. reads' = <<>> /\ calls' = [calls EXCEPT ![m_ehandler] = <<"ok">>]
      BY <1>0, <2>7, NotifyOnce DEF Outcome
    <3>2. kind[m_ehandler] # "close"
      BY <1>0 DEF Closing
    <3> QED BY <1>0, <2>7, <3>1, <3>2 DEF Answers, NoneOutstanding
  <2> QED BY <2>5, <2>6, <2>7
<1>4. CASE readFailed
  <2>1. notify("error", <<>>) /\ UNCHANGED <<writes, m_state>>
    BY <1>0, <1>4, Zenon DEF readFailed
  <2>2. reads' = <<>> /\ calls' = [calls EXCEPT ![m_ehandler] = <<"error">>]
    BY <1>0, <2>1, NotifyOnce DEF Outcome
  <2> QED BY <1>0, <2>1, <2>2 DEF Answers, NoneOutstanding
<1> QED BY <1>1, <1>2, <1>3, <1>4

-----------------------------------------------------------------------------
(* The invariants.                                                         *)

\* What the application's calls leave behind.
LEMMA CallsMade ==
  ASSUME TypeOK, OneChain, Disciplined, Application
  PROVE  /\ nextOp \in Ops /\ nextOp \in Nat /\ nextOp' = nextOp + 1
         /\ calls[nextOp] = <<>>
         /\ \/ Connect
            \/ (Exec \/ ExecQuery \/ Prepare) /\ busy(nextOp)
            \/ /\ Exec \/ ExecQuery \/ Prepare
               /\ \E s \in {"QUERY", "EQUERY"}, t \in {"Query", "Bind", "Parse"} :
                    \E eh, res : start(nextOp, s, res, t, eh)
            \/ Close
<1>1. nextOp \in Ops /\ nextOp' = nextOp + 1
  BY DEF Application, Connect, Exec, ExecQuery, Prepare, Close, Call
<1>2. nextOp \in Nat
  BY DEF TypeOK
<1>3. calls[nextOp] = <<>>
  BY <1>1, <1>2 DEF OneChain, Unanswered
<1> QED BY <1>1, <1>2, <1>3, Zenon DEF Application, Exec, ExecQuery, Prepare, exec,
        execQuery, parse

LEMMA ClosingStep ==
  ASSUME TypeOK, OneChain, Disciplined, Closing, [Next]_vars
  PROVE  Closing'
<1>0. kind \in [Ops -> Kind \cup {"none"}]
  BY DEF TypeOK
<1>1. CASE UNCHANGED vars
  BY <1>1 DEF vars, connVars, fsmVars, Closing, NoneOutstanding
<1>2. CASE Server
  BY <1>2 DEF Server, reply, replyMore, send, accept, crash, fsmVars, Closing,
     NoneOutstanding
<1>3. CASE Application
  <2>1. CASE Connect
    <3>1. /\ m_state' = "AUTH" /\ m_ehandler' = nextOp /\ writes' = <<>>
          /\ \E k \in {"connect", "connectSSL"} : kind' = [kind EXCEPT ![nextOp] = k]
      BY <2>1 DEF Connect, Call, connect, connectSSL, connectWith, NewConnection
    <3>2. kind'[nextOp] # "close"
      BY <1>0, <1>3, <3>1, CallsMade
    <3> QED BY <3>1, <3>2 DEF Closing
  <2>2. CASE (Exec \/ ExecQuery \/ Prepare) /\ busy(nextOp)
    <3>1. UNCHANGED <<m_state, m_ehandler, writes, reads, pending>>
      BY <2>2 DEF busy, connVars
    <3>2. \E k : kind' = [kind EXCEPT ![nextOp] = k]
      BY <2>2 DEF Exec, ExecQuery, Prepare, Call
    <3>3. ASSUME ~NoneOutstanding PROVE kind'[m_ehandler] = kind[m_ehandler]
      <4>1. m_ehandler \in Ops /\ m_ehandler < nextOp /\ nextOp \in Nat
        BY <3>3 DEF OneChain, Unanswered, TypeOK
      <4>2. m_ehandler # nextOp
        BY <4>1 DEF Ops
      <4> QED BY <1>0, <3>2, <4>1, <4>2
    <3> QED BY <3>1, <3>3 DEF Closing, NoneOutstanding
  <2>3. ASSUME Exec \/ ExecQuery \/ Prepare,
               NEW s \in {"QUERY", "EQUERY"}, NEW t \in {"Query", "Bind", "Parse"},
               NEW eh, NEW res, start(nextOp, s, res, t, eh)
        PROVE  Closing'
    <3>1. m_state' = s /\ m_ehandler' = nextOp /\ Write(writes, t, nextOp, eh)
      BY <2>3 DEF start
    <3>2. \E k \in {"exec", "execQuery", "prepare"} : kind' = [kind EXCEPT ![nextOp] = k]
      BY <2>3 DEF Exec, ExecQuery, Prepare, Call
    <3>3. kind'[nextOp] # "close"
      BY <1>0, <1>3, <3>2, CallsMade
    <3>4. writes = <<>>
      BY <2>3 DEF start, OneChain, SingleChain, NoneOutstanding
    <3>5. writes' = <<[type |-> t, op |-> nextOp, eh |-> eh]>>
      BY <3>1, <3>4 DEF Write
    <3>6. Head(writes').type = t
      BY <3>5
    <3> QED BY <3>1, <3>3, <3>6 DEF Closing
  <2>4. CASE Close
    <3>1. m_state' = "END" /\ m_ehandler' = nextOp
          /\ kind' = [kind EXCEPT ![nextOp] = "close"]
      BY <2>4 DEF Close, close, Call
    <3>2. kind'[nextOp] = "close"
      BY <1>0, <1>3, <3>1, CallsMade
    <3> QED BY <3>1, <3>2 DEF Closing
  <2> QED BY <1>3, <2>1, <2>2, <2>3, <2>4, CallsMade
<1>4. CASE Transport
  <2>0. ~NoneOutstanding /\ UNCHANGED <<m_ehandler, kind>>
    BY <1>4, Running, OthersUntouched
  <2>1. m_state = "END" => m_state' = "END"
    BY <1>4, TransportKeepsEnd
  <2>2. m_state' = "END" => m_state = "END"
    <3>1. CASE bodyRead
      <4>1. next(Head(inbox), Tail(reads))
        BY <3>1 DEF bodyRead
      <4> QED BY <4>1, NextCases DEF authenticate, authError, readyForQuery, dataRow,
              rowDescription, query_error
    <3>2. CASE ~bodyRead
      BY <1>4, <3>2 DEF Transport, sslStep, connected, connectFailed, written, writeFailed,
         headerRead, headerGarbled, readFailed, fsmVars
    <3> QED BY <3>1, <3>2
  <2>3. ASSUME writes' # <<>>, Head(writes').type = "Terminate" PROVE m_state = "END"
    <3>0. ASSUME NEW t, NEW op, NEW eh, Write(<<>>, t, op, eh), t # "Terminate"
          PROVE  Head(writes').type # "Terminate"
      <4>1. writes' = <<[type |-> t, op |-> op, eh |-> eh]>>
        BY <3>0 DEF Write
      <4> QED BY <3>0, <4>1
    <3>1. CASE connected
      <4>1. writes = <<>>
        BY <3>1, LastOne DEF connected
      <4> QED BY <2>3, <3>0, <3>1, <4>1, Zenon DEF connected
    <3>2. CASE written
      <4>1. writes # <<>> /\ Tail(writes) = <<>>
        BY <3>2, LastOne DEF written, Transmitted
      <4>2. \A t \in DOMAIN NextWrite : NextWrite[t] # "Terminate"
        BY DEF NextWrite
      <4> QED BY <2>3, <3>0, <3>2, <4>1, <4>2, Zenon DEF written
    <3>3. CASE writeFailed
      <4>1. writes # <<>> /\ Tail(writes) = <<>>
        BY <3>3, LastOne DEF writeFailed
      <4> QED BY <2>3, <3>3, <4>1 DEF writeFailed
    <3>4. CASE bodyRead
      <4>1. writes = <<>> /\ inbox # <<>> /\ next(Head(inbox), Tail(reads))
        BY <3>4 DEF bodyRead, BodyArrived, OneChain, SingleChain
      <4>2. Head(inbox).arg # "md5"
        BY <4>1 DEF OneChain, NoMD5, TypeOK, ConnectionTypeOK
      <4>3. writes' = writes
        BY <4>1, <4>2, NextCases DEF authenticate, authError, readyForQuery, dataRow,
           rowDescription, query_error
      <4> QED BY <2>3, <4>1, <4>3
    <3>5. CASE sslStep \/ connectFailed \/ headerRead \/ headerGarbled \/ readFailed
      BY <2>3, <3>5 DEF sslStep, connectFailed, headerRead, headerGarbled, readFailed, Closing
    <3> QED BY <1>4, <3>1, <3>2, <3>3, <3>4, <3>5 DEF Transport
  <2> QED BY <2>0, <2>1, <2>2, <2>3 DEF Closing
<1>5. CASE Finished
  BY <1>1, <1>5 DEF Finished
<1> QED BY <1>1, <1>2, <1>3, <1>4, <1>5 DEF Next

\* What a server that turns no start-up away adds to the inbox of a machine in AUTH.
LEMMA SendAdmitted ==
  ASSUME TypeOK, Disciplined, "reject" \notin Features, Admitted, m_state = "AUTH",
         UNCHANGED m_state, NEW r \in Must \cup May, send(r)
  PROVE  Admitted'
<1> DEFINE m == [type |-> r[2], arg |-> r[3], op |-> cur]
<1>1. inbox \in Seq(Message) /\ inbox' = Append(inbox, m) /\ r[1] = phase /\ phase' = r[4]
  BY DEF send, TypeOK, ConnectionTypeOK
<1>2. phase \notin {"startup", "other", "gone"}
  BY <1>1 DEF Must, May
<1>3. CASE inbox = <<>>
  <2>1. phase = "auth"
    BY <1>2, <1>3 DEF Admitted
  <2>2. r[2] = "Authentication" /\ (r[3] # "ok" => r[4] = "other")
    <3>1. r \in { <<"auth", "Authentication", "ok", "params", "core">>,
                 <<"auth", "Authentication", "md5", "password", "md5">>,
                 <<"auth", "Authentication", "other", "other", "other_auth">>,
                 <<"auth", "ErrorResponse", "none", "gone", "reject">> }
      BY <1>1, <2>1 DEF Must, May
    <3>2. r[5] \in Features \cup {"core"}
      BY DEF send
    <3>3. r[5] \notin {"md5", "reject"}
      BY <3>2 DEF Disciplined
    <3> QED BY <3>1, <3>3
  <2>3. inbox' = <<m>>
    BY <1>1, <1>3
  <2>4. inbox' # <<>> /\ Head(inbox') = m /\ Tail(inbox') = <<>>
    <3> HIDE DEF m
    <3>1. <<m>> # <<>> /\ Head(<<m>>) = m /\ Tail(<<m>>) = <<>>
      OBVIOUS
    <3> QED BY <2>3, <3>1, Zenon
  <2>5. m.type = r[2] /\ m.arg = r[3]
    OBVIOUS
  <2> QED BY <1>1, <2>2, <2>4, <2>5 DEF Admitted
<1>4. CASE inbox # <<>>
  <2>1. Head(inbox).type = "Authentication" /\ Head(inbox).arg = "ok"
    BY <1>2, <1>4 DEF Admitted
  <2>2. inbox' # <<>> /\ Head(inbox') = Head(inbox)
    BY <1>1, <1>4
  <2> QED BY <2>1, <2>2 DEF Admitted
<1> QED BY <1>3, <1>4

LEMMA AdmittedStep ==
  ASSUME TypeOK, OneChain, Disciplined, "reject" \notin Features, Admitted, [Next]_vars
  PROVE  Admitted'
<1>1. CASE UNCHANGED vars
  BY <1>1 DEF vars, connVars, fsmVars, backendVars, Admitted
<1>2. CASE Server
  <2> SUFFICES ASSUME m_state = "AUTH" PROVE Admitted'
    BY <1>2 DEF Admitted, Server, fsmVars
  <2>1. ASSUME NEW r \in Must \cup May, send(r) PROVE Admitted'
    BY <1>2, <2>1, SendAdmitted DEF Server, fsmVars
  <2>2. CASE accept
    <3>1. UNCHANGED <<inbox, m_state>>
          /\ (phase = "startup" => phase' = "auth")
          /\ (phase = "other" => phase' = "gone")
          /\ phase \notin {"auth", "gone"}
      BY <1>2, <2>2 DEF Server, accept, Accepts, fsmVars
    <3> QED BY <3>1 DEF Admitted
  <2>3. CASE crash
    BY <1>2, <2>3 DEF Server, crash, fsmVars, Admitted
  <2> QED BY <1>2, <2>1, <2>2, <2>3 DEF Server, reply, replyMore
<1>3. CASE Connect
  BY <1>3 DEF Connect, connect, connectSSL, connectWith, NewConnection, NewSession, Admitted
<1>4. CASE Exec \/ ExecQuery \/ Prepare \/ Close
  <2>1. UNCHANGED <<inbox, phase>> /\ (m_state' = "AUTH" => m_state = "AUTH")
    BY <1>4 DEF Exec, ExecQuery, Prepare, Close, exec, execQuery, parse, close, busy, start,
       connVars, backendVars
  <2> QED BY <2>1 DEF Admitted
<1>5. CASE Transport
  <2>0. UNCHANGED phase
    BY <1>5 DEF Transport, backendVars
  <2>1. CASE bodyRead
    <3>1. inbox # <<>> /\ next(Head(inbox), Tail(reads)) /\ inbox' = Tail(inbox)
      BY <2>1 DEF bodyRead, BodyArrived
    <3>2. Head(inbox).arg # "md5"
      BY <3>1 DEF OneChain, NoMD5, TypeOK, ConnectionTypeOK
    <3>3. m_state' = "AUTH" => m_state = "AUTH"
      BY <3>1, <3>2, NextCases DEF authenticate, authError, readyForQuery, dataRow,
         rowDescription, query_error
    <3>4. ASSUME m_state = "AUTH", m_state' = "AUTH" PROVE Head(inbox).arg # "ok"
      <4>1. Head(inbox).type = "Authentication"
        BY <3>1, <3>4 DEF Admitted
      <4>2. \A r \in Rows("AUTH") : r[2] = "Authentication" => r[3] = "authenticate"
        BY DEF Rows, m_state_table
      <4>3. \E r \in Rows("AUTH") : r[2] = "Authentication"
        <5>1. <<"AUTH", "Authentication", "authenticate">> \in Rows("AUTH")
          BY DEF Rows, m_state_table
        <5> QED BY <5>1
      <4>4. authenticate(Head(inbox), Tail(reads))
        BY <3>1, <3>4, <4>1, <4>2, <4>3 DEF next
      <4> QED BY <3>4, <4>4 DEF authenticate
    <3> QED BY <2>0, <3>1, <3>3, <3>4 DEF Admitted
  <2>2. CASE ~bodyRead
    <3>1. UNCHANGED <<inbox, m_state>>
      BY <1>5, <2>2 DEF Transport, sslStep, connected, connectFailed, written, writeFailed,
         headerRead, headerGarbled, readFailed, fsmVars
    <3> QED BY <2>0, <3>1 DEF Admitted
  <2> QED BY <2>1, <2>2
<1>6. CASE Finished
  BY <1>1, <1>6 DEF Finished
<1> QED BY <1>1, <1>2, <1>3, <1>4, <1>5, <1>6 DEF Next, Application

-----------------------------------------------------------------------------
(* The refinement.                                                         *)

LEMMA ApplicationSession ==
  ASSUME TypeOK, OneChain, Disciplined, Application
  PROVE  S!Next
<1>0. /\ nextOp \in Ops /\ nextOp \in Nat /\ nextOp' = nextOp + 1 /\ nextOp <= MaxOps
      /\ calls[nextOp] = <<>> /\ nextOp # 0 /\ deferred = 0
  BY CallsMade, MaxOpsAssumption DEF Ops, OneChain, SingleChain
<1>1. CASE Connect
  <2>1. Quiet /\ ~Quiet' /\ m_ehandler' = nextOp /\ m_state' = "AUTH" /\ calls' = calls
    BY <1>1 DEF Connect, connect, connectSSL, connectWith, NewConnection, Quiet,
       NoneOutstanding
  <2>2. \E k \in {"connect", "connectSSL"} : kind' = [kind EXCEPT ![nextOp] = k]
    BY <1>1 DEF Connect, Call
  <2>3. S!Take
    BY <1>0, <2>1, <2>2 DEF S!Take, S!Make, S!Controls
  <2> QED BY <2>3 DEF S!Next
<1>2. CASE (Exec \/ ExecQuery \/ Prepare) /\ busy(nextOp)
  <2>1. /\ m_state # "IDLE" /\ calls' = [calls EXCEPT ![nextOp] = Append(calls[nextOp], "busy")]
        /\ UNCHANGED <<m_state, m_ehandler>> /\ Quiet' = Quiet
    BY <1>2 DEF busy, connVars, Quiet, NoneOutstanding
  <2>2. Append(calls[nextOp], "busy") = <<"busy">>
    BY <1>0
  <2>3. \E k \in {"exec", "execQuery", "prepare"} : kind' = [kind EXCEPT ![nextOp] = k]
    BY <1>2 DEF Exec, ExecQuery, Prepare, Call
  <2>4. S!TurnAway
    BY <1>0, <2>1, <2>2, <2>3 DEF S!TurnAway, S!Make, S!Requests
  <2> QED BY <2>4 DEF S!Next
<1>3. ASSUME Exec \/ ExecQuery \/ Prepare,
             NEW s \in {"QUERY", "EQUERY"}, NEW t, NEW eh, NEW res,
             start(nextOp, s, res, t, eh)
      PROVE  S!Next
  <2>1. /\ m_state = "IDLE" /\ m_state' # "IDLE" /\ m_ehandler' = nextOp /\ calls' = calls
        /\ Write(writes, t, nextOp, eh)
    BY <1>3 DEF start
  <2>2. NoneOutstanding /\ Quiet
    BY <2>1 DEF OneChain, SingleChain, Quiet
  <2>3. writes' = <<[type |-> t, op |-> nextOp, eh |-> eh]>>
    BY <2>1, <2>2 DEF Write, NoneOutstanding
  <2>4. writes' # <<>>
    BY <2>3
  <2>5. ~Quiet'
    BY <2>4 DEF Quiet, NoneOutstanding
  <2>6. \E k \in {"exec", "execQuery", "prepare"} : kind' = [kind EXCEPT ![nextOp] = k]
    BY <1>3 DEF Exec, ExecQuery, Prepare, Call
  <2>7. S!Take
    BY <1>0, <2>1, <2>2, <2>5, <2>6 DEF S!Take, S!Make, S!Requests
  <2> QED BY <2>7 DEF S!Next
<1>4. CASE Close
  <2>1. /\ Quiet /\ m_state' = "END" /\ m_ehandler' = nextOp /\ calls' = calls
        /\ Write(writes, "Terminate", nextOp, "member")
        /\ kind' = [kind EXCEPT ![nextOp] = "close"]
    BY <1>4 DEF Close, close, Call, Disciplined
  <2>2. writes' = <<[type |-> "Terminate", op |-> nextOp, eh |-> "member"]>>
    BY <2>1 DEF Write, Quiet, NoneOutstanding
  <2>3. writes' # <<>>
    BY <2>2
  <2>4. ~Quiet'
    BY <2>3 DEF Quiet, NoneOutstanding
  <2>5. S!Take
    BY <1>0, <2>1, <2>4 DEF S!Take, S!Make, S!Controls
  <2> QED BY <2>5 DEF S!Next
<1> QED BY <1>1, <1>2, <1>3, <1>4, CallsMade

LEMMA TransportSession ==
  ASSUME TypeOK, OneChain, OneChain', Closing, Admitted, NoEscape', Transport
  PROVE  S!Next \/ UNCHANGED S!sessionVars
<1>0. /\ ~NoneOutstanding /\ m_state # "IDLE" /\ UNCHANGED <<m_ehandler, nextOp, kind>>
      /\ m_ehandler # 0 /\ calls[m_ehandler] = <<>> /\ ~Quiet /\ deferred' = 0
  BY Running, OthersUntouched, MaxOpsAssumption DEF OneChain, SingleChain, Unanswered, Quiet,
     Ops
<1>1. Goes \/ Answers("ok") \/ Answers("error")
  BY ConnectStepSession, WriteSession, ReadSession DEF Transport
<1>2. CASE Goes
  <2>1. ~Quiet'
    BY <1>2 DEF Goes, Quiet
  <2>2. UNCHANGED S!sessionVars
    BY <1>0, <1>2, <2>1 DEF Goes, S!sessionVars
  <2> QED BY <2>2
<1>3. ASSUME NEW out \in {"ok", "error"}, Answers(out) PROVE S!Next
  <2>1. Quiet'
    BY <1>0, <1>3 DEF Answers, Quiet
  <2>2. S!Answer
    BY <1>0, <1>3, <2>1 DEF Answers, S!Answer
  <2> QED BY <2>2 DEF S!Next
<1> QED BY <1>1, <1>2, <1>3

\* A disciplined client of a server that turns no start-up away implements the
\* abstract session, as long as no exception leaves the library: calls are taken
\* one at a time by a ready session, turned away at once by one that is not, and
\* answered once, by success exactly when the session is ready again or closed.
THEOREM SessionImplemented ==
  Disciplined /\ "reject" \notin Features /\ Spec /\ []NoEscape => SessionSteps
<1>1. Init => Closing /\ Admitted
  BY DEF Init, ConnectionInit, FSMInit, BackendInit, Closing, Admitted, NoneOutstanding
<1>2. TypeOK /\ OneChain /\ Disciplined /\ "reject" \notin Features /\ Closing /\ Admitted
      /\ [Next]_vars => Closing' /\ Admitted'
  BY ClosingStep, AdmittedStep
<1>3. Init => S!Init
  BY DEF Init, ConnectionInit, FSMInit, Quiet, NoneOutstanding, S!Init, Ops
<1>4. ASSUME TypeOK, OneChain, OneChain', Disciplined, Closing, Admitted, NoEscape',
             [Next]_vars
      PROVE  [S!Next]_(S!sessionVars)
  <2>1. CASE UNCHANGED vars \/ Server
    <3>1. UNCHANGED <<m_state, m_ehandler, deferred, calls, nextOp, kind>>
          /\ UNCHANGED <<pending, reads, writes>>
      BY <2>1 DEF vars, connVars, fsmVars, Server, reply, replyMore, send, accept, crash
    <3> QED BY <3>1 DEF S!sessionVars, Quiet, NoneOutstanding
  <2>2. CASE Finished
    BY <2>1, <2>2 DEF Finished
  <2> QED BY <1>4, <2>1, <2>2, ApplicationSession, TransportSession DEF Next
<1>5. Disciplined /\ "reject" \notin Features
      => [](Disciplined /\ "reject" \notin Features)
  OBVIOUS
<1> QED BY <1>1, <1>2, <1>3, <1>4, <1>5, TypeCorrect, OneChainAlways, PTL
        DEF Spec, SessionSteps, S!Steps

-----------------------------------------------------------------------------
(* A plain client.                                                         *)

\* One write that reports through the member.
LEMMA WriteByMember ==
  ASSUME NEW t, NEW op, Write(<<>>, t, op, "member")
  PROVE  \A i \in DOMAIN writes' : writes'[i].eh = "member"
<1> DEFINE w == [type |-> t, op |-> op, eh |-> "member"]
<1>1. writes' = <<w>>
  BY DEF Write
<1>2. DOMAIN <<w>> = {1} /\ <<w>>[1] = w /\ w.eh = "member"
  OBVIOUS
<1> QED BY <1>1, <1>2, Zenon

LEMMA MemberApplication ==
  ASSUME TypeOK, OneChain, Plain, ByMember, NoEscape, Application
  PROVE  ByMember' /\ NoEscape'
<1>0. ~ExecQuery /\ ~Prepare /\ ~Call("connectSSL") /\ UNCHANGED raised
  BY DEF Plain, Application, Connect, connect, connectSSL, connectWith, Exec, ExecQuery,
     Prepare, Close, Call, exec, execQuery, parse, close, busy, start
<1>1. CASE Connect
  <2>1. pending' = "connect" /\ writes' = <<>> /\ inbox' = <<>>
    BY <1>0, <1>1 DEF Connect, connect, connectWith, NewConnection
  <2> QED BY <1>0, <2>1 DEF ByMember, NoEscape
<1>2. CASE Exec \/ Close
  <2>1. CASE busy(nextOp)
    BY <1>0, <2>1 DEF busy, connVars, ByMember, NoEscape
  <2>2. CASE ~busy(nextOp)
    <3>1. /\ UNCHANGED <<pending, inbox>>
          /\ \E t : Write(writes, t, nextOp, "member")
      BY <1>2, <2>2, Zenon DEF Exec, Close, exec, close, start
    <3>2. writes = <<>>
      BY <1>2, <2>2 DEF Exec, exec, start, Close, Plain, Disciplined, Quiet, OneChain,
         SingleChain, NoneOutstanding
    <3>3. \A i \in DOMAIN writes' : writes'[i].eh = "member"
      BY <3>1, <3>2, WriteByMember, Zenon
    <3> QED BY <1>0, <3>1, <3>3 DEF ByMember, NoEscape
  <2> QED BY <2>1, <2>2
<1> QED BY <1>0, <1>1, <1>2 DEF Application

LEMMA MemberTransport ==
  ASSUME TypeOK, OneChain, Plain, ByMember, NoEscape, Transport
  PROVE  ByMember' /\ NoEscape'
<1>0. ASSUME NEW rs, report("member", rs) \/ receive(rs) \/ notify("ok", rs)
                     \/ notify("error", rs)
      PROVE  NoEscape'
  BY <1>0 DEF report, receive, notify, NoEscape
<1>1. CASE sslStep
  BY <1>1 DEF sslStep, NextSSLStep, ByMember
<1>2. CASE connected
  <2>1. pending = "connect" /\ writes = <<>>
    BY <1>2, LastOne DEF connected, ByMember
  <2>2. Write(<<>>, "StartUp", m_ehandler, "member") /\ pending' = "none"
        /\ UNCHANGED <<inbox, raised>>
    BY <1>2, <2>1 DEF connected, fsmVars
  <2> QED BY <2>2, WriteByMember DEF ByMember, NoEscape
<1>3. CASE connectFailed
  <2>1. report("member", reads) /\ pending' = "none" /\ UNCHANGED <<inbox, writes>>
    BY <1>3 DEF connectFailed, ByMember
  <2> QED BY <1>0, <2>1 DEF ByMember
<1>4. CASE written \/ writeFailed
  <2>1. /\ writes # <<>> /\ Tail(writes) = <<>> /\ UNCHANGED <<pending, inbox>>
        /\ writes \in Seq(Request)
    BY <1>4, LastOne DEF written, Transmitted, writeFailed, TypeOK, ConnectionTypeOK
  <2>2. Head(writes).eh = "member"
    BY <2>1 DEF ByMember
  <2>3. \/ writes' = <<>> /\ \E rs : \/ receive(rs) \/ notify("ok", rs)
                                     \/ report("member", rs)
        \/ UNCHANGED raised /\ \E t, op : Write(<<>>, t, op, "member")
    BY <1>4, <2>1, <2>2, Zenon DEF written, writeFailed
  <2>4. \A i \in DOMAIN writes' : writes'[i].eh = "member"
    <3>1. CASE writes' = <<>>
      BY <3>1
    <3> QED BY <2>3, <3>1, WriteByMember, Zenon
  <2>5. NoEscape'
    BY <1>0, <2>3 DEF NoEscape
  <2> QED BY <2>1, <2>4, <2>5 DEF ByMember
<1>5. CASE headerRead \/ headerGarbled
  BY <1>5 DEF headerRead, headerGarbled, fsmVars, ByMember, NoEscape
<1>6. CASE readFailed
  BY <1>0, <1>6 DEF readFailed, ByMember
<1>7. CASE bodyRead
  <2> DEFINE m == Head(inbox)
  <2>1. /\ next(m, Tail(reads)) /\ inbox # <<>> /\ inbox' = Tail(inbox)
        /\ inbox \in Seq(Message) /\ UNCHANGED pending
    BY <1>7 DEF bodyRead, BodyArrived, TypeOK, ConnectionTypeOK
  <2>2. m.arg \notin {"md5", "null"}
    BY <2>1 DEF OneChain, NoMD5, ByMember
  <2>3. \A i \in DOMAIN inbox' : inbox'[i].arg # "null"
    BY <2>1 DEF ByMember
  <2>4. reads # <<>> /\ Rows(m_state) # {}
    BY <1>7, HasRow DEF bodyRead, BodyArrived, OneChain, SingleChain, NoneOutstanding
  <2>5. writes' = writes /\ (receive(Tail(reads)) \/ notify("ok", Tail(reads)))
    BY <2>1, <2>2, <2>4, NextCases DEF authenticate, authError, readyForQuery, dataRow,
       rowDescription, query_error
  <2> QED BY <1>0, <2>1, <2>3, <2>5 DEF ByMember
<1> QED BY <1>1, <1>2, <1>3, <1>4, <1>5, <1>6, <1>7 DEF Transport

LEMMA MemberServer ==
  ASSUME TypeOK, Plain, ByMember, Server
  PROVE  ByMember' /\ UNCHANGED raised
<1>1. UNCHANGED <<pending, writes, raised>>
  BY DEF Server, reply, replyMore, send, accept, crash, fsmVars
<1>2. ASSUME NEW r \in Must \cup May, send(r)
      PROVE  \A i \in DOMAIN inbox' : inbox'[i].arg # "null"
  <2>1. r[5] \in Features \cup {"core"} /\ (r[3] = "null" => r[5] = "null")
    BY <1>2 DEF send, Must, May
  <2>2. r[3] # "null"
    BY <2>1 DEF Plain
  <2>3. inbox' = Append(inbox, [type |-> r[2], arg |-> r[3], op |-> cur])
    BY <1>2 DEF send
  <2>4. inbox \in Seq(Message) /\ [type |-> r[2], arg |-> r[3], op |-> cur].arg = r[3]
    BY DEF TypeOK, ConnectionTypeOK
  <2> QED BY <2>2, <2>3, <2>4 DEF ByMember
<1>3. CASE accept \/ crash
  BY <1>1, <1>3 DEF accept, crash, ByMember
<1> QED BY <1>1, <1>2, <1>3 DEF Server, reply, replyMore, ByMember

\* No exception leaves the library of a plain client, whatever the server and the
\* network do.
THEOREM NoEscapeAlways == Plain /\ Spec => []NoEscape
<1>1. Init => ByMember /\ NoEscape
  BY DEF Init, ConnectionInit, FSMInit, ByMember, NoEscape
<1>2. ASSUME TypeOK, OneChain, Plain, ByMember, NoEscape, [Next]_vars
      PROVE  ByMember' /\ NoEscape'
  <2>1. CASE UNCHANGED vars
    BY <1>2, <2>1 DEF vars, connVars, fsmVars, ByMember, NoEscape
  <2>2. CASE Server
    BY <1>2, <2>2, MemberServer DEF NoEscape
  <2>3. CASE Finished
    BY <2>1, <2>3 DEF Finished
  <2> QED BY <1>2, <2>1, <2>2, <2>3, MemberApplication, MemberTransport DEF Next
<1>3. Plain => Disciplined /\ []Plain
  BY DEF Plain
<1> QED BY <1>1, <1>2, <1>3, TypeCorrect, OneChainAlways, PTL DEF Spec

\* So a plain client of a server that turns no start-up away implements the
\* abstract session without further conditions.
THEOREM PlainSession == Plain /\ "reject" \notin Features /\ Spec => SessionSteps
<1>1. Plain => Disciplined
  BY DEF Plain
<1> QED BY <1>1, NoEscapeAlways, SessionImplemented, PTL
=============================================================================
