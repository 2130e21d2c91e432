---------------------------- MODULE FinalProofs ----------------------------
(***************************************************************************)
(* What is final: close(), for every client, and the failure of a call,    *)
(* for a disciplined one; and that close() is what it reports to be.       *)
(***************************************************************************)
EXTENDS ChainProofs

\* END has no row in m_state_table, so no message leads out of it.
LEMMA NoRowInEnd == Rows("END") = {}
BY DEF Rows, m_state_table

\* A callback leaves END alone, whatever it was started for.
LEMMA TransportKeepsEnd ==
  ASSUME m_state = "END", Transport
  PROVE  m_state' = "END"
<1>1. CASE bodyRead
  <2>1. next(Head(inbox), Tail(reads))
    BY <1>1 DEF bodyRead
  <2>2. Rows(m_state) = {}
    BY NoRowInEnd
  <2> QED BY <2>1, <2>2 DEF next
<1>2. CASE sslStep \/ connected \/ headerRead \/ headerGarbled
  BY <1>2 DEF sslStep, connected, headerRead, headerGarbled, fsmVars
<1>3. CASE connectFailed \/ written \/ writeFailed \/ readFailed
  BY <1>3 DEF connectFailed, written, writeFailed, readFailed
<1> QED BY <1>1, <1>2, <1>3 DEF Transport

\* close() is final: whenever the application closes and whatever the server
\* sends, MD5 challenges included, only a new connect leaves END.
THEOREM EndIsFinalAlways == Spec => EndIsFinal
<1>1. ASSUME [Next]_vars
      PROVE  [m_state = "END" => m_state' = "END" \/ Connect]_vars
  <2> SUFFICES ASSUME m_state = "END", ~Connect, Next PROVE m_state' = "END"
    BY <1>1
  <2>1. CASE Exec \/ ExecQuery \/ Prepare
    BY <2>1 DEF Exec, ExecQuery, Prepare, exec, execQuery, parse, busy, start
  <2>2. CASE Close
    BY <2>2 DEF Close, close
  <2>3. CASE Server
    BY <2>3 DEF Server, fsmVars
  <2>4. CASE Finished
    BY <2>4 DEF Finished, vars, fsmVars
  <2> QED BY <2>1, <2>2, <2>3, <2>4, TransportKeepsEnd DEF Next, Application
<1> QED BY <1>1, PTL DEF Spec, EndIsFinal

-----------------------------------------------------------------------------
(* The failure of a call.                                                  *)

\* A callback answers the call of its chain, and no other.
LEMMA OthersUntouched ==
  ASSUME TypeOK, Transport
  PROVE  /\ UNCHANGED <<m_ehandler, nextOp, kind>>
         /\ \A i \in Ops : i # m_ehandler => calls'[i] = calls[i]
<1> DEFINE Rest == \A i \in Ops : i # m_ehandler => calls'[i] = calls[i]
<1>0. calls \in [Ops -> Seq(Outcome)] /\ UNCHANGED <<nextOp, kind>>
  BY DEF TypeOK, FSMTypeOK, Transport
<1>1. ASSUME NEW out, NEW rs, notify(out, rs) PROVE Rest
  BY <1>0, <1>1 DEF notify
<1>2. calls' = calls => Rest
  OBVIOUS
<1>3. ASSUME NEW eh, NEW rs, report(eh, rs) PROVE Rest
  BY <1>1, <1>2, <1>3 DEF report, throw
<1>4. ASSUME NEW m, NEW rs, next(m, rs) PROVE Rest
  <2>1. \/ calls' = calls \/ notify("ok", rs)
    BY <1>4, NextCases DEF throw, receive, authenticate, authError, readyForQuery,
       dataRow, rowDescription, query_error
  <2> QED BY <1>1, <1>2, <2>1
<1>5. CASE sslStep \/ connected \/ headerRead \/ headerGarbled
  BY <1>0, <1>5 DEF sslStep, connected, headerRead, headerGarbled, fsmVars
<1>6. CASE connectFailed
  BY <1>0, <1>3, <1>6 DEF connectFailed
<1>7. CASE written
  BY <1>0, <1>1, <1>2, <1>7 DEF written, receive
<1>8. CASE writeFailed
  BY <1>0, <1>3, <1>8 DEF writeFailed
<1>9. CASE bodyRead
  BY <1>0, <1>4, <1>9 DEF bodyRead
<1>10. CASE readFailed
  BY <1>0, <1>1, <1>10 DEF readFailed
<1> QED BY <1>5, <1>6, <1>7, <1>8, <1>9, <1>10 DEF Transport

\* A callback that reports an error leaves the state, which was not IDLE.
LEMMA NewErrorStops ==
  ASSUME TypeOK, OneChain, OneChain', Transport, m_state # "END",
         NEW i \in Ops, "error" \in Outcomes(i)', "error" \notin Outcomes(i)
  PROVE  m_state' # "IDLE" /\ NoneOutstanding'
<1>1. i = m_ehandler
  <2> SUFFICES ASSUME i # m_ehandler PROVE FALSE
    OBVIOUS
  <2>1. calls'[i] = calls[i]
    BY OthersUntouched
  <2> QED BY <2>1 DEF Outcomes
<1>2. NoneOutstanding'
  <2> SUFFICES ASSUME ~NoneOutstanding' PROVE FALSE
    OBVIOUS
  <2>1. calls'[i] = <<>>
    BY <1>1, OthersUntouched DEF OneChain, Unanswered
  <2> QED BY <2>1 DEF Outcomes
<1>3. ~NoneOutstanding /\ m_state # "IDLE"
  <2>1. reads # <<>> \/ writes # <<>> \/ pending # "none"
    BY DEF Transport, sslStep, NextSSLStep, connected, connectFailed, written, Transmitted,
       writeFailed, headerRead, HeaderArrived, headerGarbled, FramingLost, bodyRead,
       BodyArrived, readFailed
  <2> QED BY <2>1 DEF NoneOutstanding, OneChain, SingleChain
<1>4. CASE bodyRead
  <2>1. calls[i] = <<>> /\ calls \in [Ops -> Seq(Outcome)]
    BY <1>1, <1>3 DEF OneChain, Unanswered, TypeOK, FSMTypeOK
  <2>2. PICK rs : calls' = calls \/ notify("ok", rs)
    BY <1>4, NextCases DEF bodyRead, throw, receive, authenticate, authError,
       readyForQuery, dataRow, rowDescription, query_error
  <2>3. calls' # calls
    BY DEF Outcomes
  <2>4. calls'[i] = Append(<<>>, "ok")
    BY <1>1, <2>1, <2>2, <2>3 DEF notify
  <2>5. calls'[i] = <<"ok">>
    BY <2>4
  <2>6. DOMAIN <<"ok">> = {1} /\ <<"ok">>[1] = "ok"
    OBVIOUS
  <2>7. Outcomes(i)' = {"ok"}
    BY <2>5, <2>6, Zenon DEF Outcomes
  <2> QED BY <2>7
<1>5. CASE ~bodyRead
  <2>1. m_state' = m_state
    BY <1>5 DEF Transport, sslStep, connected, connectFailed, written, writeFailed,
       headerRead, headerGarbled, readFailed, fsmVars
  <2> QED BY <1>2, <1>3, <2>1
<1> QED BY <1>2, <1>4, <1>5

\* The calls the application makes.
LEMMA ApplicationStops ==
  ASSUME TypeOK, OneChain, Stopped, Application
  PROVE  Stopped'
<1>0. /\ nextOp \in Ops /\ nextOp \in Nat /\ nextOp' = nextOp + 1 /\ \A i \in Ops : i \in Nat
      /\ kind \in [Ops -> Kind \cup {"none"}] /\ calls \in [Ops -> Seq(Outcome)]
      /\ calls[nextOp] = <<>>
  <2>1. nextOp \in Ops /\ nextOp' = nextOp + 1
    BY DEF Application, Connect, Exec, ExecQuery, Prepare, Close, Call
  <2>2. nextOp \in Nat /\ \A i \in Ops : i \in Nat
    BY <2>1, MaxOpsAssumption DEF Ops
  <2>3. calls[nextOp] = <<>>
    BY <2>1, <2>2 DEF OneChain, Unanswered
  <2> QED BY <2>1, <2>2, <2>3 DEF TypeOK, FSMTypeOK
<1>1. PICK k \in Kind : kind' = [kind EXCEPT ![nextOp] = k]
                        /\ (Connect => k \in {"connect", "connectSSL"})
  BY DEF Application, Connect, Exec, ExecQuery, Prepare, Close, Call, Kind
<1>2. \A i \in Ops : i < nextOp /\ SameSession(i)' => SameSession(i) /\ ~Connect
  <2> SUFFICES ASSUME NEW i \in Ops, i < nextOp, SameSession(i)'
               PROVE  SameSession(i) /\ ~Connect
    OBVIOUS
  <2>1. \A j \in i + 1 .. nextOp : kind'[j] \notin {"connect", "connectSSL"}
    BY <1>0 DEF SameSession
  <2>2. ASSUME NEW j \in i + 1 .. nextOp - 1 PROVE kind'[j] = kind[j]
    <3>1. j \in Ops /\ j # nextOp
      BY <1>0, MaxOpsAssumption DEF Ops
    <3> QED BY <1>0, <1>1, <3>1
  <2>3. SameSession(i)
    BY <1>0, <2>1, <2>2 DEF SameSession
  <2>4. kind'[nextOp] \notin {"connect", "connectSSL"}
    BY <1>0, <2>1
  <2> QED BY <1>0, <1>1, <2>3, <2>4
<1>3. SUFFICES ASSUME NEW i \in Ops, i < nextOp', SameSession(i)', "error" \in Outcomes(i)'
               PROVE  m_state' # "IDLE" /\ (NoneOutstanding' \/ m_state' = "END")
  BY DEF Stopped
<1>4. \/ calls' = calls
      \/ calls' = [calls EXCEPT ![nextOp] = <<"busy">>]
  <2>1. calls' = calls \/ calls' = [calls EXCEPT ![nextOp] = Append(calls[nextOp], "busy")]
    BY DEF Application, Connect, connect, connectSSL, connectWith, Exec, ExecQuery, Prepare,
       Close, exec, execQuery, parse, close, busy, start
  <2>2. Append(calls[nextOp], "busy") = <<"busy">>
    BY <1>0
  <2> QED BY <2>1, <2>2
<1>5. i # nextOp
  <2> SUFFICES ASSUME i = nextOp PROVE FALSE
    OBVIOUS
  <2>1. calls'[i] = <<>> \/ calls'[i] = <<"busy">>
    BY <1>0, <1>4
  <2>2. DOMAIN <<"busy">> = {1} /\ <<"busy">>[1] = "busy"
    OBVIOUS
  <2>3. CASE calls'[i] = <<>>
    BY <1>3, <2>3 DEF Outcomes
  <2>4. CASE calls'[i] = <<"busy">>
    <3>1. Outcomes(i)' = {"busy"}
      BY <2>2, <2>4, Zenon DEF Outcomes
    <3> QED BY <1>3, <3>1
  <2> QED BY <2>1, <2>3, <2>4
<1>6. i < nextOp /\ SameSession(i) /\ ~Connect
  BY <1>0, <1>2, <1>3, <1>5
<1>7. calls'[i] = calls[i]
  BY <1>0, <1>4, <1>5
<1>8. m_state # "IDLE" /\ (NoneOutstanding \/ m_state = "END")
  BY <1>3, <1>6, <1>7 DEF Stopped, Outcomes
<1>9. CASE Close
  BY <1>9 DEF Close, close
<1>10. CASE Exec \/ ExecQuery \/ Prepare
  <2>1. busy(nextOp)
    BY <1>8, <1>10 DEF Exec, ExecQuery, Prepare, exec, execQuery, parse, start
  <2> QED BY <1>8, <2>1 DEF busy, connVars, NoneOutstanding
<1> QED BY <1>6, <1>9, <1>10 DEF Application

\* Stopped is kept by every step of a disciplined client.
LEMMA StoppedStep ==
  ASSUME TypeOK, OneChain, OneChain', Stopped, [Next]_vars
  PROVE  Stopped'
<1>1. CASE UNCHANGED vars
  BY <1>1 DEF vars, connVars, fsmVars, Stopped, SameSession, Outcomes, NoneOutstanding
<1>2. CASE Server
  BY <1>2 DEF Server, reply, replyMore, send, accept, crash, fsmVars, Stopped,
     SameSession, Outcomes, NoneOutstanding
<1>3. CASE Transport
  <2> SUFFICES ASSUME NEW i \in Ops, i < nextOp', SameSession(i)', "error" \in Outcomes(i)'
               PROVE  m_state' # "IDLE" /\ (NoneOutstanding' \/ m_state' = "END")
    BY DEF Stopped
  <2>1. CASE m_state = "END"
    BY <1>3, <2>1, TransportKeepsEnd
  <2>2. CASE m_state # "END" /\ "error" \notin Outcomes(i)
    BY <1>3, <2>2, NewErrorStops
  <2>3. CASE m_state # "END" /\ "error" \in Outcomes(i)
    <3>1. i < nextOp /\ SameSession(i)
      BY <1>3, OthersUntouched DEF SameSession
    <3>2. NoneOutstanding
      BY <2>3, <3>1 DEF Stopped
    <3> QED BY <1>3, <3>2 DEF NoneOutstanding, Transport, sslStep, NextSSLStep, connected,
            connectFailed, written, Transmitted, writeFailed, headerRead, HeaderArrived,
            headerGarbled, FramingLost, bodyRead, BodyArrived, readFailed
  <2> QED BY <2>1, <2>2, <2>3
<1>4. CASE Finished
  BY <1>1, <1>4 DEF Finished
<1> QED BY <1>1, <1>2, <1>3, <1>4, ApplicationStops DEF Next

\* After a call has failed a disciplined client takes no other one before the
\* next connect, for any number of calls and sessions: no late message makes the
\* machine IDLE again.
THEOREM ErrorIsFinalAlways == Disciplined /\ Spec => []ErrorIsFinal
<1>1. Init => Stopped
  BY DEF Init, FSMInit, Stopped, Outcomes
<1>2. TypeOK /\ OneChain /\ OneChain' /\ Stopped /\ [Next]_vars => Stopped'
  BY StoppedStep
<1>3. Stopped => ErrorIsFinal
  BY DEF Stopped, ErrorIsFinal
<1> QED BY <1>1, <1>2, <1>3, TypeCorrect, OneChainAlways, PTL DEF Spec

-----------------------------------------------------------------------------
(* The success of close(), for every client.                               *)

\* A callback that runs in END adds a success to no call, or the one that has
\* written Terminate does, and closes the socket.
LEMMA SuccessInEnd ==
  ASSUME TypeOK, Transport, m_state = "END", NEW i \in Ops,
         "ok" \in Outcomes(i)', "ok" \notin Outcomes(i)
  PROVE  sock' = "closed"
<1>0. calls \in [Ops -> Seq(Outcome)] /\ calls' # calls
  BY DEF TypeOK, FSMTypeOK, Outcomes
<1>1. ASSUME NEW rs, notify("error", rs) PROVE FALSE
  <2>1. calls' = [calls EXCEPT ![m_ehandler] = Append(calls[m_ehandler], "error")]
    BY <1>1 DEF notify
  <2>2. i = m_ehandler
    BY <1>0, <2>1 DEF Outcomes
  <2>3. calls'[i] = Append(calls[i], "error") /\ calls[i] \in Seq(Outcome)
    BY <1>0, <2>1, <2>2
  <2>4. PICK j \in DOMAIN calls'[i] : calls'[i][j] = "ok"
    BY DEF Outcomes
  <2>5. j \in DOMAIN calls[i] /\ calls[i][j] = "ok"
    BY <2>3, <2>4
  <2> QED BY <2>5 DEF Outcomes
<1>2. ASSUME NEW eh, NEW rs, report(eh, rs) PROVE FALSE
  BY <1>0, <1>1, <1>2 DEF report, throw
<1>3. ~bodyRead
  <2> SUFFICES ASSUME bodyRead PROVE FALSE
    OBVIOUS
  <2>1. next(Head(inbox), Tail(reads)) /\ Rows(m_state) = {}
    BY NoRowInEnd DEF bodyRead
  <2>2. throw("out_of_range", Tail(reads))
    BY <2>1 DEF next
  <2> QED BY <1>0, <2>2 DEF throw
<1>4. ~(sslStep \/ connected \/ headerRead \/ headerGarbled)
  BY <1>0 DEF sslStep, connected, headerRead, headerGarbled, fsmVars
<1>5. ~connectFailed /\ ~writeFailed /\ ~readFailed
  BY <1>1, <1>2 DEF connectFailed, writeFailed, readFailed
<1>6. written
  BY <1>3, <1>4, <1>5 DEF Transport
<1> QED BY <1>0, <1>6 DEF written, receive

\* Callbacks keep ClosedInEnd.
LEMMA TransportClosedInEnd ==
  ASSUME TypeOK, ClosedInEnd, Transport
  PROVE  ClosedInEnd'
<1>0. /\ nextOp \in Nat /\ m_ehandler \in Nat /\ UNCHANGED <<m_ehandler, nextOp, kind>>
      /\ \A i \in Ops : i # m_ehandler => calls'[i] = calls[i]
  BY OthersUntouched, MaxOpsAssumption DEF TypeOK, FSMTypeOK
<1>1. \A i \in Ops : i >= nextOp' => calls'[i] = <<>>
  <2> SUFFICES ASSUME NEW i \in Ops, i >= nextOp PROVE calls'[i] = <<>>
    BY <1>0
  <2>1. i # m_ehandler
    BY <1>0, MaxOpsAssumption DEF ClosedInEnd, Ops
  <2> QED BY <1>0, <2>1 DEF ClosedInEnd
<1>2. CASE m_state # "END"
  <2>1. \A i \in Ops : ~(i < nextOp /\ SameSession(i) /\ kind[i] = "close")
    BY <1>2 DEF ClosedInEnd
  <2>2. m_state' # "END"
    <3>1. CASE bodyRead
      BY <1>2, <3>1, NextCases DEF bodyRead, authenticate, authError, readyForQuery, dataRow,
         rowDescription, query_error
    <3>2. CASE ~bodyRead
      BY <1>2, <3>2 DEF Transport, sslStep, connected, connectFailed, written, writeFailed,
         headerRead, headerGarbled, readFailed, fsmVars
    <3> QED BY <3>1, <3>2
  <2> QED BY <1>0, <1>1, <1>2, <2>1, <2>2 DEF ClosedInEnd, SameSession
<1>3. CASE m_state = "END"
  <2>1. m_state' = "END" /\ pending = "none"
    BY <1>3, TransportKeepsEnd DEF ClosedInEnd
  <2>2. pending' = "none" /\ (sock = "closed" => sock' = "closed")
    BY <2>1 DEF Transport, sslStep, NextSSLStep, connected, connectFailed, written, writeFailed,
       headerRead, headerGarbled, bodyRead, readFailed
  <2>3. ASSUME NEW i \in Ops, i < nextOp', SameSession(i)', kind'[i] = "close",
               "ok" \in Outcomes(i)'
        PROVE  sock' = "closed"
    <3>1. i < nextOp /\ SameSession(i) /\ kind[i] = "close"
      BY <1>0, <2>3 DEF SameSession
    <3> QED BY <1>3, <2>2, <2>3, <3>1, SuccessInEnd DEF ClosedInEnd
  <2> QED BY <1>0, <1>1, <2>1, <2>2, <2>3 DEF ClosedInEnd
<1> QED BY <1>2, <1>3

\* So do the calls of the application.
LEMMA ApplicationClosedInEnd ==
  ASSUME TypeOK, ClosedInEnd, Application
  PROVE  ClosedInEnd'
<1>0. /\ nextOp \in Ops /\ nextOp \in Nat /\ nextOp' = nextOp + 1 /\ \A i \in Ops : i \in Nat
      /\ kind \in [Ops -> Kind \cup {"none"}] /\ calls \in [Ops -> Seq(Outcome)]
      /\ calls[nextOp] = <<>> /\ m_ehandler \in Nat /\ m_ehandler < nextOp
      /\ m_ehandler # 0 => m_ehandler \in Ops
  <2>1. nextOp \in Ops /\ nextOp' = nextOp + 1
    BY DEF Application, Connect, Exec, ExecQuery, Prepare, Close, Call
  <2>2. nextOp \in Nat /\ m_ehandler \in 0 .. MaxOps /\ \A i \in Ops : i \in Nat
    BY <2>1, MaxOpsAssumption DEF Ops, TypeOK, FSMTypeOK
  <2>3. m_ehandler \in Nat /\ (m_ehandler # 0 => m_ehandler \in Ops)
    BY <2>2, MaxOpsAssumption DEF Ops
  <2>4. calls[nextOp] = <<>> /\ m_ehandler < nextOp
    BY <2>1, <2>2 DEF ClosedInEnd
  <2> QED BY <2>1, <2>2, <2>3, <2>4 DEF TypeOK, FSMTypeOK
<1>1. PICK k \in Kind : /\ kind' = [kind EXCEPT ![nextOp] = k]
                        /\ Connect => k \in {"connect", "connectSSL"}
                        /\ k = "close" => Close
  BY DEF Application, Connect, Exec, ExecQuery, Prepare, Close, Call, Kind
<1>2. kind'[nextOp] = k /\ \A i \in Ops : i # nextOp => kind'[i] = kind[i]
  BY <1>0, <1>1
<1>3. \A i \in Ops : i < nextOp /\ SameSession(i)' => SameSession(i) /\ ~Connect
  <2> SUFFICES ASSUME NEW i \in Ops, i < nextOp, SameSession(i)'
               PROVE  SameSession(i) /\ ~Connect
    OBVIOUS
  <2>1. \A j \in i + 1 .. nextOp : kind'[j] \notin {"connect", "connectSSL"}
    BY <1>0 DEF SameSession
  <2>2. ASSUME NEW j \in i + 1 .. nextOp - 1 PROVE kind'[j] = kind[j]
    <3>1. j \in Ops /\ j # nextOp
      BY <1>0, MaxOpsAssumption DEF Ops
    <3> QED BY <1>2, <3>1
  <2>3. SameSession(i)
    BY <1>0, <2>1, <2>2 DEF SameSession
  <2>4. kind'[nextOp] \notin {"connect", "connectSSL"}
    BY <1>0, <2>1
  <2> QED BY <1>1, <1>2, <2>3, <2>4
<1>4. \A i \in Ops : i # nextOp => calls'[i] = calls[i]
  BY <1>0 DEF Application, Connect, connect, connectSSL, connectWith, Exec, ExecQuery, Prepare,
     Close, exec, execQuery, parse, close, busy, start
<1>5. \A i \in Ops : i >= nextOp' => calls'[i] = <<>>
  <2> SUFFICES ASSUME NEW i \in Ops, i >= nextOp + 1 PROVE calls'[i] = <<>>
    BY <1>0
  <2>1. i # nextOp /\ i >= nextOp
    BY <1>0
  <2> QED BY <1>4, <2>1 DEF ClosedInEnd
<1>6. m_ehandler # 0 => kind'[m_ehandler] = kind[m_ehandler]
  BY <1>0, <1>2
<1>7. \A i \in Ops : i < nextOp' => i < nextOp \/ i = nextOp
  BY <1>0
<1>8. CASE Connect
  <2>1. m_ehandler' = nextOp /\ m_state' = "AUTH"
    BY <1>8 DEF Connect, connect, connectSSL, connectWith
  <2>2. kind'[nextOp] # "close"
    BY <1>1, <1>2, <1>8
  <2>3. \A i \in Ops : ~(i < nextOp' /\ SameSession(i)' /\ kind'[i] = "close")
    BY <1>3, <1>7, <1>8, <2>2
  <2> QED BY <1>0, <1>5, <2>1, <2>2, <2>3 DEF ClosedInEnd
<1>9. CASE Close
  <2>1. /\ m_ehandler' = nextOp /\ m_state' = "END" /\ pending' = "none"
        /\ sock' = sock /\ calls' = calls
    BY <1>9 DEF Close, close
  <2>2. ASSUME NEW i \in Ops, "ok" \in Outcomes(i)' PROVE i # nextOp
    BY <1>0, <2>1, <2>2 DEF Outcomes
  <2>3. ASSUME NEW i \in Ops, i < nextOp', SameSession(i)', kind'[i] = "close",
               "ok" \in Outcomes(i)'
        PROVE  sock' = "closed"
    <3>1. i < nextOp /\ i # nextOp
      BY <1>0, <1>7, <2>2, <2>3
    <3>2. SameSession(i) /\ kind[i] = "close" /\ "ok" \in Outcomes(i)
      BY <1>2, <1>3, <2>1, <2>3, <3>1 DEF Outcomes
    <3> QED BY <2>1, <3>1, <3>2 DEF ClosedInEnd
  <2> QED BY <1>0, <1>5, <2>1, <2>3 DEF ClosedInEnd
<1>10. CASE ~Connect /\ ~Close
  <2>1. k # "close" /\ (busy(nextOp) \/ m_state = "IDLE")
    BY <1>1, <1>10 DEF Application, Exec, ExecQuery, Prepare, exec, execQuery, parse, start
  <2>2. CASE busy(nextOp)
    <3>1. UNCHANGED <<m_state, m_ehandler, pending, sock>>
      BY <2>2 DEF busy, connVars
    <3>2. ASSUME NEW i \in Ops, i < nextOp', SameSession(i)', kind'[i] = "close"
          PROVE  m_state' = "END" /\ ("ok" \in Outcomes(i)' => sock' = "closed")
      <4>1. i < nextOp /\ i # nextOp
        BY <1>0, <1>2, <1>7, <2>1, <3>2
      <4>2. SameSession(i) /\ kind[i] = "close" /\ calls'[i] = calls[i]
        BY <1>2, <1>3, <1>4, <3>2, <4>1
      <4> QED BY <3>1, <4>1, <4>2 DEF ClosedInEnd, Outcomes
    <3>3. m_ehandler' < nextOp'
      BY <1>0, <3>1
    <3>4. m_ehandler' # 0 /\ kind'[m_ehandler'] = "close" => m_state' = "END"
      BY <1>6, <3>1 DEF ClosedInEnd
    <3> QED BY <1>5, <3>1, <3>2, <3>3, <3>4 DEF ClosedInEnd
  <2>3. CASE m_state = "IDLE"
    <3>1. m_state' # "END" /\ m_ehandler' = nextOp
      BY <1>10, <2>3 DEF Application, Exec, ExecQuery, Prepare, exec, execQuery, parse, busy, start
    <3>2. \A i \in Ops : ~(i < nextOp' /\ SameSession(i)' /\ kind'[i] = "close")
      <4> SUFFICES ASSUME NEW i \in Ops, i < nextOp', SameSession(i)', kind'[i] = "close"
                   PROVE  FALSE
        OBVIOUS
      <4>1. i < nextOp /\ i # nextOp
        BY <1>0, <1>2, <1>7, <2>1
      <4>2. SameSession(i) /\ kind[i] = "close"
        BY <1>2, <1>3, <4>1
      <4> QED BY <2>3, <4>1, <4>2 DEF ClosedInEnd
    <3> QED BY <1>0, <1>2, <1>5, <2>1, <3>1, <3>2 DEF ClosedInEnd
  <2> QED BY <2>1, <2>2, <2>3
<1> QED BY <1>8, <1>9, <1>10

\* A close() that reports success has closed the socket, though it may be called in
\* the middle of another call and take over its callbacks (FSM::close): for every
\* client, server and number of calls.
THEOREM CloseOkMeansClosedAlways == Spec => []CloseOkMeansClosed
<1>1. Init => ClosedInEnd
  BY MaxOpsAssumption DEF Init, ConnectionInit, FSMInit, ClosedInEnd, Ops
<1>2. TypeOK /\ ClosedInEnd /\ [Next]_vars => ClosedInEnd'
  <2> SUFFICES ASSUME TypeOK, ClosedInEnd, [Next]_vars PROVE ClosedInEnd'
    OBVIOUS
  <2>1. CASE UNCHANGED vars
    BY <2>1 DEF vars, connVars, fsmVars, ClosedInEnd, SameSession, Outcomes
  <2>2. CASE Server
    BY <2>2 DEF Server, reply, replyMore, send, accept, crash, fsmVars, ClosedInEnd,
       SameSession, Outcomes
  <2>3. CASE Finished
    BY <2>1, <2>3 DEF Finished
  <2> QED BY <2>1, <2>2, <2>3, TransportClosedInEnd, ApplicationClosedInEnd DEF Next
<1>3. ClosedInEnd => CloseOkMeansClosed
  BY DEF ClosedInEnd, CloseOkMeansClosed
<1> QED BY <1>1, <1>2, <1>3, TypeCorrect, PTL DEF Spec
=============================================================================
