---------------------------- MODULE ResultProofs ----------------------------
(***************************************************************************)
(* A ResultSet gets the answer to its own call, and nothing once the call  *)
(* is answered, for a disciplined client that prepares nothing.            *)
(***************************************************************************)
EXTENDS SyncProofs

-----------------------------------------------------------------------------
(* The ResultSet the machine points to.                                    *)

\* What next() leaves of the variables Home is about.
LEMMA NextKeepsState ==
  ASSUME NEW m, NEW rs, next(m, rs)
  PROVE  m_state' \in {m_state, "AUTH", "CONN", "IDLE"}
BY NextCases DEF authenticate, authError, readyForQuery, dataRow, rowDescription, query_error

LEMMA HomeStep ==
  ASSUME OneChain, Unprepared, Home, [Next]_vars
  PROVE  Home'
<1>1. CASE UNCHANGED vars \/ Server \/ Finished
  BY <1>1 DEF vars, fsmVars, Server, Finished, Home
<1>2. CASE Application
  <2>1. CASE Connect
    BY <2>1 DEF Connect, connect, connectSSL, connectWith, Home
  <2>2. CASE Exec \/ ExecQuery
    BY <2>2 DEF Exec, ExecQuery, exec, execQuery, busy, start, Home
  <2>3. CASE Close
    BY <2>3 DEF Close, close, Home
  <2>4. ~Prepare
    BY DEF Prepare, Call, Unprepared
  <2> QED BY <1>2, <2>1, <2>2, <2>3, <2>4 DEF Application
<1>3. CASE Transport
  <2>1. CASE bodyRead
    <3>1. UNCHANGED <<m_result, m_ehandler>> /\ next(Head(inbox), Tail(reads))
          /\ m_state \notin {"IDLE", "END"}
      BY <2>1 DEF bodyRead, BodyArrived, OneChain, SingleChain, NoneOutstanding
    <3> QED BY <3>1, NextKeepsState DEF Home
  <2>2. CASE ~bodyRead
    BY <1>3, <2>2 DEF Transport, sslStep, connected, connectFailed, written, writeFailed,
       headerRead, headerGarbled, readFailed, fsmVars, Home
  <2> QED BY <2>1, <2>2
<1> QED BY <1>1, <1>2, <1>3 DEF Next

\* While the machine works for a call, m_result is the ResultSet of that call.
THEOREM HomeAlways == Unprepared /\ Spec => []Home
<1>1. Init => Home
  BY DEF Init, FSMInit, Home
<1>2. Unprepared => Disciplined /\ []Unprepared
  BY DEF Unprepared
<1>3. OneChain /\ Unprepared /\ Home /\ [Next]_vars => Home'
  BY HomeStep
<1> QED BY <1>1, <1>2, <1>3, OneChainAlways, PTL DEF Spec

\* Only a callback that reads a message adds to a ResultSet, and only to that of
\* the call it works for.
LEMMA AddsAtHome ==
  ASSUME TypeOK, OneChain, Home, [Next]_vars, results' # results
  PROVE  /\ bodyRead /\ m_ehandler \in Ops /\ calls[m_ehandler] = <<>> /\ inbox # <<>>
         /\ results' = [results EXCEPT ![m_ehandler] = Append(@, Head(inbox))]
<1>1. bodyRead
  BY DEF Next, vars, fsmVars, Application, Connect, connect, connectSSL, connectWith, Exec,
     ExecQuery, Prepare, Close, exec, execQuery, parse, close, busy, start, Transport, sslStep,
     connected, connectFailed, written, writeFailed, headerRead, headerGarbled, readFailed,
     Server, Finished
<1>2. next(Head(inbox), Tail(reads)) /\ inbox # <<>> /\ reads # <<>>
  BY <1>1 DEF bodyRead, BodyArrived
<1>3. m_state \notin {"IDLE", "END"} /\ m_ehandler \in Ops /\ calls[m_ehandler] = <<>>
  BY <1>2 DEF OneChain, SingleChain, Unanswered, NoneOutstanding
<1>4. addResult(Head(inbox))
  BY <1>2, NextCases DEF authenticate, authError, readyForQuery, dataRow, rowDescription,
     query_error
<1>5. m_result = m_ehandler
  BY <1>3, <1>4 DEF Home, addResult
<1> QED BY <1>1, <1>2, <1>3, <1>4, <1>5 DEF addResult, Ops

\* Nothing is added to a ResultSet once the handler of its call has run.
THEOREM NoLateResultAlways == Unprepared /\ Spec => NoLateResult
<1>1. ASSUME TypeOK, OneChain, Home, [Next]_vars
      PROVE  [\A i \in Ops : calls[i] # <<>> => results'[i] = results[i]]_vars
  <2> SUFFICES ASSUME NEW i \in Ops, calls[i] # <<>>, results' # results
               PROVE  results'[i] = results[i]
    OBVIOUS
  <2>1. i # m_ehandler /\ results \in [Ops -> Seq(Message)]
    BY <1>1, AddsAtHome DEF TypeOK, FSMTypeOK
  <2> QED BY <1>1, <2>1, AddsAtHome
<1>2. Unprepared => Disciplined
  BY DEF Unprepared
<1> QED BY <1>1, <1>2, TypeCorrect, OneChainAlways, HomeAlways, PTL DEF Spec, NoLateResult

-----------------------------------------------------------------------------
(* What is under way belongs to the call the machine works for.            *)

Serving == {"stmt", "rows", "more", "execRows"}

LEMMA ServingRules ==
  ASSUME NEW r \in Must \cup May
  PROVE  /\ r[4] \in Serving => r[1] \in Serving
         /\ r[2] = "DataRow" => r[1] \in Serving
         /\ r[1] # "gone"
<1>1. r[4] \in Serving => r[1] \in Serving
  BY DEF Must, May, Serving
<1>2. r[2] = "DataRow" => r[1] \in Serving
  BY DEF Must, May, Serving
<1>3. r[1] # "gone"
  BY SendRules
<1> QED BY <1>1, <1>2, <1>3

LEMMA SendOwned ==
  ASSUME TypeOK, Owned, NEW r \in Must \cup May, send(r), UNCHANGED <<m_state, m_ehandler>>
  PROVE  Owned'
<1> SUFFICES ASSUME m_state # "END" PROVE Owned'
  BY DEF Owned
<1> DEFINE m == [type |-> r[2], arg |-> r[3], op |-> cur]
<1>0. /\ inbox \in Seq(Message) /\ inbox' = Append(inbox, m)
      /\ phase = r[1] /\ phase' = r[4]
      /\ cur' = IF r[4] = "idle" THEN 0 ELSE cur
      /\ UNCHANGED <<writes, outbox>>
      /\ m.type = r[2] /\ m.op = cur
  BY DEF send, TypeOK, ConnectionTypeOK
<1>1. /\ DOMAIN inbox' = 1 .. Len(inbox) + 1 /\ DOMAIN inbox = 1 .. Len(inbox)
      /\ Len(inbox) \in Nat
      /\ \A i \in 1 .. Len(inbox) : inbox'[i] = inbox[i]
      /\ inbox'[Len(inbox) + 1] = m
  <2> HIDE DEF m
  <2> QED BY <1>0
<1>2. cur \in {0, m_ehandler} /\ (phase \in Serving => cur # 0)
  BY <1>0, ServingRules DEF Owned, Serving
<1>3. m.op \in {0, m_ehandler} /\ (m.type = "DataRow" => m.op # 0)
  BY <1>0, <1>2, ServingRules
<1>4. ASSUME NEW i \in DOMAIN inbox'
      PROVE  inbox'[i].op \in {0, m_ehandler} /\ (inbox'[i].type = "DataRow" => inbox'[i].op # 0)
  <2> HIDE DEF m
  <2>1. CASE i = Len(inbox) + 1
    BY <1>1, <1>3, <2>1
  <2>2. CASE i # Len(inbox) + 1
    <3>1. i \in DOMAIN inbox /\ inbox'[i] = inbox[i]
      BY <1>1, <2>2
    <3> QED BY <3>1 DEF Owned
  <2> QED BY <2>1, <2>2
<1>5. cur' \in {0, m_ehandler} /\ (phase' \in Serving => cur' # 0)
  BY <1>0, <1>2, ServingRules DEF Serving
<1> QED BY <1>0, <1>4, <1>5 DEF Owned, Serving

LEMMA ServerOwned ==
  ASSUME TypeOK, Owned, Server
  PROVE  Owned'
<1>0. UNCHANGED <<m_state, m_ehandler>>
  BY DEF Server, fsmVars
<1>1. CASE crash
  BY <1>0, <1>1 DEF crash, Owned
<1>2. CASE accept
  <2>1. /\ outbox # <<>> /\ outbox \in Seq(Request) /\ outbox' = Tail(outbox)
        /\ UNCHANGED <<writes, inbox>> /\ cur' = Head(outbox).op
    BY <1>2 DEF accept, TypeOK, ConnectionTypeOK
  <2>2. /\ Head(outbox) = outbox[1] /\ 1 \in DOMAIN outbox
        /\ \A i \in DOMAIN Tail(outbox) : i + 1 \in DOMAIN outbox
                                          /\ Tail(outbox)[i] = outbox[i + 1]
    BY <2>1, TailOf
  <2>3. m_state # "END" => cur' = m_ehandler /\ m_ehandler # 0
    BY <2>1, <2>2 DEF Owned
  <2>4. m_state # "END" => \A i \in DOMAIN outbox' : outbox'[i].op = m_ehandler
    BY <2>1, <2>2 DEF Owned
  <2> QED BY <1>0, <2>1, <2>3, <2>4 DEF Owned
<1> QED BY <1>0, <1>1, <1>2, SendOwned DEF Server, reply, replyMore

LEMMA ApplicationOwned ==
  ASSUME TypeOK, OneChain, InStep, Owned, Application
  PROVE  Owned'
<1>0. nextOp \in Ops /\ nextOp # 0
  BY MaxOpsAssumption
     DEF Application, Connect, Exec, ExecQuery, Prepare, Close, Call, Ops
<1>1. CASE Connect
  BY <1>1 DEF Connect, connect, connectSSL, connectWith, NewConnection, NewSession, Owned
<1>2. CASE (Exec \/ ExecQuery \/ Prepare) /\ busy(nextOp)
  <2>1. UNCHANGED <<m_state, m_ehandler, writes, inbox, outbox, phase, cur>>
    BY <1>2 DEF Exec, ExecQuery, Prepare, busy, connVars, backendVars
  <2> QED BY <2>1 DEF Owned
<1>3. CASE (Exec \/ ExecQuery \/ Prepare) /\ ~busy(nextOp)
  <2>1. /\ m_state = "IDLE" /\ m_ehandler' = nextOp /\ UNCHANGED <<inbox, outbox, phase, cur>>
        /\ \E t, eh : Write(writes, t, nextOp, eh)
    BY <1>3, Zenon DEF Exec, ExecQuery, Prepare, exec, execQuery, parse, start, backendVars
  <2>2. AtRest /\ writes = <<>> /\ (phase = "idle" => cur = 0)
    BY <2>1 DEF InStep, OneChain, SingleChain, NoneOutstanding
  <2>3. PICK t, eh : Write(<<>>, t, nextOp, eh)
    BY <2>1, <2>2, Zenon
  <2>4. writes' = <<[type |-> t, op |-> nextOp, eh |-> eh]>>
    BY <2>3 DEF Write
  <2>5. \A i \in DOMAIN writes' : writes'[i].op = nextOp
    BY <2>4
  <2>6. \A i \in DOMAIN inbox : inbox[i].op = 0 /\ inbox[i].type # "DataRow"
    BY <2>1, <2>2 DEF AtRest, Owned
  <2> QED BY <1>0, <2>1, <2>2, <2>5, <2>6 DEF Owned, AtRest
<1>4. CASE Close
  BY <1>4 DEF Close, close, Owned
<1> QED BY <1>1, <1>2, <1>3, <1>4 DEF Application

\* A write for the call the machine works for.
LEMMA WriteOwned ==
  ASSUME NEW t, NEW op, NEW eh, Write(<<>>, t, op, eh)
  PROVE  \A i \in DOMAIN writes' : writes'[i].op = op
<1>1. writes' = <<[type |-> t, op |-> op, eh |-> eh]>>
  BY DEF Write
<1> QED BY <1>1

LEMMA TransportOwned ==
  ASSUME TypeOK, OneChain, Owned, Transport
  PROVE  Owned'
<1>0. UNCHANGED <<phase, cur>>
  BY DEF Transport, backendVars
<1>1. CASE sslStep \/ connectFailed \/ headerRead \/ headerGarbled \/ readFailed
  BY <1>0, <1>1 DEF sslStep, connectFailed, headerRead, headerGarbled, readFailed, fsmVars,
     Owned
<1>2. CASE connected
  <2>1. /\ UNCHANGED <<m_state, m_ehandler, inbox, outbox>> /\ writes = <<>>
        /\ m_ehandler # 0 /\ \E eh : Write(writes, "StartUp", m_ehandler, eh)
    <3>1. pending # "none"
      BY <1>2 DEF connected
    <3>2. writes = <<>> /\ m_ehandler # 0
      BY <3>1, LastOne, MaxOpsAssumption DEF OneChain, Unanswered, NoneOutstanding, Ops
    <3> QED BY <1>2, <3>2, Zenon DEF connected, fsmVars
  <2>2. \A i \in DOMAIN writes' : writes'[i].op = m_ehandler
    BY <2>1, WriteOwned
  <2> QED BY <1>0, <2>1, <2>2 DEF Owned
<1>3. CASE written \/ writeFailed
  <2>0. /\ writes # <<>> /\ Tail(writes) = <<>> /\ UNCHANGED <<m_state, m_ehandler, inbox>>
        /\ writes \in Seq(Request) /\ outbox \in Seq(Request)
    BY <1>3, LastOne DEF written, Transmitted, writeFailed, TypeOK, ConnectionTypeOK
  <2> SUFFICES ASSUME m_state # "END" PROVE Owned'
    BY <2>0 DEF Owned
  <2>1. Head(writes).op = m_ehandler /\ m_ehandler # 0
    BY <2>0 DEF Owned
  <2>2. writes' = <<>> \/ \E t, eh : Write(<<>>, t, m_ehandler, eh)
    BY <1>3, <2>0, <2>1, Zenon DEF written, writeFailed
  <2>3. \A i \in DOMAIN writes' : writes'[i].op = m_ehandler
    <3>1. CASE writes' = <<>>
      BY <3>1
    <3> QED BY <2>2, <3>1, WriteOwned
  <2>4. outbox' = outbox \/ outbox' = Append(outbox, Head(writes))
    BY <1>3 DEF written, Transmitted, writeFailed
  <2>5. \A i \in DOMAIN outbox' : outbox'[i].op = m_ehandler
    <3>1. CASE outbox' = outbox
      BY <3>1 DEF Owned
    <3>2. CASE outbox' = Append(outbox, Head(writes))
      <4>1. /\ DOMAIN outbox' = 1 .. Len(outbox) + 1 /\ outbox'[Len(outbox) + 1] = Head(writes)
            /\ \A i \in 1 .. Len(outbox) : i \in DOMAIN outbox /\ outbox'[i] = outbox[i]
        BY <2>0, <3>2
      <4>2. Len(outbox) \in Nat /\ \A i \in DOMAIN outbox : outbox[i].op = m_ehandler
        BY <2>0 DEF Owned
      <4> QED BY <2>1, <4>1, <4>2
    <3> QED BY <2>4, <3>1, <3>2
  <2> QED BY <1>0, <2>0, <2>1, <2>3, <2>5 DEF Owned
<1>4. CASE bodyRead
  <2>1. /\ inbox # <<>> /\ inbox \in Seq(Message) /\ inbox' = Tail(inbox)
        /\ UNCHANGED <<m_ehandler, outbox>> /\ next(Head(inbox), Tail(reads))
        /\ m_state # "END" /\ writes = <<>>
    BY <1>4 DEF bodyRead, BodyArrived, TypeOK, ConnectionTypeOK, OneChain, SingleChain
  <2>2. Head(inbox).arg # "md5"
    BY <2>1 DEF OneChain, NoMD5
  <2>3. writes' = writes
    BY <2>1, <2>2, NextCases DEF authenticate, authError, readyForQuery, dataRow,
       rowDescription, query_error
  <2>4. \A i \in DOMAIN Tail(inbox) : i + 1 \in DOMAIN inbox /\ Tail(inbox)[i] = inbox[i + 1]
    BY <2>1, TailOf
  <2> QED BY <1>0, <2>1, <2>3, <2>4 DEF Owned
<1> QED BY <1>1, <1>2, <1>3, <1>4 DEF Transport

\* What is under way in either direction belongs to the call the machine works for.
THEOREM OwnedAlways == Disciplined /\ Spec => []Owned
<1>1. Init => Owned
  BY DEF Init, ConnectionInit, FSMInit, BackendInit, Owned
<1>2. ASSUME TypeOK, OneChain, InStep, Owned, [Next]_vars PROVE Owned'
  <2>1. CASE UNCHANGED vars
    BY <1>2, <2>1 DEF vars, connVars, fsmVars, backendVars, Owned
  <2>2. CASE Finished
    BY <2>1, <2>2 DEF Finished
  <2> QED BY <1>2, <2>1, <2>2, ApplicationOwned, TransportOwned, ServerOwned DEF Next
<1> QED BY <1>1, <1>2, TypeCorrect, OneChainAlways, InStepAlways, PTL DEF Spec

-----------------------------------------------------------------------------
\* When the machine handles a row, m_result points to the ResultSet of the call the
\* row was sent for: dataRow() meets neither nullptr nor another call's.
THEOREM RowHasHomeAlways == Unprepared /\ Spec => []RowHasHome
<1>1. ASSUME TypeOK, Home, Owned PROVE RowHasHome
  <2> SUFFICES ASSUME BodyArrived, Head(inbox).type = "DataRow", m_state \in {"QUERY", "EQUERY"}
               PROVE  m_result # 0 /\ m_result = Head(inbox).op
    BY DEF RowHasHome
  <2>1. inbox # <<>> /\ inbox \in Seq(Message)
    BY <1>1 DEF BodyArrived, TypeOK, ConnectionTypeOK
  <2>2. Head(inbox) = inbox[1] /\ 1 \in DOMAIN inbox
    BY <2>1, TailOf
  <2> QED BY <1>1, <2>2 DEF Home, Owned
<1>2. Unprepared => Disciplined
  BY DEF Unprepared
<1> QED BY <1>1, <1>2, TypeCorrect, HomeAlways, OwnedAlways, PTL

\* A ResultSet never holds what the server sent for another call.
THEOREM ResultIsolationAlways == Unprepared /\ Spec => []ResultIsolation
<1>1. Init => ResultIsolation
  BY DEF Init, FSMInit, ResultIsolation
<1>2. ASSUME TypeOK, OneChain, Home, Owned, ResultIsolation, [Next]_vars
      PROVE  ResultIsolation'
  <2>1. CASE results' = results
    BY <1>2, <2>1 DEF ResultIsolation
  <2>2. CASE results' # results
    <3>1. /\ m_ehandler \in Ops /\ inbox # <<>> /\ m_state # "END"
          /\ results' = [results EXCEPT ![m_ehandler] = Append(@, Head(inbox))]
          /\ results \in [Ops -> Seq(Message)] /\ inbox \in Seq(Message)
      BY <1>2, <2>2, AddsAtHome DEF bodyRead, BodyArrived, OneChain, SingleChain, TypeOK,
         FSMTypeOK, ConnectionTypeOK
    <3>2. Head(inbox).op \in {0, m_ehandler}
      <4>1. Head(inbox) = inbox[1] /\ 1 \in DOMAIN inbox
        BY <3>1, TailOf
      <4> QED BY <1>2, <3>1, <4>1 DEF Owned
    <3>3. ASSUME NEW i \in Ops, NEW j \in DOMAIN results'[i]
          PROVE  results'[i][j].op \in {0, i}
      <4>1. CASE i # m_ehandler
        BY <1>2, <3>1, <3>3, <4>1 DEF ResultIsolation
      <4>2. CASE i = m_ehandler
        <5> DEFINE old == results[i]
        <5>1. results'[i] = Append(old, Head(inbox)) /\ old \in Seq(Message)
          BY <3>1, <4>2
        <5> HIDE DEF old
        <5>2. /\ DOMAIN results'[i] = 1 .. Len(old) + 1 /\ DOMAIN old = 1 .. Len(old)
              /\ Len(old) \in Nat /\ results'[i][Len(old) + 1] = Head(inbox)
              /\ \A k \in 1 .. Len(old) : results'[i][k] = old[k]
          BY <5>1
        <5>3. \A k \in DOMAIN old : old[k].op \in {0, i}
          BY <1>2 DEF ResultIsolation, old
        <5> QED BY <3>2, <3>3, <4>2, <5>2, <5>3
      <4> QED BY <4>1, <4>2
    <3> QED BY <3>3 DEF ResultIsolation
  <2> QED BY <2>1, <2>2
<1>3. Unprepared => Disciplined
  BY DEF Unprepared
<1> QED BY <1>1, <1>2, <1>3, TypeCorrect, OneChainAlways, HomeAlways, OwnedAlways, PTL
        DEF Spec
=============================================================================
