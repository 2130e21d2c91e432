----------------------------- MODULE SyncProofs -----------------------------
(***************************************************************************)
(* When a disciplined client is IDLE, both ends are between requests: no   *)
(* answer of the server is ever taken for the answer to another request.   *)
(***************************************************************************)
EXTENDS ChainProofs

-----------------------------------------------------------------------------
(* The rules of the server.                                                *)

LEMMA SendRules ==
  ASSUME NEW r \in Must \cup May
  PROVE  /\ r[1] \notin {"startup", "gone"}
         /\ r[4] \in Answering => r[1] \in Answering
         /\ r[2] = "ReadyForQuery" => r[1] \in Answering /\ r[4] = "idle"
         /\ r[1] = "idle" => r[2] # "ReadyForQuery" /\ r[4] \in {"idle", "gone"}
<1>1. r[1] \notin {"startup", "gone"}
  BY DEF Must, May
<1>2. r[4] \in Answering => r[1] \in Answering
  BY DEF Must, May, Answering
<1>3. r[2] = "ReadyForQuery" => r[1] \in Answering /\ r[4] = "idle"
  BY DEF Must, May, Answering
<1>4. r[1] = "idle" => r[2] # "ReadyForQuery" /\ r[4] \in {"idle", "gone"}
  BY DEF Must, May
<1> QED BY <1>1, <1>2, <1>3, <1>4

LEMMA AcceptRules ==
  ASSUME NEW r \in Accepts
  PROVE  r[3] # "idle" /\ (r[3] \in Answering => r[2] \in LastWrite)
BY DEF Accepts, Answering, LastWrite

-----------------------------------------------------------------------------
(* The server.                                                             *)

LEMMA SendInStep ==
  ASSUME TypeOK, InStep, NEW r \in Must \cup May, send(r), UNCHANGED m_state
  PROVE  InStep'
<1> DEFINE m == [type |-> r[2], arg |-> r[3], op |-> cur]
<1>0. /\ inbox \in Seq(Message) /\ inbox' = Append(inbox, m)
      /\ phase = r[1] /\ phase' = r[4] /\ alive' = (r[4] # "gone")
      /\ cur' = IF r[4] = "idle" THEN 0 ELSE cur
      /\ UNCHANGED <<pending, writes, outbox>>
      /\ m.type = r[2] /\ m.op = cur
  BY DEF send, TypeOK, ConnectionTypeOK
<1>1. /\ DOMAIN inbox' = 1 .. Len(inbox) + 1 /\ DOMAIN inbox = 1 .. Len(inbox)
      /\ Len(inbox) \in Nat
      /\ \A i \in 1 .. Len(inbox) : inbox'[i] = inbox[i]
      /\ inbox'[Len(inbox) + 1] = m
  <2> HIDE DEF m
  <2> QED BY <1>0
<1>2. Begins'
  BY <1>0, SendRules DEF Begins, InStep
<1>3. ASSUME m_state # "END" PROVE LastWaits' /\ AnswersAlone' /\ ReadyIsLast'
  <2>0. LastWaits /\ AnswersAlone /\ ReadyIsLast
    BY <1>3 DEF InStep
  <2>1. LastWaits' /\ AnswersAlone'
    BY <1>0, <2>0, SendRules DEF LastWaits, AnswersAlone
  <2>2. ASSUME NEW i \in DOMAIN inbox', inbox'[i].type = "ReadyForQuery"
        PROVE  /\ outbox' = <<>> /\ writes' = <<>> /\ phase' \in {"idle", "gone"}
               /\ \A j \in DOMAIN inbox' :
                    j > i => inbox'[j].op = 0 /\ inbox'[j].type # "ReadyForQuery"
    <3>1. CASE i = Len(inbox) + 1
      <4>1. r[2] = "ReadyForQuery"
        BY <1>0, <1>1, <2>2, <3>1
      <4>2. outbox = <<>> /\ writes = <<>> /\ phase' = "idle"
        BY <1>0, <2>0, <4>1, SendRules DEF AnswersAlone
      <4>3. \A j \in DOMAIN inbox' : ~(j > i)
        BY <1>1, <3>1
      <4> QED BY <1>0, <4>2, <4>3
    <3>2. CASE i # Len(inbox) + 1
      <4>0. i \in DOMAIN inbox /\ inbox[i].type = "ReadyForQuery" /\ i \in Nat
        BY <1>1, <2>2, <3>2
      <4>1. /\ outbox = <<>> /\ writes = <<>> /\ phase \in {"idle", "gone"}
            /\ \A j \in DOMAIN inbox :
                 j > i => inbox[j].op = 0 /\ inbox[j].type # "ReadyForQuery"
        BY <2>0, <4>0 DEF ReadyIsLast
      <4>2. r[1] = "idle" /\ r[2] # "ReadyForQuery" /\ r[4] \in {"idle", "gone"} /\ cur = 0
        BY <1>0, <4>1, SendRules DEF InStep
      <4>3. ASSUME NEW j \in DOMAIN inbox', j > i
            PROVE  inbox'[j].op = 0 /\ inbox'[j].type # "ReadyForQuery"
        <5>1. CASE j = Len(inbox) + 1
          BY <1>0, <1>1, <4>2, <5>1
        <5>2. CASE j # Len(inbox) + 1
          <6>1. j \in DOMAIN inbox /\ inbox'[j] = inbox[j]
            BY <1>1, <5>2
          <6> QED BY <4>1, <4>3, <6>1
        <5> QED BY <5>1, <5>2
      <4> QED BY <1>0, <4>1, <4>2, <4>3
    <3> QED BY <3>1, <3>2
  <2> QED BY <2>1, <2>2 DEF ReadyIsLast
<1>4. ASSUME m_state = "IDLE" PROVE AtRest'
  <2>0. AtRest
    BY <1>4 DEF InStep
  <2>1. r[1] = "idle" /\ r[2] # "ReadyForQuery" /\ r[4] \in {"idle", "gone"} /\ cur = 0
    BY <1>0, <2>0, SendRules DEF AtRest, InStep
  <2>2. ASSUME NEW i \in DOMAIN inbox'
        PROVE  inbox'[i].op = 0 /\ inbox'[i].type # "ReadyForQuery"
    <3>1. CASE i = Len(inbox) + 1
      BY <1>0, <1>1, <2>1, <3>1
    <3>2. CASE i # Len(inbox) + 1
      <4>1. i \in DOMAIN inbox /\ inbox'[i] = inbox[i]
        BY <1>1, <3>2
      <4> QED BY <2>0, <4>1 DEF AtRest
    <3> QED BY <3>1, <3>2
  <2> QED BY <1>0, <2>0, <2>1, <2>2 DEF AtRest
<1>5. (alive' => phase' # "gone") /\ (phase' = "idle" => cur' = 0)
  BY <1>0
<1> QED BY <1>0, <1>2, <1>3, <1>4, <1>5 DEF InStep

\* The tail of a sequence, by its positions.
LEMMA TailOf ==
  ASSUME NEW T, NEW s \in Seq(T), s # <<>>
  PROVE  /\ Len(s) \in Nat \ {0} /\ DOMAIN s = 1 .. Len(s) /\ Head(s) = s[1]
         /\ Tail(s) \in Seq(T) /\ Len(Tail(s)) = Len(s) - 1
         /\ DOMAIN Tail(s) = 1 .. Len(s) - 1
         /\ \A i \in DOMAIN Tail(s) : i + 1 \in DOMAIN s /\ Tail(s)[i] = s[i + 1]
OBVIOUS

LEMMA AcceptInStep ==
  ASSUME TypeOK, InStep, accept, UNCHANGED m_state
  PROVE  InStep'
<1>0. /\ outbox # <<>> /\ outbox \in Seq(Request) /\ outbox' = Tail(outbox)
      /\ UNCHANGED <<pending, writes, inbox>>
  BY DEF accept, TypeOK, ConnectionTypeOK
<1>1. PICK r \in Accepts : /\ r[1] = phase /\ r[2] = Head(outbox).type
                           /\ phase' = r[3] /\ alive' = (r[3] # "gone")
  BY DEF accept
<1>2. /\ Len(outbox) \in Nat \ {0} /\ Head(outbox) = outbox[1] /\ 1 \in DOMAIN outbox
      /\ Tail(outbox) \in Seq(Request) /\ Len(Tail(outbox)) = Len(outbox) - 1
      /\ \A i \in DOMAIN Tail(outbox) : i + 1 \in DOMAIN outbox /\ i \in Nat
                                        /\ Tail(outbox)[i] = outbox[i + 1]
  BY <1>0, TailOf
<1>3. pending = "none" /\ m_state # "IDLE"
  BY <1>0 DEF InStep, Begins, AtRest
<1>4. ASSUME m_state # "END" PROVE LastWaits' /\ AnswersAlone' /\ ReadyIsLast'
  <2>0. LastWaits /\ ReadyIsLast
    BY <1>4 DEF InStep
  <2>1. LastWaits'
    BY <1>0, <1>2, <2>0 DEF LastWaits
  <2>2. AnswersAlone'
    <3> SUFFICES ASSUME phase' \in Answering PROVE outbox' = <<>> /\ writes' = <<>>
      BY DEF AnswersAlone
    <3>1. Head(outbox).type \in LastWrite
      BY <1>1, AcceptRules
    <3>2. Len(outbox) = 1 /\ writes = <<>>
      BY <1>2, <2>0, <3>1 DEF LastWaits
    <3>3. Len(Tail(outbox)) = 0
      BY <1>2, <3>2
    <3> QED BY <1>0, <1>2, <3>2, <3>3, EmptySeq, Zenon
  <2>3. ReadyIsLast'
    BY <1>0, <2>0 DEF ReadyIsLast
  <2> QED BY <2>1, <2>2, <2>3
<1>5. phase' # "idle" /\ (alive' => phase' # "gone")
  BY <1>1, AcceptRules
<1> QED BY <1>0, <1>3, <1>4, <1>5 DEF InStep, Begins

LEMMA ServerInStep ==
  ASSUME TypeOK, InStep, Server
  PROVE  InStep'
<1>0. UNCHANGED m_state
  BY DEF Server, fsmVars
<1>1. CASE crash
  BY <1>0, <1>1 DEF crash, InStep, Begins, LastWaits, AnswersAlone, ReadyIsLast, AtRest,
     Answering
<1> QED BY <1>0, <1>1, SendInStep, AcceptInStep DEF Server, reply, replyMore

-----------------------------------------------------------------------------
(* The client.                                                             *)

LEMMA ApplicationInStep ==
  ASSUME TypeOK, OneChain, InStep, Application
  PROVE  InStep'
<1>1. CASE Connect
  BY <1>1 DEF Connect, connect, connectSSL, connectWith, NewConnection, NewSession, InStep,
     Begins, LastWaits, AnswersAlone, ReadyIsLast, Answering
<1>2. CASE (Exec \/ ExecQuery \/ Prepare) /\ busy(nextOp)
  <2>1. UNCHANGED <<m_state, pending, writes, inbox, outbox, alive, phase, cur>>
    BY <1>2 DEF Exec, ExecQuery, Prepare, busy, connVars, backendVars
  <2> QED BY <2>1 DEF InStep, Begins, LastWaits, AnswersAlone, ReadyIsLast, AtRest
<1>3. CASE (Exec \/ ExecQuery \/ Prepare) /\ ~busy(nextOp)
  <2>1. /\ m_state = "IDLE" /\ m_state' # "IDLE"
        /\ UNCHANGED <<pending, inbox, outbox, alive, phase, cur>>
    BY <1>3 DEF Exec, ExecQuery, Prepare, exec, execQuery, parse, start, backendVars
  <2>2. AtRest
    BY <2>1 DEF InStep
  <2>3. LastWaits' /\ AnswersAlone' /\ ReadyIsLast'
    BY <2>1, <2>2 DEF AtRest, LastWaits, AnswersAlone, ReadyIsLast, Answering
  <2> QED BY <2>1, <2>3 DEF InStep, Begins
<1>4. CASE Close
  <2>1. m_state' = "END" /\ UNCHANGED <<pending, inbox, outbox, alive, phase, cur>>
    BY <1>4 DEF Close, close, backendVars
  <2> QED BY <2>1 DEF InStep, Begins
<1> QED BY <1>1, <1>2, <1>3, <1>4 DEF Application

\* A callback that changes neither the requests nor the messages.
LEMMA NothingMoved ==
  ASSUME InStep, UNCHANGED <<m_state, writes, inbox, outbox, alive, phase, cur>>,
         pending' \in {pending, "none"}
  PROVE  InStep'
BY DEF InStep, Begins, LastWaits, AnswersAlone, ReadyIsLast, AtRest

LEMMA WrittenInStep ==
  ASSUME TypeOK, OneChain, InStep, written \/ writeFailed, UNCHANGED backendVars
  PROVE  InStep'
<1>0. /\ writes # <<>> /\ Tail(writes) = <<>> /\ pending = "none" /\ m_state # "IDLE"
      /\ UNCHANGED <<m_state, pending, inbox, alive, phase, cur>>
  <2>1. writes # <<>> /\ UNCHANGED <<m_state, pending, inbox, alive, phase, cur>>
    BY DEF written, Transmitted, writeFailed, backendVars
  <2> QED BY <2>1, LastOne DEF OneChain, SingleChain, NoneOutstanding
<1> SUFFICES ASSUME m_state # "END" PROVE LastWaits' /\ AnswersAlone' /\ ReadyIsLast'
  BY <1>0 DEF InStep, Begins
<1>1. /\ phase \notin Answering
      /\ \A i \in DOMAIN inbox : inbox[i].type # "ReadyForQuery"
      /\ \A i \in DOMAIN outbox : outbox[i].type \notin LastWrite
  BY <1>0 DEF InStep, AnswersAlone, ReadyIsLast, LastWaits
<1>2. AnswersAlone' /\ ReadyIsLast'
  BY <1>0, <1>1 DEF AnswersAlone, ReadyIsLast
<1>3. CASE outbox' = outbox
  BY <1>1, <1>2, <1>3 DEF LastWaits
<1>4. CASE written /\ outbox' = Append(outbox, Head(writes))
  <2>1. Head(writes).type \in LastWrite => writes' = <<>>
    <3>1. LastWrite \cap DOMAIN NextWrite = {}
      BY DEF LastWrite, NextWrite
    <3> QED BY <1>0, <1>4, <3>1, Zenon DEF written
  <2>2. outbox \in Seq(Request) /\ Len(outbox) \in Nat
    BY DEF TypeOK, ConnectionTypeOK
  <2>3. /\ Len(outbox') = Len(outbox) + 1 /\ DOMAIN outbox' = 1 .. Len(outbox) + 1
        /\ outbox'[Len(outbox) + 1] = Head(writes)
        /\ \A i \in 1 .. Len(outbox) : i \in DOMAIN outbox /\ outbox'[i] = outbox[i]
    BY <1>4, <2>2
  <2>4. ASSUME NEW i \in DOMAIN outbox', outbox'[i].type \in LastWrite
        PROVE  i = Len(outbox') /\ writes' = <<>>
    <3>1. i = Len(outbox) + 1
      BY <1>1, <2>2, <2>3, <2>4
    <3>2. Head(writes).type \in LastWrite
      BY <2>3, <2>4, <3>1
    <3> QED BY <2>1, <2>3, <3>1, <3>2
  <2> QED BY <1>2, <2>4 DEF LastWaits
<1>5. outbox' = outbox \/ (written /\ outbox' = Append(outbox, Head(writes)))
  BY DEF written, Transmitted, writeFailed
<1> QED BY <1>3, <1>4, <1>5

LEMMA ReadInStep ==
  ASSUME TypeOK, OneChain, InStep, bodyRead, UNCHANGED backendVars
  PROVE  InStep'
<1>0. /\ next(Head(inbox), Tail(reads)) /\ inbox # <<>> /\ inbox \in Seq(Message)
      /\ inbox' = Tail(inbox) /\ UNCHANGED <<pending, outbox, alive, phase, cur>>
      /\ m_state \notin {"IDLE", "END"} /\ pending = "none"
  BY DEF bodyRead, BodyArrived, backendVars, TypeOK, ConnectionTypeOK, OneChain, SingleChain,
     NoneOutstanding
<1>1. /\ Len(inbox) \in Nat /\ Head(inbox) = inbox[1] /\ 1 \in DOMAIN inbox
      /\ \A i \in DOMAIN Tail(inbox) : /\ i + 1 \in DOMAIN inbox /\ i \in Nat \ {0}
                                       /\ Tail(inbox)[i] = inbox[i + 1]
  BY <1>0, TailOf
<1>2. Head(inbox).arg # "md5"
  BY <1>1 DEF OneChain, NoMD5
<1>3. /\ writes' = writes
      /\ m_state' # "END"
      /\ m_state' = "IDLE" => readyForQuery(Head(inbox), Tail(reads))
  BY <1>0, <1>2, NextCases DEF throw, authenticate, authError, readyForQuery, dataRow,
     rowDescription, query_error
<1>4. LastWaits /\ AnswersAlone /\ ReadyIsLast
  BY <1>0 DEF InStep
<1>5. LastWaits' /\ AnswersAlone'
  BY <1>0, <1>3, <1>4 DEF LastWaits, AnswersAlone
<1>6. ReadyIsLast'
  <2> SUFFICES ASSUME NEW i \in DOMAIN inbox', inbox'[i].type = "ReadyForQuery"
      PROVE  /\ outbox' = <<>> /\ writes' = <<>> /\ phase' \in {"idle", "gone"}
             /\ \A j \in DOMAIN inbox' :
                  j > i => inbox'[j].op = 0 /\ inbox'[j].type # "ReadyForQuery"
    BY DEF ReadyIsLast
  <2>1. /\ i + 1 \in DOMAIN inbox /\ inbox[i + 1].type = "ReadyForQuery" /\ i \in Nat
    BY <1>0, <1>1
  <2>2. /\ outbox = <<>> /\ writes = <<>> /\ phase \in {"idle", "gone"}
        /\ \A j \in DOMAIN inbox :
             j > i + 1 => inbox[j].op = 0 /\ inbox[j].type # "ReadyForQuery"
    BY <1>4, <2>1 DEF ReadyIsLast
  <2>3. ASSUME NEW j \in DOMAIN inbox', j > i
        PROVE  inbox'[j].op = 0 /\ inbox'[j].type # "ReadyForQuery"
    <3>1. j + 1 \in DOMAIN inbox /\ inbox'[j] = inbox[j + 1] /\ j + 1 > i + 1
      BY <1>0, <1>1, <2>1, <2>3
    <3> QED BY <2>2, <3>1
  <2> QED BY <1>0, <1>3, <2>2, <2>3
<1>7. ASSUME m_state' = "IDLE" PROVE AtRest'
  <2>1. Head(inbox).type = "ReadyForQuery"
    <3>1. \A r \in m_state_table : r[3] \in {"readyForQuery"} => r[2] = "ReadyForQuery"
      BY DEF m_state_table
    <3> QED BY <1>0, <1>2, <1>7, <3>1 DEF next, Rows, throw, receive, authenticate,
            authError, backendKeyData, parameterStatus, rowDescription, dataRow,
            commandComplete, parseComplete, bindComplete, parameterDescription,
            noticeResponse, query_error
  <2>2. /\ outbox = <<>> /\ phase \in {"idle", "gone"}
        /\ \A j \in DOMAIN inbox :
             j > 1 => inbox[j].op = 0 /\ inbox[j].type # "ReadyForQuery"
    BY <1>1, <1>4, <2>1 DEF ReadyIsLast
  <2>3. ASSUME NEW j \in DOMAIN inbox'
        PROVE  inbox'[j].op = 0 /\ inbox'[j].type # "ReadyForQuery"
    <3>1. j + 1 \in DOMAIN inbox /\ inbox'[j] = inbox[j + 1] /\ j + 1 > 1
      BY <1>0, <1>1, <2>3
    <3> QED BY <2>2, <3>1
  <2> QED BY <1>0, <2>2, <2>3 DEF AtRest
<1> QED BY <1>0, <1>3, <1>5, <1>6, <1>7 DEF InStep, Begins

LEMMA TransportInStep ==
  ASSUME TypeOK, OneChain, InStep, Transport
  PROVE  InStep'
<1>0. UNCHANGED backendVars /\ UNCHANGED <<phase, cur>>
  BY DEF Transport, backendVars
<1>1. CASE connectFailed \/ headerRead \/ headerGarbled \/ readFailed
  BY <1>0, <1>1, NothingMoved DEF connectFailed, headerRead, headerGarbled, readFailed, fsmVars
<1>2. CASE sslStep
  BY <1>0, <1>2 DEF sslStep, NextSSLStep, fsmVars, InStep, Begins, LastWaits, AnswersAlone,
     ReadyIsLast, AtRest
<1>3. CASE connected
  <2>1. /\ phase \in {"startup", "gone"} /\ outbox = <<>> /\ inbox = <<>> /\ m_state # "IDLE"
        /\ pending' = "none" /\ UNCHANGED <<m_state, inbox, outbox, alive>>
    BY <1>3 DEF connected, fsmVars, InStep, Begins, OneChain, SingleChain, NoneOutstanding
  <2> QED BY <1>0, <2>1 DEF InStep, Begins, LastWaits, AnswersAlone, ReadyIsLast, Answering
<1> QED BY <1>0, <1>1, <1>2, <1>3, WrittenInStep, ReadInStep DEF Transport

\* The invariant: client and server go through a session in step.
THEOREM InStepAlways == Disciplined /\ Spec => []InStep
<1>1. Init => InStep
  BY DEF Init, ConnectionInit, FSMInit, BackendInit, InStep, Begins, LastWaits, AnswersAlone,
     ReadyIsLast, Answering
<1>2. ASSUME TypeOK, OneChain, InStep, [Next]_vars PROVE InStep'
  <2>1. CASE UNCHANGED vars
    BY <1>2, <2>1, NothingMoved DEF vars, connVars, fsmVars, backendVars
  <2>2. CASE Finished
    BY <2>1, <2>2 DEF Finished
  <2> QED BY <1>2, <2>1, <2>2, ApplicationInStep, TransportInStep, ServerInStep DEF Next
<1> QED BY <1>1, <1>2, TypeCorrect, OneChainAlways, PTL DEF Spec

\* A machine in IDLE, the only state in which exec() and parse() take a call, and
\* its server are both between requests: for a disciplined client, any number of
\* calls, and whatever else the server does, crashes and escaped exceptions included.
THEOREM SynchronisedAlways == Disciplined /\ Spec => []Synchronised
<1>1. OneChain /\ InStep => Synchronised
  BY DEF OneChain, SingleChain, HalfRead, InStep, AtRest, Synchronised, Quiet
<1> QED BY <1>1, InStepAlways, OneChainAlways, PTL
=============================================================================
