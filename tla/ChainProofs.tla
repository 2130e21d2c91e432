---------------------------- MODULE ChainProofs ----------------------------
(***************************************************************************)
(* OneChain is an invariant of every disciplined client, and with it the   *)
(* contract of the stream, one answer for each call, the framing of the    *)
(* messages and the absence of messages in a state that has no row.        *)
(***************************************************************************)
EXTENDS ClientProofs

\* How a callback leaves the answers: untouched, or with the one answer to the
\* call of the chain, which then is over.
Ending ==
  \/ calls' = calls
  \/ /\ NoneOutstanding'
     /\ \E out \in Outcome : calls' = [calls EXCEPT ![m_ehandler] = <<out>>]

\* A callback of a chain with no answer yet leaves at most one.
LEMMA EndingKeeps ==
  ASSUME TypeOK, Unanswered, HandlerOnce, ~NoneOutstanding,
         UNCHANGED <<m_ehandler, nextOp>>, Ending
  PROVE  Unanswered' /\ HandlerOnce'
<1>0. /\ calls \in [Ops -> Seq(Outcome)]
      /\ m_ehandler \in Ops /\ m_ehandler < nextOp /\ calls[m_ehandler] = <<>>
      /\ \A i \in Ops : i >= nextOp => calls[i] = <<>>
      /\ m_ehandler \in Nat /\ nextOp \in Nat
  BY MaxOpsAssumption DEF TypeOK, FSMTypeOK, Unanswered, Ops
<1>1. CASE calls' = calls
  BY <1>0, <1>1 DEF Unanswered, HandlerOnce
<1>2. CASE /\ NoneOutstanding'
           /\ \E out \in Outcome : calls' = [calls EXCEPT ![m_ehandler] = <<out>>]
  <2>1. PICK out \in Outcome : calls' = [calls EXCEPT ![m_ehandler] = <<out>>]
    BY <1>2
  <2>2. \A i \in Ops : i # m_ehandler => calls'[i] = calls[i]
    BY <1>0, <2>1
  <2>3. calls'[m_ehandler] = <<out>>
    BY <1>0, <2>1
  <2>4. Unanswered'
    BY <1>0, <1>2, <2>2 DEF Unanswered, Ops
  <2>5. HandlerOnce'
    <3> SUFFICES ASSUME NEW i \in Ops PROVE Len(calls'[i]) <= 1
      BY DEF HandlerOnce
    <3>1. CASE i = m_ehandler
      <4>1. Len(calls'[i]) = Len(<<out>>)
        BY <2>3, <3>1, Zenon
      <4>2. Len(<<out>>) = 1
        OBVIOUS
      <4> QED BY <4>1, <4>2
    <3>2. CASE i # m_ehandler
      BY <2>2, <3>2 DEF HandlerOnce
    <3> QED BY <3>1, <3>2
  <2> QED BY <2>4, <2>5
<1> QED BY <1>1, <1>2 DEF Ending

\* receive() on a stream with nothing outstanding.
LEMMA ReceiveOnce ==
  ASSUME receive(<<>>)
  PROVE  /\ reads' = <<"header">>
         /\ UNCHANGED <<deferred, raised, calls>>
BY DEF receive

\* A write on a stream with no other one.
LEMMA WriteOnce ==
  ASSUME NEW t, NEW op, NEW eh, Write(<<>>, t, op, eh)
  PROVE  Len(writes') = 1
BY DEF Write

\* m_ehandler called at the end of the only chain.
LEMMA NotifyOnce ==
  ASSUME TypeOK, OneChain, ~NoneOutstanding, NEW out \in Outcome,
         notify(out, <<>>)
  PROVE  /\ reads' = <<>>
         /\ UNCHANGED <<deferred, raised>>
         /\ calls' = [calls EXCEPT ![m_ehandler] = <<out>>]
<1>1. deferred = 0 /\ m_ehandler \in Ops /\ calls[m_ehandler] = <<>>
  BY DEF OneChain, SingleChain, Unanswered
<1>2. Append(calls[m_ehandler], out) = <<out>>
  BY <1>1
<1>3. calls' = [calls EXCEPT ![m_ehandler] = Append(calls[m_ehandler], out)]
  BY DEF notify
<1> QED BY <1>1, <1>2, <1>3 DEF notify

\* An exception at the end of the only chain.
LEMMA ThrowOnce ==
  ASSUME OneChain, NEW e, throw(e, <<>>)
  PROVE  /\ reads' = <<>> /\ raised' = raised \cup {e}
         /\ UNCHANGED <<deferred, calls>>
BY DEF throw, OneChain, SingleChain

\* With at most one read and one write, completing one leaves none.
LEMMA LastOne ==
  ASSUME TypeOK, OneChain
  PROVE  /\ reads # <<>> => Tail(reads) = <<>> /\ reads[1] = Head(reads)
         /\ writes # <<>> => Tail(writes) = <<>> /\ reads = <<>> /\ pending = "none"
         /\ pending # "none" => reads = <<>> /\ writes = <<>>
<1>1. reads \in {<<>>, <<"header">>, <<"body">>}
  BY DEF OneChain, SingleChain
<1>2. reads # <<>> => Tail(reads) = <<>> /\ reads[1] = Head(reads)
  <2>1. CASE reads = <<>>
    BY <2>1
  <2>2. CASE reads = <<"header">>
    BY <2>2
  <2>3. CASE reads = <<"body">>
    BY <2>3
  <2> QED BY <1>1, <2>1, <2>2, <2>3
<1>3. writes \in Seq(Request) /\ Len(writes) <= 1
  BY DEF TypeOK, ConnectionTypeOK, OneChain, SingleChain
<1>4. writes # <<>> => Tail(writes) = <<>>
  <2> SUFFICES ASSUME writes # <<>> PROVE Tail(writes) = <<>>
    OBVIOUS
  <2>1. Tail(writes) \in Seq(Request) /\ Len(Tail(writes)) = Len(writes) - 1
    BY <1>3, HeadTailProperties
  <2>2. Len(writes) = 1
    BY <1>3, EmptySeq
  <2>3. Len(Tail(writes)) = 0
    BY <2>1, <2>2
  <2> QED BY <2>1, <2>3, EmptySeq, Zenon
<1> QED BY <1>2, <1>4 DEF OneChain, SingleChain

-----------------------------------------------------------------------------
(* The API calls.                                                          *)

\* connect() starts its chain on a new transport.
LEMMA ConnectChain ==
  ASSUME TypeOK, OneChain, Connect
  PROVE  OneChain'
<1>1. PICK k \in {"connect", "connectSSL"}, step \in {"connect", "sslConnect"} :
           Call(k) /\ connectWith(nextOp, step)
  BY DEF Connect, connect, connectSSL
<1>2. /\ nextOp \in Ops /\ nextOp' = nextOp + 1 /\ nextOp \in Nat
      /\ calls' = calls /\ raised' = raised /\ deferred' = deferred
      /\ m_ehandler' = nextOp /\ m_state' = "AUTH"
      /\ pending' = step /\ reads' = <<>> /\ writes' = <<>> /\ inbox' = <<>>
      /\ half' = FALSE /\ desync' = FALSE
  BY <1>1, MaxOpsAssumption DEF Call, connectWith, NewConnection, Ops
<1>3. SingleChain'
  BY <1>2 DEF OneChain, SingleChain
<1>4. Unanswered'
  BY <1>2 DEF OneChain, Unanswered, Ops
<1>5. HalfRead' /\ Framed'
  BY <1>2 DEF HalfRead, Framed
<1>6. NoMD5' /\ HandlerOnce' /\ NoStrayMessage'
  BY <1>2 DEF OneChain, NoMD5, HandlerOnce, NoStrayMessage
<1> QED BY <1>3, <1>4, <1>5, <1>6 DEF OneChain

\* A request turned away is answered on the spot, and no chain is touched.
LEMMA BusyChain ==
  ASSUME TypeOK, OneChain, busy(nextOp), nextOp \in Ops, nextOp' = nextOp + 1
  PROVE  OneChain'
<1>1. /\ calls \in [Ops -> Seq(Outcome)] /\ nextOp \in Nat
      /\ \A i \in Ops : i \in Nat
  BY MaxOpsAssumption DEF TypeOK, FSMTypeOK, Ops
<1>2. calls[nextOp] = <<>>
  BY <1>1 DEF OneChain, Unanswered
<1>3. calls' = [calls EXCEPT ![nextOp] = Append(calls[nextOp], "busy")]
  BY DEF busy
<1>4. /\ calls'[nextOp] = <<"busy">>
      /\ \A i \in Ops : i # nextOp => calls'[i] = calls[i]
  BY <1>1, <1>2, <1>3
<1>5. HandlerOnce'
  <2> SUFFICES ASSUME NEW i \in Ops PROVE Len(calls'[i]) <= 1
    BY DEF HandlerOnce
  <2>1. CASE i = nextOp
    <3>1. Len(calls'[i]) = Len(<<"busy">>)
      BY <1>4, <2>1, Zenon
    <3>2. Len(<<"busy">>) = 1
      OBVIOUS
    <3> QED BY <3>1, <3>2
  <2>2. CASE i # nextOp
    BY <1>4, <2>2 DEF OneChain, HandlerOnce
  <2> QED BY <2>1, <2>2
<1>6. Unanswered'
  <2>1. (NoneOutstanding' <=> NoneOutstanding) /\ m_ehandler' = m_ehandler
    BY DEF busy, connVars, NoneOutstanding
  <2>2. ASSUME ~NoneOutstanding
        PROVE  m_ehandler \in Ops /\ m_ehandler < nextOp' /\ calls'[m_ehandler] = <<>>
    <3>1. m_ehandler \in Ops /\ m_ehandler < nextOp /\ calls[m_ehandler] = <<>>
      BY <2>2 DEF OneChain, Unanswered
    <3>2. m_ehandler # nextOp /\ m_ehandler < nextOp'
      BY <1>1, <3>1
    <3> QED BY <1>4, <3>1, <3>2, Zenon
  <2>3. ASSUME NEW i \in Ops, i >= nextOp' PROVE calls'[i] = <<>>
    BY <1>1, <1>4, <2>3 DEF OneChain, Unanswered
  <2> QED BY <2>1, <2>2, <2>3 DEF Unanswered
<1> QED BY <1>5, <1>6 DEF OneChain, SingleChain, HalfRead, NoMD5, Framed,
        NoStrayMessage, busy, connVars, NoneOutstanding

\* A request or a close taken by a quiet machine starts the only chain.
LEMMA StartChain ==
  ASSUME TypeOK, OneChain, NoneOutstanding,
         NEW s \in {"QUERY", "EQUERY", "END"}, m_state' = s,
         NEW t \in FrontendMsg, s = "END" => t = "Terminate",
         s # "END" => m_state = "IDLE",
         NEW eh, Write(writes, t, nextOp, eh),
         m_ehandler' = nextOp, nextOp \in Ops, nextOp' = nextOp + 1,
         UNCHANGED <<deferred, raised, calls, pending, reads, half, desync, inbox>>
  PROVE  OneChain'
<1>1. writes' = <<[type |-> t, op |-> nextOp, eh |-> eh]>> /\ reads' = <<>>
  BY DEF Write, NoneOutstanding
<1>2. nextOp \in Nat
  BY DEF TypeOK
<1>3. SingleChain'
  <2>1. Len(writes') = 1 /\ Head(writes').type = t
    BY <1>1
  <2> QED BY <1>1, <2>1 DEF OneChain, SingleChain, NoneOutstanding
<1>4. Unanswered'
  BY <1>2 DEF OneChain, Unanswered, Ops
<1>5. HalfRead'
  BY <1>1 DEF OneChain, HalfRead, NoneOutstanding
<1> QED BY <1>3, <1>4, <1>5
        DEF OneChain, NoMD5, HandlerOnce, Framed, NoStrayMessage

\* The application's calls keep OneChain if it closes only a quiet machine.
LEMMA ApplicationChain ==
  ASSUME TypeOK, OneChain, Disciplined, Application
  PROVE  OneChain'
<1>1. CASE Connect
  BY <1>1, ConnectChain
<1>2. CASE Exec \/ ExecQuery \/ Prepare
  <2>1. /\ nextOp \in Ops /\ nextOp' = nextOp + 1
    BY <1>2 DEF Exec, ExecQuery, Prepare, Call
  <2>2. \/ busy(nextOp)
        \/ \E s \in {"QUERY", "EQUERY"}, t \in {"Query", "Bind", "Parse"},
             eh \in Captured : \E res : start(nextOp, s, res, t, eh)
    BY <1>2, Zenon DEF Exec, ExecQuery, Prepare, exec, execQuery, parse, Captured
  <2>3. ASSUME NEW s \in {"QUERY", "EQUERY"}, NEW t \in {"Query", "Bind", "Parse"},
               NEW eh \in Captured, NEW res, start(nextOp, s, res, t, eh)
        PROVE  OneChain'
    <3>1. NoneOutstanding
      BY <2>3 DEF start, OneChain, SingleChain
    <3>2. t \in FrontendMsg
      BY DEF FrontendMsg
    <3> QED BY <2>1, <2>3, <3>1, <3>2, StartChain DEF start
  <2> QED BY <2>1, <2>2, <2>3, BusyChain
<1>3. CASE Close
  <2>1. nextOp \in Ops /\ nextOp' = nextOp + 1 /\ NoneOutstanding
    BY <1>3 DEF Close, Call, Disciplined, Quiet
  <2>2. /\ m_state' = "END" /\ m_ehandler' = nextOp
        /\ Write(writes, "Terminate", nextOp, "member")
        /\ UNCHANGED <<deferred, raised, calls, pending, reads, half, desync, inbox>>
    BY <1>3 DEF Close, close
  <2> QED BY <2>1, <2>2, StartChain DEF FrontendMsg
<1> QED BY <1>1, <1>2, <1>3 DEF Application

-----------------------------------------------------------------------------
(* The callbacks.  Each lemma says where its callback leaves the chain; how *)
(* the calls are answered then follows from EndingKeeps.                    *)

\* What remains of OneChain once the answers are taken care of.
Shape == SingleChain /\ HalfRead /\ NoMD5 /\ Framed /\ NoStrayMessage

LEMMA ShapeSuffices ==
  ASSUME TypeOK, OneChain, ~NoneOutstanding, UNCHANGED <<m_ehandler, nextOp>>,
         Shape', Ending
  PROVE  OneChain'
BY EndingKeeps DEF OneChain, Shape

\* A callback that calls m_ehandler, or throws, with nothing else under way.
LEMMA ReportEnds ==
  ASSUME TypeOK, OneChain, ~NoneOutstanding, NEW eh, report(eh, <<>>),
         pending' = "none", writes' = <<>>
  PROVE  Ending /\ reads' = <<>> /\ deferred' = 0 /\ NoStrayMessage'
<1>1. CASE notify("error", <<>>)
  BY <1>1, NotifyOnce DEF Ending, NoneOutstanding, Outcome, OneChain, SingleChain,
     NoStrayMessage
<1>2. CASE throw("bad_function_call", <<>>)
  BY <1>2, ThrowOnce DEF Ending, OneChain, SingleChain, NoStrayMessage
<1> QED BY <1>1, <1>2 DEF report

LEMMA ConnectStepChain ==
  ASSUME TypeOK, OneChain, UNCHANGED nextOp, sslStep \/ connected \/ connectFailed
  PROVE  OneChain'
<1>0. pending # "none" /\ UNCHANGED m_ehandler /\ reads = <<>> /\ writes = <<>>
      /\ m_state \notin {"IDLE", "END"} /\ ~NoneOutstanding
  <2>1. pending # "none" /\ UNCHANGED m_ehandler
    BY DEF sslStep, NextSSLStep, connected, connectFailed, fsmVars
  <2> QED BY <2>1, LastOne DEF OneChain, SingleChain, NoneOutstanding
<1>1. CASE sslStep
  <2>1. /\ UNCHANGED <<reads, writes, half, desync, inbox>> /\ UNCHANGED fsmVars
        /\ pending' # "none"
    BY <1>1 DEF sslStep, NextSSLStep
  <2>2. Shape'
    BY <1>0, <2>1 DEF Shape, OneChain, SingleChain, HalfRead, NoMD5, Framed,
       NoStrayMessage, fsmVars
  <2> QED BY <1>0, <2>1, <2>2, ShapeSuffices DEF Ending, fsmVars
<1>2. CASE connected
  <2>1. PICK eh : Write(<<>>, "StartUp", m_ehandler, eh)
    BY <1>0, <1>2, Zenon DEF connected
  <2>2. /\ UNCHANGED <<reads, half, desync, inbox>> /\ UNCHANGED fsmVars
        /\ pending' = "none"
    BY <1>2 DEF connected
  <2>4. Len(writes') = 1
    BY <2>1, WriteOnce
  <2>3. Shape'
    BY <1>0, <2>2, <2>4 DEF Shape, OneChain, SingleChain, HalfRead, NoMD5, Framed,
       NoStrayMessage, fsmVars, NoneOutstanding
  <2> QED BY <1>0, <2>2, <2>3, ShapeSuffices DEF Ending, fsmVars
<1>3. CASE connectFailed
  <2>1. /\ UNCHANGED <<writes, half, desync, inbox, m_state>> /\ pending' = "none"
        /\ \E eh : report(eh, <<>>)
    BY <1>0, <1>3 DEF connectFailed
  <2>2. Ending /\ reads' = <<>> /\ deferred' = 0 /\ NoStrayMessage'
    BY <1>0, <2>1, ReportEnds
  <2>3. Shape'
    BY <1>0, <2>1, <2>2 DEF Shape, OneChain, SingleChain, HalfRead, NoMD5, Framed,
       NoneOutstanding
  <2> QED BY <1>0, <2>2, <2>3, ShapeSuffices
<1> QED BY <1>1, <1>2, <1>3

LEMMA WriteChain ==
  ASSUME TypeOK, OneChain, UNCHANGED nextOp, written \/ writeFailed
  PROVE  OneChain'
<1>0. /\ writes # <<>> /\ Tail(writes) = <<>> /\ reads = <<>> /\ pending = "none"
      /\ ~NoneOutstanding /\ m_state # "IDLE"
      /\ m_state = "END" => Head(writes).type = "Terminate"
      /\ UNCHANGED <<m_ehandler, m_state, pending, half, desync, inbox>>
  <2>1. writes # <<>>
    BY DEF written, Transmitted, writeFailed
  <2>2. UNCHANGED <<m_ehandler, m_state, pending, half, desync, inbox>>
    BY DEF written, writeFailed
  <2> QED BY <2>1, <2>2, LastOne DEF OneChain, SingleChain, NoneOutstanding
<1>1. CASE Head(writes).type \in LastWrite /\ writes' = <<>> /\ receive(<<>>)
  <2>1. /\ reads' = <<"header">> /\ m_state # "END" /\ ~half
        /\ UNCHANGED <<deferred, raised, calls>>
    BY <1>0, <1>1, ReceiveOnce DEF LastWrite, OneChain, HalfRead
  <2>2. Len(writes') = 0
    BY <1>1
  <2>3. reads' # <<>> /\ reads' # <<"body">>
    BY <2>1
  <2>4. Shape'
    BY <1>0, <1>1, <2>1, <2>2, <2>3 DEF Shape, OneChain, SingleChain, HalfRead, NoMD5,
       Framed, NoStrayMessage, NoneOutstanding
  <2> QED BY <1>0, <2>1, <2>4, ShapeSuffices DEF Ending
<1>2. CASE \E t, op, eh : Head(writes).type # "Terminate" /\ Write(<<>>, t, op, eh)
                       /\ UNCHANGED <<reads, deferred, raised, calls>>
  <2>1. \E t, op, eh : Write(<<>>, t, op, eh)
    BY <1>2
  <2>2. Len(writes') = 1
    BY <2>1, WriteOnce
  <2>3. UNCHANGED <<reads, deferred, raised, calls>> /\ m_state # "END"
    BY <1>0, <1>2
  <2>4. Shape'
    BY <1>0, <2>2, <2>3 DEF Shape, OneChain, SingleChain, HalfRead, NoMD5,
       Framed, NoStrayMessage, NoneOutstanding
  <2> QED BY <1>0, <2>3, <2>4, ShapeSuffices DEF Ending
<1>3. CASE writes' = <<>> /\ (notify("ok", <<>>) \/ \E eh : report(eh, <<>>))
  <2>1. Ending /\ reads' = <<>> /\ deferred' = 0 /\ NoStrayMessage'
    <3>1. CASE notify("ok", <<>>)
      BY <1>0, <1>3, <3>1, NotifyOnce DEF Ending, NoneOutstanding, Outcome, OneChain,
         SingleChain, NoStrayMessage
    <3>2. CASE \E eh : report(eh, <<>>)
      BY <1>0, <1>3, <3>2, ReportEnds
    <3> QED BY <1>3, <3>1, <3>2
  <2>2. Len(writes') = 0
    BY <1>3
  <2>3. Shape'
    BY <1>0, <1>3, <2>1, <2>2 DEF Shape, OneChain, SingleChain, HalfRead, NoMD5,
       Framed, NoneOutstanding
  <2> QED BY <1>0, <2>1, <2>3, ShapeSuffices
<1>4. CASE written
  <2>1. \/ Head(writes).type \in LastWrite /\ writes' = <<>> /\ receive(<<>>)
        \/ /\ Head(writes).type \in DOMAIN NextWrite
           /\ Write(<<>>, NextWrite[Head(writes).type], Head(writes).op, Head(writes).eh)
           /\ UNCHANGED <<reads, deferred, raised, calls>>
        \/ writes' = <<>> /\ notify("ok", <<>>)
    BY <1>0, <1>4, Zenon DEF written
  <2>2. "Terminate" \notin DOMAIN NextWrite
    BY DEF NextWrite
  <2> QED BY <1>1, <1>2, <1>3, <2>1, <2>2, Zenon
<1>5. CASE writeFailed
  BY <1>0, <1>3, <1>5, Zenon DEF writeFailed
<1> QED BY <1>4, <1>5

\* The states in which a read can be outstanding have a row in the table.
LEMMA HasRow ==
  ASSUME TypeOK, m_state \notin {"IDLE", "END"}
  PROVE  Rows(m_state) # {}
<1>1. m_state \in {"AUTH", "CONN", "QUERY", "EQUERY"}
  BY DEF TypeOK, FSMTypeOK, State
<1>2. \E r \in m_state_table : r[1] = m_state
  BY <1>1 DEF m_state_table
<1> QED BY <1>2 DEF Rows

\* How next() leaves the only chain: with a read, or ended.
LEMMA NextChain ==
  ASSUME TypeOK, OneChain, NEW m, m.arg # "md5", next(m, <<>>),
         reads # <<>>, UNCHANGED pending
  PROVE  /\ writes' = <<>> /\ deferred' = 0 /\ NoStrayMessage' /\ Ending
         /\ \/ reads' = <<"header">> /\ m_state' \notin {"IDLE", "END"}
            \/ reads' = <<>>
         /\ m_state' # "END"
<1>0. /\ writes = <<>> /\ pending = "none" /\ deferred = 0
      /\ m_state \notin {"IDLE", "END"} /\ ~NoneOutstanding /\ NoStrayMessage
  BY DEF OneChain, SingleChain, NoneOutstanding
<1> DEFINE Goes == receive(<<>>) /\ writes' = writes
                   /\ (m_state' = m_state \/ m_state' = "CONN")
           Ends(out) == notify(out, <<>>) /\ writes' = writes
                   /\ (m_state' = m_state \/ m_state' = "IDLE")
           Throws == throw("length_error", <<>>) /\ UNCHANGED <<writes, m_state>>
<1>1. Goes \/ Ends("ok") \/ Throws
  <2>1. Rows(m_state) # {}
    BY <1>0, HasRow
  <2>2. authenticate(m, <<>>) => Goes
    BY DEF authenticate
  <2>3. authError(m, <<>>) \/ readyForQuery(m, <<>>) => Ends("ok")
    BY DEF authError, readyForQuery
  <2>4. dataRow(m, <<>>) => Goes \/ Throws
    BY DEF dataRow
  <2>5. rowDescription(m, <<>>) \/ query_error(m, <<>>) => Goes
    BY DEF rowDescription, query_error
  <2>6. receive(<<>>) /\ UNCHANGED <<m_state, writes, results>> => Goes
    OBVIOUS
  <2> QED BY <2>1, <2>2, <2>3, <2>4, <2>5, <2>6, NextCases, Zenon
<1>2. CASE Goes
  BY <1>0, <1>2, ReceiveOnce DEF Ending, NoStrayMessage
<1>3. CASE Ends("ok")
  BY <1>0, <1>3, NotifyOnce DEF Ending, NoneOutstanding, Outcome, NoStrayMessage
<1>4. CASE Throws
  BY <1>0, <1>4, ThrowOnce DEF Ending, NoStrayMessage
<1> QED BY <1>1, <1>2, <1>3, <1>4

LEMMA ReadChain ==
  ASSUME TypeOK, OneChain, UNCHANGED nextOp,
         headerRead \/ headerGarbled \/ bodyRead \/ readFailed
  PROVE  OneChain'
<1>0. /\ reads # <<>> /\ Tail(reads) = <<>> /\ writes = <<>> /\ pending = "none"
      /\ m_state \notin {"IDLE", "END"} /\ ~NoneOutstanding /\ deferred = 0
      /\ reads \in {<<"header">>, <<"body">>}
      /\ UNCHANGED <<m_ehandler, nextOp, pending>>
  <2>1. reads # <<>> /\ UNCHANGED <<m_ehandler, nextOp, pending>>
    BY DEF headerRead, headerGarbled, bodyRead, readFailed, HeaderArrived, FramingLost,
       BodyArrived, fsmVars
  <2> QED BY <2>1, LastOne DEF OneChain, SingleChain, NoneOutstanding
<1>1. CASE headerRead
  <2>0. half'
    BY <1>1, Zenon DEF headerRead
  <2>1. UNCHANGED fsmVars /\ UNCHANGED <<writes, desync, inbox>>
    BY <1>1 DEF headerRead
  <2>2. reads' = <<"body">>
    <3>1. reads' = Append(<<>>, "body")
      BY <1>0, <1>1, Zenon DEF headerRead
    <3> QED BY <3>1
  <2>3. reads' # <<>> /\ reads' # <<"header">>
    BY <2>2
  <2>4. Shape'
    BY <1>0, <2>0, <2>1, <2>2, <2>3 DEF Shape, OneChain, SingleChain, HalfRead, NoMD5,
       Framed, NoStrayMessage, fsmVars
  <2> QED BY <1>0, <2>1, <2>4, ShapeSuffices DEF Ending, fsmVars
<1>2. CASE headerGarbled
  <2>1. half /\ Head(reads) = "header"
    BY <1>2 DEF headerGarbled, FramingLost
  <2>2. reads = <<"header">>
    BY <1>0, <2>1
  <2> QED BY <2>1, <2>2 DEF OneChain, HalfRead
<1>3. CASE bodyRead
  <2>1. /\ next(Head(inbox), <<>>) /\ inbox # <<>> /\ inbox \in Seq(Message)
        /\ ~half' /\ desync' = desync /\ inbox' = Tail(inbox)
    BY <1>0, <1>3, Zenon DEF bodyRead, BodyArrived, TypeOK, ConnectionTypeOK
  <2>2. Head(inbox).arg # "md5" /\ NoMD5'
    BY <2>1 DEF OneChain, NoMD5
  <2>3. /\ writes' = <<>> /\ deferred' = 0 /\ NoStrayMessage' /\ Ending
        /\ \/ reads' = <<"header">> /\ m_state' \notin {"IDLE", "END"}
           \/ reads' = <<>>
        /\ m_state' # "END"
    BY <1>0, <2>1, <2>2, NextChain
  <2>4. Len(writes') = 0 /\ reads' # <<"body">>
    BY <2>3
  <2>5. SingleChain'
    BY <1>0, <2>3, <2>4 DEF SingleChain, NoneOutstanding
  <2>6. HalfRead'
    BY <2>1, <2>4 DEF HalfRead
  <2>7. Framed'
    BY <2>1 DEF OneChain, Framed
  <2> QED BY <1>0, <2>2, <2>3, <2>5, <2>6, <2>7, ShapeSuffices DEF Shape
<1>4. CASE readFailed
  <2>1. /\ notify("error", <<>>)
        /\ UNCHANGED <<writes, half, desync, inbox, m_state>>
    BY <1>0, <1>4 DEF readFailed
  <2>2. Ending /\ reads' = <<>> /\ deferred' = 0 /\ NoStrayMessage'
    BY <1>0, <2>1, NotifyOnce DEF Ending, NoneOutstanding, Outcome, OneChain,
       NoStrayMessage
  <2>3. Shape'
    BY <1>0, <2>1, <2>2 DEF Shape, OneChain, SingleChain, HalfRead, NoMD5, Framed
  <2> QED BY <1>0, <2>2, <2>3, ShapeSuffices
<1> QED BY <1>1, <1>2, <1>3, <1>4

-----------------------------------------------------------------------------
\* The server touches no operation of the client, and without the feature it
\* asks for no MD5 password.
LEMMA ServerChain ==
  ASSUME TypeOK, OneChain, Disciplined, Server
  PROVE  OneChain'
<1>1. /\ UNCHANGED <<pending, reads, writes, half, desync>>
      /\ UNCHANGED fsmVars /\ UNCHANGED nextOp
  BY DEF Server, reply, replyMore, send, accept, crash
<1>2. NoMD5'
  <2>1. CASE inbox' = inbox
    BY <2>1 DEF OneChain, NoMD5
  <2>2. ASSUME NEW r \in Must \cup May, send(r)
        PROVE  NoMD5'
    <3>1. r[3] # "md5"
      BY <2>2 DEF send, Must, May, Disciplined
    <3>2. inbox' = Append(inbox, [type |-> r[2], arg |-> r[3], op |-> cur])
      BY <2>2 DEF send
    <3>3. inbox \in Seq(Message) /\ [type |-> r[2], arg |-> r[3], op |-> cur].arg = r[3]
      BY DEF TypeOK, ConnectionTypeOK
    <3> QED BY <3>1, <3>2, <3>3 DEF OneChain, NoMD5
  <2> QED BY <2>1, <2>2 DEF Server, reply, replyMore, accept, crash
<1> QED BY <1>1, <1>2 DEF OneChain, SingleChain, Unanswered, HalfRead, HandlerOnce,
        Framed, NoStrayMessage, NoneOutstanding, fsmVars

LEMMA ChainStep ==
  ASSUME TypeOK, OneChain, Disciplined, [Next]_vars
  PROVE  OneChain'
<1>1. CASE UNCHANGED vars
  BY <1>1 DEF vars, connVars, fsmVars, OneChain, SingleChain, Unanswered, HalfRead,
     NoMD5, HandlerOnce, Framed, NoStrayMessage, NoneOutstanding
<1>2. CASE Finished
  BY <1>1, <1>2 DEF Finished
<1>3. CASE Transport
  BY <1>3, ConnectStepChain, WriteChain, ReadChain DEF Transport
<1> QED BY <1>1, <1>2, <1>3, ApplicationChain, ServerChain DEF Next

\* An application that closes only a quiet machine, with a server that asks for
\* no MD5 password, has at most one chain of callbacks at any time, whatever
\* the number of calls and the faults of the server and of the network: there
\* is one operation on the stream, it works for one call that has no answer
\* yet, and a header and its body are read by the same chain.
THEOREM OneChainAlways == Disciplined /\ Spec => []OneChain
<1>1. Init => OneChain
  <2> SUFFICES ASSUME Init PROVE OneChain
    OBVIOUS
  <2> USE DEF Init, ConnectionInit, FSMInit
  <2>1. /\ pending = "none" /\ reads = <<>> /\ writes = <<>> /\ inbox = <<>>
        /\ m_state = "AUTH" /\ deferred = 0 /\ raised = {}
        /\ calls = [i \in Ops |-> <<>>]
    OBVIOUS
  <2>2. ~half /\ ~desync
    BY Zenon
  <2>3. SingleChain /\ Unanswered /\ HalfRead
    BY <2>1, <2>2 DEF SingleChain, Unanswered, HalfRead, NoneOutstanding
  <2>4. NoMD5 /\ HandlerOnce /\ Framed /\ NoStrayMessage
    BY <2>1, <2>2 DEF NoMD5, HandlerOnce, Framed, NoStrayMessage
  <2> QED BY <2>3, <2>4 DEF OneChain
<1>2. Disciplined /\ TypeOK /\ OneChain /\ [Next]_vars => OneChain'
  BY ChainStep
<1>3. Disciplined => []Disciplined
  OBVIOUS
<1> QED BY <1>1, <1>2, <1>3, TypeCorrect, PTL DEF Spec

\* The contract asio states for a stream holds: no read is started before the
\* last one completed, and no write before the last one completed.
THEOREM StreamContractAlways == Disciplined /\ Spec => []StreamContract
<1>1. OneChain => StreamContract
  <2> SUFFICES ASSUME OneChain PROVE Len(reads) <= 1 /\ Len(writes) <= 1
    BY DEF StreamContract
  <2>1. CASE reads = <<>>
    BY <2>1 DEF OneChain, SingleChain
  <2>2. CASE reads = <<"header">>
    BY <2>2 DEF OneChain, SingleChain
  <2>3. CASE reads = <<"body">>
    BY <2>3 DEF OneChain, SingleChain
  <2> QED BY <2>1, <2>2, <2>3 DEF OneChain, SingleChain
<1> QED BY <1>1, OneChainAlways, PTL

\* The handler of a call is called at most once.
THEOREM HandlerOnceAlways == Disciplined /\ Spec => []HandlerOnce
<1>1. OneChain => HandlerOnce
  BY DEF OneChain
<1> QED BY <1>1, OneChainAlways, PTL

\* A message is read by one chain, header and body, and never torn.
THEOREM FramedAlways == Disciplined /\ Spec => []Framed
<1>1. OneChain => Framed
  BY DEF OneChain
<1> QED BY <1>1, OneChainAlways, PTL

\* next() never looks for a row of IDLE or END: std::map::at does not throw.
THEOREM NoStrayMessageAlways == Disciplined /\ Spec => []NoStrayMessage
<1>1. OneChain => NoStrayMessage
  BY DEF OneChain
<1> QED BY <1>1, OneChainAlways, PTL

\* When the application has an answer to every call it made, no callback is
\* outstanding that could meet a machine it has dropped.
THEOREM SafeToDropAlways == Disciplined /\ Spec => []SafeToDrop
<1>1. OneChain => SafeToDrop
  BY DEF OneChain, SingleChain, Unanswered, SafeToDrop, Quiet
<1> QED BY <1>1, OneChainAlways, PTL
=============================================================================
