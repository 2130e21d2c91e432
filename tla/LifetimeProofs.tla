--------------------------- MODULE LifetimeProofs ---------------------------
(* Lifetimes, for any number of calls.                                     *)
EXTENDS Lifetime, TLAPS

IInv == TypeOK /\ Alive

\* The machine and the handler of every outstanding callback are alive, and the
\* closure of every handler that may use it, whenever IInv holds.
LEMMA AliveSuffices ==
  IInv => MachineOutlivesCallbacks /\ ClosureOutlivesHandler
BY DEF IInv, TypeOK, Alive, MachineOutlivesCallbacks, ClosureOutlivesHandler

\* What a caller reaches the connection through is alive.
LEMMA ReachesAlive ==
  ASSUME IInv, Reach
  PROVE  misuse' = {}
<1>1. CASE stack = <<>>
  BY <1>1 DEF IInv, Alive, Reach
<1>2. CASE stack # <<>>
  <2>1. Len(stack) \in DOMAIN stack
    BY <1>2 DEF IInv, TypeOK
  <2>2. Last(stack).closure \notin dead
    BY <1>2, <2>1 DEF IInv, Alive, Reach, Last
  <2> QED
    BY <2>2 DEF IInv, Alive, Reach
<1> QED
  BY <1>1, <1>2

\* Assigning m_ehandler a new closure, or none, keeps what Alive says of closures:
\* no handler that runs may use its closure any longer.
LEMMA AssignKeeps ==
  ASSUME IInv, NEW c \in 0 .. MaxCalls, Assign(c), stack' = stack, Refrain,
         c = 0 \/ c = made + 1,
         made' \in 0 .. MaxCalls, made' = IF c = 0 THEN made ELSE made + 1
  PROVE  /\ m_ehandler' = c /\ m_ehandler' <= made'
         /\ dead' \subseteq 1 .. MaxCalls /\ barred' \subseteq 1 .. MaxCalls
         /\ m_ehandler' \notin dead'
         /\ \A d \in dead' : d \in 1 .. made'
         /\ \A i \in DOMAIN stack' :
              /\ stack'[i].closure <= made'
              /\ stack'[i].closure \in dead' => stack'[i].closure \in barred'
              /\ ~stack'[i].owned => stack'[i].closure # m_ehandler'
              /\ \A j \in DOMAIN stack' : stack'[i].closure = stack'[j].closure => i = j
<1> USE MaxCallsAssumption
<1>1. made \in 0 .. MaxCalls /\ m_ehandler \in 0 .. MaxCalls /\ dead \subseteq 1 .. MaxCalls
  BY DEF IInv, TypeOK
<1>2. m_ehandler' = c /\ dead' = dead \cup ({m_ehandler} \ {0})
  BY DEF Assign
<1>3. \A d \in dead' : d \in 1 .. made
  BY <1>1, <1>2 DEF IInv, Alive
<1>4. m_ehandler' \notin dead' /\ dead' \subseteq 1 .. MaxCalls /\ \A d \in dead' : d \in 1 .. made'
  BY <1>1, <1>2, <1>3
<1>5. \A i \in DOMAIN stack : stack[i].closure <= made /\ stack[i].closure \in 1 .. MaxCalls
  <2>1. \A i \in DOMAIN stack : stack[i] \in Frame
    BY DEF IInv, TypeOK
  <2> QED
    BY <2>1 DEF IInv, Alive, Frame
<1>6. barred' = barred \cup {stack[i].closure : i \in DOMAIN stack}
  BY Zenon DEF Refrain
<1>7. barred' \subseteq 1 .. MaxCalls
  BY <1>5, <1>6 DEF IInv, TypeOK
<1>8. \A i \in DOMAIN stack : stack[i].closure \in barred'
  BY <1>6, Zenon
<1>9. \A i \in DOMAIN stack' :
        /\ stack'[i].closure <= made'
        /\ stack'[i].closure # m_ehandler'
        /\ \A j \in DOMAIN stack' : stack'[i].closure = stack'[j].closure => i = j
  BY <1>1, <1>2, <1>5 DEF IInv, Alive
<1> QED
  BY <1>1, <1>2, <1>4, <1>7, <1>8, <1>9

\* Whatever an accepted call, or release, does: m_ehandler is assigned, and the
\* machine of the connection gets an operation exactly if a call was taken.
LEMMA TakenKeeps ==
  ASSUME IInv, Reach, NEW c \in 0 .. MaxCalls, Assign(c), stack' = stack, Refrain,
         c = 0 \/ c = made + 1,
         made' \in 0 .. MaxCalls, made' = IF c = 0 THEN made ELSE made + 1,
         m_fsm' \in 0 .. made', waiting' = (c # 0), waiting' => m_fsm' # 0,
         ops' = IF waiting' THEN {m_fsm'} ELSE {},
         m_state' \in {"AUTH", "IDLE", "QUERY", "END"}
  PROVE  IInv'
<1> USE MaxCallsAssumption
<1>1. misuse' = {}
  BY ReachesAlive
<1>2. /\ m_ehandler' = c /\ m_ehandler' <= made'
      /\ dead' \subseteq 1 .. MaxCalls /\ barred' \subseteq 1 .. MaxCalls
      /\ m_ehandler' \notin dead'
      /\ \A d \in dead' : d \in 1 .. made'
      /\ \A i \in DOMAIN stack' :
           /\ stack'[i].closure <= made'
           /\ stack'[i].closure \in dead' => stack'[i].closure \in barred'
           /\ ~stack'[i].owned => stack'[i].closure # m_ehandler'
           /\ \A j \in DOMAIN stack' : stack'[i].closure = stack'[j].closure => i = j
  BY AssignKeeps
<1>3. m_fsm' \in 0 .. MaxCalls /\ ops' \subseteq 1 .. MaxCalls /\ m_fsm' <= made'
  <2>1. m_fsm' \in 0 .. MaxCalls /\ m_fsm' <= made'
    OBVIOUS
  <2>2. CASE waiting'
    BY <2>1, <2>2
  <2>3. CASE ~waiting'
    BY <2>1, <2>3
  <2> QED
    BY <2>2, <2>3, <2>1
<1>4. waiting' \in BOOLEAN
  BY Zenon
<1>5. TypeOK'
  BY <1>1, <1>2, <1>3, <1>4 DEF TypeOK, IInv
<1>6. waiting' => m_ehandler' # 0
  BY <1>2
<1>7. Alive'
  BY <1>1, <1>2, <1>3, <1>6, Zenon DEF Alive
<1> QED
  BY <1>5, <1>7 DEF IInv

\* A handler is called: its frame is on top of the others, with a closure no other
\* frame has.
LEMMA PushKeeps ==
  ASSUME NEW s \in Seq(Frame), NEW f \in Frame, NEW h, NEW D, NEW B, NEW n \in Nat,
         f.closure <= n, f.closure \notin D, ~f.owned => f.closure # h,
         \A i \in DOMAIN s : /\ s[i].closure <= n
                             /\ s[i].closure # f.closure
                             /\ s[i].closure \in D => s[i].closure \in B
                             /\ ~s[i].owned => s[i].closure # h
                             /\ \A j \in DOMAIN s : s[i].closure = s[j].closure => i = j
  PROVE  /\ Append(s, f) \in Seq(Frame)
         /\ \A i \in DOMAIN Append(s, f) :
              /\ Append(s, f)[i].closure <= n
              /\ Append(s, f)[i].closure \in D => Append(s, f)[i].closure \in B
              /\ ~Append(s, f)[i].owned => Append(s, f)[i].closure # h
              /\ \A j \in DOMAIN Append(s, f) :
                   Append(s, f)[i].closure = Append(s, f)[j].closure => i = j
<1> DEFINE t == Append(s, f)
<1>1. t \in Seq(Frame) /\ DOMAIN t = 1 .. Len(s) + 1 /\ DOMAIN s = 1 .. Len(s) /\ Len(s) \in Nat
  OBVIOUS
<1>2. t[Len(s) + 1] = f /\ \A i \in DOMAIN s : t[i] = s[i]
  OBVIOUS
<1> HIDE DEF t
<1>3. ASSUME NEW i \in DOMAIN t
      PROVE  /\ t[i].closure <= n
             /\ t[i].closure \in D => t[i].closure \in B
             /\ ~t[i].owned => t[i].closure # h
  BY <1>1, <1>2, i = Len(s) + 1 \/ i \in DOMAIN s
<1>4. ASSUME NEW i \in DOMAIN t, NEW j \in DOMAIN t, t[i].closure = t[j].closure
      PROVE  i = j
  BY <1>1, <1>2, <1>4, i = Len(s) + 1 \/ i \in DOMAIN s, j = Len(s) + 1 \/ j \in DOMAIN s
<1> QED
  BY <1>1, <1>3, <1>4 DEF t

\* A call that is turned away destroys nothing, and its own closure is new.
LEMMA TurnedAwayKeeps ==
  ASSUME IInv, Reach, turnedAway, Refrain, m_fsm # 0, made < MaxCalls
  PROVE  IInv'
<1> USE MaxCallsAssumption
<1> DEFINE f == [closure |-> made + 1, fsm |-> m_fsm, owned |-> FALSE]
<1>1. /\ made \in 0 .. MaxCalls /\ m_ehandler \in 0 .. MaxCalls /\ m_fsm \in 1 .. MaxCalls
      /\ stack \in Seq(Frame) /\ made' = made + 1 /\ stack' = Append(stack, f)
      /\ dead' = dead /\ m_ehandler' = m_ehandler
  BY DEF IInv, TypeOK, turnedAway
<1>2. f \in Frame /\ f.closure = made + 1 /\ f.owned = FALSE
  BY <1>1 DEF Frame
<1>3. made' \in Nat /\ made' \in 0 .. MaxCalls
  BY <1>1
<1>4. f.closure <= made' /\ f.closure \notin dead /\ f.closure # m_ehandler
  BY <1>1, <1>2 DEF IInv, Alive
<1>5. \A i \in DOMAIN stack :
        /\ stack[i].closure <= made'
        /\ stack[i].closure # f.closure
        /\ stack[i].closure \in dead => stack[i].closure \in barred
        /\ ~stack[i].owned => stack[i].closure # m_ehandler
        /\ \A j \in DOMAIN stack : stack[i].closure = stack[j].closure => i = j
  <2>0. \A i \in DOMAIN stack : stack[i] \in Frame
    BY <1>1
  <2>1. \A i \in DOMAIN stack : stack[i].closure \in 1 .. MaxCalls
    BY <2>0 DEF Frame
  <2>2. \A i \in DOMAIN stack : stack[i].closure <= made
    BY DEF IInv, Alive
  <2>3. \A i \in DOMAIN stack : stack[i].closure <= made' /\ stack[i].closure # f.closure
    BY <1>1, <1>2, <2>1, <2>2
  <2> HIDE DEF f
  <2> QED
    BY <2>3 DEF IInv, Alive
<1> HIDE DEF f
<1>b. barred' = barred
  <2>1. Len(stack') # Len(stack)
    BY <1>1, <1>2
  <2> QED
    BY <2>1 DEF Refrain
<1>6. /\ stack' \in Seq(Frame)
      /\ \A i \in DOMAIN stack' :
           /\ stack'[i].closure <= made'
           /\ stack'[i].closure \in dead' => stack'[i].closure \in barred'
           /\ ~stack'[i].owned => stack'[i].closure # m_ehandler'
           /\ \A j \in DOMAIN stack' : stack'[i].closure = stack'[j].closure => i = j
  BY <1>1, <1>2, <1>3, <1>4, <1>5, <1>b, PushKeeps
<1>7. misuse' = {}
  BY ReachesAlive
<1>8. UNCHANGED <<m_fsm, m_state, m_ehandler, ops, waiting, dead>>
  BY DEF turnedAway
<1>9. TypeOK'
  BY <1>3, <1>6, <1>7, <1>8, <1>b DEF TypeOK, IInv
<1>10. m_fsm' <= made' /\ m_ehandler' <= made' /\ \A c \in dead' : c \in 1 .. made'
  BY <1>1, <1>8 DEF IInv, Alive
<1>11. /\ ops' = IF waiting' THEN {m_fsm'} ELSE {}
       /\ waiting' => m_fsm' # 0 /\ m_ehandler' # 0
       /\ m_ehandler' \notin dead'
  BY <1>8, Zenon DEF IInv, Alive
<1>12. Alive'
  BY <1>6, <1>7, <1>10, <1>11, Zenon DEF Alive
<1> QED
  BY <1>9, <1>12 DEF IInv

\* A callback finds its machine and calls the living handler.
LEMMA NotifyKeeps ==
  ASSUME IInv, NEW k \in ops, NEW st \in {"AUTH", "IDLE", "QUERY", "END"}, Notify(k, st)
  PROVE  IInv'
<1> USE MaxCallsAssumption
<1>1. waiting /\ k = m_fsm /\ m_fsm # 0 /\ m_ehandler # 0 /\ ops = {m_fsm}
  BY Zenon DEF IInv, Alive
<1> DEFINE f == [closure |-> m_ehandler, fsm |-> k, owned |-> TRUE]
<1>2. /\ m_fsm \in 1 .. MaxCalls /\ m_ehandler \in 1 .. MaxCalls
      /\ m_ehandler <= made /\ m_ehandler \notin dead
  BY <1>1 DEF IInv, TypeOK, Alive
<1>3. f \in Frame /\ f.closure = m_ehandler /\ f.owned = TRUE
  BY <1>1, <1>2 DEF Frame
<1>4. stack' = <<f>> /\ UNCHANGED <<m_fsm, m_ehandler, dead, made, barred>>
  BY DEF Notify
<1> HIDE DEF f
<1>5. stack' \in Seq(Frame) /\ DOMAIN stack' = {1} /\ stack'[1] = f
  BY <1>3, <1>4
<1>6. ops' = {} /\ misuse' = {} /\ waiting' = FALSE /\ m_state' = st
  BY <1>1 DEF IInv, Alive, Notify
<1>7. TypeOK'
  BY <1>4, <1>5, <1>6 DEF IInv, TypeOK
<1>8. \A i \in DOMAIN stack' :
        /\ stack'[i].closure <= made'
        /\ stack'[i].closure \in dead' => stack'[i].closure \in barred'
        /\ ~stack'[i].owned => stack'[i].closure # m_ehandler'
        /\ \A j \in DOMAIN stack' : stack'[i].closure = stack'[j].closure => i = j
  BY <1>2, <1>3, <1>4, <1>5
<1>9. Alive'
  BY <1>4, <1>6, <1>8, Zenon DEF IInv, Alive
<1> QED
  BY <1>7, <1>9 DEF IInv

\* A handler returns: the closure that may go with it belongs to no other handler
\* and not to the machine.
LEMMA ReturnKeeps ==
  ASSUME IInv, handlerReturns
  PROVE  IInv'
<1> USE MaxCallsAssumption
<1> DEFINE f == Last(stack)
           n == Len(stack)
<1>1. stack \in Seq(Frame) /\ n \in Nat \ {0} /\ DOMAIN stack = 1 .. n /\ f = stack[n]
  BY DEF IInv, TypeOK, handlerReturns, Last
<1>2. /\ stack' = SubSeq(stack, 1, n - 1)
      /\ dead' = (IF f.owned THEN dead ELSE dead \cup {f.closure})
      /\ UNCHANGED <<m_fsm, m_state, m_ehandler, ops, waiting, made, barred, misuse>>
  BY DEF handlerReturns, Front
<1> HIDE DEF f, n
<1>3. /\ stack' \in Seq(Frame) /\ DOMAIN stack' = 1 .. n - 1
      /\ \A i \in DOMAIN stack' : stack'[i] = stack[i] /\ i \in DOMAIN stack /\ i # n
  BY <1>1, <1>2
<1>4. /\ f.closure \in 1 .. MaxCalls /\ f.closure <= made /\ made \in Nat
      /\ ~f.owned => f.closure # m_ehandler
      /\ \A i \in DOMAIN stack : i # n => stack[i].closure # f.closure
  <2>1. n \in DOMAIN stack /\ stack[n] \in Frame
    BY <1>1
  <2>2. f.closure \in 1 .. MaxCalls /\ made \in Nat
    BY <1>1, <2>1 DEF IInv, TypeOK, Frame
  <2>3. f.closure <= made /\ (~f.owned => f.closure # m_ehandler)
    BY <1>1, <2>1, Zenon DEF IInv, Alive
  <2>4. \A i \in DOMAIN stack : i # n => stack[i].closure # f.closure
    BY <1>1, <2>1, Zenon DEF IInv, Alive
  <2> QED
    BY <2>2, <2>3, <2>4
<1>5. dead' \subseteq 1 .. MaxCalls /\ m_ehandler' \notin dead' /\ \A c \in dead' : c \in 1 .. made'
  <2>1. /\ dead \subseteq 1 .. MaxCalls /\ m_ehandler \notin dead
        /\ \A c \in dead : c \in 1 .. made
    BY DEF IInv, TypeOK, Alive
  <2>2. CASE f.owned
    BY <1>2, <2>1, <2>2
  <2>3. CASE ~f.owned
    <3>1. dead' = dead \cup {f.closure} /\ m_ehandler' = m_ehandler /\ made' = made
      BY <1>2, <2>3
    <3>2. f.closure # m_ehandler /\ f.closure \in 1 .. made
      BY <1>4, <2>3
    <3>3. m_ehandler' \notin dead'
      BY <2>1, <3>1, <3>2
    <3>4. dead' \subseteq 1 .. MaxCalls
      BY <1>4, <2>1, <3>1
    <3> QED
      BY <2>1, <3>1, <3>2, <3>3, <3>4
  <2> QED
    BY <2>2, <2>3
<1>6. \A i \in DOMAIN stack' : stack'[i].closure \in dead' => stack'[i].closure \in barred'
  BY <1>2, <1>3, <1>4 DEF IInv, Alive
<1>7. \A i \in DOMAIN stack' :
        /\ stack'[i].closure <= made'
        /\ ~stack'[i].owned => stack'[i].closure # m_ehandler'
        /\ \A j \in DOMAIN stack' : stack'[i].closure = stack'[j].closure => i = j
  BY <1>2, <1>3 DEF IInv, Alive
<1>8. TypeOK'
  BY <1>2, <1>3, <1>5 DEF IInv, TypeOK
<1>9. Alive'
  BY <1>2, <1>5, <1>6, <1>7, Zenon DEF IInv, Alive
<1> QED
  BY <1>8, <1>9 DEF IInv

\* Every step keeps the invariant.
LEMMA AliveStep ==
  IInv /\ [Next]_vars => IInv'
<1> USE MaxCallsAssumption
<1> SUFFICES ASSUME IInv, [Next]_vars PROVE IInv'
  OBVIOUS
<1>0. /\ made \in 0 .. MaxCalls /\ m_fsm \in 0 .. MaxCalls /\ m_fsm <= made
      /\ m_state \in {"AUTH", "IDLE", "QUERY", "END"}
      /\ waiting \in BOOLEAN
  BY DEF IInv, TypeOK, Alive
<1>a. ops \subseteq {m_fsm}
  BY Zenon DEF IInv, Alive
<1>b. ~waiting => ops = {}
  BY Zenon DEF IInv, Alive
<1>1. CASE Application
  <2>0. Reach /\ Refrain
    BY <1>1 DEF Application
  <2>1. CASE m_fsm # 0 /\ exec
    <3>1. CASE m_state # "IDLE" /\ turnedAway
      BY <2>0, <2>1, <3>1, TurnedAwayKeeps DEF exec
    <3>2. CASE m_state = "IDLE" /\ Assign(made + 1)
      <4>1. /\ made + 1 \in 0 .. MaxCalls /\ made' = made + 1 /\ stack' = stack
            /\ m_state' = "QUERY" /\ m_fsm' = m_fsm
            /\ ops' = ops \cup {m_fsm}
        BY <1>0, <2>1, <3>2 DEF exec, Taken, turnedAway
      <4>2. ops' = {m_fsm'}
        BY <1>a, <4>1, Zenon
      <4>3. waiting' = TRUE
        BY <2>1, <3>2, Zenon DEF exec, Taken
      <4>4. m_fsm' \in 0 .. made' /\ m_fsm' # 0 /\ made + 1 # 0
        BY <1>0, <2>1, <4>1
      <4> QED
        BY <1>0, <2>0, <3>2, <4>1, <4>2, <4>3, <4>4, TakenKeeps
    <3> QED
      BY <2>1, <3>1, <3>2 DEF exec
  <2>2. CASE m_fsm # 0 /\ close
    <3>1. /\ made + 1 \in 0 .. MaxCalls /\ made' = made + 1 /\ stack' = stack
          /\ m_state' = "END" /\ m_fsm' = m_fsm
          /\ ops' = ops \cup {m_fsm} /\ Assign(made + 1)
      BY <1>0, <2>2 DEF close, Taken
    <3>2. ops' = {m_fsm'}
      BY <1>a, <3>1, Zenon
    <3>3. waiting' = TRUE
      BY <2>2, Zenon DEF close, Taken
    <3>4. m_fsm' \in 0 .. made' /\ m_fsm' # 0 /\ made + 1 # 0
      BY <1>0, <2>2, <3>1
    <3> QED
      BY <1>0, <2>0, <3>1, <3>2, <3>3, <3>4, TakenKeeps
  <2>3. CASE ~waiting /\ connect
    <3>1. /\ made + 1 \in 0 .. MaxCalls /\ made' = made + 1 /\ stack' = stack
          /\ m_state' = "AUTH" /\ m_fsm' = made + 1
          /\ ops' = ops \cup {made + 1} /\ Assign(made + 1)
      BY <1>0, <2>3 DEF connect, Taken
    <3>2. ops = {} /\ waiting' = TRUE
      BY <2>3, <1>b, Zenon DEF connect, Taken
    <3>3. ops' = {m_fsm'} /\ m_fsm' \in 0 .. made' /\ m_fsm' # 0
      BY <1>0, <3>1, <3>2
    <3> QED
      BY <1>0, <2>0, <3>1, <3>2, <3>3, TakenKeeps
  <2>4. CASE ~waiting /\ release
    <3>1. /\ made' = made /\ stack' = stack
          /\ m_state' = "END" /\ m_fsm' = 0 /\ ops' = ops /\ Assign(0)
      BY <2>4 DEF release
    <3>2. ops = {} /\ waiting' = FALSE
      BY <1>0, <2>4, <1>b, Zenon DEF release
    <3>3. ops' = {} /\ 0 \in 0 .. MaxCalls /\ m_fsm' \in 0 .. made'
      BY <1>0, <3>1, <3>2
    <3> QED
      BY <1>0, <2>0, <3>1, <3>2, <3>3, TakenKeeps
  <2> QED
    BY <1>1, <2>1, <2>2, <2>3, <2>4 DEF Application
<1>2. ASSUME NEW k \in ops, readyForQuery(k) \/ ended(k)
      PROVE  IInv'
  BY <1>0, <1>2, NotifyKeeps DEF readyForQuery, ended
<1>3. CASE handlerReturns
  BY <1>3, ReturnKeeps
<1>4. CASE UNCHANGED vars
  BY <1>4 DEF vars, IInv, TypeOK, Alive
<1> QED
  BY <1>1, <1>2, <1>3, <1>4 DEF Next

\* Every callback finds its machine and a living handler (raw this and m_ehandler
\* in fsm.cpp), and every handler its closure, for any number of calls, of
\* machines and of handlers that run inside one another.
THEOREM LifetimesHold ==
  Spec => [](MachineOutlivesCallbacks /\ ClosureOutlivesHandler)
<1>1. Init => IInv
  <2> SUFFICES ASSUME Init PROVE IInv
    OBVIOUS
  <2>1. stack \in Seq(Frame) /\ DOMAIN stack = {}
    BY DEF Init
  <2>2. ops = {} /\ waiting = FALSE
    BY Zenon DEF Init
  <2>3. waiting \in BOOLEAN
    BY <2>2, Zenon
  <2>4. TypeOK
    BY MaxCallsAssumption, <2>1, <2>3 DEF Init, TypeOK
  <2>5. Alive
    BY <2>1, <2>2 DEF Init, Alive
  <2> QED
    BY <2>4, <2>5 DEF IInv
<1> QED
  BY <1>1, AliveStep, AliveSuffices, PTL DEF Spec
=============================================================================
