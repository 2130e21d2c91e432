------------------------------ MODULE Lifetime ------------------------------
(***************************************************************************)
(* Who is alive when: the machine a callback points to with its raw this,  *)
(* and the closure of a handler, which the machine owns (m_ehandler) while *)
(* it runs and may replace under it (fsm.cpp, dbconnection.cpp).           *)
(*                                                                         *)
(* The asynchronous client only, one thread in io_service::run().  The     *)
(* operations of a machine are one chain (Client, OneChain); what they     *)
(* read and write is left out.  Machines and closures are numbered, each   *)
(* connect() makes a machine and each call brings a closure.               *)
(*                                                                         *)
(* The code looks at neither rule below; the application keeps them, and   *)
(* they are stated apart from the operations (Application): it closes a    *)
(* connection, connects it again or lets go of it only when every call the *)
(* machine took has been answered; and once the machine has taken a call,  *)
(* no handler that is running uses what it captured.                       *)
(***************************************************************************)
EXTENDS Naturals, Sequences, SequencesExt

CONSTANT MaxCalls      \* bound: closures, one for each call

ASSUME MaxCallsAssumption == MaxCalls \in Nat

VARIABLES
  m_fsm,       \* the machine of the connection, 0 for none
  m_state,     \* its state: "AUTH", "IDLE", "QUERY" or "END"
  m_ehandler,  \* the closure it owns, 0 for none
  ops,         \* the machines with an operation outstanding
  waiting,     \* a call the machine took is not answered
  stack,       \* the handlers that run, the innermost last
  dead,        \* the closures destroyed
  made,        \* the number of calls made
  barred,      \* of the application: the closures it keeps from using
  misuse       \* ghost: what was used after its end

vars == <<m_fsm, m_state, m_ehandler, ops, waiting, stack, dead, made, barred, misuse>>

\* A handler that runs: its closure, the machine that called it, and whether that
\* machine owns the closure.
Frame == [closure : 1 .. MaxCalls, fsm : 1 .. MaxCalls, owned : BOOLEAN]

\* Every variable holds a value of its type.
TypeOK ==
  /\ m_fsm \in 0 .. MaxCalls
  /\ m_state \in {"AUTH", "IDLE", "QUERY", "END"}
  /\ m_ehandler \in 0 .. MaxCalls
  /\ ops \subseteq 1 .. MaxCalls
  /\ waiting \in BOOLEAN
  /\ stack \in Seq(Frame)
  /\ dead \subseteq 1 .. MaxCalls
  /\ made \in 0 .. MaxCalls
  /\ barred \subseteq 1 .. MaxCalls
  /\ misuse \subseteq {"machine", "closure"}

Init ==
  /\ m_fsm = 0 /\ m_state = "END" /\ m_ehandler = 0
  /\ ops = {} /\ waiting = FALSE /\ stack = <<>>
  /\ dead = {} /\ made = 0 /\ barred = {} /\ misuse = {}

-----------------------------------------------------------------------------
(* Calls, made by main() or by the innermost handler.                      *)

\* m_ehandler is assigned closure c; the one it held is destroyed.
Assign(c) ==
  /\ m_ehandler' = c
  /\ dead' = dead \cup ({m_ehandler} \ {0})

Taken ==
  /\ waiting' = TRUE
  /\ made' = made + 1

\* A call that is turned away: the handler is called at once; its closure stays
\* with the caller.
turnedAway ==
  /\ stack' = Append(stack, [closure |-> made + 1, fsm |-> m_fsm, owned |-> FALSE])
  /\ made' = made + 1
  /\ UNCHANGED <<m_fsm, m_state, m_ehandler, ops, waiting, dead>>

\* (Slip) The handler is taken before the state is looked at.
exec_takesFirst ==
  /\ made < MaxCalls
  /\ Assign(made + 1)
  /\ \/ /\ m_state = "IDLE"
        /\ Taken
        /\ m_state' = "QUERY"
        /\ ops' = ops \cup {m_fsm}
        /\ UNCHANGED <<m_fsm, stack>>
     \/ /\ m_state # "IDLE"
        /\ stack' = Append(stack, [closure |-> made + 1, fsm |-> m_fsm, owned |-> TRUE])
        /\ made' = made + 1
        /\ UNCHANGED <<m_fsm, m_state, ops, waiting>>

\* FSM::exec.
exec ==
  /\ made < MaxCalls
  /\ \/ /\ m_state = "IDLE"
        /\ Assign(made + 1) /\ Taken
        /\ m_state' = "QUERY"
        /\ ops' = ops \cup {m_fsm}
        /\ UNCHANGED <<m_fsm, stack>>
     \/ m_state # "IDLE" /\ turnedAway

\* FSM::close, which looks at no state.
close ==
  /\ made < MaxCalls
  /\ Assign(made + 1) /\ Taken
  /\ m_state' = "END"
  /\ ops' = ops \cup {m_fsm}
  /\ UNCHANGED <<m_fsm, stack>>

\* AsyncConnection::connect: m_con and m_fsm are replaced; the operations of the
\* old machine, if any, will complete with an error.
connect ==
  /\ made < MaxCalls
  /\ Assign(made + 1) /\ Taken
  /\ m_fsm' = made + 1
  /\ m_state' = "AUTH"
  /\ ops' = ops \cup {made + 1}
  /\ UNCHANGED stack

\* The last reference to the AsyncConnection goes, its members with it.
release ==
  /\ Assign(0)
  /\ m_fsm' = 0
  /\ m_state' = "END"
  /\ UNCHANGED <<ops, waiting, stack, made>>

-----------------------------------------------------------------------------
(* The application, which calls no machine that is not there.              *)

\* The caller reaches the connection through what it captured.
Reach ==
  /\ stack # <<>> => Last(stack).closure \notin barred
  /\ misuse' = misuse \cup (IF stack # <<>> /\ Last(stack).closure \in dead
                            THEN {"closure"} ELSE {})

\* The rule on closures: unless the handler of the call was called at once, no
\* handler that runs uses what it captured any longer.
Refrain ==
  barred' = IF stack' = stack THEN barred \cup {stack[i].closure : i \in DOMAIN stack}
                              ELSE barred

\* The rule on answers: exec() at any time, the others when nothing is waited for.
Application ==
  /\ Reach
  /\ \/ m_fsm # 0 /\ exec
     \/ m_fsm # 0 /\ ~waiting /\ close
     \/ ~waiting /\ connect
     \/ m_fsm # 0 /\ ~waiting /\ release
  /\ Refrain

-----------------------------------------------------------------------------
(* Callbacks, run by io_service::run() when no handler is running.         *)

\* The last callback of a chain of machine k calls the m_ehandler of k.
Notify(k, state) ==
  /\ stack = <<>> /\ k \in ops
  /\ ops' = ops \ {k}
  /\ m_state' = state
  /\ waiting' = FALSE
  /\ stack' = <<[closure |-> m_ehandler, fsm |-> k, owned |-> TRUE]>>
  /\ misuse' = misuse \cup (IF k = m_fsm THEN {} ELSE {"machine"})
  /\ UNCHANGED <<m_fsm, m_ehandler, dead, made, barred>>

readyForQuery(k) == m_state \in {"AUTH", "QUERY"} /\ Notify(k, "IDLE")

\* An error, the rejection of a connect, or the end of close().
ended(k) == Notify(k, m_state)

\* (Slip) No return after m_ehandler(ec): the callback goes on to receive().
handlerReturns_goesOn ==
  /\ stack # <<>>
  /\ LET f == Last(stack) IN
     /\ dead' = IF f.owned THEN dead ELSE dead \cup {f.closure}
     /\ ops' = IF f.owned THEN ops \cup {f.fsm} ELSE ops
     /\ misuse' = IF f.owned /\ f.fsm # m_fsm THEN misuse \cup {"machine"} ELSE misuse
  /\ stack' = Front(stack)
  /\ UNCHANGED <<m_fsm, m_state, m_ehandler, waiting, made, barred>>

\* A handler returns.  Its caller, a callback or exec(), returns at once and
\* touches nothing; the closure of a call that was turned away goes with it.
handlerReturns ==
  /\ stack # <<>>
  /\ LET f == Last(stack) IN
     dead' = IF f.owned THEN dead ELSE dead \cup {f.closure}
  /\ stack' = Front(stack)
  /\ UNCHANGED <<m_fsm, m_state, m_ehandler, ops, waiting, made, barred, misuse>>

Next ==
  \/ Application
  \/ \E k \in ops : readyForQuery(k) \/ ended(k)
  \/ handlerReturns

Spec == Init /\ [][Next]_vars

-----------------------------------------------------------------------------
(* Properties.                                                             *)

\* Every callback finds the machine it points to, with a handler to call, and
\* no code of a machine runs on after a handler that let go of it.  So an
\* application may release its connection, or connect again, in any handler of
\* a finished call.
MachineOutlivesCallbacks ==
  /\ "machine" \notin misuse
  /\ ops \subseteq {m_fsm}
  /\ ops # {} => m_ehandler \notin dead \cup {0}

\* No handler that makes calls until one is taken runs in a closure that was
\* destroyed: a call that is turned away, from whatever depth of handlers,
\* destroys no closure that is in use.
ClosureOutlivesHandler ==
  /\ "closure" \notin misuse
  /\ \A i \in DOMAIN stack : stack[i].closure \in dead => stack[i].closure \in barred
-----------------------------------------------------------------------------
\* The inductive invariant behind both: the machine of the connection is the only
\* one with an operation, exactly while a call is unanswered; what it owns is
\* alive; and no two handlers, nor a handler of a call turned away and the
\* machine, share a closure.
Alive ==
  /\ ops = IF waiting THEN {m_fsm} ELSE {}
  /\ waiting => m_fsm # 0 /\ m_ehandler # 0
  /\ m_fsm <= made /\ m_ehandler <= made
  /\ m_ehandler \notin dead
  /\ \A c \in dead : c \in 1 .. made
  /\ \A i \in DOMAIN stack :
       /\ stack[i].closure <= made
       /\ stack[i].closure \in dead => stack[i].closure \in barred
       /\ ~stack[i].owned => stack[i].closure # m_ehandler
       /\ \A j \in DOMAIN stack : stack[i].closure = stack[j].closure => i = j
  /\ misuse = {}
=============================================================================
