------------------------------ MODULE Session ------------------------------
(***************************************************************************)
(* What the library promises an application, without transport, messages   *)
(* or server: calls are served one at a time and in order; a call made     *)
(* while the session is not ready is turned away at once with "busy"; a    *)
(* call that was taken is answered exactly once; the session is ready      *)
(* after, and only after, a successful answer to anything but close().     *)
(***************************************************************************)
EXTENDS Naturals, Sequences

CONSTANT MaxOps

VARIABLES
  nextOp,    \* number of the next call
  kind,      \* for each call made, which one it is
  calls,     \* for each call, the answers given
  running,   \* the call being served, 0 for none
  ready      \* the session takes requests

sessionVars == <<nextOp, kind, calls, running, ready>>

Requests == {"exec", "execQuery", "prepare"}
Controls == {"connect", "connectSSL", "close"}

Init ==
  /\ nextOp = 1 /\ running = 0 /\ ready = FALSE
  /\ kind = [i \in 1 .. MaxOps |-> "none"]
  /\ calls = [i \in 1 .. MaxOps |-> <<>>]

Make(k) ==
  /\ nextOp <= MaxOps /\ nextOp' = nextOp + 1
  /\ kind' = [kind EXCEPT ![nextOp] = k]

\* A call is taken: a request by a ready session, connect or close always.
Take ==
  /\ running = 0
  /\ \/ ready /\ \E k \in Requests : Make(k)
     \/ \E k \in Controls : Make(k)
  /\ running' = nextOp /\ ready' = FALSE
  /\ UNCHANGED calls

\* A request is turned away; nothing else changes.
TurnAway ==
  /\ ~ready /\ \E k \in Requests : Make(k)
  /\ calls' = [calls EXCEPT ![nextOp] = <<"busy">>]
  /\ UNCHANGED <<running, ready>>

\* The call being served gets its only answer.
Answer ==
  /\ running # 0 /\ running' = 0
  /\ calls[running] = <<>>
  /\ \E out \in {"ok", "error"} :
       /\ calls' = [calls EXCEPT ![running] = <<out>>]
       /\ ready' = (out = "ok" /\ kind[running] # "close")
  /\ UNCHANGED <<nextOp, kind>>

Next == Take \/ TurnAway \/ Answer

Steps == Init /\ [][Next]_sessionVars

Spec == Steps /\ WF_sessionVars(Answer)
=============================================================================
