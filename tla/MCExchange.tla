----------------------------- MODULE MCExchange -----------------------------
(* Two queries without a name; two that share one; and one whose name is   *)
(* that of their portal.  '$' (36) is a parameter.                         *)
EXTENDS Exchange

MCName == [u |-> <<>>, v |-> <<>>, s |-> <<115>>, t |-> <<115>>, p |-> <<115, 112>>]
MCText == [u |-> <<97, 36>>, v |-> <<98>>, s |-> <<99, 36>>, t |-> <<100>>, p |-> <<101>>]
MCMaxBind == [u |-> 1, v |-> 0, s |-> 2, t |-> 0, p |-> 0]
=============================================================================
