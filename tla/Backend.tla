------------------------------ MODULE Backend ------------------------------
(***************************************************************************)
(* EXTERNAL: the PostgreSQL server at the other end of the stream, as far  *)
(* as the client's code depends on it: which messages it sends in which    *)
(* order (protocol version 3).  It serves one session at a time; every     *)
(* message carries the op of the request it answers, 0 outside a request.  *)
(***************************************************************************)
EXTENDS Connection

CONSTANTS
  Features,   \* what this server may do, among AllFeatures
  Budget      \* bound: optional messages in one behaviour

AllFeatures == {"md5", "other_auth", "reject", "parse_error", "null", "copy",
                "notice", "fatal", "crash", "refuse"}

ASSUME BackendAssumption == Features \subseteq AllFeatures /\ Budget \in Nat

VARIABLES
  phase,      \* where the session stands
  cur,        \* the op being served, 0 for none
  budget,     \* optional messages it may still send
  sent        \* for each op, the messages sent that belong in its ResultSet

backendVars == <<phase, cur, budget, sent>>

Phase == {"gone", "startup", "auth", "password", "verify", "other", "params",
          "ready", "idle", "stmt", "rows", "more", "copyin", "parse", "bind",
          "describe", "described", "ext", "extRows", "extNone", "execRows",
          "execNone", "skip"}

\* The messages the client puts in a ResultSet.
Visible == {"RowDescription", "DataRow", "ErrorResponse"}

BackendTypeOK ==
  /\ phase \in Phase
  /\ cur \in 0 .. MaxOps
  /\ budget \in 0 .. Budget
  /\ sent \in [Ops -> Seq(Message)]

BackendInit ==
  /\ phase = "gone" /\ cur = 0 /\ budget = Budget
  /\ sent = [i \in Ops |-> <<>>]

\* <<phase, message, argument, next phase, feature>>: messages that advance
\* the session.  "core" is what every server does.
Must ==
  { <<"auth",      "Authentication",       "ok",    "params",    "core">>,
    <<"auth",      "Authentication",       "md5",   "password",  "md5">>,
    <<"auth",      "Authentication",       "other", "other",     "other_auth">>,
    <<"auth",      "ErrorResponse",        "none",  "gone",      "reject">>,
    <<"verify",    "Authentication",       "ok",    "params",    "core">>,
    <<"verify",    "ErrorResponse",        "none",  "gone",      "reject">>,
    <<"params",    "BackendKeyData",       "none",  "ready",     "core">>,
    <<"ready",     "ReadyForQuery",        "none",  "idle",      "core">>,
    <<"stmt",      "RowDescription",       "none",  "rows",      "core">>,
    <<"stmt",      "CommandComplete",      "none",  "more",      "core">>,
    <<"stmt",      "ErrorResponse",        "none",  "ready",     "core">>,
    <<"stmt",      "EmptyQueryResponse",   "none",  "ready",     "core">>,
    <<"stmt",      "CopyInResponse",       "none",  "copyin",    "copy">>,
    <<"rows",      "CommandComplete",      "none",  "more",      "core">>,
    <<"rows",      "ErrorResponse",        "none",  "ready",     "core">>,
    <<"more",      "ReadyForQuery",        "none",  "idle",      "core">>,
    <<"parse",     "ParseComplete",        "none",  "ext",       "core">>,
    <<"parse",     "ErrorResponse",        "none",  "skip",      "parse_error">>,
    <<"bind",      "BindComplete",         "none",  "ext",       "core">>,
    <<"bind",      "ErrorResponse",        "none",  "skip",      "core">>,
    <<"describe",  "ParameterDescription", "none",  "described", "core">>,
    <<"describe",  "RowDescription",       "none",  "extRows",   "core">>,
    <<"describe",  "NoData",               "none",  "extNone",   "core">>,
    <<"described", "RowDescription",       "none",  "extRows",   "core">>,
    <<"described", "NoData",               "none",  "extNone",   "core">>,
    <<"execRows",  "CommandComplete",      "none",  "ext",       "core">>,
    <<"execRows",  "ErrorResponse",        "none",  "skip",      "core">>,
    <<"execNone",  "CommandComplete",      "none",  "ext",       "core">> }

\* Messages the session may send or not, each taking from the budget.
May ==
  { <<"params",    "ParameterStatus",      "none",  "params",    "core">>,
    <<"rows",      "DataRow",              "value", "rows",      "core">>,
    <<"rows",      "DataRow",              "null",  "rows",      "null">>,
    <<"rows",      "NoticeResponse",       "none",  "rows",      "notice">>,
    <<"more",      "RowDescription",       "none",  "rows",      "core">>,
    <<"more",      "CommandComplete",      "none",  "more",      "core">>,
    <<"more",      "ErrorResponse",        "none",  "ready",     "core">>,
    <<"execRows",  "DataRow",              "value", "execRows",  "core">>,
    <<"execRows",  "DataRow",              "null",  "execRows",  "null">>,
    <<"execNone",  "NoticeResponse",       "none",  "execNone",  "notice">>,
    <<"idle",      "NoticeResponse",       "none",  "idle",      "notice">>,
    <<"idle",      "ErrorResponse",        "none",  "gone",      "fatal">> }

\* <<phase, request, next phase>>.
Accepts ==
  { <<"startup",  "StartUp",  "auth">>,
    <<"password", "Password", "verify">>,
    <<"idle",     "Query",    "stmt">>,
    <<"idle",     "Parse",    "parse">>,
    <<"idle",     "Bind",     "bind">>,
    <<"ext",      "Describe", "describe">>,
    <<"extRows",  "Execute",  "execRows">>,
    <<"extNone",  "Execute",  "execNone">>,
    <<"ext",      "Sync",     "ready">>,
    <<"skip",     "Describe", "skip">>,
    <<"skip",     "Execute",  "skip">>,
    <<"skip",     "Sync",     "ready">> }
  \cup {<<p, "Terminate", "gone">> : p \in {"idle", "other", "copyin", "password"}}

-----------------------------------------------------------------------------
\* A new connection reaches the server.
NewSession ==
  /\ phase' = "startup" /\ cur' = 0
  /\ UNCHANGED <<budget, sent>>

\* Send the message of rule r.
send(r) ==
  LET m == [type |-> r[2], arg |-> r[3], op |-> cur] IN
  /\ phase = r[1] /\ phase' = r[4]
  /\ r[5] \in Features \cup {"core"}
  /\ inbox' = Append(inbox, m)
  /\ alive' = (r[4] # "gone")
  /\ cur' = IF r[4] = "idle" THEN 0 ELSE cur
  /\ sent' = IF r[2] \in Visible /\ cur # 0
             THEN [sent EXCEPT ![cur] = Append(@, m)] ELSE sent
  /\ UNCHANGED <<sock, pending, reads, writes, half, desync, outbox>>

reply == \E r \in Must : send(r) /\ UNCHANGED budget

replyMore == budget > 0 /\ budget' = budget - 1 /\ \E r \in May : send(r)

accept ==
  /\ outbox # <<>>
  /\ \E r \in Accepts :
       /\ r[1] = phase /\ r[2] = Head(outbox).type
       /\ phase' = r[3] /\ alive' = (r[3] # "gone")
  /\ cur' = Head(outbox).op
  /\ outbox' = Tail(outbox)
  /\ UNCHANGED <<budget, sent, sock, pending, reads, writes, half, desync, inbox>>

\* The server, or the network, goes away.
crash ==
  /\ "crash" \in Features /\ alive
  /\ phase' = "gone" /\ alive' = FALSE
  /\ UNCHANGED <<cur, budget, sent>>
  /\ UNCHANGED <<sock, pending, reads, writes, half, desync, inbox, outbox>>
=============================================================================
