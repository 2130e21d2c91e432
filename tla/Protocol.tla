------------------------------ MODULE Protocol ------------------------------
(***************************************************************************)
(* The vocabulary of the PostgreSQL v3 client: the states of the client    *)
(* machine (FSM::State), the message classes of protocol.h, the transition *)
(* table FSM::m_state_table and, for each message the client writes, what  *)
(* the completion callback of the write does next.                         *)
(***************************************************************************)
EXTENDS Naturals, Sequences

\* FSM::State.
State == {"AUTH", "CONN", "IDLE", "QUERY", "EQUERY", "CLOSE", "END"}

\* Messages the client writes.  SSLRequest has no place here: it belongs to
\* the handshake, before the message stream exists.
FrontendMsg == {"StartUp", "Password", "Query", "Parse", "Bind", "Describe",
                "Execute", "Sync", "Terminate"}

\* Messages of the server the client has a class for, and the ones a
\* PostgreSQL server also sends, for which it has none.
KnownMsg == {"Authentication", "BackendKeyData", "BindComplete",
             "CloseComplete", "CommandComplete", "DataRow", "ErrorResponse",
             "NoticeResponse", "ParameterDescription", "ParameterStatus",
             "ParseComplete", "ReadyForQuery", "RowDescription"}
UnknownMsg == {"NoData", "EmptyQueryResponse", "CopyInResponse"}
BackendMsg == KnownMsg \cup UnknownMsg

\* FSM::m_state_table: <<state, event, action>>.  IDLE and END have no row.
m_state_table ==
  { <<"AUTH",   "Authentication",       "authenticate">>,
    <<"AUTH",   "ErrorResponse",        "authError">>,
    <<"CONN",   "BackendKeyData",       "backendKeyData">>,
    <<"CONN",   "ReadyForQuery",        "readyForQuery">>,
    <<"CONN",   "ParameterStatus",      "parameterStatus">>,
    <<"QUERY",  "RowDescription",       "rowDescription">>,
    <<"QUERY",  "DataRow",              "dataRow">>,
    <<"QUERY",  "CommandComplete",      "commandComplete">>,
    <<"QUERY",  "ParseComplete",        "parseComplete">>,
    <<"QUERY",  "ReadyForQuery",        "readyForQuery">>,
    <<"QUERY",  "NoticeResponse",       "noticeResponse">>,
    <<"QUERY",  "ErrorResponse",        "query_error">>,
    <<"EQUERY", "BindComplete",         "bindComplete">>,
    <<"EQUERY", "RowDescription",       "rowDescription">>,
    <<"EQUERY", "ParameterDescription", "parameterDescription">>,
    <<"EQUERY", "DataRow",              "dataRow">>,
    <<"EQUERY", "CommandComplete",      "commandComplete">>,
    <<"EQUERY", "ReadyForQuery",        "readyForQuery">>,
    <<"EQUERY", "NoticeResponse",       "noticeResponse">>,
    <<"EQUERY", "ErrorResponse",        "query_error">>,
    <<"CLOSE",  "CloseComplete",        "closeComplete">> }

\* What the callback of a completed write does: start the next write of the
\* chain.  The writes that end a chain of writes are LastWrite.
NextWrite == [Bind |-> "Describe", Describe |-> "Execute",
              Execute |-> "Sync", Parse |-> "Sync"]

\* The writes whose callback starts to read the answer: this->receive().
LastWrite == {"StartUp", "Password", "Query", "Sync"}
=============================================================================
