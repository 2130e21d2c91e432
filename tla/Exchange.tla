------------------------------ MODULE Exchange ------------------------------
(***************************************************************************)
(* What the client tells the server, byte for byte: the options of a       *)
(* connection and where they come from, and the queries and prepared       *)
(* statements of a session (util.cpp, dbquery.h, protocol.cpp and the      *)
(* calls of fsm.cpp).  The order of reads and writes and the failures of   *)
(* the transport are the subject of Client; here a call writes all its     *)
(* messages and the server answers them.                                   *)
(*                                                                         *)
(* Queries are the DBQuery objects of the application; Name, Text and      *)
(* MaxBind give each its name (<<>> for none), its query and a bound on    *)
(* the values that are bound to it.                                        *)
(***************************************************************************)
EXTENDS Options, FiniteSets

CONSTANTS Queries, Name, Text, MaxBind

VARIABLES
  stage,    \* of the connection: "start", "configured", "context", "greeting",
            \* "connecting", "started", "session", "closed" or "failed"
  setting,  \* what the application, the environment and the system provide
  option,   \* the Option
  context,  \* what setContext left, and the issuer of the peer
  m_bind,   \* of each DBQuery
  wire,     \* the bytes on their way: to whom, and what they shall mean
  server,   \* the session at the server
  runs      \* ghost: what the server ran, for which DBQuery with a name

vars == <<stage, setting, option, context, m_bind, wire, server, runs>>

m_name(q) == Name[q]
m_query(q) == Text[q]
m_portal(q) == IF Name[q] = <<>> THEN <<>> ELSE Name[q] \o <<112>>

-----------------------------------------------------------------------------
(* The messages of the client.                                             *)

PROTOCOL_VERSION == 196608
SSL_REQUEST_CODE == 80877103

SSLRequest == serializeMessage(0, serializeInt32(SSL_REQUEST_CODE))

startUp(o) ==
  serializeMessage(0, serializeInt32(PROTOCOL_VERSION) \o serializeMap(o))

query(text) == serializeMessage(81, serialize(text))

parse(q) ==
  serializeMessage(80, serialize(m_name(q)) \o serialize(m_query(q)) \o serializeOids(<<>>))

\* (Slip) The size of a value counts a terminating 0.
boundValue_counted(v) == serializeInt32(Len(v) + 1) \o serializeByte(v)

boundValue(v) == serializeInt32(Len(v)) \o serializeByte(v)

\* (Slip) The name of the portal is written for that of the statement as well.
bind_portal(q) ==
  serializeMessage(66,
    serialize(m_portal(q)) \o serialize(m_portal(q)) \o serializeInt16(0)
      \o serializeInt16(Len(m_bind[q]))
      \o FlattenSeq([i \in DOMAIN m_bind[q] |-> boundValue(m_bind[q][i])])
      \o serializeInt16(1) \o serializeInt16(0))

bind(q) ==
  serializeMessage(66,
    serialize(m_portal(q)) \o serialize(m_name(q)) \o serializeInt16(0)
      \o serializeInt16(Len(m_bind[q]))
      \o FlattenSeq([i \in DOMAIN m_bind[q] |-> boundValue(m_bind[q][i])])
      \o serializeInt16(1) \o serializeInt16(0))

\* (Slip) The unnamed statement is described, whatever is run.
describe_unnamed(q) == serializeMessage(68, <<83>> \o serialize(<<>>))

describe(q) ==
  serializeMessage(68, IF m_portal(q) # <<>> THEN <<80>> \o serialize(m_portal(q))
                                             ELSE <<83>> \o serialize(m_name(q)))

\* (Slip) The unnamed portal is run.
execute_unnamed(q) == serializeMessage(69, serialize(<<>>) \o serializeInt32(0))

execute(q) == serializeMessage(69, serialize(m_portal(q)) \o serializeInt32(0))

sync == serializeMessage(83, <<>>)

Terminate == serializeMessage(88, <<>>)

-----------------------------------------------------------------------------
(* The server: external.  How it reads the bytes, after the description of *)
(* the protocol and with nothing of the client's code.                     *)

Cut(b, pos, n) == SubSeq(b, pos + 1, Min({Len(b), pos + n}))

Number(b, pos, n) == FoldLeft(LAMBDA v, c : 256 * v + c, 0, Cut(b, pos, n))

String(b, pos) ==
  LET z == SelectInSubSeq(b, pos + 1, Len(b), LAMBDA c : c = 0)
  IN  Cut(b, pos, IF z = 0 THEN Len(b) ELSE z - pos - 1)

After(b, pos) == pos + Len(String(b, pos)) + 1

Whole(b, pos) == pos = Len(b)

\* <<type, body>> for each message of b.
Frames(b) ==
  LET from[pos \in 0 .. Len(b)] ==
        IF pos = Len(b) THEN <<>>
        ELSE LET n == Number(b, pos + 1, 4)
                 end == pos + 1 + n
             IN  << <<b[pos + 1], Cut(b, pos + 5, n - 4)>> >>
                   \o (IF n >= 4 /\ end <= Len(b) THEN from[end] ELSE <<>>)
  IN  from[0]

Values(b, pos, n) ==
  FoldLeft(LAMBDA r, i : [pos |-> r.pos + 4 + Number(b, r.pos, 4),
                          v |-> Append(r.v, Cut(b, r.pos + 4, Number(b, r.pos, 4)))],
           [pos |-> pos, v |-> <<>>], [i \in 1 .. n |-> i])

ReadParse(b) ==
  LET p == After(b, 0) IN
  [type |-> "Parse", name |-> String(b, 0), query |-> String(b, p),
   ok |-> Whole(b, After(b, p) + 2 + 4 * Number(b, After(b, p), 2))]

ReadBind(b) ==
  LET p == After(b, 0)
      f == After(b, p)
      n == f + 2 + 2 * Number(b, f, 2)
      r == Values(b, n + 2, Number(b, n, 2))
  IN  [type |-> "Bind", portal |-> String(b, 0), name |-> String(b, p), values |-> r.v,
       ok |-> Whole(b, r.pos + 2 + 2 * Number(b, r.pos, 2))]

ReadFrame(f) ==
  LET b == f[2] IN
  CASE f[1] = 80 -> ReadParse(b)
    [] f[1] = 66 -> ReadBind(b)
    [] f[1] = 68 -> [type |-> "Describe", portal |-> b[1] = 80, name |-> String(b, 1),
                     ok |-> Whole(b, After(b, 1))]
    [] f[1] = 69 -> [type |-> "Execute", portal |-> String(b, 0),
                     ok |-> Whole(b, After(b, 0) + 4)]
    [] f[1] = 81 -> [type |-> "Query", query |-> String(b, 0), ok |-> Whole(b, After(b, 0))]
    [] f[1] = 88 -> [type |-> "Terminate", ok |-> Whole(b, 0)]
    [] OTHER -> [type |-> "Sync", ok |-> Whole(b, 0)]

\* What comes first has no type; a number tells a start-up packet from a request
\* for TLS.
ReadStartUp(b) ==
  LET from[pos \in 0 .. Len(b)] ==
        IF pos = Len(b) \/ String(b, pos) = <<>> THEN [end |-> pos + 1, params |-> {}]
        ELSE LET r == from[Min({Len(b), After(b, After(b, pos))})] IN
             [r EXCEPT !.params = @ \cup {<<String(b, pos), String(b, After(b, pos))>>}]
      r == from[8]
  IN  [type |-> "StartUp", version |-> Number(b, 4, 4), params |-> r.params,
       ok |-> Number(b, 0, 4) = Len(b) /\ Whole(b, r.end)]

ReadFirst(b) ==
  IF Number(b, 4, 4) = 80877103
  THEN [type |-> "SSLRequest", ok |-> Number(b, 0, 4) = Len(b) /\ Whole(b, 8)]
  ELSE ReadStartUp(b)

-----------------------------------------------------------------------------
(* What the server does: external.  '$' in a query is a parameter; Begin   *)
(* and End are the texts that open and close a transaction block.          *)

Begin == <<66>>
End == <<69>>
Plain == <<115>>

Empty == [n \in {} |-> <<>>]
Nothing == [query |-> <<>>, values |-> << >>]

NParams(text) == Cardinality({i \in DOMAIN text : text[i] = 36})

NewSession == [params |-> {}, stmts |-> Empty, portals |-> Empty, tx |-> "none",
               skip |-> FALSE, described |-> <<>>, ran |-> Nothing]

Without(f, S) == [n \in DOMAIN f \ S |-> f[n]]

refuse(s) == [s EXCEPT !.skip = TRUE, !.portals = Empty,
                       !.tx = IF @ = "none" THEN "none" ELSE "failed"]

ServeParse(s, m) ==
  IF m.name # <<>> /\ m.name \in DOMAIN s.stmts
  THEN refuse(s)
  ELSE [s EXCEPT !.stmts = with(@, m.name, m.query)]

ServeBind(s, m) ==
  IF \/ m.name \notin DOMAIN s.stmts
     \/ m.portal # <<>> /\ m.portal \in DOMAIN s.portals
     \/ Len(m.values) # NParams(s.stmts[m.name])
  THEN refuse(s)
  ELSE [s EXCEPT !.portals = with(@, m.portal, [query |-> s.stmts[m.name], values |-> m.values])]

ServeDescribe(s, m) ==
  CASE m.portal /\ m.name \in DOMAIN s.portals -> [s EXCEPT !.described = s.portals[m.name].query]
    [] ~m.portal /\ m.name \in DOMAIN s.stmts -> [s EXCEPT !.described = s.stmts[m.name]]
    [] OTHER -> refuse(s)

ServeExecute(s, m) ==
  IF m.portal \in DOMAIN s.portals THEN [s EXCEPT !.ran = s.portals[m.portal]] ELSE refuse(s)

\* A simple query does away with the unnamed statement, and ends with a Sync.
ServeQuery(s, m) ==
  LET t == [s EXCEPT !.stmts = Without(@, {<<>>}), !.portals = Without(@, {<<>>})] IN
  CASE m.query = Begin -> [t EXCEPT !.tx = "open"]
    [] m.query = End -> [t EXCEPT !.tx = "none", !.portals = Empty]
    [] OTHER -> t

ServeSync(s) == [s EXCEPT !.skip = FALSE, !.portals = IF s.tx = "none" THEN Empty ELSE @]

Serve(s, m) ==
  CASE m.type = "Sync" -> ServeSync(s)
    [] m.type = "Terminate" -> NewSession
    [] m.type = "Query" -> IF s.tx = "failed" /\ m.query # End THEN s ELSE ServeQuery(s, m)
    [] m.type # "Query" /\ s.skip -> s
    [] m.type # "Query" /\ ~s.skip /\ s.tx = "failed" -> refuse(s)
    [] OTHER -> CASE m.type = "Parse" -> ServeParse(s, m)
                  [] m.type = "Bind" -> ServeBind(s, m)
                  [] m.type = "Describe" -> ServeDescribe(s, m)
                  [] m.type = "Execute" -> ServeExecute(s, m)

ServeAll(s, ms) ==
  FoldLeft(Serve, [s EXCEPT !.described = <<>>, !.ran = Nothing], ms)

-----------------------------------------------------------------------------
(* What the server tells the client at the start, and with the description *)
(* of a statement: external.  Then how the client reads it.                *)

Told ==
  {[type |-> "Authentication", auth |-> a, salt |-> IF a = 5 THEN <<1, 0, 255, 7>> ELSE <<>>] :
     a \in {0, 3, 5}}
  \cup {[type |-> "ParameterStatus", name |-> <<110>>, value |-> v] : v \in {<<>>, <<120, 121>>}}
  \cup {[type |-> "BackendKeyData", pid |-> 70000, key |-> k] : k \in {0, 258, -2}}
  \cup {[type |-> "ParameterDescription", oids |-> o] : o \in {<<>>, <<23, 1043>>}}

TellBody(m) ==
  CASE m.type = "Authentication" -> serializeInt32(m.auth) \o m.salt
    [] m.type = "ParameterStatus" -> m.name \o <<0>> \o m.value \o <<0>>
    [] m.type = "BackendKeyData" -> serializeInt32(m.pid) \o serializeInt32(m.key)
    [] m.type = "ParameterDescription" ->
         serializeInt16(Len(m.oids))
           \o FlattenSeq([i \in DOMAIN m.oids |-> serializeInt32(m.oids[i])])

TellType(m) ==
  CASE m.type = "Authentication" -> 82
    [] m.type = "ParameterStatus" -> 83
    [] m.type = "BackendKeyData" -> 75
    [] m.type = "ParameterDescription" -> 116

Tell(m) ==
  LET body == TellBody(m) IN <<TellType(m)>> \o serializeInt32(Len(body) + 4) \o body

\* receive(): a header, then as many bytes as it announces.
receive(b) ==
  LET body == SubSeq(b, HeaderSize + 1, Min({Len(b), HeaderSize + bodyLen(b)})) IN
  CASE messageType(b) = 82 -> LET a == authenticationBody(body) IN
                              [type |-> "Authentication", auth |-> a.type, salt |-> a.salt]
    [] messageType(b) = 83 -> LET p == parameterStatusBody(body) IN
                              [type |-> "ParameterStatus", name |-> p.name, value |-> p.value]
    [] messageType(b) = 75 -> LET k == backendKeyDataBody(body) IN
                              [type |-> "BackendKeyData", pid |-> k.pid, key |-> k.key]
    [] messageType(b) = 116 ->
         [type |-> "ParameterDescription", oids |-> parameterDescriptionBody(body)]

-----------------------------------------------------------------------------
NoOne == "no one"
Idle == [to |-> NoOne, bytes |-> <<>>, means |-> <<>>, q |-> NoOne]
NoSetting == [option |-> Empty, env |-> Empty, uname |-> <<>>]
NoContext == [ec |-> "none", returned |-> FALSE, loaded |-> {}, files |-> Empty, issuer |-> <<>>]

Init ==
  /\ stage = "start"
  /\ setting = NoSetting
  /\ option = Empty
  /\ context = NoContext
  /\ m_bind = [q \in Queries |-> <<>>]
  /\ wire = Idle
  /\ server = NewSession
  /\ runs = {}

(* Before the connection.                                                  *)

\* The Options over keys, with values of the sets Choice gives; <<1>> is no value.
OptionsOver(Choice) ==
  {Without(f, {k \in DOMAIN f : f[k] = <<1>>}) :
     f \in {g \in [DOMAIN Choice -> UNION {Choice[k] : k \in DOMAIN Choice}] :
              \A k \in DOMAIN Choice : g[k] \in Choice[k]}}

Named(keys, name) == {Empty, [k \in keys |-> name]}

Given == {o @@ f : o \in OptionsOver(USER :> {<<1>>, <<98>>} @@ SSLMODE :> {<<1>>, VERIFY_CA, <<98>>}),
                   f \in Named({SSLROOTCERT, SSLKEY}, <<98>>)}
Environments == {e @@ f : e \in OptionsOver(USER :> {<<1>>, <<>>, <<101>>}
                                              @@ SSLMODE :> {<<1>>, VERIFY_FULL}),
                          f \in Named({SSLCRL, SSLCERT}, <<101>>)}

\* util::getEnv(option).
Configure ==
  /\ stage = "start"
  /\ \E given \in Given, env \in Environments, uname \in {<<>>, <<117, 49>>} :
       /\ setting' = [option |-> given, env |-> env, uname |-> uname]
       /\ option' = getEnv(given, env, uname)
  /\ stage' = "configured"
  /\ UNCHANGED <<context, m_bind, wire, server, runs>>

\* util::setContext(option, context); an Error ends the attempt.
MakeContext ==
  /\ stage = "configured"
  /\ \E files \in [Range(ServerKeys \o ClientKeys) -> FileKind] :
       /\ \A k \in DOMAIN files : k \in Range(looked(option)) \/ files[k] = "missing"
       /\ LET r == setContext(option, files) IN
          /\ context' = [ec |-> r.ec, returned |-> r.returned, loaded |-> r.loaded,
                         files |-> files, issuer |-> <<>>]
          /\ stage' = IF r.ec = "none" THEN "context" ELSE "failed"
  /\ UNCHANGED <<setting, option, m_bind, wire, server, runs>>

ToServer(bytes, means, q) ==
  wire' = [to |-> "server", bytes |-> bytes, means |-> means, q |-> q]

SendStartUp ==
  ToServer(startUp(option),
           [type |-> "StartUp", version |-> PROTOCOL_VERSION,
            params |-> {<<k, option[k]>> : k \in DOMAIN option}, ok |-> TRUE], NoOne)

\* FSM::connect.
connect ==
  /\ stage = "configured"
  /\ SendStartUp
  /\ stage' = "connecting"
  /\ UNCHANGED <<setting, option, context, m_bind, server, runs>>

\* FSM::connectSSL, up to the SSLRequest of handshake().
connectSSL ==
  /\ stage = "context"
  /\ ToServer(SSLRequest, [type |-> "SSLRequest", ok |-> TRUE], NoOne)
  /\ context' = [context EXCEPT !.files = Empty]
  /\ stage' = "greeting"
  /\ UNCHANGED <<setting, option, m_bind, server, runs>>

\* The rest of handshake(), with a peer whose certificate was issued by issuer:
\* the server has to answer 'S' and the certificate to pass.
handshake ==
  /\ stage = "greeting"
  /\ wire.to = "client"
  /\ \E issuer \in {SSLROOTCERT, DEFAULT_PATHS, <<1>>} :
       /\ context' = [context EXCEPT !.issuer = issuer]
       /\ \/ /\ wire.bytes = <<83>>
             /\ verifyCertificate(getSSLMode(option), issuer \in context.loaded)
             /\ SendStartUp
             /\ stage' = "connecting"
          \/ /\ \/ wire.bytes # <<83>>
                \/ ~verifyCertificate(getSSLMode(option), issuer \in context.loaded)
             /\ stage' = "failed"
             /\ wire' = Idle
  /\ UNCHANGED <<setting, option, m_bind, server, runs>>

(* The session.  A call is made when the one before is answered.           *)

Ask(bytes, means, q) ==
  /\ stage = "session"
  /\ wire = Idle
  /\ ToServer(bytes, means, q)
  /\ UNCHANGED <<stage, setting, option, context, m_bind, server, runs>>

Sync == [type |-> "Sync", ok |-> TRUE]

\* FSM::exec of a string.
exec(text) == Ask(query(text), <<[type |-> "Query", query |-> text, ok |-> TRUE]>>, NoOne)

\* FSM::parse.
prepare(q) ==
  Ask(parse(q) \o sync,
      <<[type |-> "Parse", name |-> m_name(q), query |-> m_query(q), ok |-> TRUE], Sync>>, NoOne)

\* FSM::exec of a DBQuery.
execQuery(q) ==
  Ask(bind(q) \o describe(q) \o execute(q) \o sync,
      <<[type |-> "Bind", portal |-> m_portal(q), name |-> m_name(q),
         values |-> m_bind[q], ok |-> TRUE],
        [type |-> "Describe", portal |-> m_portal(q) # <<>>,
         name |-> IF m_portal(q) # <<>> THEN m_portal(q) ELSE m_name(q), ok |-> TRUE],
        [type |-> "Execute", portal |-> m_portal(q), ok |-> TRUE], Sync>>, q)

\* FSM::close.
close ==
  /\ stage = "session"
  /\ wire = Idle
  /\ ToServer(Terminate, <<[type |-> "Terminate", ok |-> TRUE]>>, NoOne)
  /\ stage' = "closed"
  /\ UNCHANGED <<setting, option, context, m_bind, server, runs>>

\* DBQuery::bind; v is the text that operator<< makes of its argument.
bindValue(q, v) ==
  /\ stage = "session"
  /\ wire = Idle
  /\ Len(m_bind[q]) < MaxBind[q]
  /\ m_bind' = [m_bind EXCEPT ![q] = Append(@, v)]
  /\ UNCHANGED <<stage, setting, option, context, wire, server, runs>>

(* The server and what it says: external.                                  *)

Understands(b) ==
  IF stage \in {"greeting", "connecting"} THEN ReadFirst(b)
  ELSE LET frames == Frames(b) IN [i \in DOMAIN frames |-> ReadFrame(frames[i])]

ServerReads ==
  /\ wire.to = "server" /\ stage # "greeting"
  /\ LET m == Understands(wire.bytes) IN
     IF stage = "connecting"
     THEN /\ server' = [server EXCEPT !.params = m.params]
          /\ UNCHANGED runs
     ELSE /\ server' = ServeAll(server, m)
          /\ runs' = runs \cup {[q |-> q, query |-> server'.ran.query, values |-> server'.ran.values] :
                               q \in {q \in Queries \cap {wire.q} :
                                        Name[q] # <<>> /\ server'.ran # Nothing}}
  /\ stage' = IF stage = "connecting" THEN "started" ELSE stage
  /\ wire' = Idle
  /\ UNCHANGED <<setting, option, context, m_bind>>

\* 'S', the server is ready for TLS, or 'N', it is not.
ServerAnswersSSL ==
  /\ stage = "greeting" /\ wire.to = "server"
  /\ \E c \in {83, 78} : wire' = [to |-> "client", bytes |-> <<c>>, means |-> <<c>>, q |-> NoOne]
  /\ UNCHANGED <<stage, setting, option, context, m_bind, server, runs>>

\* The statement run was described without a portal: its parameters are sent.
ServerTells ==
  /\ wire = Idle
  /\ \E m \in Told :
       /\ \/ stage = "started" /\ m.type # "ParameterDescription"
          \/ stage = "session" /\ m.type = "ParameterDescription" /\ server.described # <<>>
       /\ wire' = [to |-> "client", bytes |-> Tell(m), means |-> m, q |-> NoOne]
  /\ server' = [server EXCEPT !.described = <<>>]
  /\ UNCHANGED <<stage, setting, option, context, m_bind, runs>>

ClientReads ==
  /\ wire.to = "client" /\ stage # "greeting"
  /\ wire' = Idle
  /\ UNCHANGED <<stage, setting, option, context, m_bind, server, runs>>

\* What the session was started with plays no part in the rest.
readyForQuery ==
  /\ stage = "started"
  /\ wire = Idle
  /\ stage' = "session"
  /\ setting' = NoSetting
  /\ option' = Empty
  /\ context' = NoContext
  /\ server' = NewSession
  /\ UNCHANGED <<m_bind, wire, runs>>

Next ==
  \/ Configure \/ MakeContext \/ connect \/ connectSSL \/ handshake
  \/ ServerReads \/ ServerAnswersSSL \/ ServerTells \/ ClientReads \/ readyForQuery \/ close
  \/ \E text \in {Begin, End, Plain} : exec(text)
  \/ \E q \in Queries : prepare(q) \/ execQuery(q) \/ \E v \in {<<>>, <<49>>} : bindValue(q, v)

Spec == Init /\ [][Next]_vars

-----------------------------------------------------------------------------
(* Properties.                                                             *)

\* Every message means to its reader what it meant to its writer, to the last
\* byte: what serialize() of SSLRequest, StartUp, Query, Parse, Bind, Describe,
\* Execute, Sync and Terminate write the server reads back, from one stream of
\* bytes; what the server writes the deserialize() functions read back.
Understood ==
  /\ wire.to = "server" => Understands(wire.bytes) = wire.means
  /\ wire.to = "client" /\ stage # "greeting" => receive(wire.bytes) = wire.means

\* The server gets each option from the first that has it: the application, a
\* variable of the environment that is not empty and, for the user, the system
\* (getEnv, StartUp); an option no one has is not sent.
ServerGetsOptions ==
  stage = "started" =>
    LET has == {k \in EnvKeys : k \in DOMAIN setting.option}
        env == {k \in EnvKeys \ has : k \in DOMAIN setting.env /\ setting.env[k] # <<>>}
        sys == {k \in {USER} \ (has \cup env) : setting.uname # <<>>}
    IN  server.params = {<<k, setting.option[k]>> : k \in has}
                          \cup {<<k, setting.env[k]>> : k \in env}
                          \cup {<<k, setting.uname>> : k \in sys}

NamedAs(kind) == {k \in Range(looked(option)) : k \in DOMAIN option /\ context.files[k] = kind}

\* setContext reports success only if every file the options name and every
\* default file that is there was loaded, and there is something to verify the
\* peer with when it shall be verified.  The exception is a name that belongs to
\* a directory or the like: is_regular_file() clears ec, and Error(ec) is no error.
NothingSkipped ==
  stage = "context" /\ NamedAs("special") = {} =>
    /\ \A k \in Range(looked(option)) :
         k \in DOMAIN option \/ context.files[k] = "good" => k \in context.loaded
    /\ Verifying(getSSLMode(option)) => context.loaded \cap {SSLROOTCERT, DEFAULT_PATHS} # {}

\* setContext reports an error only if a file cannot be loaded or a file that is
\* named is missing; or, since ec still holds what the last is_regular_file()
\* left, if there is no default key.
ErrorMeansProblem ==
  stage = "failed" /\ context.ec # "none" =>
    \/ \E k \in Range(looked(option)) : context.files[k] = "bad"
    \/ NamedAs("missing") # {}
    \/ SSLKEY \notin DOMAIN option /\ context.files[SSLKEY] = "missing"

\* Whoever asks for verify_ca or verify_full, the application or the environment,
\* speaks TLS only to a peer that one of the loaded certificates vouches for.
VerifiedPeer ==
  LET mode == IF SSLMODE \in DOMAIN setting.option THEN setting.option[SSLMODE]
              ELSE IF SSLMODE \in DOMAIN setting.env THEN setting.env[SSLMODE] ELSE <<>>
  IN  stage \in {"connecting", "started"} /\ context # NoContext /\ mode \in {VERIFY_CA, VERIFY_FULL}
        => context.issuer \in context.loaded

CanRun(q) ==
  /\ Name[q] \in DOMAIN server.stmts
  /\ Len(m_bind[q]) = NParams(server.stmts[Name[q]])
  /\ server.tx = "none"

\* exec() of a DBQuery runs the statement the server has under its name, with the
\* values bound so far and no others, or nothing: never a portal an earlier exec()
\* left open.  Outside a transaction block it does run if the values are as many
\* as the parameters.
RunsAsAsked ==
  [][ServerReads /\ wire.q \in Queries =>
       /\ \/ server'.ran = Nothing
          \/ server'.ran = [query |-> server.stmts[Name[wire.q]], values |-> m_bind[wire.q]]
       /\ CanRun(wire.q) => server'.ran # Nothing]_vars

\* In one session a name stands for one text, that of a DBQuery of this name:
\* whatever is prepared in between, also under the name of a portal, and whether
\* or not a second prepare() of the name is refused, exec() of a named DBQuery
\* runs no other statement.  Two DBQuery objects of one name share that text.
NameMeansOneText ==
  \A r \in runs :
    /\ \E p \in Queries : Name[p] = Name[r.q] /\ Text[p] = r.query
    /\ \A o \in runs : Name[o.q] = Name[r.q] => o.query = r.query

\* The columns exec() of a DBQuery is told of are those of the statement that
\* runs, though Describe names a portal for some queries and a statement for others.
DescribedIsRun ==
  server.ran # Nothing /\ server.described # <<>> => server.described = server.ran.query
=============================================================================
