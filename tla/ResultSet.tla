----------------------------- MODULE ResultSet -----------------------------
(***************************************************************************)
(* What the application finds in a ResultSet (dbresult.h) after a simple   *)
(* query: the handlers of FSM that write to it, the deserialisation of the *)
(* bytes they are given (protocol.cpp, module Codec), the decoding of      *)
(* columns (pgformat.h) and SQLError (error.h).  The messages come in the  *)
(* order module Client establishes: a row only after a description         *)
(* (RowsDescribed).                                                        *)
(***************************************************************************)
EXTENDS Codec, FiniteSets

CONSTANT MaxMsgs   \* bound: messages in answer to the query

VARIABLES
  m_pg_decoder, \* the decoders of the ResultSet's format, by type oid
  m_rset,       \* the RecordSets
  log,          \* the messages handled so far, as the server meant them
  unread,       \* bytes of the last message left by its deserialize()
  status        \* where the call stands

vars == <<m_pg_decoder, m_rset, log, unread, status>>

\* "answered": the handler of the call was called, without an error code.
\* "escaped": an exception left the library.
\* "undefined": a read far outside of the message, after which nothing is known.
Status == {"reading", "answered", "escaped", "undefined"}

-----------------------------------------------------------------------------
(* A std::map is a function; emplace keeps the value it finds.             *)

\* (Slip) The value found is overwritten.
emplace_overwrites(map, key, value) ==
  [k \in DOMAIN map \cup {key} |-> IF k = key THEN value ELSE map[k]]

emplace(map, key, value) ==
  [k \in DOMAIN map \cup {key} |-> IF k \in DOMAIN map THEN map[k] ELSE value]

-----------------------------------------------------------------------------
(* Errors.                                                                 *)

CODE == 67
MESSAGE == 77
SEVERITY == 83
SuccessCode == <<48, 48, 48, 48, 48>>

Success == (CODE :> SuccessCode) @@ (MESSAGE :> <<115>>)

\* SQLError::operator bool.
isError(e) == ~(CODE \in DOMAIN e /\ e[CODE] = SuccessCode)

\* ErrorResponse::deserialize: the fields of the message are put in a SQLError
\* built by its default constructor.
sqlError(fields) ==
  FoldLeft(LAMBDA e, f : emplace(e, f[1], f[2]), Success, fields)

-----------------------------------------------------------------------------
(* Columns.                                                                *)

BOOL == 16
INT4 == 23
TEXT == 25
NUMERIC == 1700

DefaultDecoders == (BOOL :> "bool") @@ (INT4 :> "int") @@ (TEXT :> "string")

\* What an application may register (numeric.cpp: NUMERIC), with emplace.
Registrations == {{}, {NUMERIC}, {INT4, NUMERIC}}

decoders(oids) ==
  [o \in DOMAIN DefaultDecoders \cup oids |->
     emplace(DefaultDecoders, o, "own")[o]]

\* PGFormatType::decode: which function decodes a column.
decoder(fs) == IF fs.type_oid \in DOMAIN m_pg_decoder
               THEN m_pg_decoder[fs.type_oid] ELSE "string"

\* decodeInt4: std::stoi.
stoi(s) == IF Head(s) = 45 THEN 0 - (Last(s) - 48) ELSE Last(s) - 48

\* decodeBool looks at one byte, whatever the size; beyond is the byte after
\* the Buffer.
decodeBool(b, pos, beyond) ==
  (IF at(b, pos) = Outside THEN beyond ELSE at(b, pos)) \in {116, 84}

\* A binary column throws, and so does building a string of a negative size.
throws(fs, sz) == fs.type_format = 1 \/ (decoder(fs) # "bool" /\ sz < 0)

\* The std::any of a column: the decoder that made it, and the value.
decode(fs, b, pos, sz, beyond) ==
  LET text == SubSeq(b, pos + 1, pos + sz) IN
  CASE decoder(fs) = "bool" -> <<"bool", <<decodeBool(b, pos, beyond)>> >>
    [] decoder(fs) = "int"  -> <<"int", <<stoi(text)>> >>
    [] OTHER                -> <<decoder(fs), text>>

\* One turn of the loop of DataRow::deserialize, with add_column.
column(fs, b, r, beyond) ==
  LET sz == deserializeInt32(b, r.pos)
      here == r.pos + 4 IN
  IF ~inside(b, r.pos, 4) THEN [r EXCEPT !.status = "undefined"]
  ELSE IF throws(fs, sz) THEN [r EXCEPT !.status = "escaped"]
  ELSE [r EXCEPT !.pos = here + sz,
                 !.row = Append(@, decode(fs, b, here, sz, beyond))]

\* DataRow::deserialize.
dataRowBody(b, fs, beyond) ==
  FoldLeft(LAMBDA r, i : IF r.status = "reading" THEN column(fs[i], b, r, beyond) ELSE r,
           [pos |-> 2, row |-> <<>>, status |-> "reading"],
           [i \in 1 .. deserializeInt16(b, 0) |-> i])

-----------------------------------------------------------------------------
(* RecordSet and ResultSetType.                                            *)

NoFields == [n \in {} |-> 0]

\* RecordSet(fs): columns are found by name through the first of that name.
described(fs) ==
  [m_field_spec |-> fs,
   m_field_by_name |->
     FoldLeft(LAMBDA map, i : emplace(map, fs[i].name, i), NoFields,
              [i \in 1 .. Len(fs) |-> i]),
   m_row |-> <<>>, m_error |-> Success]

failed(e) == [m_field_spec |-> <<>>, m_field_by_name |-> NoFields,
              m_row |-> <<>>, m_error |-> e]

\* (Slip) The row goes to the first RecordSet.
addRow_front(row) == m_rset' = [m_rset EXCEPT ![1].m_row = Append(@, row)]

\* add_row() and add_column(), for the columns of a DataRow.
addRow(row) == m_rset' = [m_rset EXCEPT ![Len(m_rset)].m_row = Append(@, row)]

\* RecordSet::get(row, name).
get(r, row, name) == r.m_row[row][r.m_field_by_name[name]]

-----------------------------------------------------------------------------
(* EXTERNAL: what a server sends.                                          *)

NULL == <<0>>   \* no text has a 0

Field(n, oid, format) ==
  [name |-> n, type_oid |-> oid, type_format |-> format,
   type_size |-> CASE oid = BOOL -> 1 [] oid = INT4 -> 4 [] OTHER -> -1]

\* Descriptions with no field, one, two, two of the same name, and three.
Descriptions ==
  LET a == <<97>>
      bc == <<98, 99>> IN
  {<<>>} \cup {<<Field(a, oid, 0)>> : oid \in {BOOL, INT4, TEXT, NUMERIC}}
  \cup {<<Field(bc, INT4, 1)>>,
        <<Field(bc, INT4, 0), Field(a, TEXT, 0)>>, <<Field(a, INT4, 0), Field(a, TEXT, 0)>>,
        <<Field(a, BOOL, 0), Field(bc, BOOL, 0), Field(a, NUMERIC, 0)>>}

\* Values of a column, in text format, or NULL.
Wire(f) == CASE f.type_oid = BOOL -> {<<116>>, NULL}
             [] f.type_oid = INT4 -> {<<55>>, <<45, 52>>, NULL}
             [] f.type_oid = TEXT -> {<<>>, <<120, 121>>, NULL}
             [] OTHER             -> {<<57>>}

Rows(fs) == {cells \in [1 .. Len(fs) -> UNION {Wire(f) : f \in Range(fs)}] :
               \A i \in 1 .. Len(fs) : cells[i] \in Wire(fs[i])}

\* Severity, code and message.
WireErrors == {<< <<SEVERITY, <<69>> >>, <<CODE, c>>, <<MESSAGE, <<120>> >> >> :
               c \in {<<52, 50>>, <<53, 55>>}}

\* The body of a message, by its type.
Body(m) ==
  CASE m.type = "RowDescription" ->
         serializeInt16(Len(m.data))
           \o FlattenSeq([i \in DOMAIN m.data |->
                serialize(m.data[i].name) \o serializeInt32(0) \o serializeInt16(0)
                  \o serializeInt32(m.data[i].type_oid) \o serializeInt16(m.data[i].type_size)
                  \o serializeInt32(-1) \o serializeInt16(m.data[i].type_format)])
    [] m.type = "DataRow" ->
         serializeInt16(Len(m.data))
           \o FlattenSeq([i \in DOMAIN m.data |->
                IF m.data[i] = NULL THEN serializeInt32(-1)
                ELSE serializeInt32(Len(m.data[i])) \o m.data[i]])
    [] m.type = "ErrorResponse" ->
         FlattenSeq([i \in DOMAIN m.data |-> <<m.data[i][1]>> \o serialize(m.data[i][2])])
           \o <<0>>
    [] m.type = "CommandComplete" -> serialize(m.data)
    [] m.type = "ReadyForQuery" -> m.data

-----------------------------------------------------------------------------
(* Messages, in the orders a server sends them for one simple query.       *)

Init ==
  /\ \E oids \in Registrations : m_pg_decoder = decoders(oids)
  /\ m_rset = <<>> /\ log = <<>> /\ unread = 0 /\ status = "reading"

InRows == log # <<>> /\ Last(log).type \in {"RowDescription", "DataRow"}
AfterError == log # <<>> /\ Last(log).type = "ErrorResponse"

\* The description of the rows being sent.
Current == log[Max({i \in DOMAIN log : log[i].type = "RowDescription"})].data

\* A message as bytes; its type is of no interest here.
Frame(m) == <<1>> \o serializeInt32(Len(Body(m)) + 4) \o Body(m)

\* What FSM::receive() reads of it.
received(m) ==
  LET bytes == Frame(m) IN SubSeq(bytes, HeaderSize + 1, HeaderSize + bodyLen(bytes))

\* deserialize() of m ends at pos.
Handle(m, pos) ==
  /\ status = "reading" /\ ~AfterError /\ Len(log) < MaxMsgs
  /\ log' = Append(log, m)
  /\ unread' = Len(Frame(m)) - HeaderSize - pos
  /\ UNCHANGED m_pg_decoder

rowDescription ==
  \E fs \in Descriptions :
    LET m == [type |-> "RowDescription", data |-> fs]
        r == rowDescriptionBody(received(m)) IN
    /\ ~InRows
    /\ Handle(m, r.pos)
    /\ m_rset' = Append(m_rset, described(r.fs))
    /\ UNCHANGED status

\* (Slip) A column that cannot be decoded is skipped.
dataRow_skips ==
  /\ InRows
  /\ \E cells \in Rows(Current), beyond \in {0, 116} :
       LET m == [type |-> "DataRow", data |-> cells]
           r == dataRowBody(received(m), Last(m_rset).m_field_spec, beyond) IN
       /\ Handle(m, r.pos)
       /\ addRow(r.row)
       /\ UNCHANGED status

dataRow ==
  /\ InRows
  /\ \E cells \in Rows(Current), beyond \in {0, 116} :
       LET m == [type |-> "DataRow", data |-> cells]
           r == dataRowBody(received(m), Last(m_rset).m_field_spec, beyond) IN
       /\ Handle(m, r.pos)
       /\ addRow(r.row)
       /\ status' = r.status

query_error ==
  \E fields \in WireErrors :
    LET m == [type |-> "ErrorResponse", data |-> fields]
        r == errorBody(received(m)) IN
    /\ Handle(m, r.pos)
    /\ m_rset' = Append(m_rset, failed(sqlError(r.fields)))
    /\ UNCHANGED status

commandComplete ==
  LET m == [type |-> "CommandComplete", data |-> <<83, 49>>] IN
  /\ Handle(m, deserializeSize(received(m), 0))
  /\ UNCHANGED <<m_rset, status>>

\* Its only byte is the status of the transaction, which nothing uses.
readyForQuery ==
  /\ status = "reading" /\ log # <<>> /\ ~InRows
  /\ status' = "answered"
  /\ UNCHANGED <<m_pg_decoder, m_rset, log, unread>>

Next == \/ rowDescription \/ dataRow \/ query_error \/ commandComplete
        \/ readyForQuery

Spec == Init /\ [][Next]_vars

-----------------------------------------------------------------------------
(* Properties.                                                             *)

Starts == {i \in DOMAIN log : log[i].type \in {"RowDescription", "ErrorResponse"}}

\* The RecordSet of the result that starts with message i.
Entry(i) == m_rset[Cardinality({j \in Starts : j <= i})]

RowsOf(i) == {j \in DOMAIN log : /\ log[j].type = "DataRow" /\ j > i
                                 /\ \A k \in i + 1 .. j : k \notin Starts}

NullBool(fs, cells) == \E c \in DOMAIN cells : cells[c] = NULL /\ fs[c].type_oid = BOOL

\* The value an application should find: that of the type's own decoder, of
\* the one the application registered, or the text.
Meant(f, cell) ==
  CASE f.type_oid = BOOL -> <<"bool", <<cell = <<116>> >> >>
    [] f.type_oid = INT4 -> <<"int", <<IF cell = <<55>> THEN 7 ELSE -4>> >>
    [] f.type_oid \in DOMAIN m_pg_decoder \ {BOOL, INT4, TEXT} -> <<"own", cell>>
    [] OTHER -> <<"string", cell>>

\* There is one RecordSet for every result and every error of the query, in the
\* order of the query, described as the server described it (the size of a type
\* of variable length, -1, as an unsigned number), with one row for each row
\* sent, in order.
Faithful ==
  /\ Len(m_rset) = Cardinality(Starts)
  /\ \A i \in Starts :
       /\ Len(Entry(i).m_row) = Cardinality(RowsOf(i))
       /\ log[i].type = "RowDescription" =>
            /\ Len(Entry(i).m_field_spec) = Len(log[i].data)
            /\ \A c \in DOMAIN log[i].data :
                 LET f == Entry(i).m_field_spec[c]
                     g == log[i].data[c] IN
                 /\ f.name = g.name /\ f.type_oid = g.type_oid
                 /\ f.type_format = g.type_format /\ f.type_size = g.type_size % 65536

\* The values of a row are those the server sent, one by one: except in a row
\* with a NULL BOOL, from which the columns that follow are read out of place.
ValuesKept ==
  \A i \in Starts : \A j \in RowsOf(i) :
    LET fs == log[i].data
        row == Entry(i).m_row[j - i] IN
    ~NullBool(fs, log[j].data) =>
      \A c \in DOMAIN row : row[c] = Meant(fs[c], log[j].data[c])

\* Every message is read to its last byte and no further, unless an exception
\* cuts it short or the row has a NULL BOOL.
ReadToTheEnd ==
  \/ unread = 0 /\ status # "undefined"
  \/ status = "escaped"
  \/ Last(log).type = "DataRow" /\ NullBool(Current, Last(log).data)

\* A row has a value for every field of its description.  An exception may
\* leave a shorter one, in the last RecordSet only, and never in one whose call
\* is answered.
RowsWhole ==
  \A i \in DOMAIN m_rset : \A r \in DOMAIN m_rset[i].m_row :
    Len(m_rset[i].m_row[r]) < Len(m_rset[i].m_field_spec) =>
      /\ status \in {"escaped", "undefined"}
      /\ i = Len(m_rset) /\ r = Len(m_rset[i].m_row)

\* get() by name returns the value of the leftmost column of that name, also
\* when the query returns two columns of one name.
ByName ==
  \A i \in DOMAIN m_rset : LET e == m_rset[i] IN
    \A r \in DOMAIN e.m_row, n \in DOMAIN e.m_field_by_name :
      Len(e.m_row[r]) = Len(e.m_field_spec) =>
        \E c \in DOMAIN e.m_field_spec :
          /\ e.m_field_spec[c].name = n
          /\ \A d \in 1 .. c - 1 : e.m_field_spec[d].name # n
          /\ get(e, r, n) = e.m_row[r][c]

\* The RecordSet of a statement that failed reads as false.
ErrorVisible ==
  \A i \in Starts : log[i].type = "ErrorResponse" => isError(Entry(i).m_error)
=============================================================================
