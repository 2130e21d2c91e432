------------------------------- MODULE Codec -------------------------------
(***************************************************************************)
(* The bytes of the messages (protocol.cpp).  A Buffer is a sequence of    *)
(* bytes; a position counts from 0, as in the code.  A text is a sequence  *)
(* of bytes other than 0.                                                  *)
(*                                                                         *)
(* A reader takes a Buffer b and a position pos and stands for the value   *)
(* it leaves in its first argument; the size it returns is a constant, or  *)
(* an operator whose name ends in Size.  A read outside the Buffer is      *)
(* undefined in the code: at() then is Outside, a value that is no byte.   *)
(***************************************************************************)
EXTENDS Integers, Sequences, SequencesExt

Byte == 0 .. 255

-----------------------------------------------------------------------------
(* Writers.  The parameter of serializeInt16 is an int16_t: what it is     *)
(* given is taken modulo 2^16.                                             *)

serializeByte1(c) == <<c>>

serializeInt16(v) == <<(v \div 256) % 256, v % 256>>

serializeInt32(v) == <<(v \div 16777216) % 256, (v \div 65536) % 256,
                       (v \div 256) % 256, v % 256>>

serializeByte(s) == s

\* serialize of a std::string.
serialize(s) == Append(s, 0)

\* serialize of a std::map, given as a function.
serializeMap(map) ==
  LET keys == SetToSeq(DOMAIN map)
      Pair(k) == serialize(k) \o serialize(map[k])
  IN  FlattenSeq([i \in DOMAIN keys |-> Pair(keys[i])]) \o <<0>>

\* serialize of a vector of oids: their number goes out in network order, the
\* oids in that of the host, taken to be little-endian.
serializeOids(oid) ==
  serializeInt16(Len(oid))
    \o FlattenSeq([i \in DOMAIN oid |-> Reverse(serializeInt32(oid[i]))])

-----------------------------------------------------------------------------
(* Readers.                                                                *)

Outside == -1

at(b, pos) == IF pos \in 0 .. Len(b) - 1 THEN b[pos + 1] ELSE Outside

inside(b, pos, n) == pos >= 0 /\ pos + n <= Len(b)

deserializeByte1(b, pos) == at(b, pos)

\* An unsigned number, put in an int.
deserializeInt16(b, pos) == at(b, pos) * 256 + at(b, pos + 1)

\* An unsigned number put in an int: 2^31 and above are negative.
deserializeInt32(b, pos) ==
  LET high == at(b, pos) IN
  (IF high >= 128 THEN high - 256 ELSE high) * 16777216
    + at(b, pos + 1) * 65536 + at(b, pos + 2) * 256 + at(b, pos + 3)

deserializeByte4(b, pos) == SubSeq(b, pos + 1, pos + 4)

\* deserialize of a std::string: the bytes up to the next 0.
terminator(b, pos) == SelectInSubSeq(b, pos + 1, Len(b), LAMBDA c : c = 0)
deserialize(b, pos) == SubSeq(b, pos + 1, terminator(b, pos) - 1)
deserializeSize(b, pos) == Len(deserialize(b, pos)) + 1

-----------------------------------------------------------------------------
(* Header and Message::serialize.  A message type of 0 is not sent.        *)

HeaderSize == 5

serializeHeader(mtype, len) ==
  (IF mtype # 0 THEN serializeByte1(mtype) ELSE <<>>) \o serializeInt32(len + 4)

serializeMessage(mtype, body) == serializeHeader(mtype, Len(body)) \o body

\* Header::deserialize.
messageType(b) == deserializeByte1(b, 0)
bodyLen(b) == deserializeInt32(b, 1) - 4
-----------------------------------------------------------------------------
(* The bodies of the server's messages with variable parts.  Each reader   *)
(* also says at which position it ends.                                    *)

fieldSpec(b, pos) ==
  LET p == pos + deserializeSize(b, pos) IN
  [name        |-> deserialize(b, pos),
   table_oid   |-> deserializeInt32(b, p),
   col_num     |-> deserializeInt16(b, p + 4),
   type_oid    |-> deserializeInt32(b, p + 6),
   type_size   |-> deserializeInt16(b, p + 10),
   type_mod    |-> deserializeInt32(b, p + 12),
   type_format |-> deserializeInt16(b, p + 16)]

\* (Slip) The names are taken to be of one length.
rowDescriptionBody_fixed(b) ==
  FoldLeft(LAMBDA r, i : [pos |-> r.pos + 20,
                          fs |-> Append(r.fs, fieldSpec(b, r.pos))],
           [pos |-> 2, fs |-> <<>>], [i \in 1 .. deserializeInt16(b, 0) |-> i])

\* RowDescription::deserialize.
rowDescriptionBody(b) ==
  FoldLeft(LAMBDA r, i : [pos |-> r.pos + deserializeSize(b, r.pos) + 18,
                          fs |-> Append(r.fs, fieldSpec(b, r.pos))],
           [pos |-> 2, fs |-> <<>>], [i \in 1 .. deserializeInt16(b, 0) |-> i])

\* The loop of ErrorResponse::deserialize and NoticeResponse::deserialize.
errorBody(b) ==
  LET rest[pos \in 0 .. Len(b)] ==
        IF at(b, pos) \in {0, Outside}
        THEN [pos |-> pos + 1, fields |-> <<>>]
        ELSE LET r == rest[pos + 1 + deserializeSize(b, pos + 1)] IN
             [r EXCEPT !.fields = << <<at(b, pos), deserialize(b, pos + 1)>> >> \o @]
  IN  rest[0]

\* ParameterStatus::deserialize.
parameterStatusBody(b) ==
  LET n == deserializeSize(b, 0) IN
  [pos |-> n + deserializeSize(b, n), name |-> deserialize(b, 0), value |-> deserialize(b, n)]

\* BackendKeyData::deserialize.
backendKeyDataBody(b) ==
  [pos |-> 8, pid |-> deserializeInt32(b, 0), key |-> deserializeInt32(b, 4)]

\* Authentication::deserialize; type 5 is AUTH_MD5_PASSWORD.
authenticationBody(b) ==
  LET type == deserializeInt32(b, 0) IN
  [type |-> type,
   salt |-> IF Len(b) > 4 /\ type = 5 THEN deserializeByte4(b, 4) ELSE <<>>]

\* ParameterDescription::deserialize.
parameterDescriptionBody(b) ==
  [i \in 1 .. deserializeInt16(b, 0) |-> deserializeInt32(b, 2 + 4 * (i - 1))]
=============================================================================
