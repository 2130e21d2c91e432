----------------------------- MODULE Connection -----------------------------
(***************************************************************************)
(* The four transports of connection.h (Connection, SSLConnection,         *)
(* AsyncConnection, SSLAsyncConnection) over one asio stream, as the FSM   *)
(* uses them: operations that have been started and whose callback has not *)
(* run yet, and the bytes under way in both directions.                    *)
(*                                                                         *)
(* Bytes are abstracted to whole messages.  A message is read in two       *)
(* operations, its 5-byte header and its body; "half" says that the header *)
(* of Head(inbox) is consumed and its body is not.  A header read served   *)
(* in that position takes bytes of the body: from then on ("desync") what  *)
(* the client reads is arbitrary, and the model lets no read complete.     *)
(*                                                                         *)
(* A blocking transport runs the same callbacks in the same order inside   *)
(* the API call; its operations are the same with at most one outstanding. *)
(***************************************************************************)
EXTENDS Protocol

CONSTANT MaxOps          \* bound: API calls in one behaviour

ASSUME MaxOpsAssumption == MaxOps \in Nat \ {0}

Ops == 1 .. MaxOps

VARIABLES
  sock,      \* the socket: "none" | "opening" | "open" | "closed"
  pending,   \* the step of connect()/handshake() under way, or "none"
  reads,     \* reads started, oldest first: "header" or "body"
  writes,    \* writes started, oldest first
  half,      \* the header of Head(inbox) is consumed, its body is not
  desync,    \* a read was served bytes of another read's message
  inbox,     \* messages of the server the client has not read
  outbox,    \* messages written, not yet taken by the server
  alive      \* the server has not closed its end

connVars == <<sock, pending, reads, writes, half, desync, inbox, outbox, alive>>

\* What the completion callback captured to report an error with: the member
\* m_ehandler, or the std::function that was already moved from.
Captured == {"member", "moved"}

Arg == {"none", "ok", "md5", "other", "value", "null"}

Message == [type : BackendMsg, arg : Arg, op : 0 .. MaxOps]
Request == [type : FrontendMsg, op : 0 .. MaxOps, eh : Captured]

Pending == {"none", "connect", "sslConnect", "sslRequest", "sslReply",
            "sslHandshake"}

ConnectionTypeOK ==
  /\ sock \in {"none", "opening", "open", "closed"}
  /\ pending \in Pending
  /\ reads \in Seq({"header", "body"})
  /\ writes \in Seq(Request)
  /\ half \in BOOLEAN
  /\ desync \in BOOLEAN
  /\ inbox \in Seq(Message)
  /\ outbox \in Seq(Request)
  /\ alive \in BOOLEAN

ConnectionInit ==
  /\ sock = "none" /\ pending = "none"
  /\ reads = <<>> /\ writes = <<>>
  /\ half = FALSE /\ desync = FALSE
  /\ inbox = <<>> /\ outbox = <<>>
  /\ alive = FALSE

\* A new transport object, with its socket being connected.
NewConnection(step) ==
  /\ sock' = "opening" /\ pending' = step
  /\ reads' = <<>> /\ writes' = <<>>
  /\ half' = FALSE /\ desync' = FALSE
  /\ inbox' = <<>> /\ outbox' = <<>>
  /\ alive' = TRUE

\* No operation of the transport is outstanding.
NoneOutstanding == pending = "none" /\ reads = <<>> /\ writes = <<>>

\* An operation on the stream can fail: closed by this side, which aborts the
\* outstanding operations, or by the other.  What the server sent before it
\* closed may still be read, or be lost.
Broken == sock # "open" \/ ~alive

\* write(): one more async_write on the stream.
Write(ws, t, op, eh) == writes' = Append(ws, [type |-> t, op |-> op, eh |-> eh])

\* The oldest write has all its bytes in the stream; the server gets them if
\* it still listens.
Transmitted ==
  /\ sock = "open" /\ writes # <<>>
  /\ outbox' = IF alive THEN Append(outbox, Head(writes)) ELSE outbox

\* The oldest read is for a header and gets the header of the next message.
HeaderArrived ==
  /\ sock = "open" /\ ~desync
  /\ reads # <<>> /\ Head(reads) = "header"
  /\ inbox # <<>> /\ ~half

\* The oldest read is for a header and gets bytes of a body.
FramingLost ==
  /\ sock = "open" /\ ~desync
  /\ reads # <<>> /\ Head(reads) = "header"
  /\ inbox # <<>> /\ half

\* The oldest read is for a body and gets the body of the message whose
\* header was read.
BodyArrived ==
  /\ sock = "open" /\ ~desync
  /\ reads # <<>> /\ Head(reads) = "body"
  /\ inbox # <<>> /\ half
=============================================================================
