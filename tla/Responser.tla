------------------------------ MODULE Responser ------------------------------
(***************************************************************************)
(* The response writers of rupicolarpc as pure operators on a record.      *)
(*                                                                         *)
(* A responser is what a request handler writes its answer into.  There    *)
(* are three kinds: "rpc" buffers everything and sends one JSON-RPC answer *)
(* at Close, "legacy" passes the raw bytes on, "streaming" sends a header, *)
(* one frame per line and a footer.  Every operator takes the record the   *)
(* Go method would mutate and returns [r |-> the record after the call,    *)
(* err |-> the error it returned], so that a specification can use it      *)
(* inside an action of any goroutine.                                      *)
(*                                                                         *)
(* Data are abstracted to what the properties tell apart: a byte of method *)
(* output, a newline among them, is its position 1, 2, ... in that output, *)
(* the byte 0 stands for a character of a text the library itself writes   *)
(* ("OK", "Done"), and JSON wrapping is a fixed number of bytes, Envelope. *)
(***************************************************************************)
EXTENDS Integers, Sequences

CONSTANTS
  MaxInt64,   \* math.MaxInt64, the limiter's "practically infinity"
  Envelope    \* bytes that JSON wrapping adds to a frame

ASSUME ResponserAssumption ==
  /\ MaxInt64 \in Nat \ {0}
  /\ Envelope \in 1..MaxInt64

-----------------------------------------------------------------------------
(* Frames, values and pieces.                                              *)

Kinds == {"rpc", "legacy", "streaming"}

\* "null" is &nilInterface, the id before SetID: errors are sent with id null.
\* "absent" is the nil pointer, a request without an id: nothing is sent.
Ids == {"given", "null", "absent"}

\* The errors of the code by name; "nil" is no error.  The last four are the
\* ones a request can fail with before its method has an answer.
Errors == {"nil", "EOF", "EIO", "ExitError", "ErrTimeout", "ErrLimitExceed",
           "errResultAlreadySet", "InternalError", "transport", "process", "prepare", "start"}

\* The body of a line's frame ends with the newline that ended the line, so that
\* no output is unaccounted for; `nl` says that, and JSON leaves the newline out.
Frame == [tag  : {"raw", "data", "result", "null", "error"},
          id   : Ids,
          body : Seq(Nat),
          nl   : BOOLEAN,
          code : Errors]

\* What SetResponseResult is given: a text, or nil ("null"; omitempty leaves
\* an answer without a result).
Value == [tag : {"result", "null"}, body : Seq(Nat)]

OK   == [tag |-> "result", body |-> <<0, 0>>]
Done == [tag |-> "result", body |-> <<0, 0, 0, 0>>]
Null == [tag |-> "null", body |-> <<>>]
TextValue(bytes) == [tag |-> "result", body |-> bytes]

\* What a Write handles at a time: some bytes, and whether the last is a newline.
Piece == [body : Seq(Nat), nl : BOOLEAN]

RawFrame(bytes)      == [tag |-> "raw", id |-> "absent", body |-> bytes, nl |-> FALSE, code |-> "nil"]
DataFrame(id, bytes) == [tag |-> "data", id |-> id, body |-> bytes, nl |-> FALSE, code |-> "nil"]
LineFrame(id, bytes) == [tag |-> "data", id |-> id, body |-> bytes, nl |-> TRUE, code |-> "nil"]
ResultFrame(id, v)   == [tag |-> v.tag, id |-> id, body |-> v.body, nl |-> FALSE, code |-> "nil"]

\* An error reaches the client as itself when it is a *_Error of the library,
\* else NewErrorEx wraps it.
Coded(e) ==
  IF e \in {"EOF", "EIO", "ExitError", "errResultAlreadySet"} THEN "InternalError" ELSE e

ErrorFrame(id, e)    == [tag |-> "error", id |-> id, body |-> <<>>, nl |-> FALSE, code |-> Coded(e)]

\* The bytes of a frame as they are sent, without the wrapping.
Content(f) == IF f.nl THEN SubSeq(f.body, 1, Len(f.body) - 1) ELSE f.body

\* Raw bytes carry no boundaries: a buffer or a connection joins them.
Join(frames, f) ==
  IF f.tag = "raw" /\ frames # <<>> /\ frames[Len(frames)].tag = "raw"
    THEN [frames EXCEPT ![Len(frames)].body = @ \o f.body]
    ELSE Append(frames, f)

\* bytes.Buffer.String of a buffer that holds raw bytes only.
Text(frames) == IF frames = <<>> THEN <<>> ELSE frames[1].body

-----------------------------------------------------------------------------
(* The record and what every kind shares (baseResponse, LimitedWriter).    *)

Record == [kind      : Kinds,
           id        : Ids,
           room      : Nat,         \* exceptionalLimitedWriter.N
           encErr    : Errors,      \* the sticky error of json.Encoder
           buf       : Seq(Frame),  \* rpcResponse.buffer, streamingResponse.buffer
           resultSet : BOOLEAN,     \* rpc
           dataSent  : BOOLEAN,     \* rpc
           first     : BOOLEAN,     \* streaming: firstWrite
           closed    : BOOLEAN,     \* streaming: isClosed
           wire      : Seq(Frame)]  \* what reached the http.ResponseWriter

New(kind) ==
  [kind |-> kind, id |-> "null", room |-> MaxInt64, encErr |-> "nil", buf |-> <<>>,
   resultSet |-> FALSE, dataSent |-> FALSE, first |-> TRUE, closed |-> FALSE, wire |-> <<>>]

Success(r) == [r |-> r, err |-> "nil"]
Failure(r, e) == [r |-> r, err |-> e]

SetID(r, id) == [r EXCEPT !.id = id]

SetLimit(n) == IF n > 0 THEN n ELSE MaxInt64

\* The encoder is recreated, so that its sticky error is forgotten.
MaxResponse(r, n) == [r EXCEPT !.room = SetLimit(n), !.encErr = "nil"]

\* changeProtocolIfRequired: a "2.0+s" request on the streamed path gets a
\* fresh streaming responser over the same writer.
Upgrade(r, plus) ==
  IF plus /\ r.kind = "legacy" THEN [New("streaming") EXCEPT !.wire = r.wire] ELSE r

\* Broken: the size of this write is not compared with what is left.
LimitedWriteUnchecked(r, frame, size, up) ==
  IF r.room <= 0 THEN Failure(r, "ErrLimitExceed")
  ELSE IF r.kind = "rpc"
         THEN Success([r EXCEPT !.room = @ - size, !.buf = Join(@, frame)])
  ELSE IF up
         THEN Success([r EXCEPT !.room = @ - size, !.wire = Join(@, frame)])
  ELSE Failure(r, "EIO")

\* One write of `size` bytes through the limiter: into the buffer for "rpc",
\* else to the transport, which takes it when `up`.
LimitedWrite(r, frame, size, up) ==
  IF r.room <= 0 \/ size > r.room THEN Failure(r, "ErrLimitExceed")
  ELSE IF r.kind = "rpc"
         THEN Success([r EXCEPT !.room = @ - size, !.buf = Join(@, frame)])
  ELSE IF up
         THEN Success([r EXCEPT !.room = @ - size, !.wire = Join(@, frame)])
  ELSE Failure(r, "EIO")

\* json.Encoder.Encode over the limiter: one write, and the first error sticks.
Encode(r, frame, up) ==
  LET w == LimitedWrite(r, frame, Envelope + Len(Content(frame)), up)
  IN  IF r.encErr # "nil" THEN Failure(r, r.encErr)
      ELSE Failure([w.r EXCEPT !.encErr = w.err], w.err)

-----------------------------------------------------------------------------
(* The calls, by kind.                                                     *)

\* Broken: the buffer is not reset.
CommitKeepsBuffer(r, up) ==
  IF r.buf = <<>> THEN Success(r) ELSE Encode(r, DataFrame(r.id, Text(r.buf)), up)

\* streamingResponse.commit: the unfinished line becomes a data frame; the
\* buffer is reset even when the frame could not be written.
Commit(r, up) ==
  IF r.buf = <<>> THEN Success(r)
  ELSE [Encode(r, DataFrame(r.id, Text(r.buf)), up) EXCEPT !.r.buf = <<>>]

SetResultRpc(r, v, up) ==
  IF r.resultSet THEN Failure(r, "errResultAlreadySet")
  ELSE IF r.id = "absent" THEN Success(r)
  ELSE Encode([r EXCEPT !.resultSet = TRUE], ResultFrame(r.id, v), up)

SetResultLegacy(r, v, up) ==
  IF v.tag = "null" THEN Success(r)
  ELSE LimitedWrite(r, RawFrame(v.body), Len(v.body), up)

SetResultStreaming(r, v, up) ==
  LET c == Commit(r, up)
  IN  IF r.closed THEN Success(r)
      ELSE IF c.err # "nil" THEN c
      ELSE Encode(c.r, ResultFrame(r.id, v), up)

SetResult(r, v, up) ==
  CASE r.kind = "rpc"       -> SetResultRpc(r, v, up)
    [] r.kind = "legacy"    -> SetResultLegacy(r, v, up)
    [] r.kind = "streaming" -> SetResultStreaming(r, v, up)

\* Broken: the error follows what the buffer holds.
SetErrorRpcKeepsBuffer(r, e) ==
  IF r.dataSent THEN Failure(r, "errResultAlreadySet")
  ELSE IF r.id = "absent" THEN Success(r)
  ELSE Success([r EXCEPT !.resultSet = TRUE, !.buf = Append(@, ErrorFrame(r.id, e))])

\* The error replaces what the buffer holds, and no limit applies to it.
SetErrorRpc(r, e) ==
  IF r.dataSent THEN Failure(r, "errResultAlreadySet")
  ELSE IF r.id = "absent" THEN Success(r)
  ELSE Success([r EXCEPT !.resultSet = TRUE, !.buf = <<ErrorFrame(r.id, e)>>])

\* Broken: the stream stays open, and Close writes a footer after the error.
SetErrorStreamingStaysOpen(r, e, up) ==
  LET c == Commit(r, up)
  IN  IF r.closed THEN Success(r)
      ELSE IF c.err # "nil" THEN c
      ELSE Encode(MaxResponse(c.r, 0), ErrorFrame(r.id, e), up)

\* The error ends the stream; the Close it calls finds nothing left to do.
SetErrorStreaming(r, e, up) ==
  LET c == Commit(r, up)
  IN  IF r.closed THEN Success(r)
      ELSE IF c.err # "nil" THEN c
      ELSE Encode([MaxResponse(c.r, 0) EXCEPT !.closed = TRUE], ErrorFrame(r.id, e), up)

SetError(r, e, up) ==
  CASE r.kind = "rpc"       -> SetErrorRpc(r, e)
    [] r.kind = "legacy"    -> Success(r)
    [] r.kind = "streaming" -> SetErrorStreaming(r, e, up)

\* Write, in its two parts: the check that the responser still takes data...
Refusal(r) ==
  CASE r.kind = "rpc" /\ r.resultSet   -> "errResultAlreadySet"
    [] r.kind = "streaming" /\ r.closed -> "EOF"
    [] OTHER                            -> "nil"

\* Broken: the start of the line that the buffer holds is forgotten.
PutLineDropsBuffer(r, p, up) ==
  IF p.nl THEN Encode([r EXCEPT !.buf = <<>>], LineFrame(r.id, p.body), up)
  ELSE Success([r EXCEPT !.buf = Join(@, RawFrame(p.body))])

\* Broken: an empty line is skipped, also when it ends what the buffer holds.
PutLineSkipsEmpty(r, p, up) ==
  LET q == [r EXCEPT !.buf = Join(@, RawFrame(p.body))]
  IN  IF p.nl /\ Len(p.body) = 1 THEN Success(r)
      ELSE IF p.nl THEN Encode([r EXCEPT !.buf = <<>>], LineFrame(r.id, Text(q.buf)), up)
      ELSE Success(q)

\* One turn of streamingResponse.Write's loop over the lines it is given: a line
\* goes out when its newline arrives, an empty one too.
PutLine(r, p, up) ==
  LET q == [r EXCEPT !.buf = Join(@, RawFrame(p.body))]
  IN  IF p.nl THEN Encode([r EXCEPT !.buf = <<>>], LineFrame(r.id, Text(q.buf)), up)
      ELSE Success(q)

\* ... and the write itself.  A streaming responser first sends its header.
Put(r, p, up) ==
  IF r.kind # "streaming"
    THEN LimitedWrite(r, RawFrame(p.body), Len(p.body), up)
    ELSE LET hd == SetResult(r, OK, up)
         IN  IF ~r.first THEN PutLine(r, p, up)
             ELSE IF hd.err # "nil" THEN [hd EXCEPT !.r.first = FALSE]
             ELSE PutLine([hd.r EXCEPT !.first = FALSE], p, up)

\* rpcResponse.Close copies the buffer to the transport, once.
CloseRpc(r, up) ==
  LET r1 == [r EXCEPT !.dataSent = TRUE]
      s  == IF r.resultSet THEN Success(r1)
            ELSE SetResult([MaxResponse(r1, 0) EXCEPT !.buf = <<>>], TextValue(Text(r.buf)), up)
  IN  IF r.dataSent THEN Success(r)
      ELSE IF s.err # "nil" THEN s
      ELSE IF up THEN Success([s.r EXCEPT !.wire = @ \o s.r.buf, !.buf = <<>>])
      ELSE Failure([s.r EXCEPT !.buf = <<>>], "EIO")

CloseStreaming(r, up) ==
  LET c == Commit(r, up)
      s == SetResult(c.r, Done, up)
  IN  IF c.err # "nil" THEN c
      ELSE IF r.closed THEN c
      ELSE [s EXCEPT !.r.closed = TRUE]

Close(r, up) ==
  CASE r.kind = "rpc"       -> CloseRpc(r, up)
    [] r.kind = "legacy"    -> Success(r)
    [] r.kind = "streaming" -> CloseStreaming(r, up)

=============================================================================
