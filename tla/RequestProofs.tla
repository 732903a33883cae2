---------------------------- MODULE RequestProofs ----------------------------
(***************************************************************************)
(* What holds of Request for every set of requests, every length of output *)
(* and every placing of the line ends: first what each operator of         *)
(* Responser returns, then where the goroutines can be, then the theorems  *)
(* on their use of the responser.                                          *)
(***************************************************************************)
EXTENDS Request, TLAPS, SequenceTheorems

-----------------------------------------------------------------------------
(* What each operator of Responser returns: a responser and an error.      *)

Outcome == [r : Record, err : Errors]

\* The provers are told once that a field may be replaced.
LEMMA Emptied == ASSUME NEW r \in Record PROVE [r EXCEPT !.buf = <<>>] \in Record
<1>1. <<>> \in Seq(Frame)
  OBVIOUS
<1> QED
  BY <1>1 DEF Record

LEMMA Flagged ==
  ASSUME NEW o \in Outcome, NEW b \in BOOLEAN
  PROVE  /\ [o EXCEPT !.r.closed = b] \in Outcome
         /\ [o EXCEPT !.r.first = b] \in Outcome
<1>1. o.r \in Record /\ o.err \in Errors
  BY DEF Outcome
<1>2. [o.r EXCEPT !.closed = b] \in Record /\ [o.r EXCEPT !.first = b] \in Record
  BY <1>1 DEF Record
<1>3. \A x : [o EXCEPT !.r = x] = [r |-> x, err |-> o.err]
  BY DEF Outcome
<1>4. [o EXCEPT !.r.closed = b] = [o EXCEPT !.r = [o.r EXCEPT !.closed = b]]
  OBVIOUS
<1>5. [o EXCEPT !.r.first = b] = [o EXCEPT !.r = [o.r EXCEPT !.first = b]]
  OBVIOUS
<1> QED
  BY <1>1, <1>2, <1>3, <1>4, <1>5 DEF Outcome

LEMMA NewType == ASSUME NEW kind \in Kinds PROVE New(kind) \in Record
BY ResponserAssumption DEF New, Record, Ids, Errors

LEMMA FrameTypes ==
  /\ \A bytes \in Seq(Nat) : RawFrame(bytes) \in Frame
  /\ \A id \in Ids, bytes \in Seq(Nat) : DataFrame(id, bytes) \in Frame
  /\ \A id \in Ids, bytes \in Seq(Nat) : LineFrame(id, bytes) \in Frame
  /\ \A id \in Ids, v \in Value : ResultFrame(id, v) \in Frame
  /\ \A id \in Ids, e \in Errors : ErrorFrame(id, e) \in Frame
<1>1. \A bytes \in Seq(Nat) : RawFrame(bytes) \in Frame
  BY DEF RawFrame, Frame, Ids, Errors
<1>2. \A id \in Ids, bytes \in Seq(Nat) : DataFrame(id, bytes) \in Frame
  BY DEF DataFrame, Frame, Errors
<1>a. \A id \in Ids, bytes \in Seq(Nat) : LineFrame(id, bytes) \in Frame
  BY DEF LineFrame, Frame, Errors
<1>3. \A id \in Ids, v \in Value : ResultFrame(id, v) \in Frame
  BY DEF ResultFrame, Value, Frame, Errors
<1>4. \A id \in Ids, e \in Errors : ErrorFrame(id, e) \in Frame
  <2> SUFFICES ASSUME NEW id \in Ids, NEW e \in Errors
               PROVE  ErrorFrame(id, e) \in Frame
    OBVIOUS
  <2>1. Coded(e) \in Errors
    BY DEF Coded, Errors
  <2>2. <<>> \in Seq(Nat)
    OBVIOUS
  <2> QED
    BY <2>1, <2>2 DEF ErrorFrame, Frame
<1> QED
  BY <1>1, <1>2, <1>a, <1>3, <1>4

\* What is sent of a line leaves out its last byte, and only a line ends with one.
LEMMA ContentType ==
  ASSUME NEW f \in Frame
  PROVE  /\ Content(f) \in Seq(Nat)
         /\ Len(Content(f)) \in Nat
         /\ Envelope + Len(Content(f)) \in Nat
<1>1. f.body \in Seq(Nat) /\ f.nl \in BOOLEAN
  BY DEF Frame
<1>2. SubSeq(f.body, 1, Len(f.body) - 1) \in Seq(Nat)
  <2>1. \A i \in 1..(Len(f.body) - 1) : f.body[i] \in Nat
    BY <1>1
  <2> QED
    BY <1>1, <2>1, SubSeqProperties
<1>3. Content(f) \in Seq(Nat)
  BY <1>1, <1>2 DEF Content
<1> QED
  BY <1>3, ResponserAssumption

LEMMA ValueTypes ==
  /\ OK \in Value /\ Done \in Value /\ Null \in Value
  /\ \A bytes \in Seq(Nat) : TextValue(bytes) \in Value
BY DEF OK, Done, Null, TextValue, Value

LEMMA JoinType ==
  ASSUME NEW frames \in Seq(Frame), NEW f \in Frame
  PROVE  Join(frames, f) \in Seq(Frame)
<1>1. CASE f.tag = "raw" /\ frames # <<>> /\ frames[Len(frames)].tag = "raw"
  <2> DEFINE last == frames[Len(frames)]
             joined == [last EXCEPT !.body = @ \o f.body]
  <2>1. last \in Frame /\ Len(frames) \in 1..Len(frames)
    BY <1>1
  <2>2. last.body \o f.body \in Seq(Nat)
    BY <2>1 DEF Frame
  <2>3. joined \in Frame
    BY <2>1, <2>2 DEF Frame
  <2>4. Join(frames, f) = [frames EXCEPT ![Len(frames)] = joined]
    BY <1>1 DEF Join
  <2> HIDE DEF joined, last
  <2> QED
    BY <2>1, <2>3, <2>4, ExceptSeq
<1>2. CASE ~(f.tag = "raw" /\ frames # <<>> /\ frames[Len(frames)].tag = "raw")
  BY <1>2 DEF Join
<1> QED
  BY <1>1, <1>2

LEMMA TextType == ASSUME NEW frames \in Seq(Frame) PROVE Text(frames) \in Seq(Nat)
<1>1. frames # <<>> => frames[1] \in Frame
  OBVIOUS
<1>2. \A f \in Frame : f.body \in Seq(Nat)
  BY DEF Frame
<1> QED
  BY <1>1, <1>2 DEF Text

LEMMA MaxResponseType ==
  ASSUME NEW r \in Record, NEW n \in Nat PROVE MaxResponse(r, n) \in Record
BY ResponserAssumption DEF MaxResponse, SetLimit, Record, Errors

LEMMA UpgradeType ==
  ASSUME NEW r \in Record, NEW plus \in BOOLEAN, NEW id \in Ids
  PROVE  /\ Upgrade(r, plus) \in Record
         /\ SetID(r, id) \in Record
BY NewType DEF Upgrade, SetID, Record, Kinds

LEMMA Outcomes ==
  ASSUME NEW r \in Record, NEW e \in Errors
  PROVE  /\ Success(r) \in Outcome
         /\ Failure(r, e) \in Outcome
BY DEF Success, Failure, Outcome, Errors

LEMMA LimitedWriteType ==
  ASSUME NEW r \in Record, NEW frame \in Frame, NEW size \in Nat, NEW up \in BOOLEAN
  PROVE  LimitedWrite(r, frame, size, up) \in Outcome
<1> DEFINE buffered == [r EXCEPT !.room = @ - size, !.buf = Join(@, frame)]
           sent     == [r EXCEPT !.room = @ - size, !.wire = Join(@, frame)]
<1>1. Join(r.buf, frame) \in Seq(Frame) /\ Join(r.wire, frame) \in Seq(Frame)
  BY JoinType DEF Record
<1>2. r.room \in Nat
  BY DEF Record
<1>3. ASSUME ~(size > r.room) PROVE buffered \in Record /\ sent \in Record
  <2>1. r.room - size \in Nat
    BY <1>2, <1>3
  <2> QED
    BY <1>1, <2>1 DEF Record
<1>4. LimitedWrite(r, frame, size, up) \in
        {Failure(r, "ErrLimitExceed"), Failure(r, "EIO")}
        \cup {x \in {Success(buffered), Success(sent)} : ~(size > r.room)}
  BY <1>2 DEF LimitedWrite
<1>5. "ErrLimitExceed" \in Errors /\ "EIO" \in Errors
  BY DEF Errors
<1> HIDE DEF buffered, sent
<1> QED
  BY <1>3, <1>4, <1>5, Outcomes

LEMMA EncodeType ==
  ASSUME NEW r \in Record, NEW frame \in Frame, NEW up \in BOOLEAN
  PROVE  Encode(r, frame, up) \in Outcome
<1> DEFINE w == LimitedWrite(r, frame, Envelope + Len(Content(frame)), up)
<1>1. Envelope + Len(Content(frame)) \in Nat
  BY ContentType
<1>2. w \in Outcome
  BY <1>1, LimitedWriteType
<1>3. Encode(r, frame, up) = IF r.encErr # "nil" THEN Failure(r, r.encErr)
                             ELSE Failure([w.r EXCEPT !.encErr = w.err], w.err)
  BY DEF Encode
<1> HIDE DEF w
<1>4. w.r \in Record /\ w.err \in Errors /\ r.encErr \in Errors
  BY <1>2 DEF Outcome, Record
<1>5. [w.r EXCEPT !.encErr = w.err] \in Record
  BY <1>4 DEF Record
<1> QED
  BY <1>3, <1>4, <1>5, Outcomes

-----------------------------------------------------------------------------
(* The calls, by kind.                                                     *)

LEMMA CommitType ==
  ASSUME NEW r \in Record, NEW up \in BOOLEAN PROVE Commit(r, up) \in Outcome
<1> DEFINE f == DataFrame(r.id, Text(r.buf))
           n == Encode(r, f, up)
<1>1. f \in Frame
  BY FrameTypes, TextType DEF Record
<1>2. n \in Outcome
  BY <1>1, EncodeType
<1>3. Commit(r, up) = IF r.buf = <<>> THEN Success(r) ELSE [n EXCEPT !.r.buf = <<>>]
  BY DEF Commit
<1> HIDE DEF n, f
<1>4. n.r \in Record /\ n.err \in Errors
  BY <1>2 DEF Outcome
<1>5. [n.r EXCEPT !.buf = <<>>] \in Record
  BY <1>4, Emptied
<1>6. [n EXCEPT !.r.buf = <<>>] = [r |-> [n.r EXCEPT !.buf = <<>>], err |-> n.err]
  BY <1>2 DEF Outcome
<1>7. [n EXCEPT !.r.buf = <<>>] \in Outcome
  BY <1>4, <1>5, <1>6 DEF Outcome
<1> QED
  BY <1>3, <1>7, Outcomes DEF Errors

LEMMA SetResultType ==
  ASSUME NEW r \in Record, NEW v \in Value, NEW up \in BOOLEAN
  PROVE  SetResult(r, v, up) \in Outcome
<1>1. SetResultRpc(r, v, up) \in Outcome
  <2>1. [r EXCEPT !.resultSet = TRUE] \in Record
    BY DEF Record
  <2>2. ResultFrame(r.id, v) \in Frame
    BY FrameTypes DEF Record
  <2>3. Encode([r EXCEPT !.resultSet = TRUE], ResultFrame(r.id, v), up) \in Outcome
    BY <2>1, <2>2, EncodeType
  <2> QED
    BY <2>3, Outcomes DEF SetResultRpc, Errors
<1>2. SetResultLegacy(r, v, up) \in Outcome
  <2>1. v.body \in Seq(Nat) /\ Len(v.body) \in Nat
    BY DEF Value
  <2>2. LimitedWrite(r, RawFrame(v.body), Len(v.body), up) \in Outcome
    BY <2>1, FrameTypes, LimitedWriteType
  <2> QED
    BY <2>2, Outcomes DEF SetResultLegacy, Errors
<1>3. SetResultStreaming(r, v, up) \in Outcome
  <2>1. Commit(r, up).r \in Record /\ Commit(r, up) \in Outcome
    BY CommitType DEF Outcome
  <2>2. ResultFrame(r.id, v) \in Frame
    BY FrameTypes DEF Record
  <2>3. Encode(Commit(r, up).r, ResultFrame(r.id, v), up) \in Outcome
    BY <2>1, <2>2, EncodeType
  <2> QED
    BY <2>1, <2>3, Outcomes DEF SetResultStreaming, Errors
<1> QED
  BY <1>1, <1>2, <1>3 DEF SetResult, Record, Kinds

LEMMA SetErrorType ==
  ASSUME NEW r \in Record, NEW e \in Errors, NEW up \in BOOLEAN
  PROVE  SetError(r, e, up) \in Outcome
<1>1. ErrorFrame(r.id, e) \in Frame
  BY FrameTypes DEF Record
<1>2. SetErrorRpc(r, e) \in Outcome
  <2>1. <<ErrorFrame(r.id, e)>> \in Seq(Frame)
    BY <1>1
  <2>2. [r EXCEPT !.resultSet = TRUE, !.buf = <<ErrorFrame(r.id, e)>>] \in Record
    BY <2>1 DEF Record
  <2> QED
    BY <2>2, Outcomes DEF SetErrorRpc, Errors
<1>3. SetErrorStreaming(r, e, up) \in Outcome
  <2> DEFINE c == Commit(r, up)
             m == MaxResponse(c.r, 0)
  <2>1. c \in Outcome /\ c.r \in Record
    BY CommitType DEF Outcome
  <2>2. m \in Record
    BY <2>1, MaxResponseType
  <2>3. SetErrorStreaming(r, e, up) =
          IF r.closed THEN Success(r) ELSE IF c.err # "nil" THEN c
          ELSE Encode([m EXCEPT !.closed = TRUE], ErrorFrame(r.id, e), up)
    BY DEF SetErrorStreaming
  <2> HIDE DEF c, m
  <2>4. [m EXCEPT !.closed = TRUE] \in Record
    BY <2>2 DEF Record
  <2>5. Encode([m EXCEPT !.closed = TRUE], ErrorFrame(r.id, e), up) \in Outcome
    BY <1>1, <2>4, EncodeType
  <2> QED
    BY <2>1, <2>3, <2>5, Outcomes DEF Errors
<1> QED
  BY <1>2, <1>3, Outcomes DEF SetError, Record, Kinds, Errors

LEMMA PutLineType ==
  ASSUME NEW r \in Record, NEW p \in Piece, NEW up \in BOOLEAN
  PROVE  PutLine(r, p, up) \in Outcome
<1> DEFINE q == [r EXCEPT !.buf = Join(@, RawFrame(p.body))]
           emptied == [r EXCEPT !.buf = <<>>]
<1>1. RawFrame(p.body) \in Frame
  BY FrameTypes DEF Piece
<1>2. Join(r.buf, RawFrame(p.body)) \in Seq(Frame)
  BY <1>1, JoinType DEF Record
<1>3. q \in Record /\ emptied \in Record
  BY <1>2, Emptied DEF Record
<1>4. PutLine(r, p, up) = IF p.nl THEN Encode(emptied, LineFrame(r.id, Text(q.buf)), up)
                          ELSE Success(q)
  BY DEF PutLine
<1> HIDE DEF q, emptied
<1>5. LineFrame(r.id, Text(q.buf)) \in Frame
  BY <1>3, FrameTypes, TextType DEF Record
<1> QED
  BY <1>3, <1>4, <1>5, EncodeType, Outcomes DEF Errors

LEMMA PutType ==
  ASSUME NEW r \in Record, NEW p \in Piece, NEW up \in BOOLEAN
  PROVE  Put(r, p, up) \in Outcome
<1> DEFINE hd == SetResult(r, OK, up)
<1>1. LimitedWrite(r, RawFrame(p.body), Len(p.body), up) \in Outcome
  <2>1. Len(p.body) \in Nat
    BY DEF Piece
  <2>2. RawFrame(p.body) \in Frame
    BY FrameTypes DEF Piece
  <2> QED
    BY <2>1, <2>2, LimitedWriteType
<1>2. hd \in Outcome
  BY SetResultType, ValueTypes
<1>3. Put(r, p, up) =
        IF r.kind # "streaming" THEN LimitedWrite(r, RawFrame(p.body), Len(p.body), up)
        ELSE IF ~r.first THEN PutLine(r, p, up)
        ELSE IF hd.err # "nil" THEN [hd EXCEPT !.r.first = FALSE]
        ELSE PutLine([hd.r EXCEPT !.first = FALSE], p, up)
  BY DEF Put
<1> HIDE DEF hd
<1>4. [hd.r EXCEPT !.first = FALSE] \in Record
  BY <1>2 DEF Outcome, Record
<1>5. [hd EXCEPT !.r.first = FALSE] \in Outcome
  BY <1>2, Flagged
<1> QED
  BY <1>1, <1>3, <1>4, <1>5, PutLineType

LEMMA CloseType ==
  ASSUME NEW r \in Record, NEW up \in BOOLEAN PROVE Close(r, up) \in Outcome
<1>1. CloseRpc(r, up) \in Outcome
  <2> DEFINE r1 == [r EXCEPT !.dataSent = TRUE]
             e1 == [MaxResponse(r1, 0) EXCEPT !.buf = <<>>]
             s  == IF r.resultSet THEN Success(r1)
                   ELSE SetResult(e1, TextValue(Text(r.buf)), up)
             r2 == [s.r EXCEPT !.wire = @ \o s.r.buf, !.buf = <<>>]
             r3 == [s.r EXCEPT !.buf = <<>>]
  <2>1. r1 \in Record
    BY DEF Record
  <2>2. MaxResponse(r1, 0) \in Record
    BY <2>1, MaxResponseType
  <2>3. e1 \in Record
    BY <2>2, Emptied
  <2>4. TextValue(Text(r.buf)) \in Value
    BY TextType, ValueTypes DEF Record
  <2>5. s \in Outcome
    BY <2>1, <2>3, <2>4, SetResultType, Outcomes DEF Errors
  <2>6. CloseRpc(r, up) = IF r.dataSent THEN Success(r) ELSE IF s.err # "nil" THEN s
                          ELSE IF up THEN Success(r2) ELSE Failure(r3, "EIO")
    BY DEF CloseRpc
  <2> HIDE DEF s
  <2>7. s.r \in Record /\ s.r.wire \o s.r.buf \in Seq(Frame) /\ <<>> \in Seq(Frame)
    BY <2>5 DEF Outcome, Record
  <2>8. r2 \in Record /\ r3 \in Record
    BY <2>7 DEF Record
  <2> QED
    BY <2>5, <2>6, <2>8, Outcomes DEF Errors
<1>2. CloseStreaming(r, up) \in Outcome
  <2> DEFINE c == Commit(r, up)
             s == SetResult(c.r, Done, up)
  <2>1. c \in Outcome /\ c.r \in Record
    BY CommitType DEF Outcome
  <2>2. s \in Outcome
    BY <2>1, SetResultType, ValueTypes
  <2>3. CloseStreaming(r, up) = IF c.err # "nil" THEN c ELSE IF r.closed THEN c
                                ELSE [s EXCEPT !.r.closed = TRUE]
    BY DEF CloseStreaming
  <2> HIDE DEF c, s
  <2>4. [s EXCEPT !.r.closed = TRUE] \in Outcome
    BY <2>2, Flagged
  <2> QED
    BY <2>1, <2>3, <2>4
<1> QED
  BY <1>1, <1>2, Outcomes DEF Close, Record, Kinds, Errors

-----------------------------------------------------------------------------
(* A plain RPC responser holds everything back until its Close.            *)

\* s is what a call made of r: of the same kind, and nothing was sent if r is
\* a plain RPC responser.
HeldBack(r, s) ==
  /\ s.kind = r.kind
  /\ r.kind = "rpc" => s.wire = r.wire

LEMMA HeldBackTransitive ==
  ASSUME NEW r \in Record, NEW s \in Record, NEW t \in Record,
         HeldBack(r, s), HeldBack(s, t)
  PROVE  HeldBack(r, t)
BY DEF HeldBack

LEMMA LimitedWriteHoldsBack ==
  ASSUME NEW r \in Record, NEW frame \in Frame, NEW size \in Nat, NEW up \in BOOLEAN
  PROVE  HeldBack(r, LimitedWrite(r, frame, size, up).r)
BY DEF HeldBack, LimitedWrite, Success, Failure, Record

LEMMA EncodeHoldsBack ==
  ASSUME NEW r \in Record, NEW frame \in Frame, NEW up \in BOOLEAN
  PROVE  HeldBack(r, Encode(r, frame, up).r)
<1> DEFINE w == LimitedWrite(r, frame, Envelope + Len(Content(frame)), up)
<1>1. Envelope + Len(Content(frame)) \in Nat
  BY ContentType
<1>2. w \in Outcome /\ HeldBack(r, w.r)
  BY <1>1, LimitedWriteType, LimitedWriteHoldsBack
<1>3. Encode(r, frame, up).r = IF r.encErr # "nil" THEN r ELSE [w.r EXCEPT !.encErr = w.err]
  BY DEF Encode, Failure
<1> HIDE DEF w
<1>4. w.r \in Record
  BY <1>2 DEF Outcome
<1> QED
  BY <1>2, <1>3, <1>4 DEF HeldBack, Record

LEMMA FieldsHoldBack ==
  ASSUME NEW r \in Record, NEW n \in Nat, NEW plus \in BOOLEAN, NEW id \in Ids
  PROVE  /\ HeldBack(r, MaxResponse(r, n))
         /\ HeldBack(r, SetID(r, id))
         /\ r.kind = "rpc" => Upgrade(r, plus) = r
         /\ Upgrade(r, plus).kind = "rpc" => r.kind = "rpc"
<1>1. HeldBack(r, MaxResponse(r, n)) /\ HeldBack(r, SetID(r, id))
  BY DEF HeldBack, MaxResponse, SetID, Record
<1>2. [New("streaming") EXCEPT !.wire = r.wire].kind = "streaming"
  BY DEF New
<1> QED
  BY <1>1, <1>2 DEF Upgrade

LEMMA CommitHoldsBack ==
  ASSUME NEW r \in Record, NEW up \in BOOLEAN PROVE HeldBack(r, Commit(r, up).r)
<1> DEFINE f == DataFrame(r.id, Text(r.buf))
           n == Encode(r, f, up)
<1>1. f \in Frame
  BY FrameTypes, TextType DEF Record
<1>2. n \in Outcome /\ HeldBack(r, n.r)
  BY <1>1, EncodeType, EncodeHoldsBack
<1>3. Commit(r, up).r = IF r.buf = <<>> THEN r ELSE [n.r EXCEPT !.buf = <<>>]
  <2>1. Commit(r, up) = IF r.buf = <<>> THEN Success(r) ELSE [n EXCEPT !.r.buf = <<>>]
    BY DEF Commit
  <2> HIDE DEF n, f
  <2>2. [n EXCEPT !.r.buf = <<>>].r = [n.r EXCEPT !.buf = <<>>]
    BY <1>2 DEF Outcome
  <2> QED
    BY <2>1, <2>2 DEF Success
<1> HIDE DEF n, f
<1>4. n.r \in Record
  BY <1>2 DEF Outcome
<1> QED
  BY <1>2, <1>3, <1>4 DEF HeldBack, Record

LEMMA SetResultHoldsBack ==
  ASSUME NEW r \in Record, NEW v \in Value, NEW up \in BOOLEAN
  PROVE  HeldBack(r, SetResult(r, v, up).r)
<1>1. HeldBack(r, SetResultRpc(r, v, up).r)
  <2> DEFINE m == [r EXCEPT !.resultSet = TRUE]
  <2>1. m \in Record /\ HeldBack(r, m)
    BY DEF Record, HeldBack
  <2>2. ResultFrame(r.id, v) \in Frame
    BY FrameTypes DEF Record
  <2>3. HeldBack(m, Encode(m, ResultFrame(r.id, v), up).r)
    BY <2>1, <2>2, EncodeHoldsBack
  <2> QED
    BY <2>1, <2>3 DEF SetResultRpc, HeldBack, Success, Failure
<1>2. HeldBack(r, SetResultLegacy(r, v, up).r)
  <2>1. v.body \in Seq(Nat) /\ Len(v.body) \in Nat
    BY DEF Value
  <2>2. HeldBack(r, LimitedWrite(r, RawFrame(v.body), Len(v.body), up).r)
    BY <2>1, FrameTypes, LimitedWriteHoldsBack
  <2> QED
    BY <2>2 DEF SetResultLegacy, HeldBack, Success
<1>3. HeldBack(r, SetResultStreaming(r, v, up).r)
  <2> DEFINE c == Commit(r, up)
  <2>1. c.r \in Record /\ HeldBack(r, c.r)
    BY CommitType, CommitHoldsBack DEF Outcome
  <2>2. ResultFrame(r.id, v) \in Frame
    BY FrameTypes DEF Record
  <2>3. HeldBack(c.r, Encode(c.r, ResultFrame(r.id, v), up).r)
    BY <2>1, <2>2, EncodeHoldsBack
  <2>4. SetResultStreaming(r, v, up).r =
          IF r.closed THEN r ELSE IF c.err # "nil" THEN c.r
          ELSE Encode(c.r, ResultFrame(r.id, v), up).r
    BY DEF SetResultStreaming, Success
  <2> HIDE DEF c
  <2> QED
    BY <2>1, <2>3, <2>4 DEF HeldBack
<1> QED
  BY <1>1, <1>2, <1>3 DEF SetResult, Record, Kinds

LEMMA SetErrorHoldsBack ==
  ASSUME NEW r \in Record, NEW e \in Errors, NEW up \in BOOLEAN
  PROVE  HeldBack(r, SetError(r, e, up).r)
<1>1. HeldBack(r, SetErrorRpc(r, e).r)
  BY DEF SetErrorRpc, HeldBack, Success, Failure, Record
<1>2. HeldBack(r, SetErrorStreaming(r, e, up).r)
  <2> DEFINE c == Commit(r, up)
             m == [MaxResponse(c.r, 0) EXCEPT !.closed = TRUE]
             x == Encode(m, ErrorFrame(r.id, e), up)
  <2>1. c.r \in Record /\ HeldBack(r, c.r)
    BY CommitType, CommitHoldsBack DEF Outcome
  <2>2. MaxResponse(c.r, 0) \in Record /\ HeldBack(c.r, MaxResponse(c.r, 0))
    BY <2>1, MaxResponseType DEF HeldBack, MaxResponse, Record
  <2>3. m \in Record /\ HeldBack(c.r, m)
    BY <2>2 DEF HeldBack, Record
  <2>4. ErrorFrame(r.id, e) \in Frame
    BY FrameTypes DEF Record
  <2>5. HeldBack(m, x.r)
    BY <2>3, <2>4, EncodeHoldsBack
  <2>6. SetErrorStreaming(r, e, up).r =
          IF r.closed THEN r ELSE IF c.err # "nil" THEN c.r ELSE x.r
    BY DEF SetErrorStreaming, Success
  <2> HIDE DEF c, m, x
  <2> QED
    BY <2>1, <2>3, <2>5, <2>6 DEF HeldBack
<1> QED
  BY <1>1, <1>2 DEF SetError, Record, Kinds, HeldBack, Success

LEMMA PutHoldsBack ==
  ASSUME NEW r \in Record, NEW p \in Piece, NEW up \in BOOLEAN
  PROVE  /\ Put(r, p, up).r.kind = "rpc" => r.kind = "rpc"
         /\ r.kind = "rpc" => HeldBack(r, Put(r, p, up).r)
<1>1. RawFrame(p.body) \in Frame /\ Len(p.body) \in Nat
  BY FrameTypes DEF Piece
<1>2. HeldBack(r, LimitedWrite(r, RawFrame(p.body), Len(p.body), up).r)
  BY <1>1, LimitedWriteHoldsBack
<1>3. ASSUME NEW s \in Record, s.kind = "streaming"
      PROVE  PutLine(s, p, up).r.kind = "streaming"
  <2> DEFINE q == [s EXCEPT !.buf = Join(@, RawFrame(p.body))]
             m == [s EXCEPT !.buf = <<>>]
             f == LineFrame(s.id, Text(q.buf))
  <2>1. Join(s.buf, RawFrame(p.body)) \in Seq(Frame)
    BY <1>1, JoinType DEF Record
  <2>2. q \in Record /\ m \in Record /\ q.kind = s.kind /\ m.kind = s.kind
    BY <2>1, Emptied DEF Record
  <2>3. f \in Frame
    BY <2>2, FrameTypes, TextType DEF Record
  <2>4. HeldBack(m, Encode(m, f, up).r)
    BY <2>2, <2>3, EncodeHoldsBack
  <2>5. PutLine(s, p, up) = IF p.nl THEN Encode(m, f, up) ELSE Success(q)
    BY DEF PutLine
  <2> HIDE DEF q, m, f
  <2> QED
    BY <1>3, <2>2, <2>4, <2>5 DEF HeldBack, Success
<1>4. ASSUME r.kind = "streaming" PROVE Put(r, p, up).r.kind = "streaming"
  <2> DEFINE hd == SetResult(r, OK, up)
             m  == [hd.r EXCEPT !.first = FALSE]
  <2>1. hd \in Outcome /\ HeldBack(r, hd.r)
    BY SetResultType, SetResultHoldsBack, ValueTypes
  <2>2. Put(r, p, up) = IF ~r.first THEN PutLine(r, p, up)
                        ELSE IF hd.err # "nil" THEN [hd EXCEPT !.r.first = FALSE]
                        ELSE PutLine(m, p, up)
    BY <1>4 DEF Put
  <2> HIDE DEF hd
  <2>3. hd.r \in Record /\ hd.r.kind = "streaming"
    BY <1>4, <2>1 DEF Outcome, HeldBack
  <2>4. m \in Record /\ m.kind = "streaming"
    BY <2>3 DEF Record
  <2>5. \A b \in BOOLEAN : [hd EXCEPT !.r.first = b].r.kind = hd.r.kind
    BY <2>1, <2>3 DEF Outcome, Record
  <2> QED
    BY <1>3, <1>4, <2>2, <2>3, <2>4, <2>5
<1>5. r.kind # "streaming" => Put(r, p, up) = LimitedWrite(r, RawFrame(p.body), Len(p.body), up)
  BY DEF Put
<1> QED
  BY <1>2, <1>4, <1>5 DEF HeldBack

LEMMA CloseKeepsKind ==
  ASSUME NEW r \in Record, NEW up \in BOOLEAN, Close(r, up).r.kind = "rpc"
  PROVE  r.kind = "rpc"
<1>1. SUFFICES ASSUME r.kind # "rpc" PROVE Close(r, up).r.kind # "rpc"
  OBVIOUS
<1> DEFINE c == Commit(r, up)
           s == SetResult(c.r, Done, up)
<1>2. c.r \in Record /\ c.r.kind = r.kind
  BY CommitType, CommitHoldsBack DEF Outcome, HeldBack
<1>3. s \in Outcome /\ s.r.kind = r.kind
  BY <1>2, SetResultType, SetResultHoldsBack, ValueTypes DEF HeldBack
<1>4. Close(r, up) = IF r.kind = "legacy" THEN Success(r)
                     ELSE IF c.err # "nil" THEN c ELSE IF r.closed THEN c
                     ELSE [s EXCEPT !.r.closed = TRUE]
  BY <1>1 DEF Close, CloseStreaming, Record, Kinds
<1> HIDE DEF c, s
<1>5. s.r \in Record
  BY <1>3 DEF Outcome
<1>6. \A b \in BOOLEAN : [s EXCEPT !.r.closed = b].r.kind = s.r.kind
  BY <1>3, <1>5 DEF Outcome, Record
<1> QED
  BY <1>1, <1>2, <1>3, <1>4, <1>6 DEF Success

-----------------------------------------------------------------------------
(* The control part: where the handler and the invoker can be.             *)

\* CloseRunsAlone made inductive.  The clause that is not obvious is the one
\* about "check": f.err is nil there, although SelectTimeout has set it, only
\* when the invoker has overwritten it in its last step.
Control ==
  /\ h \in {"read", "process"} \cup InProcess => left = "-"
  /\ h \in Closing \cup Over => left \in {"early", "done", "forced"}
  /\ h \in {"read", "process"} \/ left = "early" => inv = "none"
  /\ h = "check" /\ err = "nil" => inv \in {"exit", "exited"}
  /\ left = "done" => inv \in {"exit", "exited"}

LEMMA ControlInit == Init => Control
BY DEF Init, Control, InProcess, Closing, Over

LEMMA ControlHandler == Control /\ Handler => Control'
<1> SUFFICES ASSUME Control, Handler PROVE Control'
  OBVIOUS
<1> USE DEF Control, InProcess, Closing, Over, invoker, output
<1>1. CASE ReadFromTransport
  BY <1>1 DEF ReadFromTransport
<1>2. CASE Process
  BY <1>2 DEF Process
<1>3. CASE SelectTimeout
  BY <1>3 DEF SelectTimeout
<1>4. CASE SelectDone
  BY <1>4 DEF SelectDone
<1>5. CASE CheckErr
  BY <1>5 DEF CheckErr, LeaveProcess
<1>6. CASE GraceDone
  BY <1>6 DEF GraceDone, LeaveProcess
<1>7. CASE GraceTimer
  BY <1>7 DEF GraceTimer, LeaveProcess
<1>8. CASE CloseBranch
  BY <1>8 DEF CloseBranch
<1>9. CASE CloseError
  BY <1>9 DEF CloseError
<1>10. CASE CloseEnd
  BY <1>10 DEF CloseEnd
<1> QED
  BY <1>1, <1>2, <1>3, <1>4, <1>5, <1>6, <1>7, <1>8, <1>9, <1>10 DEF Handler

LEMMA ControlInvoker == Control /\ Invoker => Control'
<1> SUFFICES ASSUME Control, Invoker PROVE Control'
  OBVIOUS
<1> USE DEF Control, InProcess, Closing, Over, output
<1>1. CASE Invoke
  BY <1>1 DEF Invoke
<1>2. CASE DeferFlush
  BY <1>2 DEF DeferFlush
<1>3. CASE Deliver
  BY <1>3 DEF Deliver
<1>4. CASE SetResponseError
  BY <1>4 DEF SetResponseError
<1>5. CASE SetResponseResult
  BY <1>5 DEF SetResponseResult
<1>6. CASE ReadPipe
  BY <1>6 DEF ReadPipe
<1>7. CASE ReadEnd
  BY <1>7 DEF ReadEnd
<1>8. CASE CheckWrite
  BY <1>8 DEF CheckWrite
<1>9. CASE PutPiece
  BY <1>9 DEF PutPiece
<1>10. CASE CloseDone
  BY <1>10 DEF CloseDone
<1> QED
  BY <1>1, <1>2, <1>3, <1>4, <1>5, <1>6, <1>7, <1>8, <1>9, <1>10 DEF Invoker

\* The other goroutines, the child and the clock leave that part alone.
LEMMA Others ==
  Flush \/ Copier \/ Kill \/ Cancel \/ Environment => UNCHANGED <<rq, h, left, inv, val, err, rsp>>
BY DEF Flush, Copier, Kill, Cancel, Environment, WakeUp, CopyChunk, StdoutEnd, WriteRejected,
       Wait, Emit, Exit, CloseStdout, Deadline, Stall, Disconnect, handled, apart, invoker, output

LEMMA ControlNext == Control /\ [Next]_vars => Control'
<1> SUFFICES ASSUME Control, [Next]_vars PROVE Control'
  OBVIOUS
<1>1. CASE Handler
  BY <1>1, ControlHandler
<1>2. CASE Invoker
  BY <1>2, ControlInvoker
<1>3. CASE Flush \/ Copier \/ Kill \/ Cancel \/ Environment \/ UNCHANGED vars
  BY <1>3, Others DEF Control, vars
<1> QED
  BY <1>1, <1>2, <1>3 DEF Next

LEMMA ControlHolds == Spec => []Control
BY ControlInit, ControlNext, PTL DEF Spec

\* The handler never closes a responser the invoker may still write to, unless
\* the grace period ran out (jsonRPCrequestPriv.process and Close).
THEOREM CloseIsAlone == Spec => []CloseRunsAlone
<1>1. Control => CloseRunsAlone
  BY DEF Control, CloseRunsAlone, Closing, Over
<1> QED
  BY <1>1, ControlHolds, PTL

\* ... and so, that case excepted, nothing is written after ServeHTTP has
\* returned (rupicolaProcessorChild.ServeHTTP).
THEOREM NothingAfterReturn == Spec => ResponserSettles
<1>1. Control /\ [Next]_vars => [left # "forced" /\ h \in Over => rsp' = rsp]_vars
  <2> SUFFICES ASSUME Control, [Next]_vars, left # "forced", h \in Over
               PROVE rsp' = rsp
    OBVIOUS
  <2>1. inv \in {"none", "exit", "exited"}
    BY DEF Control
  <2>2. CASE Handler
    BY <2>2 DEF Handler, ReadFromTransport, Process, SelectTimeout, SelectDone, CheckErr,
                GraceDone, GraceTimer, CloseBranch, CloseError, CloseEnd, Over
  <2>3. CASE Invoker
    BY <2>1, <2>3 DEF Invoker, Invoke, DeferFlush, Deliver, SetResponseError,
                      SetResponseResult, ReadPipe, ReadEnd, CheckWrite, PutPiece, CloseDone
  <2>4. CASE Flush \/ Copier \/ Kill \/ Cancel \/ Environment \/ UNCHANGED vars
    BY <2>4, Others DEF vars
  <2> QED
    BY <2>2, <2>3, <2>4 DEF Next
<1> QED
  BY <1>1, ControlHolds, PTL DEF Spec, ResponserSettles

-----------------------------------------------------------------------------
(* Types.                                                                  *)

LEMMA TypeInit == Init => TypeOK
<1> SUFFICES ASSUME Init PROVE TypeOK
  OBVIOUS
<1>1. rq \in Setup
  BY RequestAssumption DEF Init
<1>2. rsp \in Record
  BY NewType DEF Init, Kinds
<1>3. <<>> \in Seq(Nat)
  OBVIOUS
<1> QED
  BY <1>1, <1>2, <1>3 DEF Init, TypeOK, NoChild, Child, Errors, InProcess, Closing, Over

LEMMA TransportType == Transport \subseteq BOOLEAN
BY DEF Transport

LEMMA RequestTypes ==
  ASSUME TypeOK
  PROVE  /\ rq.plus \in BOOLEAN /\ rq.id \in Ids /\ rq.limit \in Nat /\ 0 \in Nat
         /\ rq.uri \in {"rpc", "streamed"} /\ rq.fault \in Faults
BY DEF TypeOK, Setup, Ids

LEMMA TypeHandler == TypeOK /\ Handler => TypeOK'
<1> SUFFICES ASSUME TypeOK, Handler PROVE TypeOK'
  OBVIOUS
<1> USE DEF InProcess, Closing, Over, invoker, output
<1>1. CASE ReadFromTransport
  <2>1. err' \in Errors
    BY <1>1 DEF ReadFromTransport, Errors
  <2> QED
    BY <1>1, <2>1 DEF ReadFromTransport, TypeOK
<1>2. CASE Process
  <2>1. SetID(Upgrade(rsp, rq.plus), rq.id) \in Record
    BY RequestTypes, UpgradeType DEF TypeOK
  <2>2. MaxResponse(SetID(Upgrade(rsp, rq.plus), rq.id), rq.limit) \in Record
    BY <2>1, RequestTypes, MaxResponseType
  <2>3. rsp' \in Record /\ err' \in Errors
    BY <1>2, <2>1, <2>2 DEF Process, TypeOK, Errors
  <2>4. /\ h' \in {"close", "select"}
        /\ left' \in {left, "early"}
        /\ inv' \in {inv, "invoke"}
    BY <1>2 DEF Process
  <2> QED
    BY <1>2, <2>3, <2>4 DEF Process, TypeOK
<1>3. CASE SelectTimeout
  BY <1>3 DEF SelectTimeout, TypeOK, Errors
<1>4. CASE SelectDone
  BY <1>4 DEF SelectDone, TypeOK
<1>5. CASE CheckErr
  BY <1>5 DEF CheckErr, LeaveProcess, TypeOK
<1>6. CASE GraceDone
  BY <1>6 DEF GraceDone, LeaveProcess, TypeOK
<1>7. CASE GraceTimer
  BY <1>7 DEF GraceTimer, LeaveProcess, TypeOK
<1>8. CASE CloseBranch
  <2>1. Upgrade(rsp, rq.plus) \in Record
    BY RequestTypes, UpgradeType DEF TypeOK
  <2>2. MaxResponse(Upgrade(rsp, rq.plus), 0) \in Record
    BY <2>1, MaxResponseType
  <2> QED
    BY <1>8, <2>1, <2>2 DEF CloseBranch, TypeOK
<1>9. CASE CloseError
  <2>1. \A up \in Transport : SetError(rsp, err, up).r \in Record
    BY SetErrorType, TransportType DEF TypeOK, Outcome
  <2>2. rsp' \in Record /\ h' \in {"panicked", "closeend"}
    BY <1>9, <2>1 DEF CloseError, TypeOK
  <2> QED
    BY <1>9, <2>2 DEF CloseError, TypeOK
<1>10. CASE CloseEnd
  <2>1. \A up \in Transport : Close(rsp, up).r \in Record
    BY CloseType, TransportType DEF TypeOK, Outcome
  <2>2. rsp' \in Record
    BY <1>10, <2>1 DEF CloseEnd
  <2> QED
    BY <1>10, <2>2 DEF CloseEnd, TypeOK
<1> QED
  BY <1>1, <1>2, <1>3, <1>4, <1>5, <1>6, <1>7, <1>8, <1>9, <1>10 DEF Handler

LEMMA RefusalType == ASSUME NEW r \in Record PROVE Refusal(r) \in Errors
BY DEF Refusal, Errors

\* The characters of a sequence's whole groups, and what does not fill one.
LEMMA GroupTypes ==
  ASSUME NEW s \in Seq(Nat) PROVE Encoded(s) \in Seq(Nat) /\ Rest(s) \in Seq(Nat)
<1> DEFINE g == Len(s) \div 3
<1>1. Len(s) \in Nat /\ g \in Nat /\ 3 * g <= Len(s)
  BY SMT
<1>2. SubSeq(s, 3 * g + 1, Len(s)) \in Seq(Nat)
  BY <1>1, SubSeqProperties
<1> DEFINE at(i) == 3 * ((i - 1) \div 4) + 1
           char(i) == 4 * (s[at(i)] \div 3) + ((i - 1) % 4) + 1
<1>3. ASSUME NEW i \in 1..(4 * g) PROVE char(i) \in Nat
  <2>1. at(i) \in 1..Len(s) /\ (i - 1) % 4 \in Nat
    BY <1>1, SMT
  <2>2. s[at(i)] \in Nat
    BY <2>1
  <2> HIDE DEF at
  <2>3. s[at(i)] \div 3 \in Nat
    BY <2>2, SMT
  <2> QED
    BY <2>1, <2>3
<1>4. Encoded(s) = [i \in 1..(4 * g) |-> char(i)]
  BY DEF Encoded
<1> HIDE DEF char
<1>5. [i \in 1..(4 * g) |-> char(i)] \in Seq(Nat)
  <2>1. 4 * g \in Nat
    BY <1>1
  <2> QED
    BY <1>3, <2>1
<1> QED
  BY <1>2, <1>4, <1>5 DEF Rest

\* What a Write handles at once, and what remains for it.
LEMMA FirstType ==
  ASSUME TypeOK, NEW n \in DOMAIN hand
  PROVE  /\ First(n) \in Piece
         /\ SubSeq(hand, n + 1, Len(hand)) \in Seq(Nat)
<1>1. hand \in Seq(Nat) /\ n \in 1..Len(hand)
  BY DEF TypeOK
<1>2. SubSeq(hand, 1, n) \in Seq(Nat) /\ SubSeq(hand, n + 1, Len(hand)) \in Seq(Nat)
  BY <1>1, SubSeqProperties
<1> QED
  BY <1>2 DEF First, Piece

LEMMA TypeInvoker == TypeOK /\ Invoker => TypeOK'
<1> SUFFICES ASSUME TypeOK, Invoker PROVE TypeOK'
  OBVIOUS
<1> USE DEF output
<1>1. CASE Invoke
  <2>1. NoChild \in Child
    BY DEF NoChild, Child
  <2>a. \A c \in Child : [c EXCEPT !.st = "running", !.open = TRUE] \in Child
    BY DEF Child
  <2>2. \/ UNCHANGED <<cp, pw, child>>
        \/ cp' = "sleep" /\ pw' \in {"eof", "open"} /\ child' \in Child
    BY <1>1, <2>1, <2>a DEF Invoke
  <2>3. /\ val' \in {"prepare", "nil", "start", "ok", "reader"}
        /\ inv' \in {"deliver", "flush"}
    BY <1>1 DEF Invoke
  <2>4. UNCHANGED <<rq, h, left, hand, err, rsp, ctx, conn, chunk, enc, timer>>
    BY <1>1 DEF Invoke
  <2> QED
    BY <2>2, <2>3, <2>4 DEF TypeOK
<1>2. CASE DeferFlush
  <2>1. enc' \in Seq(Nat)
    BY <1>2 DEF DeferFlush
  <2> QED
    BY <1>2, <2>1 DEF DeferFlush, TypeOK
<1>3. CASE Deliver
  BY <1>3 DEF Deliver, TypeOK
<1>4. CASE SetResponseError
  <2>1. val \in Errors
    BY <1>4 DEF SetResponseError, TypeOK, Faults, Errors
  <2>2. \A up \in Transport : SetError(rsp, val, up).r \in Record
    BY <2>1, SetErrorType, TransportType DEF TypeOK, Outcome
  <2>3. rsp' \in Record
    BY <1>4, <2>2 DEF SetResponseError
  <2> QED
    BY <1>4, <2>1, <2>3 DEF SetResponseError, TypeOK
<1>5. CASE SetResponseResult
  <2> DEFINE v == IF val = "ok" THEN OK ELSE Null
  <2>1. v \in Value
    BY ValueTypes
  <2>2. \A up \in Transport : SetResult(rsp, v, up) \in Outcome
    BY <2>1, SetResultType, TransportType DEF TypeOK
  <2>3. \E up \in Transport : rsp' = SetResult(rsp, v, up).r /\ err' = SetResult(rsp, v, up).err
    BY <1>5 DEF SetResponseResult
  <2> HIDE DEF v
  <2>4. rsp' \in Record /\ err' \in Errors
    BY <2>2, <2>3 DEF Outcome
  <2> QED
    BY <1>5, <2>4 DEF SetResponseResult, TypeOK
<1>6. CASE ReadPipe
  <2>1. enc \o chunk \in Seq(Nat) /\ chunk \in Seq(Nat) /\ <<>> \in Seq(Nat)
    BY DEF TypeOK
  <2>2. Encoded(enc \o chunk) \in Seq(Nat) /\ Rest(enc \o chunk) \in Seq(Nat)
    BY <2>1, GroupTypes
  <2>3. Piped \in Seq(Nat)
    BY <2>1, <2>2 DEF Piped
  <2>4. hand' \in Seq(Nat) /\ enc' \in Seq(Nat) /\ chunk' \in Seq(Nat)
    BY <1>6, <2>1, <2>2, <2>3 DEF ReadPipe, TypeOK
  <2> QED
    BY <1>6, <2>4 DEF ReadPipe, TypeOK
<1>7. CASE ReadEnd
  BY <1>7 DEF ReadEnd, TypeOK, Errors
<1>8. CASE CheckWrite
  <2>1. <<>> \in Seq(Nat)
    OBVIOUS
  <2>2. Refusal(rsp) \in Errors
    BY RefusalType DEF TypeOK
  <2>3. hand' \in Seq(Nat) /\ err' \in Errors /\ inv' \in {"put", "exit"}
    BY <1>8, <2>1, <2>2 DEF CheckWrite, TypeOK
  <2> QED
    BY <1>8, <2>3 DEF CheckWrite, TypeOK
<1>9. CASE PutPiece
  <2>1. PICK n \in DOMAIN hand, up \in Transport :
          /\ rsp' = Put(rsp, First(n), up).r
          /\ err' \in {err, Put(rsp, First(n), up).err}
          /\ hand' \in {<<>>, SubSeq(hand, n + 1, Len(hand))}
          /\ inv' \in {"put", "copy", "exit"}
    BY <1>9 DEF PutPiece
  <2>2. Put(rsp, First(n), up) \in Outcome
    BY FirstType, PutType, TransportType DEF TypeOK
  <2>3. rsp' \in Record /\ err' \in Errors
    BY <2>1, <2>2 DEF TypeOK, Outcome
  <2>4. hand' \in Seq(Nat)
    <3>1. <<>> \in Seq(Nat) /\ SubSeq(hand, n + 1, Len(hand)) \in Seq(Nat)
      BY FirstType
    <3> QED
      BY <2>1, <3>1
  <2> QED
    BY <1>9, <2>1, <2>3, <2>4 DEF PutPiece, TypeOK
<1>10. CASE CloseDone
  BY <1>10 DEF CloseDone, TypeOK
<1> QED
  BY <1>1, <1>2, <1>3, <1>4, <1>5, <1>6, <1>7, <1>8, <1>9, <1>10 DEF Invoker

LEMMA EndedType ==
  ASSUME TypeOK, NEW how \in {"ok", "failed", "killed"}
  PROVE  Ended(child, how) \in Child
<1>1. child \in Child
  BY DEF TypeOK
<1>2. (child.open /\ rq.forks) \in BOOLEAN
  OBVIOUS
<1> QED
  BY <1>1, <1>2 DEF Ended, Child

LEMMA TypeOthers == TypeOK /\ (Flush \/ Copier \/ Kill \/ Cancel \/ Environment) => TypeOK'
<1> SUFFICES ASSUME TypeOK, Flush \/ Copier \/ Kill \/ Cancel \/ Environment PROVE TypeOK'
  OBVIOUS
<1> USE DEF invoker, output, handled, apart
<1>a. child \in Child
  BY DEF TypeOK
<1>1. CASE Flush
  BY <1>1 DEF Flush, TypeOK
<1>2. CASE WakeUp
  BY <1>2 DEF WakeUp, TypeOK
<1>3. CASE CopyChunk
  <2>1. PICK n \in (child.read + 1)..child.wrote :
          LET bytes == [i \in 1..(n - child.read) |-> child.read + i] IN
          /\ child' = [child EXCEPT !.read = n]
          /\ enc' \in {enc, enc \o bytes}
          /\ chunk' \in {chunk, bytes}
          /\ cp' \in {cp, "write"}
    BY <1>3 DEF CopyChunk
  <2> DEFINE bytes == [i \in 1..(n - child.read) |-> child.read + i]
  <2>2. child.read \in Nat /\ child.wrote \in Nat /\ n \in Nat /\ n - child.read \in Nat
    BY <1>a DEF Child
  <2>3. bytes \in Seq(Nat)
    BY <2>2
  <2>4. child' \in Child
    BY <1>a, <2>1, <2>2 DEF Child
  <2> HIDE DEF bytes
  <2>5. enc' \in Seq(Nat) /\ chunk' \in Seq(Nat)
    <3>1. enc' \in {enc, enc \o bytes} /\ chunk' \in {chunk, bytes}
      BY <2>1 DEF bytes
    <3>2. enc \in Seq(Nat) /\ chunk \in Seq(Nat)
      BY DEF TypeOK
    <3>3. enc \o bytes \in Seq(Nat)
      BY <2>3, <3>2
    <3> QED
      BY <2>3, <3>1, <3>2, <3>3
  <2> QED
    BY <1>3, <2>1, <2>4, <2>5 DEF CopyChunk, TypeOK
<1>4. CASE StdoutEnd
  BY <1>4 DEF StdoutEnd, TypeOK
<1>5. CASE WriteRejected
  <2>1. child' \in Child
    BY <1>5, <1>a, EndedType DEF WriteRejected
  <2>2. chunk' \in Seq(Nat)
    BY <1>5 DEF WriteRejected
  <2> QED
    BY <1>5, <2>1, <2>2 DEF WriteRejected, TypeOK
<1>6. CASE Wait
  <2>1. child' \in Child
    BY <1>6, <1>a DEF Wait, Child
  <2>2. pw' \in {pw, "eof", "ExitError"} /\ cp' = "done"
    BY <1>6 DEF Wait
  <2> QED
    BY <1>6, <2>1, <2>2 DEF Wait, TypeOK
<1>7. CASE Kill \/ Exit
  <2>1. child' \in Child
    BY <1>7, EndedType DEF Kill, Exit
  <2> QED
    BY <1>7, <2>1 DEF Kill, Exit, TypeOK
<1>8. CASE Emit \/ CloseStdout
  <2>1. child' \in Child
    <3>1. child.wrote + 1 \in Nat
      BY <1>a DEF Child
    <3> QED
      BY <1>8, <1>a, <3>1 DEF Emit, CloseStdout, Child
  <2> QED
    BY <1>8, <2>1 DEF Emit, CloseStdout, TypeOK
<1>9. CASE Cancel \/ Deadline \/ Stall \/ Disconnect
  BY <1>9 DEF Cancel, Deadline, Stall, Disconnect, TypeOK
<1> QED
  BY <1>1, <1>2, <1>3, <1>4, <1>5, <1>6, <1>7, <1>8, <1>9 DEF Copier, Environment

LEMMA TypeNext == TypeOK /\ [Next]_vars => TypeOK'
<1>1. TypeOK /\ UNCHANGED vars => TypeOK'
  BY DEF TypeOK, vars
<1> QED
  BY <1>1, TypeHandler, TypeInvoker, TypeOthers DEF Next

\* Every variable keeps its type, the responser's room among them: the limiter
\* never takes more than it has left (exceptionalLimitedWriter).
THEOREM TypeCorrect == Spec => []TypeOK
BY TypeInit, TypeNext, PTL DEF Spec

-----------------------------------------------------------------------------
(* A plain RPC answer is sent in one piece.                                *)

RpcQuiet == rsp.kind = "rpc" /\ h # "returned" => rsp.wire = <<>>

\* A step other than the handler's last neither makes a plain RPC responser
\* nor lets one send.
Quiet ==
  /\ rsp'.kind = "rpc" => rsp.kind = "rpc"
  /\ rsp.kind = "rpc" => rsp'.wire = rsp.wire

LEMMA QuietHandler == TypeOK /\ Handler /\ ~CloseEnd => Quiet
<1> SUFFICES ASSUME TypeOK, Handler, ~CloseEnd PROVE Quiet
  OBVIOUS
<1>1. CASE Process
  <2> DEFINE u == Upgrade(rsp, rq.plus)
             s == SetID(u, rq.id)
             m == MaxResponse(s, rq.limit)
  <2>1. /\ u \in Record /\ s \in Record
        /\ rsp.kind = "rpc" => u = rsp
        /\ u.kind = "rpc" => rsp.kind = "rpc"
    BY RequestTypes, UpgradeType, FieldsHoldBack DEF TypeOK
  <2>2. HeldBack(u, s) /\ HeldBack(s, m)
    BY <2>1, RequestTypes, FieldsHoldBack
  <2>3. rsp' \in {rsp, s, m}
    BY <1>1 DEF Process
  <2> HIDE DEF u, s, m
  <2> QED
    BY <2>1, <2>2, <2>3 DEF Quiet, HeldBack
<1>2. CASE CloseBranch
  <2> DEFINE u == Upgrade(rsp, rq.plus)
             m == MaxResponse(u, 0)
  <2>1. /\ u \in Record
        /\ rsp.kind = "rpc" => u = rsp
        /\ u.kind = "rpc" => rsp.kind = "rpc"
    BY RequestTypes, UpgradeType, FieldsHoldBack DEF TypeOK
  <2>2. HeldBack(u, m)
    BY <2>1, RequestTypes, FieldsHoldBack
  <2>3. rsp' \in {u, m}
    BY <1>2 DEF CloseBranch
  <2> HIDE DEF u, m
  <2> QED
    BY <2>1, <2>2, <2>3 DEF Quiet, HeldBack
<1>3. CASE CloseError
  <2>1. \A up \in Transport : HeldBack(rsp, SetError(rsp, err, up).r)
    BY SetErrorHoldsBack, TransportType DEF TypeOK
  <2>2. rsp' = rsp \/ HeldBack(rsp, rsp')
    BY <1>3, <2>1 DEF CloseError
  <2> QED
    BY <2>2 DEF Quiet, HeldBack
<1>4. CASE ReadFromTransport \/ SelectTimeout \/ SelectDone \/ CheckErr \/ GraceDone \/ GraceTimer
  <2>1. rsp' = rsp
    BY <1>4 DEF ReadFromTransport, SelectTimeout, SelectDone, CheckErr, GraceDone, GraceTimer,
                LeaveProcess
  <2> QED
    BY <2>1 DEF Quiet
<1> QED
  BY <1>1, <1>2, <1>3, <1>4 DEF Handler

LEMMA QuietInvoker == TypeOK /\ Invoker => Quiet
<1> SUFFICES ASSUME TypeOK, Invoker PROVE Quiet
  OBVIOUS
<1>1. CASE SetResponseError
  <2>1. val \in Errors
    BY <1>1 DEF SetResponseError, TypeOK, Faults, Errors
  <2>2. \A up \in Transport : HeldBack(rsp, SetError(rsp, val, up).r)
    BY <2>1, SetErrorHoldsBack, TransportType DEF TypeOK
  <2> QED
    BY <1>1, <2>2 DEF SetResponseError, Quiet, HeldBack
<1>2. CASE SetResponseResult
  <2> DEFINE v == IF val = "ok" THEN OK ELSE Null
  <2>1. v \in Value
    BY ValueTypes
  <2>2. \A up \in Transport : HeldBack(rsp, SetResult(rsp, v, up).r)
    BY <2>1, SetResultHoldsBack, TransportType DEF TypeOK
  <2>3. \E up \in Transport : rsp' = SetResult(rsp, v, up).r
    BY <1>2 DEF SetResponseResult
  <2> HIDE DEF v
  <2> QED
    BY <2>2, <2>3 DEF Quiet, HeldBack
<1>3. CASE PutPiece
  <2>1. PICK n \in DOMAIN hand, up \in Transport : rsp' = Put(rsp, First(n), up).r
    BY <1>3 DEF PutPiece
  <2>2. /\ Put(rsp, First(n), up).r.kind = "rpc" => rsp.kind = "rpc"
        /\ rsp.kind = "rpc" => HeldBack(rsp, Put(rsp, First(n), up).r)
    BY FirstType, PutHoldsBack, TransportType DEF TypeOK
  <2> QED
    BY <2>1, <2>2 DEF Quiet, HeldBack
<1>4. CASE ~(SetResponseError \/ SetResponseResult \/ PutPiece)
  <2>1. rsp' = rsp
    BY <1>4 DEF Invoker, Invoke, DeferFlush, Deliver, ReadPipe, ReadEnd, CheckWrite, CloseDone
  <2> QED
    BY <2>1 DEF Quiet
<1> QED
  BY <1>1, <1>2, <1>3, <1>4

LEMMA QuietStep == TypeOK /\ [Next]_vars => Quiet \/ CloseEnd
<1>1. Flush \/ Copier \/ Kill \/ Cancel \/ Environment \/ UNCHANGED vars => Quiet
  BY Others DEF Quiet, vars
<1> QED
  BY <1>1, QuietHandler, QuietInvoker DEF Next

\* Only the handler leaves "returned", and it never does.
LEMMA ReturnedIsFinal == [Next]_vars /\ h = "returned" => h' = "returned"
<1>1. Handler => h # "returned"
  BY DEF Handler, ReadFromTransport, Process, SelectTimeout, SelectDone, CheckErr, GraceDone,
         GraceTimer, CloseBranch, CloseError, CloseEnd
<1>2. Invoker => h' = h
  BY DEF Invoker, Invoke, DeferFlush, Deliver, SetResponseError, SetResponseResult, ReadPipe,
         ReadEnd, CheckWrite, PutPiece, CloseDone
<1> QED
  BY <1>1, <1>2, Others DEF Next, vars

\* Whatever a method writes and however long it takes, the client of a plain
\* RPC request receives nothing before the handler closes the responser, and
\* then all of it at once (rpcResponse.Write, SetResponseError, Close, and the
\* forced flush of SetResponseResult).
THEOREM AnswerInOnePiece == Spec => RpcWireAtClose
<1>1. Init => RpcQuiet
  BY DEF Init, RpcQuiet, New
<1>2. TypeOK /\ RpcQuiet /\ [Next]_vars => RpcQuiet'
  <2> SUFFICES ASSUME TypeOK, RpcQuiet, [Next]_vars PROVE RpcQuiet'
    OBVIOUS
  <2>1. CASE Quiet
    BY <2>1, ReturnedIsFinal DEF RpcQuiet, Quiet
  <2>2. CASE CloseEnd
    BY <2>2 DEF CloseEnd, RpcQuiet
  <2> QED
    BY <2>1, <2>2, QuietStep
<1>3. TypeOK /\ RpcQuiet /\ [Next]_vars
        => [rsp.kind = "rpc" /\ rsp'.wire # rsp.wire => h = "closeend" /\ rsp.wire = <<>>]_vars
  <2> SUFFICES ASSUME TypeOK, RpcQuiet, [Next]_vars, rsp.kind = "rpc", rsp'.wire # rsp.wire
               PROVE  h = "closeend" /\ rsp.wire = <<>>
    OBVIOUS
  <2>1. CloseEnd
    BY QuietStep DEF Quiet
  <2> QED
    BY <2>1 DEF CloseEnd, RpcQuiet
<1> QED
  BY <1>1, <1>2, <1>3, TypeCorrect, PTL DEF Spec, RpcWireAtClose

-----------------------------------------------------------------------------
(* A stranded copier.                                                      *)

\* StrandedNeedsFailure made inductive: it is so whatever the copier does, and
\* only a reader leaves the pipe open.
Stranded ==
  /\ val # "reader" => pw # "open"
  /\ inv \in {"none", "invoke"} => pw = "none"
  /\ inv = "set" => val # "reader"
  /\ pw = "open" /\ inv \in {"exit", "exited"} => err # "nil" \/ ctx # "live"

\* When the copier is left with a write nobody will read, its child unreaped,
\* a limit, the client or the deadline has cut the request short (Invoke).
THEOREM OnlyFailureStrands == Spec => []StrandedNeedsFailure
<1>1. Init => Stranded
  BY DEF Init, Stranded
<1>2. Control /\ Stranded /\ [Next]_vars => Stranded'
  <2> SUFFICES ASSUME Control, Stranded, [Next]_vars PROVE Stranded'
    OBVIOUS
  <2> USE DEF Stranded, output, invoker
  <2>1. CASE Handler
    <3>1. inv' = inv \/ (inv = "none" /\ inv' = "invoke")
      BY <2>1 DEF Control, Handler, ReadFromTransport, Process, SelectTimeout, SelectDone, CheckErr,
                  GraceDone, GraceTimer, LeaveProcess, CloseBranch, CloseError, CloseEnd
    <3>2. UNCHANGED <<val, pw>> /\ (ctx # "live" => ctx' # "live")
      BY <2>1 DEF Handler, ReadFromTransport, Process, SelectTimeout, SelectDone, CheckErr,
                  GraceDone, GraceTimer, LeaveProcess, CloseBranch, CloseError, CloseEnd
    <3>3. err' = err \/ err' = "ErrTimeout" \/ inv = "none"
      BY <2>1 DEF Control, Handler, ReadFromTransport, Process, SelectTimeout, SelectDone, CheckErr,
                  GraceDone, GraceTimer, LeaveProcess, CloseBranch, CloseError, CloseEnd
    <3> QED
      BY <3>1, <3>2, <3>3
  <2>2. CASE Invoke \/ DeferFlush \/ Deliver \/ ReadPipe \/ ReadEnd \/ CloseDone
    BY <2>2 DEF Invoke, DeferFlush, Deliver, ReadPipe, ReadEnd, CloseDone
  <2>3. CASE SetResponseError \/ SetResponseResult
    BY <2>3 DEF SetResponseError, SetResponseResult
  <2>4. CASE CheckWrite \/ PutPiece
    <3>1. inv' = "exit" => err' # "nil"
      BY <2>4 DEF CheckWrite, PutPiece
    <3>2. UNCHANGED <<val, pw, ctx>> /\ inv' \in {"put", "copy", "exit"}
      BY <2>4 DEF CheckWrite, PutPiece
    <3> QED
      BY <3>1, <3>2
  <2>5. CASE Flush \/ Copier
    <3>1. UNCHANGED <<val, inv, err, ctx>> /\ pw' \in {pw, "eof", "ExitError"}
      BY <2>5 DEF Flush, Copier, WakeUp, CopyChunk, StdoutEnd, WriteRejected, Wait, handled
    <3>2. pw = "none" => pw' = "none"
      BY <2>5 DEF Flush, Copier, WakeUp, CopyChunk, StdoutEnd, WriteRejected, Wait, handled
    <3> QED
      BY <3>1, <3>2
  <2>6. CASE Kill \/ Cancel \/ Environment
    BY <2>6 DEF Kill, Cancel, Environment, Emit, Exit, CloseStdout, Deadline, Stall, Disconnect, apart
  <2>7. CASE UNCHANGED vars
    BY <2>7 DEF vars
  <2> QED
    BY <2>1, <2>2, <2>3, <2>4, <2>5, <2>6, <2>7 DEF Next, Invoker
<1>3. Stranded => StrandedNeedsFailure
  BY DEF Stranded, StrandedNeedsFailure
<1> QED
  BY <1>1, <1>2, <1>3, ControlHolds, PTL DEF Spec

-----------------------------------------------------------------------------
(* What the calls of a streaming responser do to its frames.                  *)

Headed(r) == r.wire # <<>> /\ r.wire[1] = ResultFrame(r.id, OK)

\* Only a closed responser has sent a footer or an error, and it holds no line back.
Ordered(r) ==
  /\ \A i \in DOMAIN r.wire : Terminal(r.wire[i]) => i = Len(r.wire) /\ r.closed
  /\ \A i \in DOMAIN r.wire : r.wire[i].tag = "data" => Headed(r)
  /\ r.buf # <<>> => Headed(r) /\ ~r.closed

\* A streaming responser after a call that sends at most the frame f.
Sent(r, s, f) ==
  /\ s \in Record /\ s.kind = "streaming" /\ s.id = r.id
  /\ s.wire = r.wire \/ s.wire = Append(r.wire, f)

LEMMA EncodeSends ==
  ASSUME NEW r \in Record, r.kind = "streaming", NEW f \in Frame, f.tag # "raw", NEW up \in BOOLEAN
  PROVE  LET e == Encode(r, f, up) IN
         /\ Sent(r, e.r, f)
         /\ e.r.first = r.first /\ e.r.closed = r.closed /\ e.r.buf = r.buf
         /\ e.err = "nil" => e.r.wire = Append(r.wire, f)
<1> DEFINE n == Envelope + Len(Content(f))
           w == LimitedWrite(r, f, n, up)
<1>1. n \in Nat
  BY ContentType
<1>2. Encode(r, f, up) \in Outcome /\ w \in Outcome
  BY <1>1, EncodeType, LimitedWriteType
<1>3. Join(r.wire, f) = Append(r.wire, f)
  BY DEF Join
<1>4. \/ w.r = r /\ w.err # "nil"
      \/ w.r = [r EXCEPT !.room = @ - n, !.wire = Append(@, f)] /\ w.err = "nil"
  BY <1>3 DEF LimitedWrite, Success, Failure
<1>5. Encode(r, f, up) = IF r.encErr # "nil" THEN Failure(r, r.encErr)
                         ELSE Failure([w.r EXCEPT !.encErr = w.err], w.err)
  BY DEF Encode
<1> HIDE DEF w, n
<1>6. /\ w.r \in Record /\ w.r.kind = r.kind /\ w.r.id = r.id /\ w.r.first = r.first
      /\ w.r.closed = r.closed /\ w.r.buf = r.buf
      /\ w.r.wire = IF w.err = "nil" THEN Append(r.wire, f) ELSE r.wire
  BY <1>2, <1>4 DEF Record, Outcome
<1> DEFINE s == [w.r EXCEPT !.encErr = w.err]
<1>7. /\ s.kind = r.kind /\ s.id = r.id /\ s.first = r.first
      /\ s.closed = r.closed /\ s.buf = r.buf
      /\ s.wire = IF w.err = "nil" THEN Append(r.wire, f) ELSE r.wire
  BY <1>6 DEF Record
<1> HIDE DEF s
<1>8. Encode(r, f, up).r \in Record
  BY <1>2 DEF Outcome
<1>9. CASE r.encErr # "nil"
  BY <1>5, <1>8, <1>9 DEF Failure, Sent
<1>10. CASE r.encErr = "nil"
  <2>1. Encode(r, f, up).r = s /\ Encode(r, f, up).err = w.err
    BY <1>5, <1>10 DEF Failure, s
  <2> QED BY <1>7, <1>8, <2>1 DEF Sent
<1> QED
  BY <1>9, <1>10

\* A frame more: a footer or an error closes, and data needs the header.
LEMMA OneMore ==
  ASSUME NEW r \in Record, NEW s, NEW f \in Frame, Ordered(r), ~r.closed, Sent(r, s, f),
         Terminal(f) => s.closed, f.tag = "data" => Headed(r),
         s.buf = <<>> \/ (s.buf = r.buf /\ ~s.closed)
  PROVE  Ordered(s) /\ (Headed(r) => Headed(s))
<1>1. r.wire \in Seq(Frame) /\ Len(r.wire) \in Nat /\ DOMAIN r.wire = 1..Len(r.wire)
  BY LenProperties DEF Record
<1>2. \A i \in DOMAIN r.wire : ~Terminal(r.wire[i])
  BY DEF Ordered
<1>3. CASE s.wire = r.wire
  BY <1>2, <1>3 DEF Ordered, Headed, Sent
<1>4. CASE s.wire = Append(r.wire, f)
  <2> DEFINE n == Len(r.wire)
  <2>1. /\ DOMAIN s.wire = 1..(n + 1) /\ Len(s.wire) = n + 1 /\ s.wire[n + 1] = f
        /\ \A i \in 1..n : s.wire[i] = r.wire[i]
    BY <1>1, <1>4, AppendProperties, LenProperties
  <2>2. Headed(r) => Headed(s)
    <3>1. Headed(r) => n >= 1
      BY <1>1 DEF Headed
    <3> QED BY <1>1, <2>1, <3>1 DEF Headed, Sent
  <2>3. \A i \in DOMAIN s.wire : Terminal(s.wire[i]) => i = Len(s.wire) /\ s.closed
    BY <1>1, <1>2, <2>1
  <2>4. \A i \in DOMAIN s.wire : s.wire[i].tag = "data" => Headed(s)
    BY <1>1, <2>1, <2>2 DEF Ordered
  <2>5. s.buf # <<>> => Headed(s) /\ ~s.closed
    BY <2>2 DEF Ordered
  <2> QED BY <2>2, <2>3, <2>4, <2>5 DEF Ordered
<1> QED BY <1>3, <1>4 DEF Sent

\* The tags and the ends of the frames a stream is made of.
LEMMA Tags ==
  ASSUME NEW id \in Ids
  PROVE  /\ \A bytes \in Seq(Nat) : LET f == DataFrame(id, bytes) IN
              f \in Frame /\ f.tag = "data" /\ ~Terminal(f)
         /\ \A bytes \in Seq(Nat) : LET f == LineFrame(id, bytes) IN
              f \in Frame /\ f.tag = "data" /\ ~Terminal(f)
         /\ \A v \in {OK, Null} : LET f == ResultFrame(id, v) IN
              f \in Frame /\ f.tag \notin {"raw", "data"} /\ ~Terminal(f)
         /\ LET f == ResultFrame(id, Done) IN f \in Frame /\ f.tag \notin {"raw", "data"}
         /\ \A e \in Errors : LET f == ErrorFrame(id, e) IN f \in Frame /\ f.tag \notin {"raw", "data"}
<1>1. OK.body # Done.body
  BY DEF OK, Done
<1>2. \A bytes \in Seq(Nat) : LET f == DataFrame(id, bytes) IN
        f \in Frame /\ f.tag = "data" /\ ~Terminal(f)
  BY FrameTypes DEF DataFrame, Terminal
<1>3. \A bytes \in Seq(Nat) : LET f == LineFrame(id, bytes) IN
        f \in Frame /\ f.tag = "data" /\ ~Terminal(f)
  BY FrameTypes DEF LineFrame, Terminal
<1>4. \A v \in {OK, Null} : LET f == ResultFrame(id, v) IN
        f \in Frame /\ f.tag \notin {"raw", "data"} /\ ~Terminal(f)
  <2> SUFFICES ASSUME NEW v \in {OK, Null}
               PROVE  LET f == ResultFrame(id, v) IN
                      f \in Frame /\ f.tag \notin {"raw", "data"} /\ ~Terminal(f)
    OBVIOUS
  <2>1. ResultFrame(id, v) \in Frame
    BY FrameTypes, ValueTypes
  <2>2. v.tag \in {"result", "null"} /\ (v.tag = "result" => v.body # Done.body)
    BY <1>1 DEF OK, Null
  <2> QED
    BY <2>1, <2>2 DEF ResultFrame, Terminal
<1>5. LET f == ResultFrame(id, Done) IN f \in Frame /\ f.tag \notin {"raw", "data"}
  BY FrameTypes, ValueTypes DEF ResultFrame, Done
<1>6. \A e \in Errors : LET f == ErrorFrame(id, e) IN f \in Frame /\ f.tag \notin {"raw", "data"}
  BY FrameTypes DEF ErrorFrame
<1> QED
  BY <1>2, <1>3, <1>4, <1>5, <1>6

LEMMA CommitOrders ==
  ASSUME NEW r \in Record, r.kind = "streaming", NEW up \in BOOLEAN, Ordered(r)
  PROVE  LET c == Commit(r, up).r IN
         /\ c \in Record /\ c.kind = "streaming" /\ c.id = r.id
         /\ c.closed = r.closed /\ c.first = r.first /\ c.buf = <<>>
         /\ Ordered(c) /\ (Headed(r) => Headed(c))
<1>1. CASE r.buf = <<>>
  BY <1>1 DEF Commit, Success
<1>2. CASE r.buf # <<>>
  <2> DEFINE f == DataFrame(r.id, Text(r.buf))
             e == Encode(r, f, up)
             c == [e EXCEPT !.r.buf = <<>>].r
  <2>1. f \in Frame /\ f.tag = "data" /\ ~Terminal(f)
    BY Tags, TextType DEF Record
  <2>2. Headed(r) /\ ~r.closed
    BY <1>2 DEF Ordered
  <2>3. Sent(r, e.r, f) /\ e.r.first = r.first /\ e.r.closed = r.closed /\ e \in Outcome
    BY <2>1, EncodeSends, EncodeType
  <2>4. c = [e.r EXCEPT !.buf = <<>>]
    <3> HIDE DEF e
    <3> QED BY <2>3 DEF Outcome
  <2> HIDE DEF e, f
  <2>5. /\ Sent(r, c, f) /\ c.first = r.first /\ c.closed = r.closed /\ c.buf = <<>>
    <3>1. e.r \in Record /\ [e.r EXCEPT !.buf = <<>>] \in Record
      BY <2>3, Emptied DEF Sent
    <3> HIDE DEF c
    <3> QED BY <2>3, <2>4, <3>1 DEF Sent, Record
  <2> HIDE DEF c
  <2>6. Ordered(c) /\ Headed(c)
    BY <2>1, <2>2, <2>5, OneMore
  <2>7. Commit(r, up).r = c
    BY <1>2 DEF Commit, c, e, f
  <2> QED BY <2>2, <2>5, <2>6, <2>7 DEF Sent
<1> QED BY <1>1, <1>2

LEMMA ResultOrders ==
  ASSUME NEW r \in Record, r.kind = "streaming", NEW v \in {OK, Null}, NEW up \in BOOLEAN, Ordered(r)
  PROVE  LET s == SetResult(r, v, up) IN
         /\ s.r \in Record /\ s.r.kind = "streaming" /\ s.r.id = r.id
         /\ s.r.closed = r.closed /\ s.r.first = r.first
         /\ Ordered(s.r)
<1> DEFINE c == Commit(r, up)
           f == ResultFrame(r.id, v)
           e == Encode(c.r, f, up)
<1>1. SetResult(r, v, up) = IF r.closed THEN Success(r) ELSE IF c.err # "nil" THEN c ELSE e
  BY DEF SetResult, SetResultStreaming
<1>2. /\ c.r \in Record /\ c.r.kind = "streaming" /\ c.r.id = r.id
      /\ c.r.closed = r.closed /\ c.r.first = r.first /\ c.r.buf = <<>> /\ Ordered(c.r)
  BY CommitOrders
<1>3. f \in Frame /\ f.tag \notin {"raw", "data"} /\ ~Terminal(f)
  BY Tags DEF Record
<1> HIDE DEF c, f
<1>4. Sent(c.r, e.r, f) /\ e.r.first = c.r.first /\ e.r.closed = c.r.closed /\ e.r.buf = <<>>
  BY <1>2, <1>3, EncodeSends
<1> HIDE DEF e
<1>5. ~r.closed => Ordered(e.r)
  BY <1>2, <1>3, <1>4, OneMore
<1> QED BY <1>1, <1>2, <1>4, <1>5 DEF Success, Sent

\* A stream's first frame, when nothing went wrong, is its header.
LEMMA FirstIsHeader ==
  ASSUME NEW r \in Record, r.kind = "streaming", NEW up \in BOOLEAN,
         r.wire = <<>>, r.buf = <<>>, ~r.closed, SetResult(r, OK, up).err = "nil"
  PROVE  Headed(SetResult(r, OK, up).r)
<1> DEFINE f == ResultFrame(r.id, OK)
           e == Encode(r, f, up)
<1>1. SetResult(r, OK, up) = e
  BY DEF SetResult, SetResultStreaming, Commit, Success
<1>2. f \in Frame /\ f.tag # "raw"
  BY Tags DEF Record
<1>3. e.r.wire = Append(<<>>, f) /\ e.r.id = r.id
  BY <1>1, <1>2, EncodeSends DEF Sent
<1> QED BY <1>1, <1>3 DEF Headed

LEMMA ErrorOrders ==
  ASSUME NEW r \in Record, r.kind = "streaming", NEW e \in Errors, NEW up \in BOOLEAN, Ordered(r)
  PROVE  LET s == SetError(r, e, up).r IN
         s \in Record /\ s.kind = "streaming" /\ s.id = r.id /\ Ordered(s)
<1> DEFINE c == Commit(r, up)
           q == [MaxResponse(c.r, 0) EXCEPT !.closed = TRUE]
           f == ErrorFrame(r.id, e)
           s == Encode(q, f, up)
<1>1. SetError(r, e, up) = IF r.closed THEN Success(r) ELSE IF c.err # "nil" THEN c ELSE s
  BY DEF SetError, SetErrorStreaming
<1>2. /\ c.r \in Record /\ c.r.kind = "streaming" /\ c.r.id = r.id
      /\ c.r.closed = r.closed /\ c.r.buf = <<>> /\ Ordered(c.r)
  BY CommitOrders
<1>3. f \in Frame /\ f.tag \notin {"raw", "data"}
  BY Tags DEF Record
<1> HIDE DEF c, f
<1>4. /\ q \in Record /\ q.kind = "streaming" /\ q.id = r.id /\ q.wire = c.r.wire
      /\ q.buf = <<>> /\ q.closed
  <2>1. MaxResponse(c.r, 0) \in Record
    BY <1>2, MaxResponseType
  <2> QED BY <1>2, <2>1 DEF MaxResponse, Record
<1> HIDE DEF q
<1>5. Sent(q, s.r, f) /\ s.r.closed /\ s.r.buf = <<>>
  BY <1>3, <1>4, EncodeSends
<1> HIDE DEF s
<1>6. Sent(c.r, s.r, f)
  BY <1>2, <1>4, <1>5 DEF Sent
<1>7. ~r.closed => Ordered(s.r)
  BY <1>2, <1>3, <1>5, <1>6, OneMore
<1> QED BY <1>1, <1>2, <1>6, <1>7 DEF Success, Sent

LEMMA LineOrders ==
  ASSUME NEW r \in Record, r.kind = "streaming", NEW p \in Piece, NEW up \in BOOLEAN,
         Ordered(r), ~r.closed, Headed(r)
  PROVE  LET s == PutLine(r, p, up).r IN
         /\ s \in Record /\ s.kind = "streaming" /\ s.first = r.first
         /\ Ordered(s) /\ Headed(s) /\ ~s.closed
<1> DEFINE q == [r EXCEPT !.buf = Join(@, RawFrame(p.body))]
           b == [r EXCEPT !.buf = <<>>]
           f == LineFrame(r.id, Text(q.buf))
           e == Encode(b, f, up)
<1>1. PutLine(r, p, up) = IF p.nl THEN e ELSE Success(q)
  BY DEF PutLine
<1>2. q \in Record /\ b \in Record
  <2>1. Join(r.buf, RawFrame(p.body)) \in Seq(Frame)
    BY FrameTypes, JoinType DEF Record, Piece
  <2> QED BY <2>1, Emptied DEF Record
<1>3. f \in Frame /\ f.tag = "data" /\ ~Terminal(f)
  <2>1. Text(q.buf) \in Seq(Nat)
    BY <1>2, TextType DEF Record
  <2> QED BY <2>1, Tags DEF Record
<1>4. /\ q.kind = "streaming" /\ q.id = r.id /\ q.first = r.first /\ q.closed = r.closed
      /\ q.wire = r.wire
  BY DEF Record
<1>5. /\ b.kind = "streaming" /\ b.id = r.id /\ b.first = r.first /\ b.closed = r.closed
      /\ b.wire = r.wire /\ b.buf = <<>>
  BY DEF Record
<1> HIDE DEF q, b, f
<1>6. Ordered(q) /\ Headed(q) /\ Headed(b)
  BY <1>4, <1>5 DEF Ordered, Headed
<1>7. Sent(b, e.r, f) /\ e.r.first = b.first /\ e.r.closed = b.closed /\ e.r.buf = b.buf
  BY <1>2, <1>3, <1>5, EncodeSends
<1> HIDE DEF e
<1>8. Sent(r, e.r, f)
  BY <1>5, <1>7 DEF Sent
<1>9. Ordered(e.r) /\ Headed(e.r)
  BY <1>3, <1>5, <1>7, <1>8, OneMore
<1> QED BY <1>1, <1>2, <1>4, <1>5, <1>6, <1>7, <1>9 DEF Success, Sent

LEMMA PutOrders ==
  ASSUME NEW r \in Record, r.kind = "streaming", NEW p \in Piece, NEW up \in BOOLEAN,
         Ordered(r), ~r.closed, IF r.first THEN r.wire = <<>> ELSE Headed(r)
  PROVE  LET w == Put(r, p, up) IN
         /\ w.r \in Record /\ w.r.kind = "streaming" /\ ~w.r.first /\ Ordered(w.r)
         /\ w.err = "nil" => Headed(w.r) /\ ~w.r.closed
<1> DEFINE hd == SetResult(r, OK, up)
           on == [hd.r EXCEPT !.first = FALSE]
           off == [hd EXCEPT !.r.first = FALSE]
<1>1. Put(r, p, up) = IF ~r.first THEN PutLine(r, p, up)
                      ELSE IF hd.err # "nil" THEN off ELSE PutLine(on, p, up)
  BY DEF Put
<1>2. CASE ~r.first
  BY <1>1, <1>2, LineOrders
<1>3. CASE r.first
  <2>1. r.wire = <<>> /\ r.buf = <<>>
    BY <1>3 DEF Ordered, Headed
  <2>2. /\ hd.r \in Record /\ hd.r.kind = "streaming" /\ hd.r.closed = r.closed
        /\ Ordered(hd.r) /\ hd \in Outcome
    BY ResultOrders, SetResultType, ValueTypes
  <2>3. hd.err = "nil" => Headed(hd.r)
    BY <2>1, FirstIsHeader
  <2> HIDE DEF hd
  <2>4. off.r = on /\ off.err = hd.err
    BY <2>2 DEF Outcome
  <2>5. /\ on \in Record /\ on.kind = "streaming" /\ on.closed = r.closed /\ on.first = FALSE
        /\ on.id = hd.r.id /\ on.wire = hd.r.wire /\ on.buf = hd.r.buf
    BY <2>2 DEF Record
  <2> HIDE DEF on, off
  <2>6. Ordered(on) /\ (Headed(hd.r) => Headed(on))
    BY <2>2, <2>5 DEF Ordered, Headed
  <2>7. CASE hd.err # "nil"
    BY <1>1, <1>3, <2>4, <2>5, <2>6, <2>7
  <2>8. CASE hd.err = "nil"
    <3>1. Headed(on)
      BY <2>3, <2>6, <2>8
    <3>2. LET s == PutLine(on, p, up).r IN
          /\ s \in Record /\ s.kind = "streaming" /\ s.first = on.first
          /\ Ordered(s) /\ Headed(s) /\ ~s.closed
      BY <2>5, <2>6, <3>1, LineOrders
    <3> QED BY <1>1, <1>3, <2>5, <2>8, <3>2
  <2> QED BY <2>7, <2>8
<1> QED BY <1>2, <1>3

LEMMA CloseOrders ==
  ASSUME NEW r \in Record, r.kind = "streaming", NEW up \in BOOLEAN, Ordered(r)
  PROVE  Ordered(Close(r, up).r)
<1> DEFINE c == Commit(r, up)
           s == SetResult(c.r, Done, up)
           closed == [s EXCEPT !.r.closed = TRUE]
<1>1. Close(r, up) = IF c.err # "nil" THEN c ELSE IF r.closed THEN c ELSE closed
  BY DEF Close, CloseStreaming
<1>2. /\ c.r \in Record /\ c.r.kind = "streaming" /\ c.r.closed = r.closed /\ c.r.buf = <<>>
      /\ Ordered(c.r)
  BY CommitOrders
<1> HIDE DEF c
<1>3. CASE ~r.closed
  <2> DEFINE f == ResultFrame(c.r.id, Done)
             e == Encode(c.r, f, up)
  <2>1. s = e
    <3>1. Commit(c.r, up) = Success(c.r)
      BY <1>2 DEF Commit
    <3> QED BY <1>2, <1>3, <3>1 DEF SetResult, SetResultStreaming, Success
  <2>2. f \in Frame /\ f.tag \notin {"raw", "data"}
    BY <1>2, Tags DEF Record
  <2>3. Sent(c.r, e.r, f) /\ e.r.buf = <<>> /\ e \in Outcome
    BY <1>2, <2>2, EncodeSends, EncodeType
  <2> HIDE DEF e, s, f
  <2>4. closed.r = [e.r EXCEPT !.closed = TRUE]
    BY <2>1, <2>3 DEF Outcome
  <2> DEFINE t == [e.r EXCEPT !.closed = TRUE]
  <2>5. Sent(c.r, t, f) /\ t.closed /\ t.buf = <<>>
    BY <2>3 DEF Sent, Record
  <2> HIDE DEF t
  <2>6. Ordered(t)
    BY <1>2, <1>3, <2>2, <2>5, OneMore
  <2> QED BY <1>1, <1>2, <2>4, <2>6 DEF t
<1> QED BY <1>1, <1>2, <1>3

\* No call makes another responser.
LEMMA KeepsKind ==
  ASSUME NEW r \in Record, NEW up \in BOOLEAN
  PROVE  /\ Close(r, up).r.kind = r.kind
         /\ \A p \in Piece : r.kind # "streaming" => Put(r, p, up).r.kind = r.kind
<1>1. \A p \in Piece : r.kind # "streaming" => Put(r, p, up).r.kind = r.kind
  <2> SUFFICES ASSUME NEW p \in Piece, r.kind # "streaming" PROVE Put(r, p, up).r.kind = r.kind
    OBVIOUS
  <2>1. RawFrame(p.body) \in Frame /\ Len(p.body) \in Nat
    BY FrameTypes DEF Piece
  <2> QED BY <2>1, LimitedWriteHoldsBack DEF Put, HeldBack
<1>2. Close(r, up).r.kind = r.kind
  <2>1. CASE r.kind = "legacy"
    BY <2>1 DEF Close, Success
  <2>2. CASE r.kind = "streaming"
    <3> DEFINE c == Commit(r, up)
               s == SetResult(c.r, Done, up)
    <3>1. c \in Outcome /\ c.r \in Record /\ c.r.kind = "streaming"
      BY <2>2, CommitType, CommitHoldsBack DEF Outcome, HeldBack
    <3>2. s \in Outcome /\ s.r.kind = "streaming"
      BY <3>1, SetResultType, SetResultHoldsBack, ValueTypes DEF HeldBack
    <3>3. Close(r, up) = IF c.err # "nil" THEN c ELSE IF r.closed THEN c ELSE [s EXCEPT !.r.closed = TRUE]
      BY <2>2 DEF Close, CloseStreaming
    <3> HIDE DEF c, s
    <3> QED BY <2>2, <3>1, <3>2, <3>3 DEF Outcome, Record
  <2>3. CASE r.kind = "rpc"
    <3> DEFINE r1 == [r EXCEPT !.dataSent = TRUE]
               e1 == [MaxResponse(r1, 0) EXCEPT !.buf = <<>>]
               s == IF r.resultSet THEN Success(r1) ELSE SetResult(e1, TextValue(Text(r.buf)), up)
    <3>1. r1 \in Record /\ r1.kind = "rpc"
      BY <2>3 DEF Record
    <3>2. e1 \in Record /\ e1.kind = "rpc"
      <4>1. MaxResponse(r1, 0) \in Record /\ MaxResponse(r1, 0).kind = "rpc"
        BY <3>1, MaxResponseType DEF MaxResponse, Record
      <4> QED BY <4>1, Emptied DEF Record
    <3>3. s.r \in Record /\ s.r.kind = "rpc"
      <4>1. TextValue(Text(r.buf)) \in Value
        BY ValueTypes, TextType DEF Record
      <4>2. LET t == SetResult(e1, TextValue(Text(r.buf)), up) IN t.r \in Record /\ t.r.kind = "rpc"
        BY <3>2, <4>1, SetResultType, SetResultHoldsBack DEF HeldBack, Outcome
      <4> QED BY <3>1, <4>2 DEF Success
    <3>4. Close(r, up).r = IF r.dataSent THEN r
                           ELSE IF s.err # "nil" THEN s.r
                           ELSE IF up THEN [s.r EXCEPT !.wire = @ \o s.r.buf, !.buf = <<>>]
                           ELSE [s.r EXCEPT !.buf = <<>>]
      BY <2>3 DEF Close, CloseRpc, Success, Failure
    <3> HIDE DEF s
    <3> QED BY <2>3, <3>3, <3>4 DEF Record
  <2> QED BY <2>1, <2>2, <2>3 DEF Record, Kinds
<1> QED BY <1>1, <1>2

-----------------------------------------------------------------------------
(* The stream of a request.                                                 *)

\* Before the first write there is nothing on the wire, after it the header.
Beginning ==
  /\ inv \in {"invoke", "flush", "deliver", "set"} => rsp.first /\ rsp.wire = <<>>
  /\ inv \in {"copy", "check", "put"} => IF rsp.first THEN rsp.wire = <<>> ELSE Headed(rsp)
  /\ inv = "put" => ~rsp.closed

StreamInv ==
  left # "forced" =>
    /\ h \in {"read", "process"} => rsp.kind # "streaming" /\ rsp.wire = <<>>
    /\ rsp.kind = "legacy" /\ rq.plus => h \in {"read", "process", "close"} /\ rsp.wire = <<>>
    /\ rsp.kind = "streaming" => Ordered(rsp) /\ Beginning

LEMMA StreamInit == Init => StreamInv
  BY DEF Init, StreamInv, New

\* A fresh streaming responser.
LEMMA NewOrders ==
  ASSUME NEW r \in Record, r.wire = <<>>, r.kind # "streaming", NEW plus \in BOOLEAN, NEW id \in Ids,
         NEW n \in Nat
  PROVE  LET u == Upgrade(r, plus)
             s == SetID(u, id)
         IN  /\ \A t \in {u, s, MaxResponse(u, n), MaxResponse(s, n)} :
                   /\ t.wire = <<>> /\ (t.kind = "legacy" => ~plus)
                   /\ t.kind = "streaming" => t.first /\ Ordered(t)
<1> DEFINE u == Upgrade(r, plus)
           s == SetID(u, id)
<1>1. /\ u \in Record /\ u.wire = <<>> /\ (u.kind = "legacy" => ~plus)
      /\ u.kind = "streaming" => u.first /\ u.buf = <<>>
  BY UpgradeType DEF Upgrade, New
<1> HIDE DEF u
<1>2. /\ s \in Record /\ s.wire = <<>> /\ s.kind = u.kind /\ s.first = u.first /\ s.buf = u.buf
  BY <1>1, UpgradeType DEF SetID, Record
<1> HIDE DEF s
<1>3. \A t \in {u, s} : LET m == MaxResponse(t, n) IN
        m.wire = t.wire /\ m.kind = t.kind /\ m.first = t.first /\ m.buf = t.buf
  BY <1>1, <1>2 DEF MaxResponse, Record
<1>4. \A t \in {u, s, MaxResponse(u, n), MaxResponse(s, n)} :
        /\ t.wire = <<>> /\ (t.kind = "legacy" => ~plus)
        /\ t.kind = "streaming" => t.first /\ t.buf = <<>>
  BY <1>1, <1>2, <1>3
<1> QED BY <1>4 DEF Ordered, u, s

\* Until the grace period is over the handler is the only one to touch its responser
\* outside of process().
LEMMA StreamHandler == TypeOK /\ Control /\ StreamInv /\ Handler => StreamInv'
<1> SUFFICES ASSUME TypeOK, Control, StreamInv, Handler, left' # "forced" PROVE StreamInv'
  BY DEF StreamInv
<1> USE DEF invoker, output
<1>0. left # "forced"
  BY DEF Control, InProcess, Closing, Over, Handler, ReadFromTransport, Process, SelectTimeout,
         SelectDone, CheckErr, GraceDone, GraceTimer, LeaveProcess, CloseBranch, CloseError, CloseEnd
<1>1. h \in Closing => inv \in {"none", "exit", "exited"}
  BY <1>0 DEF Control, Closing, Over
<1>2. CASE ReadFromTransport
  BY <1>0, <1>2 DEF ReadFromTransport, StreamInv, Beginning
<1>3. CASE Process
  <2>1. inv = "none" /\ rsp.kind # "streaming" /\ rsp.wire = <<>>
    BY <1>0, <1>3 DEF Process, Control, StreamInv
  <2> DEFINE answered == SetID(Upgrade(rsp, rq.plus), rq.id)
  <2>2. \A t \in {answered, MaxResponse(answered, rq.limit)} :
          /\ t.wire = <<>> /\ (t.kind = "legacy" => ~rq.plus)
          /\ t.kind = "streaming" => t.first /\ Ordered(t)
    BY <2>1, NewOrders, RequestTypes DEF TypeOK
  <2>3. \/ rsp' = rsp /\ h' = "close" /\ inv' = inv
        \/ rsp' = answered /\ h' = "close" /\ inv' = inv
        \/ rsp' = MaxResponse(answered, rq.limit) /\ h' = "select" /\ inv' = "invoke"
    BY <1>3 DEF Process
  <2>4. rq' = rq
    BY <1>3 DEF Process
  <2> HIDE DEF answered
  <2> QED BY <2>1, <2>2, <2>3, <2>4 DEF StreamInv, Beginning
<1>4. CASE SelectTimeout \/ SelectDone \/ CheckErr \/ GraceDone \/ GraceTimer
  <2>1. UNCHANGED <<rq, rsp, inv>> /\ h \in InProcess /\ h' \in InProcess \cup {"close"}
    BY <1>4 DEF SelectTimeout, SelectDone, CheckErr, GraceDone, GraceTimer, LeaveProcess, InProcess
  <2> QED BY <1>0, <2>1 DEF StreamInv, Beginning, InProcess
<1>5. CASE CloseBranch
  <2> DEFINE u == Upgrade(rsp, rq.plus)
  <2>1. /\ inv \in {"none", "exit", "exited"} /\ inv' = inv /\ rq' = rq
        /\ h' \in {"closeend", "closeerr"} /\ rsp' \in {u, MaxResponse(u, 0)}
    BY <1>1, <1>5 DEF CloseBranch, Closing
  <2>2. CASE rq.plus /\ rsp.kind = "legacy"
    <3>1. \A t \in {u, MaxResponse(u, 0)} :
            t.wire = <<>> /\ t.kind # "legacy" /\ (t.kind = "streaming" => Ordered(t))
      <4>1. rsp \in Record /\ rsp.wire = <<>> /\ rsp.kind # "streaming" /\ rq.plus = TRUE
        BY <1>0, <2>2 DEF StreamInv, TypeOK
      <4>2. PICK id \in Ids : TRUE
        BY <4>1 DEF Record
      <4>3. \A t \in {u, MaxResponse(u, 0)} :
              /\ t.wire = <<>> /\ (t.kind = "legacy" => ~TRUE)
              /\ t.kind = "streaming" => t.first /\ Ordered(t)
        BY <4>1, <4>2, NewOrders
      <4> QED BY <4>3
    <3> HIDE DEF u
    <3> QED BY <2>1, <3>1 DEF StreamInv, Beginning
  <2>3. CASE ~(rq.plus /\ rsp.kind = "legacy")
    <3>1. u = rsp
      BY <2>3 DEF Upgrade
    <3>2. LET m == MaxResponse(rsp, 0) IN
          m.kind = rsp.kind /\ m.wire = rsp.wire /\ m.buf = rsp.buf /\ m.closed = rsp.closed /\ m.id = rsp.id
      BY DEF MaxResponse, TypeOK, Record
    <3>3. rsp'.kind = rsp.kind /\ (rsp.kind = "streaming" => Ordered(rsp'))
      BY <1>0, <2>1, <3>1, <3>2 DEF StreamInv, Ordered, Headed
    <3> QED BY <2>1, <2>3, <3>3 DEF StreamInv, Beginning
  <2> QED BY <2>2, <2>3
<1>6. CASE CloseError \/ CloseEnd
  <2>1. /\ inv \in {"none", "exit", "exited"} /\ inv' = inv /\ rq' = rq
        /\ h \in {"closeerr", "closeend"} /\ h' \in {"panicked", "closeend", "returned"}
    BY <1>1, <1>6 DEF CloseError, CloseEnd, Closing
  <2>2. \A up \in Transport : LET s == SetError(rsp, err, up).r IN
          s.kind = rsp.kind /\ (rsp.kind = "streaming" /\ Ordered(rsp) => Ordered(s))
    BY SetErrorHoldsBack, ErrorOrders, TransportType DEF TypeOK, HeldBack
  <2>3. \A up \in Transport : LET s == Close(rsp, up).r IN
          s.kind = rsp.kind /\ (rsp.kind = "streaming" /\ Ordered(rsp) => Ordered(s))
    BY KeepsKind, CloseOrders, TransportType DEF TypeOK
  <2>4. rsp'.kind = rsp.kind /\ (rsp.kind = "streaming" /\ Ordered(rsp) => Ordered(rsp'))
    BY <1>6, <2>2, <2>3 DEF CloseError, CloseEnd
  <2> QED BY <1>0, <2>1, <2>4 DEF StreamInv, Beginning
<1> QED
  BY <1>2, <1>3, <1>4, <1>5, <1>6 DEF Handler

LEMMA StreamInvoker == TypeOK /\ Control /\ StreamInv /\ Invoker => StreamInv'
<1> SUFFICES ASSUME TypeOK, Control, StreamInv, Invoker, left # "forced" PROVE StreamInv'
  <2>1. Invoker => left' = left
    BY DEF Invoker, Invoke, DeferFlush, Deliver, SetResponseError, SetResponseResult, ReadPipe,
           ReadEnd, CheckWrite, PutPiece, CloseDone
  <2> QED BY <2>1 DEF StreamInv
<1> USE DEF output
<1>1. UNCHANGED <<rq, h, left>>
  BY DEF Invoker, Invoke, DeferFlush, Deliver, SetResponseError, SetResponseResult, ReadPipe,
         ReadEnd, CheckWrite, PutPiece, CloseDone
<1>2. CASE SetResponseError \/ SetResponseResult \/ PutPiece
  <2>1. inv \in {"set", "put"}
    BY <1>2 DEF SetResponseError, SetResponseResult, PutPiece
  <2>2. h \notin {"read", "process", "close"}
    BY <2>1 DEF Control, Closing, Over
  <2>3. rsp.kind = "legacy" => ~rq.plus
    BY <2>2 DEF StreamInv
  <2>4. SUFFICES rsp'.kind = rsp.kind /\ (rsp.kind = "streaming" => Ordered(rsp') /\ Beginning')
    BY <1>1, <2>2, <2>3 DEF StreamInv
  <2>5. rsp.kind = "streaming" => Ordered(rsp) /\ Beginning
    BY DEF StreamInv
  <2>6. CASE SetResponseError
    <3>1. val \in Errors
      BY <2>6 DEF SetResponseError, TypeOK, Faults, Errors
    <3>2. \A up \in Transport : LET s == SetError(rsp, val, up).r IN
            s.kind = rsp.kind /\ (rsp.kind = "streaming" /\ Ordered(rsp) => Ordered(s))
      BY <3>1, SetErrorHoldsBack, ErrorOrders, TransportType DEF TypeOK, HeldBack
    <3> QED BY <2>5, <2>6, <3>2 DEF SetResponseError, Beginning
  <2>7. CASE SetResponseResult
    <3> DEFINE v == IF val = "ok" THEN OK ELSE Null
    <3>1. v \in {OK, Null} /\ v \in Value
      BY ValueTypes
    <3>2. \E up \in Transport : rsp' = SetResult(rsp, v, up).r
      BY <2>7 DEF SetResponseResult
    <3> HIDE DEF v
    <3>3. \A up \in Transport : LET s == SetResult(rsp, v, up).r IN
            s.kind = rsp.kind /\ (rsp.kind = "streaming" /\ Ordered(rsp) => Ordered(s))
      BY <3>1, SetResultHoldsBack, ResultOrders, TransportType DEF TypeOK, HeldBack
    <3>4. inv' = "exit"
      BY <2>7 DEF SetResponseResult
    <3> QED BY <2>5, <3>2, <3>3, <3>4 DEF Beginning
  <2>8. CASE PutPiece
    <3>1. PICK n \in DOMAIN hand, up \in Transport :
            /\ rsp' = Put(rsp, First(n), up).r
            /\ IF Put(rsp, First(n), up).err = "nil" THEN inv' \in {"put", "copy"} ELSE inv' = "exit"
      BY <2>8 DEF PutPiece
    <3>a. First(n) \in Piece
      BY FirstType
    <3>2. CASE rsp.kind = "streaming"
      <4>1. LET w == Put(rsp, First(n), up) IN
            /\ w.r \in Record /\ w.r.kind = "streaming" /\ ~w.r.first /\ Ordered(w.r)
            /\ w.err = "nil" => Headed(w.r) /\ ~w.r.closed
        BY <2>5, <2>8, <3>2, <3>a, PutOrders, TransportType DEF PutPiece, Beginning, TypeOK
      <4> QED BY <3>1, <3>2, <4>1 DEF Beginning
    <3>3. CASE rsp.kind # "streaming"
      BY <3>1, <3>3, <3>a, KeepsKind, TransportType DEF TypeOK
    <3> QED BY <3>2, <3>3
  <2> QED BY <1>2, <2>6, <2>7, <2>8
<1>3. CASE Invoke \/ DeferFlush \/ Deliver \/ ReadPipe \/ ReadEnd \/ CheckWrite \/ CloseDone
  <2>1. rsp' = rsp
    BY <1>3 DEF Invoke, DeferFlush, Deliver, ReadPipe, ReadEnd, CheckWrite, CloseDone
  <2>2. ASSUME rsp.kind = "streaming", Beginning PROVE Beginning'
    <3>1. CASE Invoke
      BY <2>1, <2>2, <3>1 DEF Invoke, Beginning
    <3>2. CASE DeferFlush \/ Deliver
      BY <2>1, <2>2, <3>2 DEF DeferFlush, Deliver, Beginning
    <3>3. CASE ReadPipe \/ ReadEnd \/ CloseDone
      BY <2>1, <2>2, <3>3 DEF ReadPipe, ReadEnd, CloseDone, Beginning
    <3>4. CASE CheckWrite
      BY <2>1, <2>2, <3>4 DEF CheckWrite, Refusal, Beginning, TypeOK, Record
    <3> QED BY <1>3, <3>1, <3>2, <3>3, <3>4
  <2> QED BY <1>1, <2>1, <2>2 DEF StreamInv
<1> QED
  BY <1>2, <1>3 DEF Invoker

LEMMA StreamNext == TypeOK /\ Control /\ StreamInv /\ [Next]_vars => StreamInv'
<1>1. Flush \/ Copier \/ Kill \/ Cancel \/ Environment \/ UNCHANGED vars => (StreamInv => StreamInv')
  BY Others DEF StreamInv, Beginning, vars
<1> QED
  BY <1>1, StreamHandler, StreamInvoker DEF Next

\* Whatever the method writes, however its output is cut and whoever of the handler
\* and the invoker ends it: a stream's data come after its header, and nothing after
\* its footer or its error (streamingResponse.Write, SetResponseError and Close).
THEOREM StreamsInOrder == Spec => []StreamOrder
<1>1. StreamInv => StreamOrder
  BY DEF StreamInv, Ordered, Headed, StreamOrder
<1> QED
  BY <1>1, StreamInit, StreamNext, ControlHolds, TypeCorrect, PTL DEF Spec


-----------------------------------------------------------------------------
(* What the calls make of a plain responser.                                  *)

\* One frame that tells the request's end: an error if it has failed.
Answers(r, frames, failed) ==
  /\ Len(frames) = 1
  /\ frames[1].id = r.id /\ frames[1].tag # "raw"
  /\ frames[1].tag = "error" <=> failed

\* Neither sent nor another request's.
Kept(r, s) ==
  s.kind = "rpc" /\ s.id = r.id /\ s.dataSent = r.dataSent /\ s.wire = r.wire

LEMMA ResultAnswers ==
  ASSUME NEW r \in Record, NEW s, s.id = r.id, NEW v \in Value
  PROVE  Answers(s, <<ResultFrame(r.id, v)>>, FALSE)
BY DEF Answers, ResultFrame, Value

LEMMA ErrorAnswers ==
  ASSUME NEW r \in Record, NEW s, s.id = r.id, NEW e \in Errors
  PROVE  Answers(s, <<ErrorFrame(r.id, e)>>, TRUE)
BY DEF Answers, ErrorFrame

LEMMA RpcEncode ==
  ASSUME NEW r \in Record, r.kind = "rpc", r.buf = <<>>, NEW f \in Frame, f.tag # "raw",
         NEW up \in BOOLEAN
  PROVE  LET e == Encode(r, f, up) IN
         /\ e.r \in Record /\ Kept(r, e.r) /\ e.r.resultSet = r.resultSet
         /\ e.r.buf \in {<<>>, <<f>>} /\ (e.err = "nil" => e.r.buf = <<f>>)
         /\ r.encErr = "nil" /\ Envelope + Len(Content(f)) <= r.room => e.err = "nil"
<1> DEFINE n == Envelope + Len(Content(f))
           w == LimitedWrite(r, f, n, up)
<1>1. n \in Nat /\ n > 0
  BY ContentType, ResponserAssumption
<1>2. Encode(r, f, up) \in Outcome /\ w \in Outcome
  BY <1>1, EncodeType, LimitedWriteType
<1>3. Join(r.buf, f) = <<f>>
  BY DEF Join
<1>4. \/ w.r = r /\ w.err # "nil" /\ (r.room <= 0 \/ n > r.room)
      \/ w.r = [r EXCEPT !.room = @ - n, !.buf = <<f>>] /\ w.err = "nil"
  BY <1>3 DEF LimitedWrite, Success, Failure
<1>5. Encode(r, f, up) = IF r.encErr # "nil" THEN Failure(r, r.encErr)
                         ELSE Failure([w.r EXCEPT !.encErr = w.err], w.err)
  BY DEF Encode
<1>6. r.room \in Nat
  BY DEF Record
<1> HIDE DEF w, n
<1>7. /\ w.r \in Record /\ Kept(r, w.r) /\ w.r.resultSet = r.resultSet
      /\ w.r.buf \in {<<>>, <<f>>} /\ (w.err = "nil" => w.r.buf = <<f>>)
  BY <1>2, <1>4 DEF Record, Outcome, Kept
<1> DEFINE s == [w.r EXCEPT !.encErr = w.err]
<1>8. /\ Kept(r, s) /\ s.resultSet = r.resultSet
      /\ s.buf \in {<<>>, <<f>>} /\ (w.err = "nil" => s.buf = <<f>>)
  BY <1>7 DEF Record, Kept
<1>9. n <= r.room => w.err = "nil"
  BY <1>1, <1>4, <1>6
<1> HIDE DEF s
<1>10. CASE r.encErr # "nil"
  BY <1>5, <1>10 DEF Failure, Kept
<1>11. CASE r.encErr = "nil"
  <2>1. Encode(r, f, up).r = s /\ Encode(r, f, up).err = w.err
    BY <1>5, <1>11 DEF Failure, s
  <2>2. s \in Record
    BY <1>2, <2>1 DEF Outcome
  <2> QED BY <1>8, <1>9, <2>1, <2>2 DEF n
<1> QED BY <1>10, <1>11

LEMMA RpcResult ==
  ASSUME NEW r \in Record, r.kind = "rpc", r.buf = <<>>, ~r.resultSet, NEW v \in Value,
         NEW up \in BOOLEAN
  PROVE  LET s == SetResult(r, v, up) IN
         /\ s.r \in Record /\ Kept(r, s.r) /\ (s.r.resultSet <=> r.id # "absent")
         /\ r.id = "absent" => s = Success(r) /\ s.err = "nil" /\ s.r.buf = <<>>
         /\ s.r.buf \in {<<>>, <<ResultFrame(r.id, v)>>}
         /\ r.id # "absent" /\ s.err = "nil" => s.r.buf = <<ResultFrame(r.id, v)>>
         /\ r.encErr = "nil" /\ Envelope + Len(v.body) <= r.room => s.err = "nil"
<1> DEFINE m == [r EXCEPT !.resultSet = TRUE]
           f == ResultFrame(r.id, v)
<1>1. m \in Record /\ m.kind = "rpc" /\ m.buf = <<>> /\ Kept(r, m) /\ m.resultSet
      /\ m.encErr = r.encErr /\ m.room = r.room
  BY DEF Record, Kept
<1>2. f \in Frame /\ f.tag # "raw" /\ Content(f) = v.body
  BY FrameTypes DEF Record, ResultFrame, Content, Value
<1>3. SetResult(r, v, up) = IF r.id = "absent" THEN Success(r) ELSE Encode(m, f, up)
  BY DEF SetResult, SetResultRpc
<1> HIDE DEF m, f
<1>4. CASE r.id = "absent"
  BY <1>3, <1>4 DEF Success, Kept
<1>5. CASE r.id # "absent"
  <2> DEFINE e == Encode(m, f, up)
  <2>1. /\ e.r \in Record /\ Kept(m, e.r) /\ e.r.resultSet = m.resultSet
        /\ e.r.buf \in {<<>>, <<f>>} /\ (e.err = "nil" => e.r.buf = <<f>>)
        /\ m.encErr = "nil" /\ Envelope + Len(Content(f)) <= m.room => e.err = "nil"
    BY <1>1, <1>2, RpcEncode
  <2>2. SetResult(r, v, up) = e
    BY <1>3, <1>5
  <2> HIDE DEF e
  <2> QED BY <1>1, <1>2, <1>5, <2>1, <2>2 DEF Kept, f
<1> QED BY <1>4, <1>5

LEMMA RpcError ==
  ASSUME NEW r \in Record, r.kind = "rpc", ~r.dataSent, NEW e \in Errors, NEW up \in BOOLEAN
  PROVE  LET s == SetError(r, e, up).r IN
         /\ Kept(r, s)
         /\ r.id = "absent" => s = r
         /\ r.id # "absent" => s.resultSet /\ s.buf = <<ErrorFrame(r.id, e)>>
BY DEF SetError, SetErrorRpc, Success, Record, Kept

LEMMA RpcPut ==
  ASSUME NEW r \in Record, r.kind = "rpc", NEW p \in Piece, NEW up \in BOOLEAN
  PROVE  LET s == Put(r, p, up).r IN Kept(r, s) /\ s.resultSet = r.resultSet
<1>1. Put(r, p, up) = LimitedWrite(r, RawFrame(p.body), Len(p.body), up)
  BY DEF Put
<1> QED BY <1>1 DEF LimitedWrite, Success, Failure, Record, Kept

LEMMA RpcClose ==
  ASSUME NEW r \in Record, r.kind = "rpc", ~r.dataSent, r.wire = <<>>,
         r.resultSet \/ Envelope + Len(Text(r.buf)) <= MaxInt64
  PROVE  LET s == Close(r, TRUE).r IN
         /\ s.id = r.id
         /\ r.resultSet => s.wire = r.buf
         /\ ~r.resultSet /\ r.id = "absent" => s.wire = <<>>
         /\ ~r.resultSet /\ r.id # "absent" => s.wire = <<ResultFrame(r.id, TextValue(Text(r.buf)))>>
<1> DEFINE r1 == [r EXCEPT !.dataSent = TRUE]
           q  == MaxResponse(r1, 0)
           m  == [q EXCEPT !.buf = <<>>]
           v  == TextValue(Text(r.buf))
           x  == SetResult(m, v, TRUE)
           o  == IF r.resultSet THEN Success(r1) ELSE x
<1>1. /\ r1 \in Record /\ r1.kind = "rpc" /\ r1.id = r.id /\ r1.buf = r.buf /\ r1.wire = <<>>
      /\ r1.resultSet = r.resultSet
  BY DEF Record
<1>2. Close(r, TRUE) = IF o.err # "nil" THEN o
                       ELSE Success([o.r EXCEPT !.wire = @ \o o.r.buf, !.buf = <<>>])
  BY DEF Close, CloseRpc
<1>3. v \in Value /\ v.body = Text(r.buf)
  BY ValueTypes, TextType DEF TextValue, Record
<1> HIDE DEF r1
<1>4. /\ q \in Record /\ q.kind = "rpc" /\ q.id = r.id /\ q.wire = <<>>
      /\ q.room = MaxInt64 /\ q.encErr = "nil" /\ q.resultSet = r.resultSet
  <2>1. q = [r1 EXCEPT !.room = MaxInt64, !.encErr = "nil"]
    BY DEF MaxResponse, SetLimit
  <2>2. q \in Record
    BY <1>1, MaxResponseType
  <2> HIDE DEF q
  <2> QED BY <1>1, <2>1, <2>2 DEF Record
<1> HIDE DEF q
<1>5. /\ m \in Record /\ m.kind = "rpc" /\ m.id = r.id /\ m.buf = <<>> /\ m.wire = <<>>
      /\ m.room = MaxInt64 /\ m.encErr = "nil" /\ m.resultSet = r.resultSet
  BY <1>4, Emptied DEF Record
<1> HIDE DEF m, v
<1>6. ASSUME ~r.resultSet
      PROVE  /\ x.r \in Record /\ x.err = "nil" /\ x.r.id = r.id /\ x.r.wire = <<>>
             /\ x.r.buf = IF r.id = "absent" THEN <<>> ELSE <<ResultFrame(r.id, v)>>
  <2>1. /\ x.r \in Record /\ Kept(m, x.r)
        /\ m.id = "absent" => x.err = "nil" /\ x.r.buf = <<>>
        /\ m.id # "absent" /\ x.err = "nil" => x.r.buf = <<ResultFrame(m.id, v)>>
        /\ m.encErr = "nil" /\ Envelope + Len(v.body) <= m.room => x.err = "nil"
    BY <1>3, <1>5, <1>6, RpcResult
  <2>2. Envelope + Len(v.body) <= m.room
    BY <1>3, <1>5, <1>6
  <2> HIDE DEF x
  <2>3. x.err = "nil"
    BY <1>5, <2>1, <2>2
  <2> QED BY <1>5, <2>1, <2>3 DEF Kept
<1> HIDE DEF x
<1>7. /\ o.err = "nil" /\ o.r \in Record /\ o.r.id = r.id /\ o.r.wire = <<>>
      /\ o.r.buf = IF r.resultSet THEN r.buf
                   ELSE IF r.id = "absent" THEN <<>> ELSE <<ResultFrame(r.id, v)>>
  BY <1>1, <1>6 DEF Success
<1> HIDE DEF o
<1>8. <<>> \o o.r.buf = o.r.buf
  BY <1>7 DEF Record
<1>9. Close(r, TRUE).r.id = r.id /\ Close(r, TRUE).r.wire = o.r.buf
  <2> DEFINE y == [o.r EXCEPT !.wire = @ \o o.r.buf, !.buf = <<>>]
  <2>1. Close(r, TRUE) = Success(y)
    BY <1>2, <1>7
  <2>2. y.id = o.r.id /\ y.wire = o.r.wire \o o.r.buf
    BY <1>7 DEF Record
  <2> HIDE DEF y
  <2>3. Success(y).r = y
    BY DEF Success
  <2> QED BY <1>7, <1>8, <2>1, <2>2, <2>3
<1> QED BY <1>7, <1>9 DEF v

-----------------------------------------------------------------------------
(* What the handler and the invoker make of it together.                      *)

Plain == rsp.kind = "rpc" /\ left # "forced"

\* The answer goes under the id of the request, or under null.
Identified ==
  /\ h \in {"read", "process"} => rsp.id = "null"
  /\ h = "process" /\ conn = "open" => (err # "nil" <=> rq.fault = "transport")
  /\ h \notin {"read", "process"} /\ conn = "open" =>
       rsp.id = IF rq.fault = "transport" THEN "null" ELSE rq.id

\* Nothing goes out before Close, and nothing is set for a notification.
Unsent ==
  h # "returned" =>
    rsp.wire = <<>> /\ ~rsp.dataSent /\ (rsp.id = "absent" => ~rsp.resultSet)

\* The invoker sets a responser that nobody has touched.
Blank ==
  /\ h \notin {"closeend", "returned"} /\ inv \in {"none", "invoke", "flush", "deliver", "set"} =>
       rsp.buf = <<>> /\ ~rsp.resultSet
  /\ inv \in {"copy", "check", "put"} => ~rsp.resultSet

\* The responser and f.err tell the same: what is set is a result while there is no
\* error, and an error has been set by the time Close is called.
Settled ==
  /\ h = "closeerr" => err # "nil"
  /\ h \notin {"closeend", "returned"} /\ rsp.resultSet /\ err = "nil" =>
       Answers(rsp, rsp.buf, FALSE)
  /\ h = "closeend" =>
       IF rsp.resultSet THEN Answers(rsp, rsp.buf, err # "nil") ELSE err = "nil" \/ rsp.id = "absent"
  /\ h = "returned" /\ conn = "open" =>
       IF rsp.id = "absent" THEN rsp.wire = <<>> ELSE Answers(rsp, rsp.wire, err # "nil")

AnswerInv == Plain => Identified /\ Unsent /\ Blank /\ Settled

LEMMA AnswerInit == Init => AnswerInv
  BY DEF Init, AnswerInv, Identified, Unsent, Blank, Settled, New

\* The answer that Close makes of the buffer fits a limit that has been lifted
\* (MaxResponse(0)).
Fits == Plain /\ h = "closeend" /\ ~rsp.resultSet => Envelope + Len(Text(rsp.buf)) <= MaxInt64

LEMMA AnswerHandler == TypeOK /\ Control /\ AnswerInv /\ Fits /\ Handler => AnswerInv'
<1> SUFFICES ASSUME TypeOK, Control, AnswerInv, Fits, Handler, Plain' PROVE (Identified /\ Unsent /\ Blank /\ Settled)'
  BY DEF AnswerInv
<1> USE DEF invoker, output
<1>0. left # "forced" /\ conn' = conn /\ rq' = rq
  BY DEF Plain, Control, InProcess, Closing, Over, Handler, ReadFromTransport, Process, SelectTimeout,
         SelectDone, CheckErr, GraceDone, GraceTimer, LeaveProcess, CloseBranch, CloseError, CloseEnd
<1>1. rsp.kind = "rpc"
  <2>1. CloseEnd => rsp.kind = "rpc"
    BY CloseKeepsKind, TransportType DEF CloseEnd, Plain, TypeOK
  <2> QED BY <2>1, QuietHandler DEF Quiet, Plain
<1>2. Identified /\ Unsent /\ Blank /\ Settled
  BY <1>0, <1>1 DEF AnswerInv, Plain
<1>3. Upgrade(rsp, rq.plus) = rsp
  BY <1>1 DEF Upgrade
<1>4. h \in Closing => inv \in {"none", "exit", "exited"}
  BY <1>0 DEF Control, Closing, Over
<1>5. CASE ReadFromTransport
  <2>1. h = "read" /\ h' = "process" /\ inv = "none" /\ inv' = inv /\ rsp' = rsp
    BY <1>5 DEF ReadFromTransport, Control
  <2>2. ~rsp.resultSet
    BY <1>2, <2>1 DEF Blank
  <2>3. conn = "open" => (err' # "nil" <=> rq.fault = "transport")
    BY <1>5 DEF ReadFromTransport
  <2> QED BY <1>0, <1>2, <2>1, <2>2, <2>3 DEF Identified, Unsent, Blank, Settled
<1>6. CASE Process
  <2> DEFINE s == SetID(rsp, rq.id)
             m == MaxResponse(s, rq.limit)
  <2>1. /\ s.id = rq.id /\ s.wire = rsp.wire /\ s.dataSent = rsp.dataSent
        /\ s.resultSet = rsp.resultSet /\ s.buf = rsp.buf /\ s \in Record
    BY RequestTypes DEF SetID, TypeOK, Record
  <2> HIDE DEF s
  <2>2. /\ m.id = rq.id /\ m.wire = rsp.wire /\ m.dataSent = rsp.dataSent
        /\ m.resultSet = rsp.resultSet /\ m.buf = rsp.buf
    BY <2>1 DEF MaxResponse, Record
  <2> HIDE DEF m
  <2>3. h = "process" /\ inv = "none"
    BY <1>6 DEF Process, Control
  <2>4. rsp.buf = <<>> /\ ~rsp.resultSet /\ rsp.wire = <<>> /\ ~rsp.dataSent
    BY <1>2, <2>3 DEF Blank, Unsent
  <2>5. \/ err # "nil" /\ h' = "close" /\ UNCHANGED <<err, rsp, inv>>
        \/ err = "nil" /\ err' = "process" /\ rsp' = s /\ h' = "close" /\ inv' = inv
        \/ err = "nil" /\ rsp' = m /\ inv' = "invoke" /\ h' = "select" /\ err' = err
    BY <1>3, <1>6 DEF Process, s, m
  <2>6. conn = "open" => (err # "nil" <=> rq.fault = "transport") /\ (h = "process" => rsp.id = "null")
    BY <1>2, <2>3 DEF Identified
  <2>7. Identified'
    BY <1>0, <2>1, <2>2, <2>3, <2>5, <2>6 DEF Identified
  <2>8. Unsent' /\ Blank'
    BY <2>1, <2>2, <2>3, <2>4, <2>5 DEF Unsent, Blank
  <2>9. Settled'
    BY <2>1, <2>2, <2>4, <2>5 DEF Settled
  <2> QED BY <2>7, <2>8, <2>9
<1>7. CASE SelectTimeout \/ SelectDone \/ CheckErr \/ GraceDone \/ GraceTimer
  <2>1. /\ UNCHANGED <<rsp, inv>> /\ h \in InProcess /\ h' \in InProcess \cup {"close"}
        /\ err' \in {err, "ErrTimeout"}
    BY <1>7 DEF SelectTimeout, SelectDone, CheckErr, GraceDone, GraceTimer, LeaveProcess, InProcess
  <2> QED BY <1>0, <1>2, <2>1 DEF Identified, Unsent, Blank, Settled, InProcess
<1>8. CASE CloseBranch
  <2> DEFINE m == MaxResponse(rsp, 0)
  <2>1. /\ m.id = rsp.id /\ m.wire = rsp.wire /\ m.dataSent = rsp.dataSent
        /\ m.resultSet = rsp.resultSet /\ m.buf = rsp.buf
    BY DEF MaxResponse, TypeOK, Record
  <2>2. /\ h = "close" /\ inv' = inv /\ err' = err
        /\ \/ err = "nil" /\ rsp' = rsp /\ h' = "closeend"
           \/ err # "nil" /\ rsp' = m /\ h' = "closeerr"
    BY <1>3, <1>8 DEF CloseBranch
  <2> HIDE DEF m
  <2>3. Identified' /\ Unsent' /\ Blank'
    BY <1>0, <1>2, <2>1, <2>2 DEF Identified, Unsent, Blank
  <2>4. Settled'
    BY <1>2, <2>1, <2>2 DEF Settled, Answers
  <2> QED BY <2>3, <2>4
<1>9. CASE CloseError
  <2>1. h = "closeerr" /\ err # "nil" /\ inv' = inv /\ err' = err
    BY <1>2, <1>9 DEF CloseError, Settled
  <2>2. h' = "closeend" /\ \E up \in Transport : rsp' = SetError(rsp, err, up).r
    BY <1>9, <2>1 DEF CloseError
  <2>3. ~rsp.dataSent /\ rsp.wire = <<>> /\ (rsp.id = "absent" => ~rsp.resultSet)
    BY <1>2, <2>1 DEF Unsent
  <2>4. /\ Kept(rsp, rsp')
        /\ rsp.id = "absent" => rsp' = rsp
        /\ rsp.id # "absent" => rsp'.resultSet /\ rsp'.buf = <<ErrorFrame(rsp.id, err)>>
    BY <1>1, <2>2, <2>3, RpcError, TransportType DEF TypeOK
  <2>5. Identified' /\ Unsent'
    BY <1>0, <1>2, <2>1, <2>2, <2>3, <2>4 DEF Identified, Unsent, Kept
  <2>6. Blank'
    BY <1>4, <2>1, <2>2 DEF Blank, Closing
  <2>7. rsp.id # "absent" => Answers(rsp', rsp'.buf, TRUE)
    BY <2>4, ErrorAnswers DEF Kept, TypeOK
  <2>8. Settled'
    BY <2>1, <2>2, <2>3, <2>4, <2>7 DEF Settled, Kept
  <2> QED BY <2>5, <2>6, <2>8
<1>10. CASE CloseEnd
  <2>1. h = "closeend" /\ h' = "returned" /\ inv' = inv /\ err' = err
    BY <1>10 DEF CloseEnd
  <2>2. conn = "open" => rsp' = Close(rsp, TRUE).r
    BY <1>10, <2>1 DEF CloseEnd, Transport, Over
  <2>3. ~rsp.dataSent /\ rsp.wire = <<>> /\ (rsp.id = "absent" => ~rsp.resultSet)
    BY <1>2, <2>1 DEF Unsent
  <2>4. Blank' /\ Unsent'
    BY <1>4, <2>1 DEF Blank, Unsent, Closing
  <2>5. ASSUME conn = "open"
        PROVE  /\ rsp'.id = rsp.id
               /\ rsp.resultSet => rsp'.wire = rsp.buf
               /\ ~rsp.resultSet /\ rsp.id = "absent" => rsp'.wire = <<>>
               /\ ~rsp.resultSet /\ rsp.id # "absent" =>
                    rsp'.wire = <<ResultFrame(rsp.id, TextValue(Text(rsp.buf)))>>
    <3>1. rsp \in Record /\ (rsp.resultSet \/ Envelope + Len(Text(rsp.buf)) <= MaxInt64)
      BY <1>0, <1>1, <2>1 DEF TypeOK, Fits, Plain
    <3> QED BY <1>1, <2>2, <2>3, <2>5, <3>1, RpcClose
  <2>6. Identified'
    BY <1>0, <1>2, <2>1, <2>5 DEF Identified
  <2>7. Settled'
    <3> SUFFICES ASSUME conn = "open"
                 PROVE  IF rsp'.id = "absent" THEN rsp'.wire = <<>>
                        ELSE Answers(rsp', rsp'.wire, err # "nil")
      BY <1>0, <2>1 DEF Settled
    <3>1. IF rsp.resultSet THEN Answers(rsp, rsp.buf, err # "nil") ELSE err = "nil" \/ rsp.id = "absent"
      BY <1>2, <2>1 DEF Settled
    <3>2. CASE rsp.resultSet
      BY <2>3, <2>5, <3>1, <3>2 DEF Answers
    <3>3. CASE ~rsp.resultSet /\ rsp.id = "absent"
      BY <2>5, <3>3
    <3>4. CASE ~rsp.resultSet /\ rsp.id # "absent"
      <4>1. TextValue(Text(rsp.buf)) \in Value
        BY TextType, ValueTypes DEF TypeOK, Record
      <4> QED BY <2>5, <3>1, <3>4, <4>1, ResultAnswers DEF TypeOK
    <3> QED BY <3>2, <3>3, <3>4
  <2> QED BY <2>4, <2>6, <2>7
<1> QED BY <1>5, <1>6, <1>7, <1>8, <1>9, <1>10 DEF Handler

LEMMA AnswerInvoker == TypeOK /\ Control /\ AnswerInv /\ Invoker => AnswerInv'
<1> SUFFICES ASSUME TypeOK, Control, AnswerInv, Invoker, Plain' PROVE (Identified /\ Unsent /\ Blank /\ Settled)'
  BY DEF AnswerInv
<1> USE DEF output
<1>1. UNCHANGED <<rq, h, left, conn>>
  BY DEF Invoker, Invoke, DeferFlush, Deliver, SetResponseError, SetResponseResult, ReadPipe,
         ReadEnd, CheckWrite, PutPiece, CloseDone
<1>2. rsp.kind = "rpc" /\ left # "forced"
  BY <1>1, QuietInvoker DEF Quiet, Plain
<1>3. Identified /\ Unsent /\ Blank /\ Settled
  BY <1>2 DEF AnswerInv, Plain
<1>4. inv \notin {"none", "exit", "exited"} => h \in InProcess
  BY <1>2 DEF Control, TypeOK, Closing, Over
<1>5. CASE Invoke \/ DeferFlush \/ Deliver \/ ReadPipe \/ CloseDone
  <2>1. UNCHANGED <<err, rsp>>
    BY <1>5 DEF Invoke, DeferFlush, Deliver, ReadPipe, CloseDone
  <2>2. \/ inv' \in {"flush", "deliver", "set", "copy"} /\ inv \in {"invoke", "flush", "deliver"}
        \/ inv' = "check" /\ inv = "copy"
        \/ inv' \in {"exit", "exited"}
    BY <1>5 DEF Invoke, DeferFlush, Deliver, ReadPipe, CloseDone
  <2> QED BY <1>1, <1>3, <1>4, <2>1, <2>2 DEF Identified, Unsent, Blank, Settled, InProcess
<1>6. CASE ReadEnd \/ CheckWrite
  <2>1. rsp' = rsp /\ inv \in {"copy", "check"} /\ inv' \in {"exit", "put"}
    BY <1>6 DEF ReadEnd, CheckWrite
  <2> QED BY <1>1, <1>3, <1>4, <2>1 DEF Identified, Unsent, Blank, Settled, InProcess
<1>7. CASE PutPiece
  <2>1. /\ inv = "put" /\ inv' \in {"put", "copy", "exit"}
        /\ \E n \in DOMAIN hand, up \in Transport : rsp' = Put(rsp, First(n), up).r
    BY <1>7 DEF PutPiece
  <2>2. Kept(rsp, rsp') /\ rsp'.resultSet = rsp.resultSet
    BY <1>2, <2>1, FirstType, RpcPut, TransportType DEF TypeOK
  <2> QED BY <1>1, <1>3, <1>4, <2>1, <2>2 DEF Identified, Unsent, Blank, Settled, InProcess, Kept
<1>8. CASE SetResponseError
  <2>1. inv = "set" /\ inv' = "exit" /\ val \in Errors /\ val # "nil" /\ err' = val
    BY <1>8 DEF SetResponseError, Faults, Errors, TypeOK
  <2>2. h \in InProcess
    BY <1>4, <2>1
  <2>3. Kept(rsp, rsp') /\ (rsp.id = "absent" => rsp' = rsp)
    <3>1. ~rsp.dataSent
      BY <1>3, <2>2 DEF Unsent, InProcess
    <3>2. \E up \in Transport : rsp' = SetError(rsp, val, up).r
      BY <1>8 DEF SetResponseError
    <3> QED BY <1>2, <2>1, <3>1, <3>2, RpcError, TransportType DEF TypeOK
  <2> QED BY <1>1, <1>3, <2>1, <2>2, <2>3 DEF Identified, Unsent, Blank, Settled, InProcess, Kept
<1>9. CASE SetResponseResult
  <2> DEFINE v == IF val = "ok" THEN OK ELSE Null
  <2>1. inv = "set" /\ inv' = "exit" /\ v \in Value
    BY <1>9, ValueTypes DEF SetResponseResult
  <2>2. h \in InProcess
    BY <1>4, <2>1
  <2>3. PICK up \in Transport : rsp' = SetResult(rsp, v, up).r /\ err' = SetResult(rsp, v, up).err
    BY <1>9 DEF SetResponseResult
  <2> HIDE DEF v
  <2>4. rsp.buf = <<>> /\ ~rsp.resultSet
    BY <1>3, <2>1, <2>2 DEF Blank, InProcess
  <2>5. /\ rsp' \in Record /\ Kept(rsp, rsp') /\ (rsp'.resultSet <=> rsp.id # "absent")
        /\ rsp.id # "absent" /\ err' = "nil" => rsp'.buf = <<ResultFrame(rsp.id, v)>>
    BY <1>2, <2>1, <2>3, <2>4, RpcResult, TransportType DEF TypeOK
  <2>6. rsp'.resultSet /\ err' = "nil" => Answers(rsp', rsp'.buf, FALSE)
    BY <2>1, <2>5, ResultAnswers DEF TypeOK, Kept
  <2> QED BY <1>1, <1>3, <2>1, <2>2, <2>5, <2>6 DEF Identified, Unsent, Blank, Settled, InProcess, Kept
<1> QED BY <1>5, <1>6, <1>7, <1>8, <1>9 DEF Invoker

LEMMA AnswerNext == TypeOK /\ Control /\ AnswerInv /\ Fits /\ [Next]_vars => AnswerInv'
<1>1. Flush \/ Copier \/ Kill \/ Cancel \/ Environment \/ UNCHANGED vars => conn' \in {conn, "stalled", "gone"}
  BY DEF Flush, Copier, Kill, Cancel, Environment, WakeUp, CopyChunk, StdoutEnd, WriteRejected,
         Wait, Emit, Exit, CloseStdout, Deadline, Stall, Disconnect, handled, apart, vars
<1>2. Flush \/ Copier \/ Kill \/ Cancel \/ Environment \/ UNCHANGED vars => (AnswerInv => AnswerInv')
  BY <1>1, Others DEF AnswerInv, Plain, Identified, Unsent, Blank, Settled, Answers, vars
<1> QED
  BY <1>2, AnswerHandler, AnswerInvoker DEF Next

=============================================================================
