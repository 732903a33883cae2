---------------------------- MODULE PromiseProofs ----------------------------
(***************************************************************************)
(* Request implements Answer: the first state of a request is a first      *)
(* state of an answer, and each step of a goroutine, of the child, of the  *)
(* client or of the clock is a step of the answer or leaves it as it is.   *)
(***************************************************************************)
EXTENDS LimitProofs

-----------------------------------------------------------------------------
(* What some frames say of the output.                                      *)

\* Frames of data carry output, and the others do not: their text is the library's.
Labels(frames) ==
  \A i \in DOMAIN frames :
    IF frames[i].tag = "data" THEN 0 \notin Range(frames[i].body)
    ELSE frames[i].body = <<>> \/ 0 \in Range(frames[i].body)

\* The first n bytes, line by line.
Says(frames, n) == Labels(frames) /\ Data(frames) = Bytes(0, n)

\* Some of the first m bytes, or a text, in one piece.
Solid(frames, m) ==
  Raw(frames) /\ (0 \in Range(Text(frames)) \/ \E n \in 0..m : Text(frames) = Bytes(0, n))

LEMMA NoZero ==
  ASSUME NEW a \in Nat, NEW b \in Nat, a <= b PROVE 0 \notin Range(Bytes(a, b))
<1>1. DOMAIN Bytes(a, b) = 1..(b - a) /\ \A i \in 1..(b - a) : Bytes(a, b)[i] = a + i
  BY BytesType
<1>2. \A i \in 1..(b - a) : a + i # 0
  OBVIOUS
<1> QED BY <1>1, <1>2 DEF Range

LEMMA BytesFrom0 ==
  ASSUME NEW a \in Nat, NEW b \in Nat
  PROVE  /\ Len(Bytes(0, a)) = a /\ Bytes(0, a) \in Seq(Nat)
         /\ Bytes(0, a) = Bytes(0, b) => a = b
<1>1. 0 <= a /\ 0 <= b /\ a - 0 = a /\ b - 0 = b
  OBVIOUS
<1>2. Len(Bytes(0, a)) = a /\ Len(Bytes(0, b)) = b /\ Bytes(0, a) \in Seq(Nat)
  BY <1>1, BytesType
<1> QED BY <1>2

LEMMA OutputAppend ==
  ASSUME NEW frames \in Seq(Frame), NEW f \in Frame
  PROVE  OutputIn(Append(frames, f))
           = IF 0 \in Range(f.body) THEN OutputIn(frames) ELSE OutputIn(frames) \o f.body
<1> DEFINE Body(x) == IF 0 \in Range(x.body) THEN <<>> ELSE x.body
           n == Len(frames)
           t == Append(frames, f)
           s == [i \in DOMAIN frames |-> Body(frames[i])]
           u == [i \in DOMAIN t |-> Body(t[i])]
<1>1. \A x \in Frame : Body(x) \in Seq(Nat)
  BY DEF Frame
<1>2. /\ n \in Nat /\ DOMAIN frames = 1..n /\ \A i \in 1..n : frames[i] \in Frame
  BY LenProperties
<1>3. DOMAIN t = 1..(n + 1) /\ t[n + 1] = f /\ \A i \in 1..n : t[i] = frames[i]
  BY AppendLast
<1> HIDE DEF n, t
<1>4. s \in Seq(Seq(Nat)) /\ Len(s) = n /\ \A i \in 1..n : s[i] = Body(frames[i])
  <2>1. s \in [1..n -> Seq(Nat)]
    BY <1>1, <1>2
  <2> QED BY <1>2, <2>1, FunctionIsSeq
<1>5. u \in Seq(Seq(Nat)) /\ Len(u) = n + 1 /\ \A i \in 1..(n + 1) : u[i] = Body(t[i])
  <2>1. \A i \in 1..(n + 1) : t[i] \in Frame
    BY <1>2, <1>3
  <2>2. u \in [1..(n + 1) -> Seq(Nat)] /\ n + 1 \in Nat
    BY <1>1, <1>2, <1>3, <2>1
  <2> QED BY <1>3, <2>2, FunctionIsSeq
<1>6. Body(f) \in Seq(Nat)
  BY <1>1
<1>7. OutputIn(t) = FlattenSeq(u) /\ OutputIn(frames) = FlattenSeq(s)
  BY DEF OutputIn
<1>8. \A i \in 1..n : u[i] = s[i]
  BY <1>2, <1>3, <1>4, <1>5
<1>9. u[n + 1] = Body(f)
  BY <1>2, <1>3, <1>5
<1> DEFINE e == Body(f)
<1> HIDE DEF s, u, e
<1>10. u = Append(s, e)
  <2>1. /\ Append(s, e) \in Seq(Seq(Nat)) /\ Len(Append(s, e)) = n + 1
        /\ Append(s, e)[n + 1] = e /\ \A i \in 1..n : Append(s, e)[i] = s[i]
    BY <1>4, <1>6, AppendLast DEF e
  <2>2. \A i \in 1..(n + 1) : u[i] = Append(s, e)[i]
    BY <1>2, <1>8, <1>9, <2>1 DEF e
  <2> QED BY <1>2, <1>5, <2>1, <2>2, SeqEqual
<1>11. FlattenSeq(u) = FlattenSeq(s) \o e /\ FlattenSeq(s) \in Seq(Nat)
  BY <1>4, <1>6, <1>10, FlattenAppend, FlattenType DEF e
<1>12. FlattenSeq(s) \o <<>> = FlattenSeq(s)
  BY <1>11, ConcatEmptySeq
<1> QED BY <1>7, <1>11, <1>12 DEF e, t

LEMMA NoOutput == OutputIn(<<>>) = <<>>
<1>1. DOMAIN <<>> = {}
  OBVIOUS
<1>2. [i \in DOMAIN <<>> |-> IF 0 \in Range(<<>>[i].body) THEN <<>> ELSE <<>>[i].body] = <<>>
  BY <1>1
<1> QED BY <1>2, FlattenEmpty DEF OutputIn

LEMMA OutputOne ==
  ASSUME NEW frames \in Seq(Frame), Len(frames) = 1
  PROVE  OutputIn(frames) = IF 0 \in Range(frames[1].body) THEN <<>> ELSE frames[1].body
<1> DEFINE f == frames[1]
<1>1. f \in Frame /\ <<>> \in Seq(Frame) /\ f.body \in Seq(Nat)
  <2>1. 1 \in 1..Len(frames)
    OBVIOUS
  <2>2. f \in Frame
    BY <2>1, ElementOfSeq
  <2> QED BY <2>2 DEF Frame
<1>2. frames = Append(<<>>, f)
  <2> DEFINE s == Append(<<>>, f)
  <2>1. s \in Seq(Frame) /\ Len(s) = 1 /\ s[1] = f
    BY <1>1
  <2> HIDE DEF s
  <2>2. \A i \in 1..1 : frames[i] = s[i]
    BY <2>1
  <2> QED BY <2>1, <2>2, SeqEqual DEF s
<1>3. <<>> \o f.body = f.body
  BY <1>1, ConcatEmptySeq
<1> HIDE DEF f
<1>4. OutputIn(Append(<<>>, f)) = IF 0 \in Range(f.body) THEN OutputIn(<<>>) ELSE OutputIn(<<>>) \o f.body
  BY <1>1, OutputAppend
<1>5. OutputIn(frames) = IF 0 \in Range(f.body) THEN <<>> ELSE f.body
  BY <1>2, <1>3, <1>4, NoOutput
<1> QED BY <1>5 DEF f

LEMMA SolidOutput ==
  ASSUME NEW frames \in Seq(Frame), NEW m \in Nat, Solid(frames, m)
  PROVE  /\ \E n \in 0..m : OutputIn(frames) = Bytes(0, n)
         /\ \A d \in Nat : Text(frames) = Bytes(0, d) => OutputIn(frames) = Bytes(0, d)
<1>1. CASE frames = <<>>
  <2>1. OutputIn(frames) = Bytes(0, 0) /\ Text(frames) = <<>> /\ 0 \in 0..m
    BY <1>1, NoOutput, NothingKept
  <2>2. OutputIn(frames) = Text(frames)
    BY <2>1, NothingKept
  <2> QED BY <2>1, <2>2
<1>2. CASE frames # <<>>
  <2>1. Len(frames) = 1 /\ Text(frames) = frames[1].body
    <3>1. Len(frames) \in Nat /\ Len(frames) # 0 /\ Len(frames) <= 1
      BY <1>2, EmptySeq, LenProperties DEF Solid, Raw
    <3> QED BY <1>2, <3>1 DEF Text
  <2>2. OutputIn(frames) = IF 0 \in Range(Text(frames)) THEN <<>> ELSE Text(frames)
    BY <2>1, OutputOne
  <2>3. \A d \in Nat : Text(frames) = Bytes(0, d) => OutputIn(frames) = Bytes(0, d)
    <3> SUFFICES ASSUME NEW d \in Nat, Text(frames) = Bytes(0, d) PROVE OutputIn(frames) = Bytes(0, d)
      OBVIOUS
    <3>1. 0 <= d
      OBVIOUS
    <3> QED BY <2>2, <3>1, NoZero
  <2>4. CASE 0 \in Range(Text(frames))
    <3>1. OutputIn(frames) = Bytes(0, 0) /\ 0 \in 0..m
      BY <2>2, <2>4, NothingKept
    <3> QED BY <2>3, <3>1
  <2>5. CASE 0 \notin Range(Text(frames))
    <3>1. PICK n \in 0..m : Text(frames) = Bytes(0, n)
      BY <2>5 DEF Solid
    <3>2. n \in Nat
      OBVIOUS
    <3> QED BY <2>3, <3>1, <3>2
  <2> QED BY <2>4, <2>5
<1> QED BY <1>1, <1>2

LEMMA SaysOutput ==
  ASSUME NEW frames, NEW n, Says(frames, n) PROVE OutputIn(frames) = Bytes(0, n)
<1>1. \A i \in DOMAIN frames :
         (IF 0 \in Range(frames[i].body) THEN <<>> ELSE frames[i].body)
           = IF frames[i].tag = "data" THEN frames[i].body ELSE <<>>
  BY DEF Says, Labels
<1>2. [i \in DOMAIN frames |-> IF 0 \in Range(frames[i].body) THEN <<>> ELSE frames[i].body]
        = [i \in DOMAIN frames |-> IF frames[i].tag = "data" THEN frames[i].body ELSE <<>>]
  BY <1>1
<1> QED BY <1>2 DEF OutputIn, Says, Data

LEMMA SaysNothing == Says(<<>>, 0)
<1>1. DOMAIN <<>> = {}
  OBVIOUS
<1> QED BY <1>1, NothingSent, NothingKept DEF Says, Labels

LEMMA SaysData ==
  ASSUME NEW frames \in Seq(Frame), NEW n \in Nat, Says(frames, n), NEW f \in Frame, f.tag = "data",
         NEW e \in Nat, n <= e, f.body = Bytes(n, e)
  PROVE  Says(Append(frames, f), e)
<1> DEFINE t == Append(frames, f)
<1>1. /\ DOMAIN t = 1..(Len(frames) + 1) /\ t[Len(frames) + 1] = f
      /\ \A i \in 1..Len(frames) : t[i] = frames[i]
      /\ DOMAIN frames = 1..Len(frames) /\ Len(frames) \in Nat
  BY AppendLast, LenProperties
<1>2. Data(t) = Bytes(0, n) \o Bytes(n, e)
  BY DataAppend DEF Says
<1>3. Bytes(0, n) \o Bytes(n, e) = Bytes(0, e)
  <2>1. 0 <= n
    OBVIOUS
  <2> QED BY <2>1, BytesJoin
<1> HIDE DEF t
<1>4. Labels(t)
  <2>1. 0 \notin Range(f.body)
    BY NoZero
  <2>2. \A i \in 1..(Len(frames) + 1) : i = Len(frames) + 1 \/ i \in 1..Len(frames)
    BY <1>1
  <2> QED BY <1>1, <2>1, <2>2 DEF Labels, Says
<1> QED BY <1>2, <1>3, <1>4 DEF Says, t

LEMMA SaysLabel ==
  ASSUME NEW frames \in Seq(Frame), NEW n \in Nat, Says(frames, n), NEW f \in Frame, f.tag # "data",
         f.body = <<>> \/ 0 \in Range(f.body)
  PROVE  Says(Append(frames, f), n)
<1> DEFINE t == Append(frames, f)
<1>1. /\ DOMAIN t = 1..(Len(frames) + 1) /\ t[Len(frames) + 1] = f
      /\ \A i \in 1..Len(frames) : t[i] = frames[i]
      /\ DOMAIN frames = 1..Len(frames) /\ Len(frames) \in Nat
  BY AppendLast, LenProperties
<1>2. Data(t) = Bytes(0, n)
  BY DataAppend DEF Says
<1> HIDE DEF t
<1>3. Labels(t)
  <2>1. \A i \in 1..(Len(frames) + 1) : i = Len(frames) + 1 \/ i \in 1..Len(frames)
    BY <1>1
  <2> QED BY <1>1, <2>1 DEF Labels, Says
<1> QED BY <1>2, <1>3 DEF Says, t

LEMMA TextBodies ==
  /\ \A id \in Ids, v \in {OK, Null, Done} :
       ResultFrame(id, v).body = <<>> \/ 0 \in Range(ResultFrame(id, v).body)
  /\ \A id \in Ids, e \in Errors : ErrorFrame(id, e).body = <<>>
<1>1. Null.body = <<>>
  BY DEF Null
<1>2. 0 \in Range(OK.body)
  <2>1. DOMAIN OK.body = 1..2 /\ OK.body[1] = 0
    BY DEF OK
  <2>2. 1 \in 1..2
    OBVIOUS
  <2> QED BY <2>1, <2>2 DEF Range
<1>3. 0 \in Range(Done.body)
  <2>1. DOMAIN Done.body = 1..4 /\ Done.body[1] = 0
    BY DEF Done
  <2>2. 1 \in 1..4
    OBVIOUS
  <2> QED BY <2>1, <2>2 DEF Range
<1> QED BY <1>1, <1>2, <1>3 DEF ResultFrame, ErrorFrame

-----------------------------------------------------------------------------
(* A stream: what has been sent, and what its buffer holds back.            *)

\* The first n bytes have been sent, and those up to the e-th are held back.
Sends(r, n, e) == Says(r.wire, n) /\ Raw(r.buf) /\ Text(r.buf) = Bytes(n, e)

LEMMA NothingBack ==
  ASSUME NEW r, NEW n \in Nat, Says(r.wire, n), r.buf = <<>> PROVE Sends(r, n, n)
<1>1. Bytes(n, n) = <<>>
  BY NoBytes
<1> QED BY <1>1, NothingKept DEF Sends

LEMMA EmitsData ==
  ASSUME NEW r \in Record, NEW o, NEW f \in Frame, NEW up, Emits(r, o, f, up),
         NEW n \in Nat, NEW e \in Nat, n <= e, Says(r.wire, n), f.tag = "data", f.body = Bytes(n, e)
  PROVE  Says(o.r.wire, IF o.err = "nil" THEN e ELSE n)
<1>1. r.wire \in Seq(Frame)
  BY DEF Record
<1> QED BY <1>1, SaysData DEF Emits

LEMMA EmitsLabel ==
  ASSUME NEW r \in Record, NEW o, NEW f \in Frame, NEW up, Emits(r, o, f, up),
         NEW n \in Nat, Says(r.wire, n), f.tag # "data", f.body = <<>> \/ 0 \in Range(f.body)
  PROVE  Says(o.r.wire, n)
<1>1. r.wire \in Seq(Frame)
  BY DEF Record
<1> QED BY <1>1, SaysLabel DEF Emits

LEMMA CommitSends ==
  ASSUME NEW r \in Record, r.kind = "streaming", NEW up \in BOOLEAN,
         NEW n \in Nat, NEW e \in Nat, n <= e, Sends(r, n, e)
  PROVE  LET c == Commit(r, up) IN
         \E k \in {n, e} : Sends(c.r, k, k) /\ (c.err = "nil" => k = e)
<1> DEFINE c == Commit(r, up)
           f == DataFrame(r.id, Text(r.buf))
<1>1. /\ c.r.buf = <<>>
      /\ r.buf = <<>> => c = Success(r)
      /\ r.buf # <<>> => Emits(r, c, f, up)
      /\ f \in Frame /\ f.tag = "data" /\ f.body = Text(r.buf)
  BY CommitEmits
<1> HIDE DEF c, f
<1>2. Says(r.wire, n) /\ Text(r.buf) = Bytes(n, e)
  BY DEF Sends
<1>3. CASE r.buf = <<>>
  <2>1. n = e
    BY <1>2, <1>3, NothingKept, NoBytes
  <2>2. c.r = r
    BY <1>1, <1>3 DEF Success
  <2>3. Sends(c.r, e, e)
    BY <1>2, <1>3, <2>1, <2>2, NothingBack
  <2> QED BY <2>3 DEF c
<1>4. CASE r.buf # <<>>
  <2> DEFINE k == IF c.err = "nil" THEN e ELSE n
  <2>1. Says(c.r.wire, k) /\ k \in {n, e} /\ k \in Nat
    BY <1>1, <1>2, <1>4, EmitsData
  <2>2. c.err = "nil" => k = e
    OBVIOUS
  <2> HIDE DEF k
  <2>3. Sends(c.r, k, k)
    BY <1>1, <2>1, NothingBack
  <2> QED BY <2>1, <2>2, <2>3 DEF c
<1> QED BY <1>3, <1>4

LEMMA ResultSends ==
  ASSUME NEW r \in Record, r.kind = "streaming", NEW v \in {OK, Null, Done}, NEW up \in BOOLEAN, ~r.closed,
         NEW n \in Nat, NEW e \in Nat, n <= e, Sends(r, n, e)
  PROVE  LET s == SetResult(r, v, up) IN
         /\ s.r \in Record /\ s.r.kind = "streaming" /\ ~s.r.closed /\ s.r.buf = <<>>
         /\ \E k \in {n, e} : Sends(s.r, k, k) /\ (s.err = "nil" => k = e)
<1> DEFINE c == Commit(r, up)
           s == SetResult(r, v, up)
           f == ResultFrame(r.id, v)
<1>1. /\ c.r \in Record /\ c.r.kind = "streaming" /\ c.r.closed = r.closed
      /\ c.r.buf = <<>>
      /\ c.err # "nil" => s = c
      /\ c.err = "nil" => Emits(c.r, s, f, up) /\ s.r.buf = <<>> /\ f \in Frame
  BY ResultSteps
<1>2. PICK k \in {n, e} : Sends(c.r, k, k) /\ (c.err = "nil" => k = e)
  BY CommitSends
<1>3. f.tag # "data" /\ (f.body = <<>> \/ 0 \in Range(f.body))
  <2>1. r.id \in Ids
    BY DEF Record
  <2>2. f.tag # "data"
    BY DEF ResultFrame, OK, Null, Done
  <2> QED BY <2>1, <2>2, TextBodies
<1> HIDE DEF c, s, f
<1>4. CASE c.err # "nil"
  BY <1>1, <1>2, <1>4 DEF s
<1>5. CASE c.err = "nil"
  <2>1. Says(c.r.wire, e) /\ k = e
    BY <1>2, <1>5 DEF Sends
  <2>2. Says(s.r.wire, e)
    BY <1>1, <1>3, <1>5, <2>1, EmitsLabel
  <2>3. Sends(s.r, e, e)
    BY <1>1, <1>5, <2>2, NothingBack
  <2> QED BY <1>1, <1>5, <2>3 DEF s, Emits
<1> QED BY <1>4, <1>5

\* How a client has been told by the frames that it has received it all.
Tells(r) ==
  IF r.wire = <<>> \/ (r.kind = "streaming" /\ ~Terminal(Last(r.wire))) THEN "open"
  ELSE IF Last(r.wire).tag = "error" THEN "failure" ELSE "success"

LEMMA OpenTells ==
  ASSUME NEW r \in Record, r.kind = "streaming", Ordered(r), ~r.closed PROVE Tells(r) = "open"
<1>1. CASE r.wire = <<>>
  BY <1>1 DEF Tells
<1>2. CASE r.wire # <<>>
  <2>1. r.wire \in Seq(Frame)
    BY DEF Record
  <2>2. Len(r.wire) \in DOMAIN r.wire
    BY <1>2, <2>1, EmptySeq, LenProperties
  <2>3. ~Terminal(Last(r.wire))
    BY <2>2 DEF Ordered, Last
  <2> QED BY <2>3 DEF Tells
<1> QED BY <1>1, <1>2

LEMMA SameTells ==
  ASSUME NEW r, NEW s, s.wire = r.wire, s.kind = r.kind PROVE Tells(s) = Tells(r)
BY DEF Tells

LEMMA NextTells ==
  ASSUME NEW r \in Record, NEW f \in Frame, NEW s, s.wire = Append(r.wire, f)
  PROVE  Tells(s) \in {"open", IF f.tag = "error" THEN "failure" ELSE "success"}
         /\ (Terminal(f) => Tells(s) # "open")
<1>1. r.wire \in Seq(Frame)
  BY DEF Record
<1>2. s.wire # <<>> /\ Last(s.wire) = f
  BY <1>1, AppendLast
<1> QED BY <1>2 DEF Tells

\* A stream that is closed is not touched any more.
LEMMA ClosedStays ==
  ASSUME NEW r \in Record, r.kind = "streaming", Ordered(r), r.closed, NEW up \in BOOLEAN, NEW e \in Errors
  PROVE  Close(r, up).r = r /\ SetError(r, e, up).r = r
<1>1. r.buf = <<>>
  BY DEF Ordered
<1>2. Commit(r, up) = Success(r)
  BY <1>1 DEF Commit
<1>3. Close(r, up) = Success(r)
  BY <1>2 DEF Close, CloseStreaming, Success
<1>4. SetError(r, e, up) = Success(r)
  BY <1>2 DEF SetError, SetErrorStreaming
<1> QED BY <1>3, <1>4 DEF Success

LEMMA ErrorSends ==
  ASSUME NEW r \in Record, r.kind = "streaming", ~r.closed, Ordered(r), NEW b \in Errors, NEW up \in BOOLEAN,
         NEW n \in Nat, NEW e \in Nat, n <= e, Sends(r, n, e)
  PROVE  LET s == SetError(r, b, up).r IN
         /\ s.kind = "streaming" /\ Tells(s) \in {"open", "failure"} /\ (s.closed \/ s.encErr # "nil")
         /\ \E k \in {n, e} : Sends(s, k, k)
<1> DEFINE c == Commit(r, up)
           q == [MaxResponse(c.r, 0) EXCEPT !.closed = TRUE]
           f == ErrorFrame(r.id, b)
           d == DataFrame(r.id, Text(r.buf))
           x == Encode(q, f, up)
           s == SetError(r, b, up).r
<1>1. s = IF c.err # "nil" THEN c.r ELSE x.r
  BY DEF SetError, SetErrorStreaming
<1>2. /\ c.r \in Record /\ c.r.kind = "streaming" /\ c.r.buf = <<>>
      /\ r.buf = <<>> => c = Success(r)
      /\ r.buf # <<>> => Emits(r, c, d, up)
  BY CommitEmits
<1>3. c.r.closed = r.closed /\ Ordered(c.r)
  BY CommitOrders
<1>4. PICK k \in {n, e} : Sends(c.r, k, k) /\ (c.err = "nil" => k = e)
  BY CommitSends
<1>5. f \in Frame /\ f.tag = "error" /\ f.body = <<>>
  BY FrameTypes DEF ErrorFrame, Record
<1> HIDE DEF c, d, f
<1>6. Tells(c.r) = "open"
  BY <1>2, <1>3, OpenTells
<1>7. CASE c.err # "nil"
  <2>1. c.r.encErr # "nil"
    BY <1>2, <1>7 DEF Success, Emits
  <2>2. s = c.r
    BY <1>1, <1>7
  <2> HIDE DEF s
  <2> QED BY <1>2, <1>4, <1>6, <2>1, <2>2 DEF s
<1>8. CASE c.err = "nil"
  <2>1. q \in Record /\ q.kind = "streaming" /\ q.closed /\ q.wire = c.r.wire /\ q.buf = <<>>
    <3>1. MaxResponse(c.r, 0) \in Record
      BY <1>2, MaxResponseType
    <3>2. LET m == MaxResponse(c.r, 0) IN m.kind = c.r.kind /\ m.wire = c.r.wire /\ m.buf = c.r.buf
      BY <1>2 DEF MaxResponse, Record
    <3> DEFINE m == MaxResponse(c.r, 0)
    <3> HIDE DEF m
    <3> QED BY <1>2, <3>1, <3>2 DEF Record, m
  <2> HIDE DEF q
  <2>2. Emits(q, x, f, up) /\ x.r.buf = <<>>
    BY <1>5, <2>1, EncodeEmits
  <2> HIDE DEF x
  <2>3. x.r.closed /\ x.r.kind = "streaming" /\ (x.r.wire = q.wire \/ x.r.wire = Append(q.wire, f))
    BY <2>1, <2>2 DEF Emits
  <2>4. Says(q.wire, k) /\ k \in Nat
    BY <1>4, <2>1 DEF Sends
  <2>5. Sends(x.r, k, k)
    <3>1. Says(x.r.wire, k)
      BY <1>5, <2>1, <2>2, <2>4, EmitsLabel
    <3> QED BY <2>2, <2>4, <3>1, NothingBack
  <2>6. Tells(x.r) \in {"open", "failure"}
    <3>1. CASE x.r.wire = q.wire
      BY <1>2, <1>6, <2>1, <2>3, <3>1, SameTells
    <3>2. CASE x.r.wire = Append(q.wire, f)
      BY <1>5, <2>1, <3>2, NextTells
    <3> QED BY <2>3, <3>1, <3>2
  <2>7. s = x.r
    BY <1>1, <1>8
  <2> HIDE DEF s
  <2> QED BY <2>3, <2>5, <2>6, <2>7 DEF s
<1> QED BY <1>7, <1>8

LEMMA CloseSends ==
  ASSUME NEW r \in Record, r.kind = "streaming", ~r.closed, Ordered(r), NEW up \in BOOLEAN,
         NEW n \in Nat, NEW e \in Nat, n <= e, Sends(r, n, e)
  PROVE  LET z == Close(r, up).r IN
         /\ z.kind = "streaming" /\ Tells(z) \in {"open", "success"}
         /\ \E k \in {n, e} : Sends(z, k, k) /\ (Tells(z) = "success" => k = e)
<1> DEFINE c == Commit(r, up)
           s == SetResult(c.r, Done, up)
           z == Close(r, up).r
           f == ResultFrame(c.r.id, Done)
<1>1. /\ c.err # "nil" => z = c.r
      /\ c.err = "nil" => /\ z \in Record /\ z.kind = "streaming"
                          /\ z.wire = s.r.wire /\ z.buf = s.r.buf
      /\ c.r \in Record /\ c.r.kind = "streaming" /\ c.r.buf = <<>> /\ ~c.r.closed
      /\ s.r.buf = <<>> /\ Emits(c.r, s, f, up)
      /\ f \in Frame /\ f.tag \notin {"raw", "data", "error"}
  BY CloseSteps
<1>2. Ordered(c.r)
  BY CommitOrders
<1>3. PICK k \in {n, e} : Sends(c.r, k, k) /\ (c.err = "nil" => k = e)
  BY CommitSends
<1>4. f.body = <<>> \/ 0 \in Range(f.body)
  <2>1. c.r.id \in Ids
    BY <1>1 DEF Record
  <2> QED BY <2>1, TextBodies
<1> HIDE DEF c, s, z, f
<1>5. Tells(c.r) = "open"
  BY <1>1, <1>2, OpenTells
<1>6. CASE c.err # "nil"
  BY <1>1, <1>3, <1>5, <1>6 DEF z
<1>7. CASE c.err = "nil"
  <2>1. Says(c.r.wire, k) /\ k \in Nat /\ k = e
    BY <1>3, <1>7 DEF Sends
  <2>2. Says(s.r.wire, k)
    BY <1>1, <1>4, <2>1, EmitsLabel
  <2>3. Sends(z, k, k)
    BY <1>1, <1>7, <2>1, <2>2, NothingBack
  <2>4. Tells(z) \in {"open", "success"}
    <3>1. CASE z.wire = c.r.wire
      BY <1>1, <1>5, <1>7, <3>1, SameTells
    <3>2. CASE z.wire = Append(c.r.wire, f)
      BY <1>1, <3>2, NextTells
    <3> QED BY <1>1, <1>7, <3>1, <3>2 DEF Emits
  <2> QED BY <1>1, <1>7, <2>1, <2>3, <2>4 DEF z
<1> QED BY <1>6, <1>7

LEMMA PutLineSends ==
  ASSUME NEW r \in Record, r.kind = "streaming", NEW p \in Piece, NEW up \in BOOLEAN,
         NEW n \in Nat, NEW e \in Nat, NEW m \in Nat, n <= e, e <= m, Sends(r, n, e), p.body = Bytes(e, m)
  PROVE  LET w == PutLine(r, p, up) IN
         /\ w.r \in Record /\ w.r.kind = "streaming" /\ w.r.closed = r.closed
         /\ \E k, j \in Nat : n <= k /\ k <= j /\ j <= m /\ Sends(w.r, k, j)
<1> DEFINE w == PutLine(r, p, up)
           f == LineFrame(r.id, Text(r.buf) \o p.body)
<1>1. /\ f \in Frame /\ f.tag = "data" /\ f.body = Text(r.buf) \o p.body
      /\ p.nl => Emits(r, w, f, up) /\ w.r.buf = <<>>
      /\ ~p.nl => /\ w.err = "nil" /\ w.r \in Record /\ w.r.kind = "streaming"
                  /\ w.r.first = r.first /\ w.r.closed = r.closed /\ w.r.wire = r.wire
                  /\ w.r.room = r.room /\ w.r.encErr = r.encErr
                  /\ Raw(w.r.buf) /\ w.r.buf # <<>> /\ Text(w.r.buf) = Text(r.buf) \o p.body
  BY PutLineEmits DEF Sends
<1> HIDE DEF w, f
<1>2. Text(r.buf) \o p.body = Bytes(n, m) /\ n <= m
  <2>1. Text(r.buf) = Bytes(n, e) /\ Bytes(n, e) \o Bytes(e, m) = Bytes(n, m)
    BY BytesJoin DEF Sends
  <2>2. n <= m
    OBVIOUS
  <2> QED BY <2>1, <2>2
<1>3. Says(r.wire, n)
  BY DEF Sends
<1>4. p.nl \in BOOLEAN
  BY DEF Piece
<1>5. CASE p.nl
  <2> DEFINE k == IF w.err = "nil" THEN m ELSE n
  <2>1. Says(w.r.wire, k)
    BY <1>1, <1>2, <1>3, <1>5, EmitsData
  <2>0. k \in Nat /\ n <= k /\ k <= m /\ k <= k
    BY <1>2
  <2> HIDE DEF k
  <2>2. Sends(w.r, k, k)
    BY <1>1, <1>5, <2>1, <2>0, NothingBack
  <2>3. w.r \in Record /\ w.r.kind = "streaming" /\ w.r.closed = r.closed
    BY <1>1, <1>5 DEF Emits
  <2> QED BY <2>0, <2>2, <2>3 DEF w
<1>6. CASE ~p.nl
  <2>1. Sends(w.r, n, m) /\ n <= n /\ m <= m
    BY <1>1, <1>2, <1>3, <1>6 DEF Sends
  <2> QED BY <1>1, <1>2, <1>6, <2>1 DEF w
<1> QED BY <1>4, <1>5, <1>6

LEMMA PutSends ==
  ASSUME NEW r \in Record, r.kind = "streaming", NEW p \in Piece, NEW up \in BOOLEAN, ~r.closed,
         NEW n \in Nat, NEW e \in Nat, NEW m \in Nat, n <= e, e <= m, Sends(r, n, e), p.body = Bytes(e, m)
  PROVE  LET w == Put(r, p, up) IN
         /\ w.r \in Record /\ w.r.kind = "streaming" /\ ~w.r.closed
         /\ \E k, j \in Nat : n <= k /\ k <= j /\ j <= m /\ Sends(w.r, k, j)
<1> DEFINE w == Put(r, p, up)
           hd == SetResult(r, OK, up)
           on == [hd.r EXCEPT !.first = FALSE]
           off == [hd EXCEPT !.r.first = FALSE]
<1>1. w = IF ~r.first THEN PutLine(r, p, up) ELSE IF hd.err # "nil" THEN off ELSE PutLine(on, p, up)
  BY DEF Put
<1>2. CASE ~r.first
  <2>1. w = PutLine(r, p, up)
    BY <1>1, <1>2
  <2> HIDE DEF w
  <2>2. /\ w.r \in Record /\ w.r.kind = "streaming" /\ w.r.closed = r.closed
        /\ \E k, j \in Nat : n <= k /\ k <= j /\ j <= m /\ Sends(w.r, k, j)
    BY <2>1, PutLineSends
  <2> QED BY <2>2 DEF w
<1>3. CASE r.first
  <2>1. hd \in Outcome
    BY ValueTypes, SetResultType
  <2>2. /\ hd.r \in Record /\ hd.r.kind = "streaming" /\ ~hd.r.closed /\ hd.r.buf = <<>>
        /\ \E k \in {n, e} : Sends(hd.r, k, k) /\ (hd.err = "nil" => k = e)
    BY ResultSends
  <2> HIDE DEF hd
  <2>3. PICK k \in {n, e} : Sends(hd.r, k, k) /\ (hd.err = "nil" => k = e)
    BY <2>2
  <2>4. /\ on \in Record /\ on.kind = "streaming" /\ on.buf = hd.r.buf /\ ~on.closed
        /\ on.wire = hd.r.wire
    BY <2>2 DEF Record
  <2>5. off.r = on
    BY <2>1 DEF Outcome
  <2> HIDE DEF on, off
  <2>6. Sends(on, k, k) /\ k \in Nat /\ n <= k /\ k <= m /\ k <= k
    BY <2>3, <2>4 DEF Sends
  <2>7. CASE hd.err # "nil"
    <3>1. w.r = on
      BY <1>1, <1>3, <2>5, <2>7
    <3> HIDE DEF w
    <3>2. /\ w.r \in Record /\ w.r.kind = "streaming" /\ ~w.r.closed
          /\ \E i, j \in Nat : n <= i /\ i <= j /\ j <= m /\ Sends(w.r, i, j)
      BY <2>4, <2>6, <3>1
    <3> QED BY <3>2 DEF w
  <2>8. CASE hd.err = "nil"
    <3>1. w = PutLine(on, p, up) /\ k = e
      BY <1>1, <1>3, <2>3, <2>8
    <3> HIDE DEF w
    <3>2. /\ w.r \in Record /\ w.r.kind = "streaming" /\ w.r.closed = on.closed
          /\ \E i, j \in Nat : e <= i /\ i <= j /\ j <= m /\ Sends(w.r, i, j)
      <4>1. Sends(on, e, e) /\ e <= e
        BY <2>6, <3>1
      <4> QED BY <2>4, <3>1, <4>1, PutLineSends
    <3>3. \A i \in Nat : e <= i => n <= i
      OBVIOUS
    <3>4. ~w.r.closed
      BY <2>4, <3>2
    <3>5. \E i, j \in Nat : n <= i /\ i <= j /\ j <= m /\ Sends(w.r, i, j)
      BY <3>2, <3>3
    <3> QED BY <3>2, <3>4, <3>5 DEF w
  <2> QED BY <2>7, <2>8
<1> QED BY <1>2, <1>3

-----------------------------------------------------------------------------
(* What the client has and will have of an output of m bytes.               *)

\* Whatever a responser holds is a text or the beginning of the output.
Promised(r, m) ==
  /\ r.kind = "streaming" => \E n, e \in 0..m : n <= e /\ Sends(r, n, e)
  /\ r.kind = "legacy" => Solid(r.wire, m)
  /\ r.kind = "rpc" => /\ r.wire = <<>>
                       /\ IF r.resultSet THEN OutputIn(r.buf) = <<>> ELSE Solid(r.buf, m)

\* The client of r, then s, has the beginning of the output, and now more of it.
Gained(r, s, m) ==
  \E a, b \in 0..m : a <= b /\ OutputIn(r.wire) = Bytes(0, a) /\ OutputIn(s.wire) = Bytes(0, b)

LEMMA SolidMore ==
  ASSUME NEW frames, NEW m \in Nat, NEW k \in Nat, m <= k, Solid(frames, m) PROVE Solid(frames, k)
<1>1. \A n \in 0..m : n \in 0..k
  OBVIOUS
<1> QED BY <1>1 DEF Solid

LEMMA PromisedMore ==
  ASSUME NEW r, NEW m \in Nat, NEW k \in Nat, m <= k, Promised(r, m) PROVE Promised(r, k)
<1>1. \A n \in 0..m : n \in 0..k
  OBVIOUS
<1> QED BY <1>1, SolidMore DEF Promised

LEMMA SolidNothing == ASSUME NEW m \in Nat PROVE Solid(<<>>, m)
<1>1. 0 \in 0..m
  OBVIOUS
<1> QED BY <1>1, NothingKept DEF Solid

LEMMA PromisedFresh ==
  ASSUME NEW r \in Record, r.wire = <<>>, r.buf = <<>>, NEW m \in Nat PROVE Promised(r, m)
<1>1. Sends(r, 0, 0) /\ 0 \in 0..m /\ 0 <= 0
  BY SaysNothing, NothingBack
<1>2. Solid(<<>>, m)
  BY SolidNothing
<1> QED BY <1>1, <1>2, NoOutput DEF Promised

LEMMA PromisedFields ==
  ASSUME NEW r, NEW s, NEW m, Promised(r, m), s.kind = r.kind, s.wire = r.wire, s.buf = r.buf,
         s.resultSet = r.resultSet
  PROVE  Promised(s, m)
BY DEF Promised, Sends

LEMMA GainedNothing ==
  ASSUME NEW r \in Record, NEW m \in Nat, Promised(r, m), NEW s, s.wire = r.wire PROVE Gained(r, s, m)
<1> SUFFICES \E a \in 0..m : OutputIn(r.wire) = Bytes(0, a)
  <2>1. \A a \in 0..m : a <= a
    OBVIOUS
  <2> QED BY <2>1 DEF Gained
<1>1. r.wire \in Seq(Frame)
  BY DEF Record
<1>2. CASE r.kind = "streaming"
  <2>1. PICK n \in 0..m, e \in 0..m : Sends(r, n, e)
    BY <1>2 DEF Promised
  <2> QED BY <2>1, SaysOutput DEF Sends
<1>3. CASE r.kind = "legacy"
  BY <1>1, <1>3, SolidOutput DEF Promised
<1>4. CASE r.kind = "rpc"
  <2>1. OutputIn(r.wire) = Bytes(0, 0) /\ 0 \in 0..m
    BY <1>4, NoOutput, NothingKept DEF Promised
  <2> QED BY <2>1
<1> QED BY <1>2, <1>3, <1>4, KindCases

LEMMA StreamGains ==
  ASSUME NEW r, NEW s, s.kind = "streaming", NEW m \in Nat, NEW n \in Nat, NEW e, NEW k \in Nat, NEW j \in Nat,
         n <= k, k <= j, j <= m, Sends(r, n, e), Sends(s, k, j)
  PROVE  Promised(s, m) /\ Gained(r, s, m)
<1>1. n \in 0..m /\ k \in 0..m /\ j \in 0..m
  OBVIOUS
<1>2. Promised(s, m)
  BY <1>1 DEF Promised
<1>3. OutputIn(r.wire) = Bytes(0, n) /\ OutputIn(s.wire) = Bytes(0, k)
  BY SaysOutput DEF Sends
<1> QED BY <1>1, <1>2, <1>3 DEF Gained

\* The buffer or the wire of a plain or a legacy answer.
LEMMA SolidText ==
  ASSUME NEW frames \in Seq(Frame), Raw(frames), NEW n \in Nat, NEW m \in Nat, n <= m, Text(frames) = Bytes(0, n)
  PROVE  Solid(frames, m) /\ OutputIn(frames) = Bytes(0, n)
<1>1. n \in 0..m
  OBVIOUS
<1>2. Solid(frames, m)
  BY <1>1 DEF Solid
<1> QED BY <1>2, SolidOutput

LEMMA SolidJoin ==
  ASSUME NEW frames \in Seq(Frame), Raw(frames), NEW bytes, NEW d \in Nat, NEW e \in Nat, NEW m \in Nat,
         d <= e, e <= m, Text(frames) = Bytes(0, d), bytes = Bytes(d, e)
  PROVE  LET t == Join(frames, RawFrame(bytes)) IN
         t \in Seq(Frame) /\ Solid(t, m) /\ OutputIn(t) = Bytes(0, e) /\ OutputIn(frames) = Bytes(0, d)
<1> DEFINE t == Join(frames, RawFrame(bytes))
<1>1. bytes \in Seq(Nat)
  BY BytesType
<1>2. t \in Seq(Frame) /\ Raw(t) /\ Text(t) = Text(frames) \o bytes
  BY <1>1, RawJoin
<1> HIDE DEF t
<1>3. Bytes(0, d) \o Bytes(d, e) = Bytes(0, e)
  <2>1. 0 <= d
    OBVIOUS
  <2> QED BY <2>1, BytesJoin
<1>4. Solid(t, m) /\ OutputIn(t) = Bytes(0, e)
  BY <1>2, <1>3, SolidText
<1>5. OutputIn(frames) = Bytes(0, d)
  <2>1. d <= m
    OBVIOUS
  <2> QED BY <2>1, SolidText
<1> QED BY <1>2, <1>4, <1>5 DEF t

LEMMA PutGains ==
  ASSUME NEW r \in Record, NEW p \in Piece, NEW up \in BOOLEAN, NEW base64 \in BOOLEAN,
         NEW d \in Nat, NEW e \in Nat, NEW m \in Nat, d <= e, e <= m,
         Holds(r, d, base64), p.body = Bytes(d, e), Promised(r, m)
  PROVE  LET s == Put(r, p, up).r IN
         /\ s \in Record /\ s.kind = r.kind /\ Promised(s, m) /\ Gained(r, s, m)
         /\ r.kind = "streaming" => ~s.closed
<1> DEFINE w == Put(r, p, up)
           s == w.r
           f == RawFrame(p.body)
<1>1. CASE r.kind = "streaming"
  <2>1. PICK n \in 0..m, x \in 0..m : n <= x /\ Sends(r, n, x)
    BY <1>1 DEF Promised
  <2>2. Data(r.wire) \o Text(r.buf) = Bytes(0, d) /\ ~r.closed
    BY <1>1, StreamsDeliver DEF Holds, Streams
  <2>3. Data(r.wire) = Bytes(0, n) /\ Text(r.buf) = Bytes(n, x)
    BY <2>1 DEF Sends, Says
  <2>4. Bytes(0, n) \o Bytes(n, x) = Bytes(0, x)
    <3>1. 0 <= n /\ n \in Nat /\ x \in Nat
      OBVIOUS
    <3> QED BY <2>1, <3>1, BytesJoin
  <2>5. x = d /\ n \in Nat
    BY <2>2, <2>3, <2>4, BytesFrom0
  <2>6. /\ s \in Record /\ s.kind = "streaming" /\ ~s.closed
        /\ \E k, j \in Nat : n <= k /\ k <= j /\ j <= e /\ Sends(s, k, j)
    BY <1>1, <2>1, <2>2, <2>5, PutSends
  <2> HIDE DEF s
  <2>7. PICK k \in Nat, j \in Nat : n <= k /\ k <= j /\ j <= e /\ Sends(s, k, j)
    BY <2>6
  <2>8. j <= m
    BY <2>7
  <2>9. Promised(s, m) /\ Gained(r, s, m)
    BY <2>1, <2>5, <2>6, <2>7, <2>8, StreamGains
  <2> QED BY <1>1, <2>6, <2>9 DEF s
<1>2. CASE r.kind # "streaming"
  <2>1. /\ w.r \in Record /\ w.r.kind = r.kind /\ w.r.resultSet = r.resultSet
        /\ w.err # "nil" => w.r = r
        /\ w.err = "nil" => /\ w.r.buf = IF r.kind = "rpc" THEN Join(r.buf, f) ELSE r.buf
                            /\ w.r.wire = IF r.kind = "rpc" THEN r.wire ELSE Join(r.wire, f)
    BY <1>2, WriteJoins
  <2>2. r.wire \in Seq(Frame) /\ r.buf \in Seq(Frame)
    BY DEF Record
  <2> HIDE DEF w
  <2>3. CASE w.err # "nil"
    <3>1. Gained(r, r, m)
      BY GainedNothing
    <3> QED BY <1>2, <2>1, <2>3, <3>1 DEF w
  <2>4. CASE w.err = "nil" /\ r.kind = "rpc"
    <3>1. Raw(r.buf) /\ Text(r.buf) = Bytes(0, d) /\ ~r.resultSet /\ r.wire = <<>>
      BY <2>4 DEF Holds
    <3>2. Solid(Join(r.buf, f), m)
      BY <2>2, <3>1, SolidJoin
    <3> HIDE DEF f
    <3>3. Promised(s, m)
      BY <2>1, <2>4, <3>1, <3>2 DEF Promised
    <3>4. Gained(r, s, m)
      BY <2>1, <2>4, GainedNothing
    <3> QED BY <1>2, <2>1, <3>3, <3>4 DEF w
  <2>5. CASE w.err = "nil" /\ r.kind = "legacy"
    <3>1. Raw(r.wire) /\ Text(r.wire) = Bytes(0, d)
      BY <2>5 DEF Holds
    <3>2. Solid(Join(r.wire, f), m) /\ OutputIn(Join(r.wire, f)) = Bytes(0, e) /\ OutputIn(r.wire) = Bytes(0, d)
      BY <2>2, <3>1, SolidJoin
    <3> HIDE DEF f
    <3>3. s.wire = Join(r.wire, f) /\ s.kind = "legacy"
      BY <2>1, <2>5
    <3>4. Promised(s, m)
      BY <3>2, <3>3 DEF Promised
    <3>5. d \in 0..m /\ e \in 0..m
      OBVIOUS
    <3>6. Gained(r, s, m)
      BY <3>2, <3>3, <3>5 DEF Gained
    <3> QED BY <1>2, <2>1, <3>4, <3>6 DEF w
  <2> QED BY <1>2, <2>3, <2>4, <2>5, KindCases
<1> QED BY <1>1, <1>2

\* The output is a stranger to the library's texts.
LEMMA OutputText ==
  ASSUME NEW f \in Frame, f.body = <<>> \/ 0 \in Range(f.body) PROVE OutputIn(<<f>>) = <<>>
<1>1. <<f>> \in Seq(Frame) /\ Len(<<f>>) = 1 /\ <<f>>[1] = f
  OBVIOUS
<1> HIDE DEF OutputIn
<1> QED BY <1>1, OutputOne

LEMMA ResultGains ==
  ASSUME NEW r \in Record, Fresh(r), NEW v \in {OK, Null}, NEW up \in BOOLEAN, NEW m \in Nat
  PROVE  LET s == SetResult(r, v, up).r IN
         /\ s \in Record /\ s.kind = r.kind /\ Promised(s, m) /\ Gained(r, s, m)
         /\ r.kind = "streaming" => ~s.closed
<1> DEFINE o == SetResult(r, v, up)
           s == o.r
<1>1. r.wire = <<>> /\ r.buf = <<>> /\ ~r.closed /\ ~r.resultSet /\ Promised(r, m)
  BY PromisedFresh DEF Fresh
<1>2. v \in Value /\ o \in Outcome
  <2>1. v \in Value
    BY ValueTypes
  <2> QED BY <2>1, SetResultType
<1>3. s \in Record
  BY <1>2 DEF Outcome
<1>4. CASE r.kind = "streaming"
  <2>1. Sends(r, 0, 0) /\ 0 <= 0
    BY <1>1, SaysNothing, NothingBack
  <2>2. v \in {OK, Null, Done}
    OBVIOUS
  <2>3. s.kind = "streaming" /\ ~s.closed /\ \E k \in {0, 0} : Sends(s, k, k)
    BY <1>1, <1>4, <2>1, <2>2, ResultSends
  <2> HIDE DEF s
  <2>4. Sends(s, 0, 0) /\ 0 <= m
    BY <2>3
  <2>5. Promised(s, m) /\ Gained(r, s, m)
    BY <2>1, <2>3, <2>4, StreamGains
  <2> QED BY <1>3, <1>4, <2>3, <2>5 DEF s
<1>5. CASE r.kind = "legacy"
  <2> DEFINE f == RawFrame(v.body)
             w == LimitedWrite(r, f, Len(v.body), up)
  <2>1. o = IF v.tag = "null" THEN Success(r) ELSE w
    BY <1>5 DEF SetResult, SetResultLegacy
  <2>2. s = r \/ (v = OK /\ s.kind = r.kind /\ s.wire = Join(r.wire, f))
    <3>1. CASE v = Null
      <4>1. v.tag = "null"
        BY <3>1 DEF Null
      <4> QED BY <2>1, <4>1 DEF Success
    <3>2. CASE v = OK
      <4>1. v.tag # "null"
        BY <3>2 DEF OK
      <4>2. r.room \in Nat /\ Len(v.body) \in Nat /\ r.wire \in Seq(Frame)
        BY <1>2 DEF Record, Value
      <4>3. w.r = r \/ (w.r.kind = r.kind /\ w.r.wire = Join(r.wire, f))
        <5> DEFINE size == Len(v.body)
        <5> HIDE DEF size, f
        <5> QED BY <1>5, <4>2 DEF LimitedWrite, Success, Failure, Record
      <4> QED BY <2>1, <3>2, <4>1, <4>3
    <3> QED BY <3>1, <3>2
  <2> HIDE DEF o
  <2>3. CASE s = r
    <3>1. Gained(r, r, m)
      BY <1>1, GainedNothing
    <3> QED BY <1>1, <1>3, <1>5, <2>3, <3>1 DEF o
  <2>4. CASE v = OK /\ s.kind = r.kind /\ s.wire = Join(r.wire, f)
    <3>1. OK.body \in Seq(Nat) /\ 0 \in Range(OK.body)
      <4>1. DOMAIN OK.body = 1..2 /\ OK.body[1] = 0 /\ OK.body \in Seq(Nat)
        BY DEF OK
      <4>2. 1 \in 1..2
        OBVIOUS
      <4> QED BY <4>1, <4>2 DEF Range
    <3>2. <<>> \in Seq(Frame)
      OBVIOUS
    <3>3. LET j == Join(<<>>, RawFrame(OK.body)) IN Raw(j) /\ Text(j) = <<>> \o OK.body
      BY <3>1, <3>2, NothingKept, RawJoin
    <3>4. <<>> \o OK.body = OK.body
      BY <3>1, ConcatEmptySeq
    <3>5. Solid(s.wire, m)
      BY <1>1, <2>4, <3>1, <3>3, <3>4, NothingKept DEF Solid
    <3>6. Promised(s, m)
      BY <1>5, <2>4, <3>5 DEF Promised
    <3>7. OutputIn(s.wire) = Bytes(0, 0)
      <4>1. Join(<<>>, RawFrame(OK.body)) = <<RawFrame(OK.body)>>
        BY DEF Join
      <4>2. RawFrame(OK.body) \in Frame /\ RawFrame(OK.body).body = OK.body
        BY <3>1, FrameTypes DEF RawFrame
      <4>3. OutputIn(<<RawFrame(OK.body)>>) = <<>>
        BY <3>1, <4>2, OutputText
      <4> QED BY <1>1, <2>4, <4>1, <4>3, NothingKept
    <3>8. 0 \in 0..m /\ 0 <= 0 /\ OutputIn(r.wire) = Bytes(0, 0)
      BY <1>1, NoOutput, NothingKept
    <3>9. Gained(r, s, m)
      BY <3>7, <3>8 DEF Gained
    <3> QED BY <1>3, <1>5, <2>4, <3>6, <3>9 DEF o
  <2> QED BY <2>2, <2>3, <2>4
<1>6. CASE r.kind = "rpc"
  <2>1. /\ Kept(r, s) /\ (s.resultSet <=> r.id # "absent")
        /\ r.id = "absent" => o = Success(r)
        /\ s.buf \in {<<>>, <<ResultFrame(r.id, v)>>}
    BY <1>1, <1>2, <1>6, RpcResult
  <2> HIDE DEF o
  <2>2. Gained(r, s, m)
    BY <1>1, <2>1, GainedNothing DEF Kept
  <2>3. CASE r.id = "absent"
    <3>1. s = r
      BY <2>1, <2>3 DEF Success
    <3> QED BY <1>1, <1>3, <1>6, <2>2, <3>1 DEF o
  <2>4. CASE r.id # "absent"
    <3>1. OutputIn(<<ResultFrame(r.id, v)>>) = <<>>
      <4>1. r.id \in Ids
        BY DEF Record
      <4>2. ResultFrame(r.id, v) \in Frame
        BY <1>2, <4>1, FrameTypes
      <4>3. v \in {OK, Null, Done}
        OBVIOUS
      <4>4. ResultFrame(r.id, v).body = <<>> \/ 0 \in Range(ResultFrame(r.id, v).body)
        BY <4>1, <4>3, TextBodies
      <4> QED BY <4>2, <4>4, OutputText
    <3>2. OutputIn(s.buf) = <<>> /\ s.wire = <<>> /\ s.kind = "rpc" /\ s.resultSet
      BY <1>1, <2>1, <2>4, <3>1, NoOutput DEF Kept
    <3>3. Promised(s, m)
      BY <3>2 DEF Promised
    <3> QED BY <1>3, <1>6, <2>2, <3>2, <3>3 DEF o
  <2> QED BY <2>3, <2>4
<1> QED BY <1>4, <1>5, <1>6, KindCases

LEMMA ErrorGains ==
  ASSUME NEW r \in Record, NEW b \in Errors, NEW up \in BOOLEAN, NEW m \in Nat, Promised(r, m),
         r.kind = "streaming" => Ordered(r), r.kind = "rpc" => ~r.dataSent
  PROVE  LET s == SetError(r, b, up).r IN
         s \in Record /\ s.kind = r.kind /\ Promised(s, m) /\ Gained(r, s, m)
<1> DEFINE s == SetError(r, b, up).r
<1>1. s \in Record
  BY SetErrorType DEF Outcome
<1>2. Gained(r, r, m)
  BY GainedNothing
<1>3. CASE r.kind = "streaming" /\ r.closed
  <2>1. s = r
    BY <1>3, ClosedStays
  <2> HIDE DEF s
  <2> QED BY <1>1, <1>2, <2>1 DEF s
<1>4. CASE r.kind = "streaming" /\ ~r.closed
  <2>1. PICK n \in 0..m, e \in 0..m : n <= e /\ Sends(r, n, e)
    BY <1>4 DEF Promised
  <2>2. n \in Nat /\ e \in Nat
    OBVIOUS
  <2>3. s.kind = "streaming" /\ \E k \in {n, e} : Sends(s, k, k)
    BY <1>4, <2>1, <2>2, ErrorSends
  <2> HIDE DEF s
  <2>4. PICK k \in {n, e} : Sends(s, k, k)
    BY <2>3
  <2>5. n <= k /\ k <= k /\ k <= m /\ k \in Nat
    BY <2>1
  <2>6. Promised(s, m) /\ Gained(r, s, m)
    BY <2>1, <2>2, <2>3, <2>4, <2>5, StreamGains
  <2> QED BY <1>1, <1>4, <2>3, <2>6 DEF s
<1>5. CASE r.kind = "legacy"
  <2>1. s = r
    BY <1>5 DEF SetError, Success
  <2> HIDE DEF s
  <2> QED BY <1>1, <1>2, <2>1 DEF s
<1>6. CASE r.kind = "rpc"
  <2>1. /\ Kept(r, s)
        /\ r.id = "absent" => s = r
        /\ r.id # "absent" => s.resultSet /\ s.buf = <<ErrorFrame(r.id, b)>>
    BY <1>6, RpcError
  <2> HIDE DEF s
  <2>2. Gained(r, s, m)
    BY <2>1, GainedNothing DEF Kept
  <2>3. CASE r.id = "absent"
    BY <1>1, <2>1, <2>2, <2>3 DEF s
  <2>4. CASE r.id # "absent"
    <3>1. OutputIn(<<ErrorFrame(r.id, b)>>) = <<>>
      <4>1. r.id \in Ids
        BY DEF Record
      <4>2. ErrorFrame(r.id, b) \in Frame /\ ErrorFrame(r.id, b).body = <<>>
        BY <4>1, FrameTypes, TextBodies
      <4> QED BY <4>2, OutputText
    <3>2. Promised(s, m)
      BY <1>6, <2>1, <2>4, <3>1 DEF Promised, Kept
    <3> QED BY <1>1, <1>6, <2>1, <2>2, <3>2 DEF s, Kept
  <2> QED BY <2>3, <2>4
<1> QED BY <1>3, <1>4, <1>5, <1>6, KindCases

\* Close sends what is left, and the end: of an answer that holds the whole output it
\* leaves nothing out, if it does not fail.
Closes(r, z, m) ==
  /\ Gained(r, z, m)
  /\ Tells(z) = "success" /\ (\E base64 : Holds(r, m, base64)) => OutputIn(z.wire) = Bytes(0, m)

LEMMA CloseStreamGains ==
  ASSUME NEW r \in Record, r.kind = "streaming", ~r.closed, Ordered(r), NEW up \in BOOLEAN,
         NEW m \in Nat, Promised(r, m)
  PROVE  LET z == Close(r, up).r IN
         z.kind = "streaming" /\ Tells(z) \in {"open", "success"} /\ Closes(r, z, m)
<1> DEFINE z == Close(r, up).r
<1>1. PICK n \in 0..m, e \in 0..m : n <= e /\ Sends(r, n, e)
  BY DEF Promised
<1>2. n \in Nat /\ e \in Nat
  OBVIOUS
<1>3. /\ z.kind = "streaming" /\ Tells(z) \in {"open", "success"}
      /\ \E k \in {n, e} : Sends(z, k, k) /\ (Tells(z) = "success" => k = e)
  BY <1>1, <1>2, CloseSends
<1> HIDE DEF z
<1>4. PICK k \in {n, e} : Sends(z, k, k) /\ (Tells(z) = "success" => k = e)
  BY <1>3
<1>5. n <= k /\ k <= k /\ k <= m /\ k \in Nat
  BY <1>1
<1>6. Gained(r, z, m)
  BY <1>1, <1>2, <1>3, <1>4, <1>5, StreamGains
<1>7. ASSUME Tells(z) = "success", NEW base64, Holds(r, m, base64) PROVE OutputIn(z.wire) = Bytes(0, m)
  <2>1. Data(r.wire) \o Text(r.buf) = Bytes(0, m)
    BY <1>7, StreamsDeliver DEF Holds
  <2>2. Data(r.wire) = Bytes(0, n) /\ Text(r.buf) = Bytes(n, e)
    BY <1>1 DEF Sends, Says
  <2>3. Bytes(0, n) \o Bytes(n, e) = Bytes(0, e)
    <3>1. 0 <= n
      OBVIOUS
    <3> QED BY <1>1, <1>2, <3>1, BytesJoin
  <2>4. e = m
    BY <1>2, <2>1, <2>2, <2>3, BytesFrom0
  <2>5. Sends(z, m, m)
    BY <1>4, <1>7, <2>4
  <2> QED BY <2>5, SaysOutput DEF Sends
<1> QED BY <1>3, <1>6, <1>7 DEF Closes, z

LEMMA RpcAbsent ==
  ASSUME NEW r \in Record, r.kind = "rpc", ~r.dataSent, ~r.resultSet, r.id = "absent", r.wire = <<>>,
         NEW up \in BOOLEAN
  PROVE  Close(r, up).r.wire = <<>>
<1> DEFINE r1 == [r EXCEPT !.dataSent = TRUE]
           q == [MaxResponse(r1, 0) EXCEPT !.buf = <<>>]
           v == TextValue(Text(r.buf))
           s == SetResult(q, v, up)
<1>1. /\ q \in Record /\ q.kind = "rpc" /\ q.buf = <<>> /\ ~q.resultSet /\ q.id = "absent" /\ q.wire = <<>>
  <2>1. r1 \in Record /\ r1.kind = "rpc" /\ ~r1.resultSet /\ r1.id = "absent" /\ r1.wire = <<>>
    BY DEF Record
  <2> HIDE DEF r1
  <2>2. MaxResponse(r1, 0) \in Record
    BY <2>1, MaxResponseType
  <2>3. LET x == MaxResponse(r1, 0) IN x.kind = "rpc" /\ ~x.resultSet /\ x.id = "absent" /\ x.wire = <<>>
    BY <2>1 DEF MaxResponse, Record
  <2> DEFINE x == MaxResponse(r1, 0)
  <2> HIDE DEF x
  <2> QED BY <2>2, <2>3, Emptied DEF Record, x
<1>2. s = Success(q)
  BY <1>1 DEF SetResult, SetResultRpc
<1>3. Close(r, up) = IF up THEN Success([s.r EXCEPT !.wire = @ \o s.r.buf, !.buf = <<>>])
                     ELSE Failure([s.r EXCEPT !.buf = <<>>], "EIO")
  <2>1. s.err = "nil"
    BY <1>2 DEF Success
  <2> HIDE DEF q, v
  <2> QED BY <2>1 DEF Close, CloseRpc, q, v, r1
<1> HIDE DEF q, s
<1>4. s.r = q
  BY <1>2 DEF Success
<1>5. <<>> \o <<>> = <<>>
  OBVIOUS
<1> QED BY <1>1, <1>3, <1>4, <1>5 DEF Success, Failure, Record

LEMMA CloseRpcGains ==
  ASSUME NEW r \in Record, r.kind = "rpc", ~r.dataSent, NEW up \in BOOLEAN, NEW m \in Nat, Promised(r, m),
         NEW failed \in BOOLEAN,
         IF r.resultSet THEN Answers(r, r.buf, failed) ELSE ~failed \/ r.id = "absent"
  PROVE  LET z == Close(r, up).r IN
         z.kind = "rpc" /\ Tells(z) \in {"open", IF failed THEN "failure" ELSE "success"} /\ Closes(r, z, m)
<1> DEFINE z == Close(r, up).r
           v == TextValue(Text(r.buf))
           f == ResultFrame(r.id, v)
<1>1. r.wire = <<>> /\ r.buf \in Seq(Frame) /\ r.id \in Ids
  BY DEF Promised, Record
<1>2. z.wire \in {<<>>, IF r.resultSet THEN r.buf ELSE <<f>>} /\ z.kind = "rpc"
  BY <1>1, KeepsKind, RpcCloseSends
<1>3. ~r.resultSet /\ r.id = "absent" => z.wire = <<>>
  BY <1>1, RpcAbsent
<1> HIDE DEF z
<1>4. OutputIn(r.wire) = Bytes(0, 0) /\ 0 \in 0..m
  BY <1>1, NoOutput, NothingKept
<1>5. CASE z.wire = <<>>
  <2>1. Tells(z) = "open"
    BY <1>5 DEF Tells
  <2>2. Gained(r, z, m)
    BY <1>1, <1>5, GainedNothing
  <2> QED BY <1>2, <2>1, <2>2 DEF Closes, z
<1>6. CASE z.wire = r.buf /\ r.resultSet
  <2>1. OutputIn(z.wire) = <<>>
    BY <1>6 DEF Promised
  <2>2. Gained(r, z, m)
    <3>1. OutputIn(z.wire) = Bytes(0, 0) /\ 0 <= 0
      BY <2>1, NothingKept
    <3> QED BY <1>4, <3>1 DEF Gained
  <2>3. Len(r.buf) = 1 /\ (r.buf[1].tag = "error" <=> failed)
    BY <1>6 DEF Answers
  <2>4. r.buf # <<>> /\ Last(r.buf) = r.buf[1]
    BY <1>1, <2>3 DEF Last
  <2>5. Tells(z) = IF failed THEN "failure" ELSE "success"
    BY <1>2, <1>6, <2>3, <2>4 DEF Tells
  <2>6. \A base64 : ~Holds(r, m, base64)
    BY <1>6 DEF Holds
  <2> QED BY <1>2, <2>2, <2>5, <2>6 DEF Closes, z
<1>7. CASE z.wire = <<f>> /\ ~r.resultSet /\ z.wire # <<>>
  <2>1. Text(r.buf) \in Seq(Nat) /\ Solid(r.buf, m)
    BY <1>1, <1>7, TextType DEF Promised
  <2>2. f \in Frame /\ f.body = Text(r.buf) /\ f.tag = "result"
    <3>1. v \in Value
      BY <2>1, ValueTypes
    <3>2. f \in Frame
      BY <1>1, <3>1, FrameTypes
    <3> QED BY <3>2 DEF ResultFrame, TextValue
  <2> HIDE DEF f
  <2>3. <<f>> \in Seq(Frame) /\ Len(<<f>>) = 1 /\ <<f>>[1] = f
    BY <2>2
  <2>4. OutputIn(z.wire) = IF 0 \in Range(Text(r.buf)) THEN <<>> ELSE Text(r.buf)
    BY <1>7, <2>2, <2>3, OutputOne
  <2>5. PICK n \in 0..m : OutputIn(z.wire) = Bytes(0, n)
    <3>1. CASE 0 \in Range(Text(r.buf))
      BY <1>4, <2>4, <3>1, NothingKept
    <3>2. CASE 0 \notin Range(Text(r.buf))
      BY <2>1, <2>4, <3>2 DEF Solid
    <3> QED BY <3>1, <3>2
  <2>6. Gained(r, z, m)
    <3>1. 0 <= n
      OBVIOUS
    <3> QED BY <1>4, <2>5, <3>1 DEF Gained
  <2>7. ~failed
    BY <1>3, <1>7
  <2>8. Tells(z) = "success"
    <3>1. Last(z.wire) = f
      BY <1>7, <2>3 DEF Last
    <3> QED BY <1>2, <1>7, <2>2, <3>1 DEF Tells
  <2>9. ASSUME NEW base64, Holds(r, m, base64) PROVE OutputIn(z.wire) = Bytes(0, m)
    <3>1. Text(r.buf) = Bytes(0, m)
      BY <2>9 DEF Holds
    <3>2. 0 \notin Range(Bytes(0, m))
      <4>1. 0 <= m
        OBVIOUS
      <4> QED BY <4>1, NoZero
    <3> QED BY <2>4, <3>1, <3>2
  <2> QED BY <1>2, <2>6, <2>7, <2>8, <2>9 DEF Closes, z
<1> QED BY <1>2, <1>5, <1>6, <1>7

-----------------------------------------------------------------------------
(* How a method ends, and what the handler knows of it.                     *)

\* A child is reaped last; Invoke returns something; an answer without one has failed,
\* or nobody wants it.
Resolved ==
  /\ child.st = "reaped" => cp = "done"
  /\ inv \notin {"none", "invoke"} => val # "-"
  /\ inv \in {"exit", "exited"} /\ val \in {"prepare", "start"} /\ err = "nil" /\ left # "forced" => Cut

LEMMA ResolvedInit == Init => Resolved
BY DEF Init, Resolved, NoChild

LEMMA ResolvedHandler ==
  TypeOK /\ Control /\ Resolved /\ Handler => Resolved'
<1> SUFFICES ASSUME TypeOK, Control, Resolved, Handler PROVE Resolved'
  OBVIOUS
<1>1. /\ UNCHANGED <<val, child, cp>>
      /\ inv' = inv \/ (inv = "none" /\ inv' = "invoke")
      /\ inv # "none" /\ inv' # "none" => h \notin {"read", "process"}
      /\ left = "forced" => left' = "forced"
      /\ err' = err \/ h \in {"read", "process"} \/ err' # "nil"
  BY HandlerSteps
<1>2. Cut => Cut'
  BY CutStays DEF Next
<1> QED BY <1>1, <1>2 DEF Resolved

LEMMA ResolvedInvoker ==
  TypeOK /\ Control /\ PipeInv /\ CutInv /\ Resolved /\ Invoker => Resolved'
<1> SUFFICES ASSUME TypeOK, Control, PipeInv, CutInv, Resolved, Invoker PROVE Resolved'
  OBVIOUS
<1>1. UNCHANGED <<rq, h, left, ctx, conn>> /\ inv \notin {"none", "exited"} /\ inv' \notin {"none", "invoke"}
  BY InvokerSteps
<1>2. Cut' = Cut
  BY <1>1 DEF Cut
<1>3. CASE Invoke
  <2>1. inv = "invoke" /\ inv' \in {"deliver", "flush"} /\ val' # "-"
    BY <1>3 DEF Invoke
  <2>2. child'.st = "reaped" => cp' = "done"
    BY <1>3 DEF Invoke, NoChild, Resolved
  <2> QED BY <2>1, <2>2 DEF Resolved
<1>4. CASE ~Invoke
  <2>1. UNCHANGED <<val, child>>
    BY <1>4, InvokerSteps
  <2>2. child'.st = "reaped" => cp' = "done"
    BY <1>4, <2>1 DEF Resolved, Invoker, DeferFlush, Deliver, SetResponseError, SetResponseResult, ReadPipe,
       ReadEnd, CheckWrite, PutPiece, CloseDone, output
  <2>3. val' # "-"
    <3>1. inv # "invoke"
      BY <1>4 DEF Invoker, Invoke, DeferFlush, Deliver, SetResponseError, SetResponseResult, ReadPipe,
                  ReadEnd, CheckWrite, PutPiece, CloseDone
    <3> QED BY <1>1, <2>1, <3>1 DEF Resolved
  <2>4. inv' \in {"exit", "exited"} /\ val' \in {"prepare", "start"} /\ err' = "nil" /\ left' # "forced" => Cut'
    <3> SUFFICES ASSUME inv' \in {"exit", "exited"}, val \in {"prepare", "start"}, err' = "nil", left # "forced"
                 PROVE  Cut
      BY <1>1, <1>2, <2>1
    <3>1. CASE Deliver
      <4>1. inv = "deliver" /\ ctx # "live"
        BY <3>1 DEF Deliver
      <4>2. h \in InProcess
        BY <4>1, Busy
      <4> QED BY <4>1, <4>2 DEF CutInv, Cut, TypeOK, InProcess, Closing, Over
    <3>2. CASE CloseDone
      BY <3>2 DEF CloseDone, Resolved
    <3>3. ~SetResponseError /\ ~SetResponseResult
      BY DEF SetResponseError, SetResponseResult
    <3>4. inv \notin {"copy", "check", "put"}
      BY DEF PipeInv
    <3> QED BY <1>4, <3>1, <3>2, <3>3, <3>4 DEF Invoker, DeferFlush, ReadPipe, ReadEnd, CheckWrite, PutPiece
  <2> QED BY <2>2, <2>3, <2>4 DEF Resolved
<1> QED BY <1>3, <1>4

\* Only Wait reaps a child.
LEMMA ReapedBefore ==
  ASSUME TypeOK,
         \/ Kill \/ Cancel \/ Environment \/ Flush \/ UNCHANGED vars
         \/ WakeUp \/ CopyChunk \/ StdoutEnd \/ WriteRejected
  PROVE  /\ child'.st = "reaped" => child.st = "reaped"
         /\ child.st = "reaped" => child'.st = "reaped" /\ child'.status = child.status
<1>1. \A how \in {"ok", "failed", "killed"} : Ended(child, how).st = "exited"
  BY DEF Ended, TypeOK, Child
<1>2. CASE Kill \/ Cancel \/ Environment \/ Flush \/ UNCHANGED vars
  <2>1. child'.st = "reaped" => child.st = "reaped"
    BY <1>1, <1>2 DEF Kill, Cancel, Environment, Flush, Emit, Exit, CloseStdout, Deadline, Stall, Disconnect, vars,
                      output, TypeOK, Child
  <2> QED BY <1>2, <2>1, ChildSteps
<1>3. CASE WakeUp \/ CopyChunk \/ StdoutEnd \/ WriteRejected
  BY <1>1, <1>3 DEF WakeUp, CopyChunk, StdoutEnd, WriteRejected, TypeOK, Child
<1> QED BY <1>2, <1>3

LEMMA ResolvedNext ==
  TypeOK /\ Control /\ PipeInv /\ CutInv /\ Resolved /\ [Next]_vars => Resolved'
<1> SUFFICES ASSUME TypeOK, Control, PipeInv, CutInv, Resolved, [Next]_vars PROVE Resolved'
  OBVIOUS
<1>1. CASE Handler \/ Invoker
  BY <1>1, ResolvedHandler, ResolvedInvoker
<1>2. CASE Flush \/ Copier \/ Kill \/ Cancel \/ Environment \/ UNCHANGED vars
  <2>1. UNCHANGED <<left, inv, val, err>>
    BY <1>2, OtherSteps
  <2>2. Cut => Cut'
    BY <1>2, CutStays DEF Next
  <2>3. child'.st = "reaped" => cp' = "done"
    <3>1. CASE Kill \/ Cancel \/ Environment \/ Flush \/ UNCHANGED vars
      BY <3>1, ChildSteps, ReapedBefore DEF Resolved
    <3>2. CASE WakeUp \/ CopyChunk \/ StdoutEnd \/ WriteRejected
      <4>1. cp # "done"
        BY <3>2 DEF WakeUp, CopyChunk, StdoutEnd, WriteRejected
      <4> QED BY <3>2, <4>1, ReapedBefore DEF Resolved
    <3>3. CASE Wait
      BY <3>3 DEF Wait
    <3> QED BY <1>2, <3>1, <3>2, <3>3 DEF Copier
  <2> QED BY <2>1, <2>2, <2>3 DEF Resolved
<1> QED BY <1>1, <1>2 DEF Next

LEMMA AvailableFit ==
  ASSUME TypeOK
  PROVE  /\ Available \in Nat /\ rq.base64 \in BOOLEAN
         /\ Available = IF val = "reader" THEN Fit(child.wrote, rq.base64) ELSE 0
<1>1. child.wrote \in Nat /\ rq.base64 \in BOOLEAN
  BY ChildType
<1>2. Available = IF val = "reader" THEN Fit(child.wrote, rq.base64) ELSE 0
  BY DEF Available, Encodes, Fit
<1>3. Fit(child.wrote, rq.base64) \in Nat
  BY <1>1, FitProperties
<1> QED BY <1>1, <1>2, <1>3

\* What the handler takes for a success has succeeded, if nobody has cut it short.
LEMMA Complete ==
  ASSUME TypeOK, Control, ContentInv, Early, Resolved, h = "closeend", left # "forced", err = "nil", ~Cut
  PROVE  DoneWell /\ (Holds(rsp, Available, rq.base64) \/ Available = 0)
<1>1. inv \in {"exit", "exited"}
  <2>1. inv \in {"none", "exit", "exited"} /\ inv # "none"
    BY Busy, LeftEarly DEF Closing
  <2> QED BY <2>1
<1>2. CASE val = "reader"
  <2>1. Succeeding
    BY <1>1, <1>2 DEF Succeeding
  <2>2. PICK d \in Nat : pw = "eof" /\ HasAll(d)
    BY <2>1 DEF ContentInv, Finished
  <2>3. d = Available /\ Holds(rsp, d, rq.base64)
    BY <1>2, <2>2, AvailableFit DEF HasAll, Full
  <2>4. child.st = "reaped" /\ child.status = "ok"
    BY <1>2, <2>2 DEF ContentInv, ReaderInv
  <2> QED BY <2>3, <2>4 DEF DoneWell
<1>3. CASE val # "reader"
  <2>1. Available = 0
    BY <1>3, AvailableFit
  <2>2. val # "-" /\ val \notin {"prepare", "start"}
    BY <1>1 DEF Resolved
  <2> QED BY <1>3, <2>1, <2>2 DEF DoneWell, TypeOK
<1> QED BY <1>2, <1>3

\* Before ServeHTTP ends, the responser holds nothing but the output and texts.
PromiseInv == left # "forced" /\ h # "returned" => Promised(rsp, Available)

\* A stream that has been told an error ends with it, or it has already failed.
Failing ==
  left # "forced" /\ rsp.kind = "streaming" /\ h = "closeend" /\ err # "nil" =>
    rsp.closed \/ rsp.encErr # "nil"

LEMMA FailingNext ==
  TypeOK /\ Control /\ StreamInv /\ PromiseInv /\ Failing /\ [Next]_vars => Failing'
<1> SUFFICES ASSUME TypeOK, Control, StreamInv, PromiseInv, Failing, [Next]_vars,
                    left' # "forced", rsp'.kind = "streaming", h' = "closeend", err' # "nil"
             PROVE  rsp'.closed \/ rsp'.encErr # "nil"
  BY DEF Failing
<1>1. CASE Handler
  <2>1. left # "forced"
    BY <1>1, HandlerSteps
  <2>2. CASE CloseError
    <3>1. h = "closeerr" /\ \E up \in Transport : rsp' = SetError(rsp, err, up).r
      BY <2>2 DEF CloseError
    <3>2. PICK up \in BOOLEAN : rsp' = SetError(rsp, err, up).r
      BY <3>1, TransportType
    <3>3. rsp \in Record /\ err \in Errors
      BY DEF TypeOK
    <3>4. rsp.kind = "streaming"
      BY <3>2, <3>3, SetErrorHoldsBack DEF HeldBack
    <3>5. Ordered(rsp)
      BY <2>1, <3>4 DEF StreamInv
    <3>6. CASE rsp.closed
      BY <3>2, <3>3, <3>4, <3>5, <3>6, ClosedStays
    <3>7. CASE ~rsp.closed
      <4>1. PICK n \in 0..Available, e \in 0..Available : n <= e /\ Sends(rsp, n, e)
        BY <2>1, <3>1, <3>4 DEF PromiseInv, Promised
      <4>2. n \in Nat /\ e \in Nat
        OBVIOUS
      <4> QED BY <3>2, <3>3, <3>4, <3>5, <3>7, <4>1, <4>2, ErrorSends
    <3> QED BY <3>6, <3>7
  <2>3. CASE CloseBranch
    BY <2>3 DEF CloseBranch
  <2> QED BY <1>1, <2>2, <2>3 DEF Handler, ReadFromTransport, Process, SelectTimeout, SelectDone, CheckErr, GraceDone,
     GraceTimer, LeaveProcess, CloseEnd
<1>2. CASE Invoker
  <2>1. UNCHANGED <<h, left>> /\ inv \notin {"none", "exited"}
    BY <1>2, InvokerSteps
  <2>2. inv = "exit"
    BY <2>1, Busy DEF Closing
  <2>3. UNCHANGED <<err, rsp>>
    BY <1>2, <2>2 DEF Invoker, Invoke, DeferFlush, Deliver, SetResponseError, SetResponseResult, ReadPipe,
       ReadEnd, CheckWrite, PutPiece, CloseDone, output
  <2> QED BY <2>1, <2>3 DEF Failing
<1>3. CASE Flush \/ Copier \/ Kill \/ Cancel \/ Environment \/ UNCHANGED vars
  BY <1>3, OtherSteps DEF Failing
<1> QED BY <1>1, <1>2, <1>3 DEF Next

-----------------------------------------------------------------------------
(* Every step keeps the promise.                                            *)

\* What the abstract answer sees of a request.
seen == <<Available, DoneWell, Cut, OutputIn(rsp.wire), Told, left = "forced">>

\* The method and the clock stand still.
Still ==
  /\ Available' = Available /\ DoneWell' = DoneWell /\ Cut' = Cut
  /\ left # "forced" /\ left' # "forced"

\* The client may get more, and learn that it was all.
Goes ==
  /\ Gained(rsp, rsp', Available)
  /\ \/ Told' = Told /\ (Told = "open" \/ rsp'.wire = rsp.wire)
     \/ Told = "open" /\ Told' = "failure"
     \/ Told = "open" /\ Told' = "success" /\ (Cut \/ (DoneWell /\ OutputIn(rsp'.wire) = Bytes(0, Available)))

LEMMA OutputBytes == ASSUME NEW n \in Nat PROVE Promise!Output(n) = Bytes(0, n)
<1>1. n - 0 = n /\ \A i \in 1..n : 0 + i = i
  OBVIOUS
<1> QED BY <1>1 DEF Promise!Output, Bytes

LEMMA GoesNext ==
  ASSUME TypeOK, Still, Goes PROVE [Promise!Next]_seen
<1>1. Available \in Nat
  BY AvailableFit
<1>2. PICK a \in 0..Available, b \in 0..Available :
         a <= b /\ OutputIn(rsp.wire) = Bytes(0, a) /\ OutputIn(rsp'.wire) = Bytes(0, b)
  BY DEF Goes, Gained
<1>3. Len(OutputIn(rsp.wire)) = a /\ a \in Nat /\ b \in Nat
  BY <1>1, <1>2, BytesFrom0
<1>4. b \in Len(OutputIn(rsp.wire))..Available
  BY <1>1, <1>2, <1>3
<1>5. OutputIn(rsp'.wire) = Promise!Output(b)
  BY <1>2, <1>3, OutputBytes
<1>6. Promise!More
  <2>1. \E n \in Len(OutputIn(rsp.wire))..Available : OutputIn(rsp'.wire) = Promise!Output(n)
    BY <1>4, <1>5
  <2>2. UNCHANGED <<Available, DoneWell, Cut, left = "forced">>
    BY DEF Still
  <2> QED BY <2>1, <2>2 DEF Promise!More, Cut
<1>7. CASE Told' = Told /\ Told = "open"
  BY <1>6, <1>7 DEF Promise!Send, Promise!Next
<1>8. CASE Told' = Told /\ rsp'.wire = rsp.wire
  <2>1. OutputIn(rsp'.wire) = OutputIn(rsp.wire)
    BY <1>8
  <2>2. UNCHANGED seen
    BY <1>8, <2>1 DEF seen, Still
  <2> QED BY <2>2
<1>9. CASE Told = "open" /\ Told' = "failure"
  BY <1>6, <1>9 DEF Promise!Fail, Promise!Next
<1>10. CASE Told = "open" /\ Told' = "success" /\ (Cut \/ (DoneWell /\ OutputIn(rsp'.wire) = Bytes(0, Available)))
  <2>1. Bytes(0, Available) = Promise!Output(Available)
    BY <1>1, OutputBytes
  <2>2. Promise!Succeed
    BY <1>6, <1>10, <2>1 DEF Promise!Succeed, Cut
  <2> QED BY <2>2 DEF Promise!Next
<1> QED BY <1>7, <1>8, <1>9, <1>10 DEF Goes

LEMMA ToldIs ==
  /\ rsp.kind # "legacy" => Told = Tells(rsp)
  /\ rsp'.kind # "legacy" => Told' = Tells(rsp')
  /\ h \notin Over /\ (rsp.kind = "legacy" \/ rsp.wire = <<>>) => Told = "open"
  /\ h' \notin Over /\ (rsp'.kind = "legacy" \/ rsp'.wire = <<>>) => Told' = "open"
  /\ rsp'.kind = "legacy" /\ h' = "returned" => Told' = IF err' = "nil" THEN "success" ELSE "failure"
BY DEF Told, Tells, Over

LEMMA ToldSame ==
  ASSUME rsp'.kind = rsp.kind, rsp'.wire = rsp.wire, h \notin Over, h' \notin Over PROVE Told' = Told
<1>1. CASE rsp.kind = "legacy"
  BY <1>1, ToldIs
<1>2. CASE rsp.kind # "legacy"
  <2>1. Tells(rsp') = Tells(rsp)
    BY SameTells
  <2> QED BY <1>2, <2>1, ToldIs
<1> QED BY <1>1, <1>2

\* Nothing has become of the answer.
LEMMA Quietly ==
  ASSUME TypeOK, PromiseInv, Still, rsp'.kind = rsp.kind, rsp'.wire = rsp.wire, rsp'.buf = rsp.buf,
         rsp'.resultSet = rsp.resultSet, h \notin Over, h' \notin Over
  PROVE  PromiseInv' /\ Goes
<1>1. Promised(rsp, Available) /\ rsp \in Record /\ Available \in Nat /\ Available' = Available
  BY AvailableFit DEF PromiseInv, Still, Over, TypeOK
<1>2. Promised(rsp', Available')
  BY <1>1, PromisedFields
<1>3. Gained(rsp, rsp', Available)
  BY <1>1, GainedNothing
<1>4. Told' = Told
  BY ToldSame
<1> QED BY <1>2, <1>3, <1>4 DEF PromiseInv, Goes

\* The handler's steps leave the method alone.
LEMMA HandlerStill ==
  ASSUME TypeOK, Control, Handler, left' # "forced" PROVE Still
<1>1. /\ UNCHANGED <<rq, val, conn, child>>
      /\ left = "forced" => left' = "forced"
      /\ ctx' = ctx \/ (ctx = "live" /\ ctx' = "canceled")
  BY HandlerSteps
<1>2. Available' = Available /\ DoneWell' = DoneWell
  BY <1>1 DEF Available, Encodes, DoneWell
<1>3. Cut' = Cut
  BY <1>1 DEF Cut
<1> QED BY <1>1, <1>2, <1>3 DEF Still

LEMMA PromiseProcess ==
  ASSUME TypeOK, Control, StreamInv, ContentInv, Still, Process PROVE PromiseInv' /\ Goes
<1> DEFINE s == SetID(Upgrade(rsp, rq.plus), rq.id)
           m == MaxResponse(s, rq.limit)
<1>1. h = "process" /\ Fresh(rsp) /\ rsp \in Record
  BY DEF Process, ContentInv, FreshInv, TypeOK
<1>2. Fresh(s) /\ Fresh(m) /\ s \in Record /\ m \in Record
  BY <1>1, RequestTypes, FreshStart, UpgradeType, MaxResponseType
<1>3. rsp' \in {rsp, s, m} /\ h' \in {"close", "select"}
  BY DEF Process
<1> HIDE DEF s, m
<1>4. rsp' \in Record /\ rsp'.wire = <<>> /\ rsp'.buf = <<>> /\ rsp.wire = <<>> /\ rsp.buf = <<>>
  BY <1>1, <1>2, <1>3 DEF Fresh
<1>5. Available \in Nat /\ Available' = Available
  BY AvailableFit DEF Still
<1>6. Promised(rsp', Available') /\ Promised(rsp, Available)
  BY <1>1, <1>4, <1>5, PromisedFresh
<1>7. Gained(rsp, rsp', Available)
  BY <1>1, <1>4, <1>5, <1>6, GainedNothing
<1>8. Told = "open" /\ Told' = "open"
  BY <1>1, <1>3, <1>4, ToldIs DEF Over
<1> QED BY <1>6, <1>7, <1>8 DEF PromiseInv, Goes

LEMMA PromiseCloseBranch ==
  ASSUME TypeOK, StreamInv, PromiseInv, Still, CloseBranch PROVE PromiseInv' /\ Goes
<1> DEFINE u == Upgrade(rsp, rq.plus)
<1>1. h = "close" /\ h' \in {"closeend", "closeerr"} /\ rsp' \in {u, MaxResponse(u, 0)}
  BY DEF CloseBranch
<1>2. h \notin Over /\ h' \notin Over /\ rsp \in Record
  BY <1>1 DEF Over, TypeOK
<1>3. u \in Record
  BY <1>2, RequestTypes, UpgradeType
<1>4. rsp'.kind = u.kind /\ rsp'.wire = u.wire /\ rsp'.buf = u.buf /\ rsp'.resultSet = u.resultSet /\ rsp' \in Record
  <2> HIDE DEF u
  <2>1. MaxResponse(u, 0) \in Record
    BY <1>3, MaxResponseType
  <2>2. LET m == MaxResponse(u, 0) IN m.kind = u.kind /\ m.wire = u.wire /\ m.buf = u.buf /\ m.resultSet = u.resultSet
    BY <1>3 DEF MaxResponse, Record
  <2> QED BY <1>1, <1>3, <2>1, <2>2
<1>5. CASE rq.plus /\ rsp.kind = "legacy"
  <2>1. rsp.wire = <<>>
    BY <1>5 DEF StreamInv, Still
  <2>2. u.wire = <<>> /\ u.buf = <<>>
    BY <1>5, <2>1 DEF Upgrade, New
  <2> HIDE DEF u
  <2>3. Available \in Nat /\ Available' = Available /\ Promised(rsp, Available)
    BY <1>1, AvailableFit DEF Still, PromiseInv
  <2>4. Promised(rsp', Available') /\ Gained(rsp, rsp', Available)
    BY <1>2, <1>4, <2>1, <2>2, <2>3, PromisedFresh, GainedNothing
  <2>5. Told = "open" /\ Told' = "open"
    BY <1>2, <1>4, <2>1, <2>2, ToldIs
  <2> QED BY <2>4, <2>5 DEF PromiseInv, Goes
<1>6. CASE ~(rq.plus /\ rsp.kind = "legacy")
  <2>1. u = rsp
    BY <1>6 DEF Upgrade
  <2> HIDE DEF u
  <2> QED BY <1>2, <1>4, <2>1, Quietly
<1> QED BY <1>5, <1>6

\* An error that is told to the responser, by the handler or by the invoker.
LEMMA PromiseError ==
  ASSUME TypeOK, StreamInv, PromiseInv, Still, NEW b \in Errors, NEW up \in BOOLEAN,
         rsp' = SetError(rsp, b, up).r, h \notin Over, h' \notin Over, rsp.kind = "rpc" => ~rsp.dataSent
  PROVE  PromiseInv' /\ Goes
<1>1. Promised(rsp, Available) /\ rsp \in Record /\ Available \in Nat /\ Available' = Available
  BY AvailableFit DEF PromiseInv, Still, Over, TypeOK
<1>2. rsp.kind = "streaming" => Ordered(rsp)
  BY DEF StreamInv, Still
<1>3. rsp' \in Record /\ rsp'.kind = rsp.kind /\ Promised(rsp', Available) /\ Gained(rsp, rsp', Available)
  BY <1>1, <1>2, ErrorGains
<1>4. (Told' = Told /\ (Told = "open" \/ rsp'.wire = rsp.wire)) \/ (Told = "open" /\ Told' = "failure")
  <2>1. CASE rsp.kind = "streaming" /\ rsp.closed
    <3>1. rsp' = rsp
      BY <1>1, <1>2, <2>1, ClosedStays
    <3> QED BY <3>1, ToldSame
  <2>2. CASE rsp.kind = "streaming" /\ ~rsp.closed
    <3>1. PICK n \in 0..Available, e \in 0..Available : n <= e /\ Sends(rsp, n, e)
      BY <1>1, <2>2 DEF Promised
    <3>2. n \in Nat /\ e \in Nat
      OBVIOUS
    <3>3. Tells(rsp') \in {"open", "failure"} /\ Tells(rsp) = "open"
      BY <1>1, <1>2, <2>2, <3>1, <3>2, ErrorSends, OpenTells
    <3>4. Told = Tells(rsp) /\ Told' = Tells(rsp')
      BY <1>3, <2>2, ToldIs
    <3> QED BY <3>3, <3>4
  <2>3. CASE rsp.kind # "streaming"
    <3>1. rsp'.wire = rsp.wire
      <4>1. CASE rsp.kind = "legacy"
        BY <4>1 DEF SetError, Success
      <4>2. CASE rsp.kind = "rpc"
        BY <1>1, <4>2, RpcError DEF Kept
      <4> QED BY <1>1, <2>3, <4>1, <4>2, KindCases
    <3> QED BY <1>3, <3>1, ToldSame
  <2> QED BY <2>1, <2>2, <2>3
<1> QED BY <1>1, <1>3, <1>4 DEF PromiseInv, Goes

LEMMA PromiseCloseEnd ==
  ASSUME TypeOK, Control, StreamInv, ContentInv, AnswerInv, Early, Resolved, PromiseInv, Failing, Still, CloseEnd
  PROVE  PromiseInv' /\ Goes
<1>1. h = "closeend" /\ h' = "returned" /\ err' = err /\ \E up \in Transport : rsp' = Close(rsp, up).r
  BY DEF CloseEnd
<1>2. PICK up \in BOOLEAN : rsp' = Close(rsp, up).r
  BY <1>1, TransportType
<1>3. PromiseInv' /\ h \notin Over /\ left # "forced"
  BY <1>1 DEF PromiseInv, Over, Still
<1>4. Promised(rsp, Available) /\ rsp \in Record /\ Available \in Nat
  BY <1>1, <1>3, AvailableFit DEF PromiseInv, TypeOK
<1>5. rsp'.kind = rsp.kind
  BY <1>2, <1>4, KeepsKind
<1> DEFINE Everything == OutputIn(rsp'.wire) = Bytes(0, Available)
<1>6. ASSUME Told = "open", Told' \in {"open", IF err = "nil" THEN "success" ELSE "failure"},
             Gained(rsp, rsp', Available), Told' = "success" /\ Holds(rsp, Available, rq.base64) => Everything
      PROVE  Goes
  <2>1. CASE Told' # "success"
    BY <1>6, <2>1 DEF Goes
  <2>2. CASE Told' = "success"
    <3>1. err = "nil"
      BY <1>6, <2>2
    <3>2. Cut \/ (DoneWell /\ (Holds(rsp, Available, rq.base64) \/ Available = 0))
      BY <1>1, <1>3, <3>1, Complete
    <3>3. Available = 0 => Everything
      BY <1>6 DEF Gained
    <3>4. Cut \/ (DoneWell /\ Everything)
      BY <1>6, <2>2, <3>2, <3>3
    <3> QED BY <1>6, <2>2, <3>4 DEF Goes
  <2> QED BY <2>1, <2>2
<1> HIDE DEF Everything
<1>7. CASE rsp.kind = "streaming"
  <2>1. Ordered(rsp)
    BY <1>3, <1>7 DEF StreamInv
  <2>2. Told = Tells(rsp) /\ Told' = Tells(rsp')
    BY <1>5, <1>7, ToldIs
  <2>3. CASE rsp'.wire = rsp.wire
    <3>1. Told' = Told
      BY <1>5, <2>2, <2>3, SameTells
    <3>2. Gained(rsp, rsp', Available)
      BY <1>4, <2>3, GainedNothing
    <3> QED BY <1>3, <2>3, <3>1, <3>2 DEF Goes
  <2>4. rsp.closed => rsp'.wire = rsp.wire
    <3>1. "nil" \in Errors
      BY DEF Errors
    <3> QED BY <1>2, <1>4, <1>7, <2>1, <3>1, ClosedStays
  <2>5. ~rsp.closed /\ err # "nil" => rsp'.wire = rsp.wire
    BY <1>1, <1>2, <1>3, <1>4, <1>7, CloseStuck DEF Failing
  <2>6. CASE ~rsp.closed /\ err = "nil"
    <3>1. Tells(rsp) = "open" /\ Tells(rsp') \in {"open", "success"} /\ Closes(rsp, rsp', Available)
      BY <1>2, <1>4, <1>7, <2>1, <2>6, OpenTells, CloseStreamGains
    <3> QED BY <1>3, <1>6, <2>2, <2>6, <3>1 DEF Closes, Everything
  <2> QED BY <2>3, <2>4, <2>5, <2>6
<1>8. CASE rsp.kind = "legacy"
  <2>1. rsp' = rsp
    BY <1>2, <1>8 DEF Close, Success
  <2>2. Told = "open" /\ Told' = IF err = "nil" THEN "success" ELSE "failure"
    BY <1>1, <1>3, <1>5, <1>8, ToldIs
  <2>3. Gained(rsp, rsp', Available)
    BY <1>4, <2>1, GainedNothing
  <2>4. Holds(rsp, Available, rq.base64) => Everything
    <3> SUFFICES ASSUME Holds(rsp, Available, rq.base64) PROVE OutputIn(rsp.wire) = Bytes(0, Available)
      BY <2>1 DEF Everything
    <3>1. Raw(rsp.wire) /\ Text(rsp.wire) = Bytes(0, Available) /\ rsp.wire \in Seq(Frame)
      BY <1>4, <1>8 DEF Holds, Record
    <3>2. Available <= Available
      BY <1>4
    <3> QED BY <1>4, <3>1, <3>2, SolidText
  <2> QED BY <1>3, <1>6, <2>2, <2>3, <2>4
<1>9. CASE rsp.kind = "rpc"
  <2>1. PICK failed \in BOOLEAN : failed = (err # "nil")
    OBVIOUS
  <2>2. ~rsp.dataSent /\ rsp.wire = <<>>
    BY <1>1, <1>3, <1>9 DEF AnswerInv, Plain, Unsent
  <2>3. IF rsp.resultSet THEN Answers(rsp, rsp.buf, failed) ELSE ~failed \/ rsp.id = "absent"
    BY <1>1, <1>3, <1>9, <2>1 DEF AnswerInv, Plain, Settled
  <2>4. Tells(rsp') \in {"open", IF failed THEN "failure" ELSE "success"} /\ Closes(rsp, rsp', Available)
    BY <1>2, <1>4, <1>9, <2>2, <2>3, CloseRpcGains
  <2>5. Told = "open" /\ Told' = Tells(rsp')
    BY <1>3, <1>5, <1>9, <2>2, ToldIs
  <2> QED BY <1>3, <1>6, <2>1, <2>4, <2>5 DEF Closes, Everything
<1> QED BY <1>4, <1>7, <1>8, <1>9, KindCases

LEMMA PromiseHandler ==
  TypeOK /\ Control /\ StreamInv /\ ContentInv /\ AnswerInv /\ Early /\ Resolved /\ PromiseInv /\ Failing
  /\ Handler => PromiseInv' /\ [Promise!Next]_seen
<1> SUFFICES ASSUME TypeOK, Control, StreamInv, ContentInv, AnswerInv, Early, Resolved, PromiseInv, Failing,
                    Handler
             PROVE  PromiseInv' /\ [Promise!Next]_seen
  OBVIOUS
<1>1. CASE left' = "forced"
  BY <1>1 DEF PromiseInv, Promise!Next, Promise!Forsake
<1>2. CASE left' # "forced"
  <2>1. Still
    BY <1>2, HandlerStill
  <2> SUFFICES PromiseInv' /\ Goes
    BY <2>1, GoesNext
  <2>2. CASE rsp' = rsp /\ h \notin Over /\ h' \notin Over
    BY <2>1, <2>2, Quietly
  <2>3. CASE Process
    BY <2>1, <2>3, PromiseProcess
  <2>4. CASE CloseBranch
    BY <2>1, <2>4, PromiseCloseBranch
  <2>5. CASE CloseError
    <3>1. h = "closeerr" /\ err # "nil"
      BY <2>1, <2>5 DEF CloseError, ContentInv, CutInv, Still
    <3>2. h' = "closeend" /\ \E up \in Transport : rsp' = SetError(rsp, err, up).r
      BY <2>5, <3>1 DEF CloseError
    <3>3. PICK up \in BOOLEAN : rsp' = SetError(rsp, err, up).r
      BY <3>2, TransportType
    <3>4. rsp.kind = "rpc" => ~rsp.dataSent
      BY <2>1, <3>1 DEF AnswerInv, Plain, Unsent, Still
    <3>5. err \in Errors /\ h \notin Over /\ h' \notin Over
      BY <3>1, <3>2 DEF TypeOK, Over
    <3> QED BY <2>1, <3>3, <3>4, <3>5, PromiseError
  <2>6. CASE CloseEnd
    BY <2>1, <2>6, PromiseCloseEnd
  <2>7. (rsp' = rsp /\ h \notin Over /\ h' \notin Over) \/ Process \/ CloseBranch \/ CloseError \/ CloseEnd
    BY DEF Handler, ReadFromTransport, SelectTimeout, SelectDone, CheckErr, GraceDone, GraceTimer, LeaveProcess,
       Over
  <2> QED BY <2>2, <2>3, <2>4, <2>5, <2>6, <2>7
<1> QED BY <1>1, <1>2

\* A write of the invoker: the answer stays open.
LEMMA PromiseWrite ==
  ASSUME TypeOK, Still, rsp' \in Record, Promised(rsp, Available), Promised(rsp', Available),
         Gained(rsp, rsp', Available), rsp'.kind = rsp.kind, h \notin Over, h' \notin Over,
         rsp.kind = "streaming" => Ordered(rsp) /\ ~rsp.closed /\ Ordered(rsp') /\ ~rsp'.closed
  PROVE  PromiseInv' /\ Goes
<1>1. Promised(rsp', Available') /\ rsp \in Record
  BY DEF Still, TypeOK
<1>2. CASE rsp.kind = "streaming"
  <2>1. Tells(rsp) = "open" /\ Tells(rsp') = "open"
    BY <1>1, <1>2, OpenTells
  <2>2. Told = "open" /\ Told' = "open"
    BY <1>2, <2>1, ToldIs
  <2> QED BY <1>1, <2>2 DEF PromiseInv, Goes
<1>3. CASE rsp.kind # "streaming"
  <2>1. rsp.kind = "legacy" \/ (rsp.wire = <<>> /\ rsp'.wire = <<>>)
    BY <1>1, <1>3, KindCases DEF Promised
  <2>2. Told = "open" /\ Told' = "open"
    BY <2>1, ToldIs
  <2> QED BY <1>1, <2>2 DEF PromiseInv, Goes
<1> QED BY <1>2, <1>3

LEMMA PromiseInvoke ==
  ASSUME TypeOK, PipeInv, PromiseInv, h \in InProcess, left # "forced", Invoke
  PROVE  PromiseInv' /\ [Promise!Next]_seen
<1>1. /\ inv = "invoke" /\ UNCHANGED <<rq, h, left, err, rsp, ctx, conn>>
      /\ child' = child \/ child' = [NoChild EXCEPT !.st = "running", !.open = TRUE]
  BY DEF Invoke
<1>2. val = "-" /\ child = NoChild
  BY <1>1 DEF PipeInv
<1>3. child'.wrote = 0
  BY <1>1, <1>2, ChildFields
<1>4. Available = 0
  BY <1>2 DEF Available
<1>5. Available' = 0
  <2>1. Available' = IF val' # "reader" THEN 0
                     ELSE IF rq'.base64 THEN 4 * (child'.wrote \div 3) ELSE child'.wrote
    BY DEF Available, Encodes
  <2>2. 4 * (0 \div 3) = 0
    OBVIOUS
  <2> QED BY <1>3, <2>1, <2>2
<1>6. DoneWell = FALSE
  BY <1>2 DEF DoneWell, NoChild
<1>7. Promised(rsp, Available)
  BY DEF PromiseInv, InProcess
<1>8. PromiseInv'
  BY <1>1, <1>4, <1>5, <1>7 DEF PromiseInv
<1>9. UNCHANGED <<Available, Cut, OutputIn(rsp.wire), Told, left = "forced">>
  BY <1>1, <1>4, <1>5 DEF Cut, Told
<1>10. [Promise!Next]_seen
  <2>1. DoneWell' \in BOOLEAN
    BY DEF DoneWell
  <2>2. CASE DoneWell' = TRUE
    BY <1>9, <2>2 DEF Promise!Next, Promise!Finish, Cut
  <2>3. CASE DoneWell' = FALSE
    BY <1>6, <1>9, <2>3 DEF seen
  <2> QED BY <2>1, <2>2, <2>3
<1> QED BY <1>8, <1>10

LEMMA PromiseInvoker ==
  TypeOK /\ Control /\ StreamInv /\ ContentInv /\ AnswerInv /\ PromiseInv /\ Invoker
    => PromiseInv' /\ [Promise!Next]_seen
<1> SUFFICES ASSUME TypeOK, Control, StreamInv, ContentInv, AnswerInv, PromiseInv, Invoker
             PROVE  PromiseInv' /\ [Promise!Next]_seen
  OBVIOUS
<1>1. /\ UNCHANGED <<rq, h, left, ctx, conn>> /\ inv \notin {"none", "exited"}
      /\ Invoke \/ UNCHANGED <<val, child, pw>>
  BY InvokerSteps
<1>2. CASE left' = "forced"
  BY <1>1, <1>2 DEF PromiseInv, Promise!Next, Promise!Forsake
<1>3. CASE left # "forced" /\ inv = "exit"
  <2>1. UNCHANGED <<val, child, err, rsp>>
    BY <1>3 DEF Invoker, Invoke, DeferFlush, Deliver, SetResponseError, SetResponseResult, ReadPipe,
                ReadEnd, CheckWrite, PutPiece, CloseDone, output
  <2>2. UNCHANGED seen
    BY <1>1, <2>1 DEF seen, Available, Encodes, DoneWell, Cut, Told
  <2>3. PromiseInv'
    BY <1>1, <2>1, <2>2 DEF PromiseInv, seen
  <2> QED BY <2>2, <2>3
<1>4. CASE left # "forced" /\ inv # "exit"
  <2>1. h \in InProcess
    BY <1>1, <1>4, Busy
  <2>2. h \notin Over /\ h' \notin Over /\ h # "returned"
    BY <1>1, <2>1 DEF InProcess, Over
  <2>3. CASE Invoke
    BY <1>4, <2>1, <2>3, PromiseInvoke DEF ContentInv
  <2>4. CASE ~Invoke
    <3>1. Still
      BY <1>1, <1>4, <2>4 DEF Still, Available, Encodes, DoneWell, Cut
    <3> SUFFICES PromiseInv' /\ Goes
      BY <3>1, GoesNext
    <3>2. /\ Promised(rsp, Available) /\ rsp \in Record /\ rq.base64 \in BOOLEAN
          /\ Available \in Nat
      BY <1>4, <2>2, AvailableFit DEF PromiseInv, TypeOK
    <3>3. rsp' \in Record
      BY TypeInvoker DEF TypeOK
    <3>4. rsp'.kind = "streaming" => Ordered(rsp')
      BY <1>1, <1>4, StreamInvoker DEF StreamInv
    <3>5. rsp.kind = "streaming" => Ordered(rsp)
      BY <1>4 DEF StreamInv
    <3>6. CASE rsp' = rsp
      BY <2>2, <3>1, <3>6, Quietly
    <3>7. CASE SetResponseError
      <4>1. val \in Errors /\ \E up \in Transport : rsp' = SetError(rsp, val, up).r
        BY <3>7 DEF SetResponseError, Faults, Errors, TypeOK
      <4>2. PICK up \in BOOLEAN : rsp' = SetError(rsp, val, up).r
        BY <4>1, TransportType
      <4>3. rsp.kind = "rpc" => ~rsp.dataSent
        BY <1>4, <2>2 DEF AnswerInv, Plain, Unsent
      <4> QED BY <2>2, <3>1, <4>1, <4>2, <4>3, PromiseError
    <3>8. CASE SetResponseResult
      <4> DEFINE v == IF val = "ok" THEN OK ELSE Null
      <4>1. inv = "set" /\ v \in {OK, Null} /\ \E up \in Transport : rsp' = SetResult(rsp, v, up).r
        BY <3>8 DEF SetResponseResult
      <4>2. PICK up \in BOOLEAN : rsp' = SetResult(rsp, v, up).r
        BY <4>1, TransportType
      <4>3. Fresh(rsp)
        BY <1>4, <4>1 DEF ContentInv, FreshInv
      <4> HIDE DEF v
      <4>4. /\ rsp'.kind = rsp.kind /\ Promised(rsp', Available) /\ Gained(rsp, rsp', Available)
            /\ rsp.kind = "streaming" => ~rsp'.closed
        BY <3>2, <4>1, <4>2, <4>3, ResultGains
      <4>5. ~rsp.closed
        BY <4>3 DEF Fresh
      <4> QED BY <2>2, <3>1, <3>2, <3>3, <3>4, <3>5, <4>4, <4>5, PromiseWrite
    <3>9. CASE PutPiece
      <4>1. inv = "put"
        BY <3>9 DEF PutPiece
      <4>2. PICK n \in DOMAIN hand, up \in BOOLEAN : Portion(n) /\ rsp' = Put(rsp, First(n), up).r
        BY <3>9, TransportType DEF PutPiece
      <4>3. val = "reader" /\ Carrying
        BY <1>4, <4>1 DEF ContentInv, PipeInv, Carrying
      <4>4. PICK d \in Nat, e \in Nat, g \in Nat : Carried(d, e, g)
        BY <4>3 DEF ContentInv, Carries
      <4> DEFINE b == Fit(e, rq.base64)
      <4>5. /\ d < b /\ hand = Bytes(d, b) /\ Holds(rsp, d, rq.base64)
            /\ e <= g /\ g <= child.read
        BY <4>1, <4>4 DEF Carried
      <4>6. b \in Nat /\ b <= Available
        <5>1. child.read <= child.wrote /\ child.read \in Nat /\ child.wrote \in Nat
          BY ChildType DEF ContentInv, PipeInv
        <5>2. e <= child.wrote
          BY <4>5, <5>1
        <5>3. b \in Nat /\ b <= Fit(child.wrote, rq.base64)
          BY <3>2, <5>1, <5>2, FitProperties
        <5> QED BY <4>3, <5>3, AvailableFit
      <4> HIDE DEF b
      <4>7. PICK m \in Nat : /\ d < m /\ m <= b
                             /\ First(n) \in Piece /\ First(n).body = Bytes(d, m)
        BY <4>2, <4>5, <4>6, FirstBytes
      <4>8. d <= m /\ m <= Available
        BY <3>2, <4>6, <4>7
      <4>9. /\ rsp'.kind = rsp.kind /\ Promised(rsp', Available) /\ Gained(rsp, rsp', Available)
            /\ rsp.kind = "streaming" => ~rsp'.closed
        BY <3>2, <4>2, <4>5, <4>7, <4>8, PutGains
      <4>10. rsp.kind = "streaming" => ~rsp.closed
        BY <4>5 DEF Holds, Streams
      <4> QED BY <2>2, <3>1, <3>2, <3>3, <3>4, <3>5, <4>9, <4>10, PromiseWrite
    <3>10. rsp' = rsp \/ SetResponseError \/ SetResponseResult \/ PutPiece
      BY <2>4 DEF Invoker, DeferFlush, Deliver, ReadPipe, ReadEnd, CheckWrite, CloseDone
    <3> QED BY <3>6, <3>7, <3>8, <3>9, <3>10
  <2> QED BY <2>3, <2>4
<1> QED BY <1>1, <1>2, <1>3, <1>4

\* The child writes, is reaped, or somebody cuts it short.
LEMMA PromiseOthers ==
  TypeOK /\ Control /\ ContentInv /\ Resolved /\ PromiseInv
  /\ (Flush \/ Copier \/ Kill \/ Cancel \/ Environment \/ UNCHANGED vars)
    => PromiseInv' /\ [Promise!Next]_seen
<1> SUFFICES ASSUME TypeOK, Control, ContentInv, Resolved, PromiseInv,
                    Flush \/ Copier \/ Kill \/ Cancel \/ Environment \/ UNCHANGED vars
             PROVE  PromiseInv' /\ [Promise!Next]_seen
  OBVIOUS
<1>1. UNCHANGED <<rq, h, left, val, err, rsp>>
  BY OtherSteps
<1>2. UNCHANGED <<OutputIn(rsp.wire), Told, left = "forced">>
  BY <1>1 DEF Told
<1>3. Available \in Nat /\ child.wrote \in Nat /\ rq.base64 \in BOOLEAN
  BY AvailableFit, ChildType
<1>4. Available' = IF val # "reader" THEN 0
                   ELSE IF rq.base64 THEN 4 * (child'.wrote \div 3) ELSE child'.wrote
  BY <1>1 DEF Available, Encodes
<1>5. child'.wrote = child.wrote => Available' = Available
  BY <1>4 DEF Available, Encodes
<1>6. ASSUME Available' = Available PROVE PromiseInv'
  BY <1>1, <1>6 DEF PromiseInv
<1>7. ASSUME child.st = "reaped" <=> child'.st = "reaped",
             child.st = "reaped" => child'.status = child.status
      PROVE  DoneWell' = DoneWell
  BY <1>1, <1>7 DEF DoneWell
<1>8. CASE Wait
  <2>1. child'.wrote = child.wrote /\ UNCHANGED <<ctx, conn>> /\ child.st = "exited"
    BY <1>8 DEF Wait, handled, TypeOK, Child
  <2>2. UNCHANGED <<Available, Cut>> /\ PromiseInv'
    BY <1>5, <1>6, <2>1 DEF Cut
  <2>3. CASE val \in {"ok", "nil"}
    <3>1. DoneWell = TRUE /\ DoneWell' = TRUE
      BY <1>1, <2>3 DEF DoneWell
    <3> QED BY <1>2, <2>2, <3>1 DEF seen
  <2>4. CASE val \notin {"ok", "nil"}
    <3>1. DoneWell = FALSE /\ DoneWell' \in BOOLEAN
      BY <2>1, <2>4 DEF DoneWell
    <3>2. CASE DoneWell' = TRUE
      BY <1>2, <2>2, <3>2 DEF Promise!Next, Promise!Finish, Cut
    <3>3. CASE DoneWell' = FALSE
      BY <1>2, <2>2, <3>1, <3>3 DEF seen
    <3> QED BY <2>2, <3>1, <3>2, <3>3
  <2> QED BY <2>3, <2>4
<1>9. CASE WakeUp \/ CopyChunk \/ StdoutEnd \/ WriteRejected
  <2>1. UNCHANGED <<ctx, conn>> /\ child'.wrote = child.wrote
    <3>1. CASE WriteRejected
      BY <3>1, EndedFields DEF WriteRejected, handled
    <3>2. CASE WakeUp \/ CopyChunk \/ StdoutEnd
      BY <3>2 DEF WakeUp, CopyChunk, StdoutEnd, handled, TypeOK, Child
    <3> QED BY <1>9, <3>1, <3>2
  <2>2. UNCHANGED <<Available, Cut>> /\ PromiseInv'
    BY <1>5, <1>6, <2>1 DEF Cut
  <2>3. DoneWell' = DoneWell
    BY <1>7, <1>9, ReapedBefore
  <2> QED BY <1>2, <2>2, <2>3 DEF seen
<1>10. CASE Kill \/ Cancel \/ Environment \/ Flush \/ UNCHANGED vars
  <2>1. DoneWell' = DoneWell
    BY <1>7, <1>10, ReapedBefore
  <2>2. CASE child'.wrote = child.wrote
    <3>1. Available' = Available /\ PromiseInv'
      BY <1>5, <1>6, <2>2
    <3>2. Cut => Cut'
      BY <1>10, CutStays DEF Next
    <3>3. Cut \in BOOLEAN /\ Cut' \in BOOLEAN
      BY DEF Cut
    <3>4. CASE Cut' = TRUE
      BY <1>2, <2>1, <3>1, <3>4 DEF Promise!Next, Promise!Cut, Cut
    <3>5. CASE Cut' = FALSE
      <4>1. Cut' = Cut
        BY <3>2, <3>3, <3>5
      <4> QED BY <1>2, <2>1, <3>1, <4>1 DEF seen
    <3> QED BY <3>1, <3>3, <3>4, <3>5
  <2>3. CASE child'.wrote # child.wrote
    <3>1. child.open /\ cp # "done" /\ child'.wrote = child.wrote + 1
      BY <1>10, <2>3, ChildSteps
    <3>2. UNCHANGED <<ctx, conn>>
      <4>1. Emit
        BY <1>10, <2>3, EndedFields DEF Kill, Cancel, Environment, Flush, Exit, CloseStdout, Deadline, Stall, Disconnect,
           vars, output, TypeOK, Child
      <4> QED BY <4>1 DEF Emit
    <3>3. Cut' = Cut
      BY <3>2 DEF Cut
    <3>4. CASE val = "reader"
      <4>1. Available' = Fit(child.wrote + 1, rq.base64) /\ Available = Fit(child.wrote, rq.base64)
        BY <1>4, <3>1, <3>4, AvailableFit DEF Fit
      <4>2. Available <= Available' /\ Available' \in Nat
        <5>1. child.wrote + 1 \in Nat /\ child.wrote <= child.wrote + 1
          BY <1>3
        <5> QED BY <1>3, <4>1, <5>1, FitProperties
      <4>3. PromiseInv'
        <5> SUFFICES ASSUME left # "forced", h # "returned" PROVE Promised(rsp, Available')
          BY <1>1 DEF PromiseInv
        <5>1. Promised(rsp, Available)
          BY DEF PromiseInv
        <5> HIDE DEF Available
        <5> QED BY <1>3, <4>2, <5>1, PromisedMore
      <4>4. CASE Available' = Available
        BY <1>2, <2>1, <3>3, <4>3, <4>4 DEF seen
      <4>5. CASE Available' # Available
        <5>1. DoneWell = FALSE
          BY <3>1, <3>4 DEF DoneWell, Resolved
        <5>2. Available' > Available
          BY <1>3, <4>2, <4>5
        <5>3. Promise!Write
          BY <1>2, <2>1, <3>3, <4>2, <5>1, <5>2 DEF Promise!Write, Cut
        <5> QED BY <4>3, <5>3 DEF Promise!Next
      <4> QED BY <4>4, <4>5
    <3>5. CASE val # "reader"
      <4>1. Available' = Available
        BY <1>4, <3>5 DEF Available
      <4> QED BY <1>2, <1>6, <2>1, <3>3, <4>1 DEF seen
    <3> QED BY <3>4, <3>5
  <2> QED BY <2>2, <2>3
<1> QED BY <1>8, <1>9, <1>10 DEF Copier

LEMMA PromiseInit == Init => Promise!Init /\ PromiseInv /\ Failing /\ Resolved
<1> SUFFICES ASSUME Init PROVE Promise!Init /\ PromiseInv /\ Failing
  BY ResolvedInit
<1>1. /\ h = "read" /\ left = "-" /\ val = "-" /\ ctx = "live" /\ conn = "open" /\ child = NoChild
      /\ rsp.wire = <<>> /\ rsp.buf = <<>>
  BY DEF Init, New
<1>2. rsp \in Record
  BY TypeInit DEF TypeOK
<1>3. Available = 0 /\ Told = "open"
  BY <1>1, ToldIs DEF Available, Over
<1>4. DoneWell = FALSE /\ (ctx = "deadline" \/ conn = "gone") = FALSE /\ (left = "forced") = FALSE
  BY <1>1 DEF DoneWell, NoChild
<1>5. Promise!Init
  BY <1>1, <1>3, <1>4, NoOutput DEF Promise!Init
<1>6. PromiseInv
  BY <1>2, <1>1, <1>3, PromisedFresh DEF PromiseInv
<1> QED BY <1>1, <1>5, <1>6 DEF Failing

\* The goroutines of a request, its child, its client and the clock carry out what an
\* answer promises (rupicolarpc.ProcessContext, MethodDef.Invoke and the responsers):
\* the client gets the output in order from its beginning, the answer ends once, and
\* it ends in success only with all of the output of a method that has done well, or
\* after the deadline or the client has cut it short.
THEOREM AnswerRefinement == Spec => AnswerAsPromised
<1>1. Init => Promise!Init /\ PromiseInv /\ Failing /\ Resolved /\ Early
  BY PromiseInit, PaysInit
<1>2. TypeOK /\ Control /\ StreamInv /\ ContentInv /\ AnswerInv /\ Early /\ Resolved /\ PromiseInv /\ Failing
      /\ [Next]_vars
        => Early' /\ Resolved' /\ PromiseInv' /\ Failing' /\ [Promise!Next]_seen
  <2> SUFFICES ASSUME TypeOK, Control, StreamInv, ContentInv, AnswerInv, Early, Resolved, PromiseInv, Failing,
                      [Next]_vars
               PROVE  Early' /\ Resolved' /\ PromiseInv' /\ Failing' /\ [Promise!Next]_seen
    OBVIOUS
  <2>1. Early' /\ Resolved' /\ Failing'
    BY EarlyNext, ResolvedNext, FailingNext DEF ContentInv
  <2>2. PromiseInv' /\ [Promise!Next]_seen
    BY PromiseHandler, PromiseInvoker, PromiseOthers DEF Next
  <2> QED BY <2>1, <2>2
<1>3. [Promise!Next]_seen
        => [Promise!Next]_<<Available, DoneWell, ctx = "deadline" \/ conn = "gone", OutputIn(rsp.wire), Told,
                            left = "forced">>
  BY DEF seen, Cut
<1> QED
  BY <1>1, <1>2, <1>3, TypeCorrect, ControlHolds, StreamInvHolds, ContentHolds, AnswerHolds, PTL
  DEF Spec, AnswerAsPromised, Promise!Spec, Promise!answer

=============================================================================
