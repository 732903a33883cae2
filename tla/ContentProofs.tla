---------------------------- MODULE ContentProofs ----------------------------
(***************************************************************************)
(* What an answer holds, for every request, output and limit: the output   *)
(* in order, and all of it when the answer is a success; whole lines, if   *)
(* it is a stream; and no more than the limit of the method.               *)
(***************************************************************************)
EXTENDS RequestProofs, SequenceLemmas

-----------------------------------------------------------------------------
(* The bytes of an output.                                                 *)

\* Those that follow the first a, up to the b-th.
Bytes(a, b) == [i \in 1..(b - a) |-> a + i]

LEMMA BytesType ==
  ASSUME NEW a \in Nat, NEW b \in Nat, a <= b
  PROVE  /\ Bytes(a, b) \in Seq(Nat) /\ Len(Bytes(a, b)) = b - a
         /\ DOMAIN Bytes(a, b) = 1..(b - a)
         /\ \A i \in 1..(b - a) : Bytes(a, b)[i] = a + i
<1>1. b - a \in Nat /\ Bytes(a, b) \in [1..(b - a) -> Nat]
  BY DEF Bytes
<1>2. \A i \in 1..(b - a) : Bytes(a, b)[i] = a + i
  BY DEF Bytes
<1> QED BY <1>1, <1>2, FunctionIsSeq

LEMMA NoBytes ==
  ASSUME NEW a \in Nat, NEW b \in Nat, a <= b
  PROVE  (Bytes(a, b) = <<>>) <=> (a = b)
<1>1. Bytes(a, b) \in Seq(Nat) /\ Len(Bytes(a, b)) = b - a
  BY BytesType
<1> QED BY <1>1, EmptySeq

LEMMA BytesLast ==
  ASSUME NEW a \in Nat, NEW b \in Nat, a < b
  PROVE  Last(Bytes(a, b)) = b
<1>1. Len(Bytes(a, b)) = b - a /\ \A i \in 1..(b - a) : Bytes(a, b)[i] = a + i
  BY BytesType
<1>2. b - a \in 1..(b - a) /\ a + (b - a) = b
  OBVIOUS
<1> QED BY <1>1, <1>2 DEF Last

LEMMA BytesJoin ==
  ASSUME NEW a \in Nat, NEW b \in Nat, NEW c \in Nat, a <= b, b <= c
  PROVE  Bytes(a, b) \o Bytes(b, c) = Bytes(a, c)
<1> DEFINE s == Bytes(a, b)
           t == Bytes(b, c)
           u == Bytes(a, c)
<1>1. /\ s \in Seq(Nat) /\ Len(s) = b - a /\ t \in Seq(Nat) /\ Len(t) = c - b
      /\ u \in Seq(Nat) /\ Len(u) = c - a
      /\ \A i \in 1..(b - a) : s[i] = a + i
      /\ \A i \in 1..(c - b) : t[i] = b + i
      /\ \A i \in 1..(c - a) : u[i] = a + i
  <2>1. a <= c
    OBVIOUS
  <2> QED BY <2>1, BytesType
<1> HIDE DEF s, t, u
<1>2. /\ s \o t \in Seq(Nat) /\ Len(s \o t) = c - a
      /\ \A i \in 1..(c - a) : (s \o t)[i] = IF i <= b - a THEN s[i] ELSE t[i - (b - a)]
  <2>1. /\ s \o t \in Seq(Nat) /\ Len(s \o t) = Len(s) + Len(t)
        /\ \A i \in 1..(Len(s) + Len(t)) :
             (s \o t)[i] = IF i <= Len(s) THEN s[i] ELSE t[i - Len(s)]
    BY <1>1, ConcatProperties
  <2>2. Len(s) + Len(t) = c - a
    BY <1>1
  <2> QED BY <1>1, <2>1, <2>2
<1>3. ASSUME NEW i \in 1..(c - a) PROVE (s \o t)[i] = u[i]
  <2>1. CASE i <= b - a
    BY <1>1, <1>2, <2>1
  <2>2. CASE ~(i <= b - a)
    <3>1. PICK j \in 1..(c - b) : j = i - (b - a)
      BY <2>2
    <3>2. (s \o t)[i] = t[j]
      BY <1>2, <2>2, <3>1
    <3>3. b + j = a + i
      BY <3>1
    <3> QED BY <1>1, <3>2, <3>3
  <2> QED BY <2>1, <2>2
<1>4. s \o t = u
  BY <1>1, <1>2, <1>3, SeqEqual
<1> QED BY <1>4 DEF s, t, u

\* Cut after n bytes.
LEMMA BytesCut ==
  ASSUME NEW a \in Nat, NEW b \in Nat, NEW n \in Nat, a + n <= b
  PROVE  /\ SubSeq(Bytes(a, b), 1, n) = Bytes(a, a + n)
         /\ SubSeq(Bytes(a, b), n + 1, b - a) = Bytes(a + n, b)
<1> DEFINE s == Bytes(a, b)
<1>1. s \in Seq(Nat) /\ Len(s) = b - a /\ \A i \in 1..(b - a) : s[i] = a + i
  BY BytesType
<1>2. /\ Bytes(a, a + n) \in Seq(Nat) /\ Len(Bytes(a, a + n)) = n
      /\ \A i \in 1..n : Bytes(a, a + n)[i] = a + i
  <2>1. PICK c \in Nat : c = a + n
    OBVIOUS
  <2>2. c - a = n
    BY <2>1
  <2> QED BY <2>1, <2>2, BytesType
<1>3. /\ Bytes(a + n, b) \in Seq(Nat) /\ Len(Bytes(a + n, b)) = b - a - n
      /\ \A i \in 1..(b - a - n) : Bytes(a + n, b)[i] = a + n + i
  <2>1. PICK c \in Nat : c = a + n
    OBVIOUS
  <2>2. b - c = b - a - n
    BY <2>1
  <2> QED BY <2>1, <2>2, BytesType
<1> HIDE DEF s
<1>4. SubSeq(s, 1, n) = Bytes(a, a + n)
  <2> DEFINE t == SubSeq(s, 1, n)
  <2>1. \A i \in 1..n : s[i] \in Nat /\ s[i] = a + i
    BY <1>1
  <2>2. /\ t \in Seq(Nat) /\ Len(t) = (IF 1 <= n THEN n - 1 + 1 ELSE 0)
        /\ \A i \in 1..(n - 1 + 1) : t[i] = s[1 + i - 1]
    BY <2>1, SubSeqProperties
  <2> HIDE DEF t
  <2>3. Len(t) = n /\ \A i \in 1..n : t[i] = a + i
    BY <2>1, <2>2
  <2>4. t = Bytes(a, a + n)
    BY <1>2, <2>2, <2>3, SeqEqual
  <2> QED BY <2>4 DEF t
<1>5. SubSeq(s, n + 1, b - a) = Bytes(a + n, b)
  <2> DEFINE t == SubSeq(s, n + 1, b - a)
  <2>1. \A i \in (n + 1)..(b - a) : s[i] \in Nat /\ s[i] = a + i
    BY <1>1
  <2>2. /\ t \in Seq(Nat) /\ Len(t) = (IF n + 1 <= b - a THEN b - a - (n + 1) + 1 ELSE 0)
        /\ \A i \in 1..(b - a - (n + 1) + 1) : t[i] = s[n + 1 + i - 1]
    BY <2>1, SubSeqProperties
  <2> HIDE DEF t
  <2>3. Len(t) = b - a - n /\ \A i \in 1..(b - a - n) : t[i] = a + n + i
    <3>1. Len(t) = b - a - n
      BY <2>2
    <3>2. ASSUME NEW i \in 1..(b - a - n) PROVE t[i] = a + n + i
      <4>1. PICK j \in (n + 1)..(b - a) : j = n + i
        OBVIOUS
      <4>2. n + 1 + i - 1 = j /\ i \in 1..(b - a - (n + 1) + 1)
        BY <4>1
      <4> QED BY <2>1, <2>2, <4>1, <4>2
    <3> QED BY <3>1, <3>2
  <2>4. t = Bytes(a + n, b)
    BY <1>3, <2>2, <2>3, SeqEqual
  <2> QED BY <2>4 DEF t
<1> QED BY <1>4, <1>5 DEF s

LEMMA BytesCutAt ==
  ASSUME NEW a \in Nat, NEW b \in Nat, NEW m \in Nat, a <= m, m <= b
  PROVE  /\ SubSeq(Bytes(a, b), 1, m - a) = Bytes(a, m)
         /\ SubSeq(Bytes(a, b), m - a + 1, b - a) = Bytes(m, b)
<1>1. PICK n \in Nat : n = m - a
  OBVIOUS
<1>2. a + n <= b /\ a + n = m
  BY <1>1
<1>3. a + n <= b
  BY <1>2
<1>4. /\ SubSeq(Bytes(a, b), 1, n) = Bytes(a, a + n)
      /\ SubSeq(Bytes(a, b), n + 1, b - a) = Bytes(a + n, b)
  BY <1>3, BytesCut
<1>5. SubSeq(Bytes(a, b), 1, n) = Bytes(a, m)
  BY <1>2, <1>4
<1>6. SubSeq(Bytes(a, b), n + 1, b - a) = Bytes(m, b)
  BY <1>2, <1>4
<1> QED BY <1>1, <1>5, <1>6

-----------------------------------------------------------------------------
(* The frames that carry them.                                             *)

\* Raw bytes, in the one frame Join keeps them in.
Raw(frames) == Len(frames) <= 1 /\ \A i \in DOMAIN frames : frames[i].tag = "raw"

\* What the data frames carry.
Data(frames) ==
  FlattenSeq([i \in DOMAIN frames |-> IF frames[i].tag = "data" THEN frames[i].body ELSE <<>>])

\* Where an output that is sent by lines stands.  With base64 it has no lines.
Inner(base64) == IF base64 THEN {} ELSE LineEnds
Outer(base64) == IF base64 THEN Nat ELSE LineEnds

EndsInData(frames) == frames # <<>> /\ Last(frames).tag = "data"
Position(frames) == IF EndsInData(frames) THEN Last(Last(frames).body) ELSE 0
Ready(frames, base64) == EndsInData(frames) => Last(Last(frames).body) \in Outer(base64)

\* A part of the output that follows the first a bytes and has no line end inside.
Run(bytes, a, base64) ==
  /\ bytes # <<>> /\ bytes = Bytes(a, a + Len(bytes))
  /\ \A k \in 1..(Len(bytes) - 1) : bytes[k] \notin Inner(base64)

\* A frame that holds such a part, and tells whether a line end closes it.
Line(f, a, base64) == Run(f.body, a, base64) /\ (f.nl <=> Last(f.body) \in Inner(base64))

LineAt(frames, i, base64) ==
  /\ Line(frames[i],
         IF i > 1 /\ frames[i - 1].tag = "data" THEN Last(frames[i - 1].body) ELSE 0, base64)
  /\ i < Len(frames) /\ frames[i + 1].tag = "data" => Last(frames[i].body) \in Outer(base64)

InLines(frames, base64) ==
  \A i \in DOMAIN frames : frames[i].tag = "data" => LineAt(frames, i, base64)

LEMMA RawJoin ==
  ASSUME NEW frames \in Seq(Frame), Raw(frames), NEW bytes \in Seq(Nat)
  PROVE  LET j == Join(frames, RawFrame(bytes)) IN
         j \in Seq(Frame) /\ Raw(j) /\ j # <<>> /\ Text(j) = Text(frames) \o bytes
<1> DEFINE f == RawFrame(bytes)
           j == Join(frames, f)
<1>1. f \in Frame /\ f.tag = "raw" /\ f.body = bytes /\ j \in Seq(Frame)
  <2>1. f \in Frame
    BY FrameTypes
  <2>2. f.tag = "raw" /\ f.body = bytes
    BY DEF RawFrame
  <2> QED BY <2>1, <2>2, JoinType
<1> HIDE DEF f
<1>2. CASE frames = <<>>
  <2>1. j = <<f>>
    BY <1>2 DEF Join
  <2>2. <<>> \o bytes = bytes
    BY ConcatEmptySeq
  <2> HIDE DEF j
  <2>3. Len(j) = 1 /\ DOMAIN j = {1} /\ j[1] = f /\ j # <<>>
    BY <2>1
  <2>4. Raw(j)
    BY <1>1, <2>3 DEF Raw
  <2>5. Text(j) = bytes /\ Text(frames) = <<>>
    BY <1>1, <1>2, <2>3 DEF Text
  <2> QED BY <1>1, <2>2, <2>3, <2>4, <2>5 DEF f, j
<1>3. CASE frames # <<>>
  <2>1. Len(frames) = 1 /\ frames[1] \in Frame /\ frames[1].tag = "raw" /\ DOMAIN frames = 1..1
    <3>1. Len(frames) \in Nat /\ Len(frames) # 0 /\ Len(frames) <= 1 /\ DOMAIN frames = 1..Len(frames)
      BY <1>3, EmptySeq, LenProperties DEF Raw
    <3>2. Len(frames) = 1 /\ 1 \in DOMAIN frames
      BY <3>1
    <3> QED BY <3>1, <3>2, ElementOfSeq DEF Raw
  <2> DEFINE g == [frames[1] EXCEPT !.body = @ \o bytes]
  <2>2. j = [frames EXCEPT ![1] = g]
    BY <1>1, <1>3, <2>1 DEF Join
  <2>3. g.tag = "raw" /\ g.body = frames[1].body \o bytes
    BY <2>1 DEF Frame
  <2> HIDE DEF g
  <2>4. j[1] = g /\ Len(j) = 1 /\ DOMAIN j = 1..1 /\ j # <<>>
    <3>1. DOMAIN j = DOMAIN frames /\ j[1] = g
      BY <2>1, <2>2
    <3>2. j \in Seq(Frame) /\ 1 \in DOMAIN j
      BY <1>1, <2>1, <3>1
    <3> HIDE DEF j
    <3>3. DOMAIN j = 1..Len(j) /\ Len(j) \in Nat
      BY <3>2, LenProperties
    <3>4. Len(j) = 1
      BY <2>1, <3>1, <3>3
    <3> QED BY <2>1, <3>1, <3>2, <3>4
  <2>5. Raw(j)
    BY <2>3, <2>4 DEF Raw
  <2>6. Text(j) = Text(frames) \o bytes
    BY <1>3, <2>3, <2>4 DEF Text
  <2> QED BY <1>1, <2>4, <2>5, <2>6 DEF f
<1> QED BY <1>2, <1>3

LEMMA AppendLast ==
  ASSUME NEW S, NEW s \in Seq(S), NEW e \in S
  PROVE  /\ Append(s, e) \in Seq(S) /\ Append(s, e) # <<>> /\ Last(Append(s, e)) = e
         /\ Len(Append(s, e)) = Len(s) + 1 /\ DOMAIN Append(s, e) = 1..(Len(s) + 1)
         /\ Append(s, e)[Len(s) + 1] = e /\ \A i \in 1..Len(s) : Append(s, e)[i] = s[i]
<1>1. /\ Append(s, e) \in Seq(S) /\ Append(s, e) # <<>> /\ Len(Append(s, e)) = Len(s) + 1
      /\ Append(s, e)[Len(s) + 1] = e /\ \A i \in 1..Len(s) : Append(s, e)[i] = s[i]
  BY AppendProperties
<1>2. DOMAIN Append(s, e) = 1..(Len(s) + 1)
  BY <1>1, LenProperties
<1> QED BY <1>1, <1>2 DEF Last

LEMMA DataAppend ==
  ASSUME NEW frames \in Seq(Frame), NEW f \in Frame
  PROVE  Data(Append(frames, f)) = IF f.tag = "data" THEN Data(frames) \o f.body ELSE Data(frames)
<1> DEFINE Body(x) == IF x.tag = "data" THEN x.body ELSE <<>>
           n == Len(frames)
           t == Append(frames, f)
           s == [i \in DOMAIN frames |-> Body(frames[i])]
           u == [i \in DOMAIN t |-> Body(t[i])]
<1>1. \A x \in Frame : Body(x) \in Seq(Nat)
  BY DEF Frame
<1>2. /\ n \in Nat /\ DOMAIN frames = 1..n /\ \A i \in 1..n : frames[i] \in Frame
  BY LenProperties
<1>3. DOMAIN t = 1..(n + 1) /\ t[n + 1] = f /\ \A i \in 1..n : t[i] = frames[i]
  BY AppendLast
<1> HIDE DEF n, t
<1>4. s \in Seq(Seq(Nat)) /\ Len(s) = n /\ \A i \in 1..n : s[i] = Body(frames[i])
  <2>1. s \in [1..n -> Seq(Nat)]
    BY <1>1, <1>2
  <2> QED BY <1>2, <2>1, FunctionIsSeq
<1>5. u \in Seq(Seq(Nat)) /\ Len(u) = n + 1 /\ \A i \in 1..(n + 1) : u[i] = Body(t[i])
  <2>1. \A i \in 1..(n + 1) : t[i] \in Frame
    BY <1>2, <1>3
  <2>2. u \in [1..(n + 1) -> Seq(Nat)] /\ n + 1 \in Nat
    BY <1>1, <1>2, <1>3, <2>1
  <2> QED BY <1>3, <2>2, FunctionIsSeq
<1>6. Body(f) \in Seq(Nat)
  BY <1>1
<1>7. Data(t) = FlattenSeq(u) /\ Data(frames) = FlattenSeq(s)
  BY DEF Data
<1>8. \A i \in 1..n : u[i] = s[i]
  BY <1>2, <1>3, <1>4, <1>5
<1>9. u[n + 1] = Body(f)
  BY <1>2, <1>3, <1>5
<1> DEFINE e == Body(f)
<1> HIDE DEF s, u, e
<1>10. u = Append(s, e)
  <2>1. /\ Append(s, e) \in Seq(Seq(Nat)) /\ Len(Append(s, e)) = n + 1
        /\ Append(s, e)[n + 1] = e /\ \A i \in 1..n : Append(s, e)[i] = s[i]
    BY <1>4, <1>6, AppendLast DEF e
  <2>2. \A i \in 1..(n + 1) : u[i] = Append(s, e)[i]
    BY <1>2, <1>8, <1>9, <2>1 DEF e
  <2> QED BY <1>2, <1>5, <2>1, <2>2, SeqEqual
<1>11. FlattenSeq(u) = FlattenSeq(s) \o e /\ FlattenSeq(s) \in Seq(Nat)
  BY <1>4, <1>6, <1>10, FlattenAppend, FlattenType DEF e
<1>12. FlattenSeq(s) \o <<>> = FlattenSeq(s)
  BY <1>11, ConcatEmptySeq
<1> QED BY <1>7, <1>11, <1>12 DEF e, t

LEMMA NoData == Data(<<>>) = <<>>
<1>1. DOMAIN <<>> = {}
  OBVIOUS
<1>2. [i \in DOMAIN <<>> |-> IF <<>>[i].tag = "data" THEN <<>>[i].body ELSE <<>>] = <<>>
  BY <1>1
<1> QED BY <1>2, FlattenEmpty DEF Data

LEMMA AfterAppend ==
  ASSUME NEW frames \in Seq(Frame), NEW f \in Frame, NEW base64
  PROVE  LET s == Append(frames, f) IN
         /\ EndsInData(s) <=> f.tag = "data"
         /\ Position(s) = IF f.tag = "data" THEN Last(f.body) ELSE 0
         /\ Ready(s, base64) <=> (f.tag = "data" => Last(f.body) \in Outer(base64))
BY AppendLast DEF EndsInData, Position, Ready

LEMMA LastType ==
  ASSUME NEW S, NEW s \in Seq(S), s # <<>> PROVE Last(s) \in S /\ s[Len(s)] = Last(s)
<1>1. Len(s) \in DOMAIN s
  BY EmptySeq, LenProperties
<1> QED BY <1>1 DEF Last

LEMMA PositionType ==
  ASSUME NEW frames \in Seq(Frame), NEW base64, InLines(frames, base64)
  PROVE  Position(frames) \in Nat
<1> SUFFICES ASSUME EndsInData(frames) PROVE Last(Last(frames).body) \in Nat
  BY DEF Position
<1>1. PICK i \in DOMAIN frames : i = Len(frames) /\ frames[i] = Last(frames) /\ frames[i].tag = "data"
  BY EmptySeq, LenProperties DEF EndsInData, Last
<1>2. frames[i] \in Frame /\ frames[i].body # <<>>
  BY <1>1 DEF InLines, LineAt, Line, Run
<1> QED BY <1>1, <1>2, LastType DEF Frame

LEMMA LinesAppend ==
  ASSUME NEW frames \in Seq(Frame), NEW f \in Frame, NEW base64 \in BOOLEAN, InLines(frames, base64),
         f.tag = "data" => Ready(frames, base64) /\ Line(f, Position(frames), base64)
  PROVE  InLines(Append(frames, f), base64)
<1> DEFINE s == Append(frames, f)
           n == Len(frames)
<1>1. /\ n \in Nat /\ Len(s) = n + 1 /\ DOMAIN s = 1..(n + 1) /\ s[n + 1] = f
      /\ \A i \in 1..n : s[i] = frames[i]
      /\ DOMAIN frames = 1..n /\ (n # 0 => frames # <<>> /\ Last(frames) = frames[n])
  BY AppendLast, LenProperties, EmptySeq DEF Last
<1> HIDE DEF s, n
<1> SUFFICES ASSUME NEW i \in 1..(n + 1), s[i].tag = "data" PROVE LineAt(s, i, base64)
  BY <1>1 DEF InLines, s
<1>2. CASE i = n + 1
  <2>1. f.tag = "data" /\ Ready(frames, base64) /\ Line(f, Position(frames), base64)
    BY <1>1, <1>2
  <2>2. Position(frames) = IF i > 1 /\ s[i - 1].tag = "data" THEN Last(s[i - 1].body) ELSE 0
    <3>1. CASE n = 0
      <4>1. frames = <<>> /\ ~(i > 1)
        BY <1>1, <1>2, <3>1, EmptySeq DEF n
      <4> QED BY <4>1 DEF Position, EndsInData
    <3>2. CASE n # 0
      <4>1. i > 1 /\ s[i - 1] = frames[n] /\ frames # <<>> /\ Last(frames) = frames[n]
        BY <1>1, <1>2, <3>2
      <4> QED BY <4>1 DEF Position, EndsInData
    <3> QED BY <3>1, <3>2
  <2>3. ~(i < Len(s))
    BY <1>1, <1>2
  <2> QED BY <1>1, <1>2, <2>1, <2>2, <2>3 DEF LineAt
<1>3. CASE i \in 1..n
  <2>1. s[i] = frames[i] /\ LineAt(frames, i, base64)
    BY <1>1, <1>3 DEF InLines
  <2>2. i > 1 => s[i - 1] = frames[i - 1]
    BY <1>1, <1>3
  <2>3. i < n => s[i + 1] = frames[i + 1]
    BY <1>1, <1>3
  <2>4. i = n /\ s[i + 1].tag = "data" => Last(frames[i].body) \in Outer(base64)
    BY <1>1, <1>3, <2>1 DEF Ready, EndsInData
  <2>5. i < n + 1 /\ s[i + 1].tag = "data" => Last(s[i].body) \in Outer(base64)
    <3>1. CASE i = n
      BY <2>1, <2>4, <3>1
    <3>2. CASE i < n
      BY <1>1, <2>1, <2>3, <3>2 DEF LineAt, n
    <3> QED BY <1>1, <1>3, <3>1, <3>2
  <2> QED BY <1>1, <2>1, <2>2, <2>5 DEF LineAt
<1> QED BY <1>1, <1>2, <1>3

\* A run that no line end closes, and one more.
LEMMA RunJoin ==
  ASSUME NEW s \in Seq(Nat), NEW t \in Seq(Nat), NEW a \in Nat, NEW base64 \in BOOLEAN,
         Run(s, a, base64), Last(s) \notin Inner(base64), Run(t, a + Len(s), base64)
  PROVE  /\ Run(s \o t, a, base64) /\ Last(s \o t) = Last(t) /\ Len(s \o t) = Len(s) + Len(t)
         /\ s \o t = Bytes(a, a + Len(s) + Len(t))
<1> DEFINE m == Len(s)
           n == Len(t)
           u == s \o t
<1>1. m \in Nat /\ n \in Nat /\ m # 0 /\ n # 0 /\ Last(s) = s[m] /\ Last(t) = t[n]
  BY EmptySeq, LenProperties DEF Run, Last
<1>2. /\ u \in Seq(Nat) /\ Len(u) = m + n
      /\ \A i \in 1..(m + n) : u[i] = IF i <= m THEN s[i] ELSE t[i - m]
  BY ConcatProperties
<1>3. /\ s = Bytes(a, a + m) /\ t = Bytes(a + m, a + m + n)
      /\ \A k \in 1..(m - 1) : s[k] \notin Inner(base64)
      /\ \A k \in 1..(n - 1) : t[k] \notin Inner(base64)
  BY DEF Run
<1> HIDE DEF m, n
<1>4. u = Bytes(a, a + m + n)
  <2>1. PICK b \in Nat, c \in Nat : b = a + m /\ c = b + n
    BY <1>1
  <2>2. a <= b /\ b <= c
    BY <1>1, <2>1
  <2>3. Bytes(a, b) \o Bytes(b, c) = Bytes(a, c)
    BY <2>2, BytesJoin
  <2>4. a + m = b /\ a + m + n = c
    BY <2>1
  <2>5. u = s \o t /\ s = Bytes(a, b) /\ t = Bytes(b, c)
    BY <1>3, <2>4
  <2> HIDE DEF u
  <2> QED BY <2>3, <2>4, <2>5
<1> HIDE DEF u
<1>5. \A k \in 1..(m + n - 1) : u[k] \notin Inner(base64)
  <2> TAKE k \in 1..(m + n - 1)
  <2>0. k \in 1..(m + n) /\ k \in Int
    BY <1>1
  <2>a. u[k] = IF k <= m THEN s[k] ELSE t[k - m]
    BY <1>2, <2>0
  <2>1. CASE k < m
    <3>1. k \in 1..(m - 1) /\ k <= m
      BY <1>1, <2>0, <2>1
    <3> QED BY <1>3, <2>a, <3>1
  <2>2. CASE k = m
    <3>1. k <= m
      BY <2>2, <2>0
    <3> QED BY <1>1, <2>2, <2>a, <3>1
  <2>3. CASE k > m
    <3>1. PICK j \in 1..(n - 1) : j = k - m
      BY <1>1, <2>0, <2>3
    <3>2. ~(k <= m)
      BY <1>1, <2>0, <2>3
    <3> QED BY <1>3, <2>a, <3>1, <3>2
  <2> QED BY <1>1, <2>0, <2>1, <2>2, <2>3
<1>6. u # <<>> /\ Last(u) = u[m + n] /\ u[m + n] = t[n]
  <2>1. m + n \in 1..(m + n) /\ ~(m + n <= m) /\ (m + n) - m = n
    BY <1>1
  <2>2. u[m + n] = t[n]
    BY <1>2, <2>1
  <2>3. u # <<>>
    BY <1>1, <1>2, EmptySeq
  <2> QED BY <1>2, <2>2, <2>3 DEF Last
<1>7. Run(u, a, base64)
  BY <1>1, <1>2, <1>4, <1>5, <1>6 DEF Run
<1> QED BY <1>1, <1>2, <1>4, <1>6, <1>7 DEF u, m, n

LEMMA RunLast ==
  ASSUME NEW s \in Seq(Nat), NEW a \in Nat, NEW base64, Run(s, a, base64)
  PROVE  /\ Last(s) = a + Len(s) /\ Len(s) \in Nat \ {0}
         /\ s = Bytes(a, a + Len(s))
<1>1. Len(s) \in Nat /\ Len(s) # 0 /\ s = Bytes(a, a + Len(s))
  BY EmptySeq, LenProperties DEF Run
<1>2. PICK b \in Nat : b = a + Len(s)
  BY <1>1
<1>3. a < b
  BY <1>1, <1>2
<1>4. Last(Bytes(a, b)) = b
  BY <1>3, BytesLast
<1> QED BY <1>1, <1>2, <1>4

-----------------------------------------------------------------------------
(* What the calls of a streaming responser do to them.                     *)

Cost(f) == Envelope + Len(Content(f))

LEMMA CostType ==
  ASSUME NEW f \in Frame
  PROVE  Cost(f) \in Nat /\ Cost(f) > 0 /\ Cost(f) <= Envelope + Len(f.body)
<1>1. f.body \in Seq(Nat) /\ f.nl \in BOOLEAN
  BY DEF Frame
<1>2. Len(SubSeq(f.body, 1, Len(f.body) - 1)) <= Len(f.body)
  <2>1. \A i \in 1..(Len(f.body) - 1) : f.body[i] \in Nat
    BY <1>1
  <2> QED BY <1>1, <2>1, SubSeqProperties
<1>3. Len(Content(f)) \in Nat /\ Len(Content(f)) <= Len(f.body)
  BY <1>1, <1>2, ContentType DEF Content
<1> QED BY <1>1, <1>3, ResponserAssumption DEF Cost

\* The outcome o of a call on r that sends the frame f, or fails.
Emits(r, o, f, up) ==
  /\ o.r \in Record /\ o.r.kind = r.kind /\ o.r.first = r.first /\ o.r.closed = r.closed
  /\ IF o.err = "nil"
       THEN /\ up /\ r.encErr = "nil" /\ Cost(f) <= r.room
            /\ o.r.wire = Append(r.wire, f) /\ o.r.room = r.room - Cost(f) /\ o.r.encErr = "nil"
       ELSE o.r.wire = r.wire /\ o.r.room = r.room /\ o.r.encErr # "nil"
  /\ r.encErr = "nil" /\ Cost(f) <= r.room /\ up => o.err = "nil"

LEMMA EncodeEmits ==
  ASSUME NEW r \in Record, r.kind = "streaming", NEW f \in Frame, f.tag # "raw", NEW up \in BOOLEAN
  PROVE  LET e == Encode(r, f, up) IN Emits(r, e, f, up) /\ e.r.buf = r.buf
<1> DEFINE n == Cost(f)
           w == LimitedWrite(r, f, n, up)
           e == Encode(r, f, up)
<1>1. n \in Nat /\ n > 0 /\ r.room \in Nat
  BY CostType DEF Record
<1>2. e \in Outcome /\ w \in Outcome
  BY <1>1, EncodeType, LimitedWriteType
<1>3. Join(r.wire, f) = Append(r.wire, f)
  BY DEF Join
<1>4. \/ w.r = r /\ w.err # "nil" /\ (n > r.room \/ ~up)
      \/ w.r = [r EXCEPT !.room = @ - n, !.wire = Append(@, f)] /\ w.err = "nil" /\ n <= r.room /\ up
  BY <1>1, <1>3 DEF LimitedWrite, Success, Failure
<1>5. e = IF r.encErr # "nil" THEN Failure(r, r.encErr)
          ELSE Failure([w.r EXCEPT !.encErr = w.err], w.err)
  BY DEF Encode, Cost
<1> HIDE DEF w, n
<1>6. /\ w.r \in Record /\ w.r.kind = r.kind /\ w.r.first = r.first
      /\ w.r.closed = r.closed /\ w.r.buf = r.buf
      /\ w.r.wire = IF w.err = "nil" THEN Append(r.wire, f) ELSE r.wire
      /\ w.r.room = IF w.err = "nil" THEN r.room - n ELSE r.room
  BY <1>2, <1>4 DEF Record, Outcome
<1> DEFINE s == [w.r EXCEPT !.encErr = w.err]
<1>7. /\ s.kind = r.kind /\ s.first = r.first /\ s.closed = r.closed /\ s.buf = r.buf
      /\ s.wire = IF w.err = "nil" THEN Append(r.wire, f) ELSE r.wire
      /\ s.room = IF w.err = "nil" THEN r.room - n ELSE r.room
      /\ s.encErr = w.err
  BY <1>6 DEF Record
<1> HIDE DEF s, e
<1>8. e.r \in Record
  BY <1>2 DEF Outcome
<1>9. CASE r.encErr # "nil"
  <2>1. e.r = r /\ e.err = r.encErr
    BY <1>5, <1>9 DEF Failure
  <2> QED BY <1>9, <2>1 DEF Emits, e
<1>10. CASE r.encErr = "nil"
  <2>1. e.r = s /\ e.err = w.err
    BY <1>5, <1>10 DEF Failure, s
  <2>2. w.err = "nil" => up /\ n <= r.room
    BY <1>4
  <2>3. n <= r.room /\ up => w.err = "nil"
    BY <1>1, <1>4
  <2> HIDE DEF Cost
  <2>4. Emits(r, e, f, up)
    BY <1>7, <1>8, <1>10, <2>1, <2>2, <2>3 DEF Emits, n
  <2> QED BY <1>7, <2>1, <2>4 DEF e
<1> QED BY <1>9, <1>10

LEMMA CommitEmits ==
  ASSUME NEW r \in Record, r.kind = "streaming", NEW up \in BOOLEAN
  PROVE  LET c == Commit(r, up)
             f == DataFrame(r.id, Text(r.buf))
         IN  /\ c.r \in Record /\ c.r.kind = "streaming" /\ c.r.buf = <<>>
             /\ r.buf = <<>> => c = Success(r)
             /\ r.buf # <<>> => Emits(r, c, f, up)
             /\ f \in Frame /\ f.tag = "data" /\ ~f.nl /\ f.body = Text(r.buf)
<1> DEFINE f == DataFrame(r.id, Text(r.buf))
           e == Encode(r, f, up)
           c == [e EXCEPT !.r.buf = <<>>]
<1>1. f \in Frame /\ f.tag = "data" /\ ~f.nl /\ f.body = Text(r.buf)
  <2>1. f \in Frame /\ f.tag = "data"
    BY Tags, TextType DEF Record
  <2> QED BY <2>1 DEF DataFrame
<1> HIDE DEF f
<1>2. Emits(r, e, f, up) /\ e \in Outcome
  BY <1>1, EncodeEmits, EncodeType
<1> HIDE DEF e
<1>3. e.r \in Record /\ [e.r EXCEPT !.buf = <<>>] \in Record
  BY <1>2, Emptied DEF Emits
<1>4. c.r = [e.r EXCEPT !.buf = <<>>] /\ c.err = e.err
  BY <1>2 DEF Outcome
<1> HIDE DEF c
<1>5. /\ c.r \in Record /\ c.r.buf = <<>> /\ c.r.kind = e.r.kind /\ c.r.first = e.r.first
      /\ c.r.closed = e.r.closed /\ c.r.wire = e.r.wire /\ c.r.room = e.r.room /\ c.r.encErr = e.r.encErr
  BY <1>3, <1>4 DEF Record
<1>6. Emits(r, c, f, up)
  BY <1>2, <1>4, <1>5 DEF Emits
<1>7. r.buf # <<>> => Commit(r, up) = c
  BY DEF Commit, c, e, f
<1>8. r.buf = <<>> => Commit(r, up) = Success(r) /\ Success(r).r = r
  BY DEF Commit, Success
<1> QED BY <1>1, <1>2, <1>5, <1>6, <1>7, <1>8 DEF f, Emits

\* Without a line held back, a result is one frame.
LEMMA ResultEmits ==
  ASSUME NEW r \in Record, r.kind = "streaming", NEW v \in {OK, Null, Done}, NEW up \in BOOLEAN,
         r.buf = <<>>, ~r.closed
  PROVE  LET s == SetResult(r, v, up)
             f == ResultFrame(r.id, v)
         IN  /\ s.r.buf = <<>> /\ Emits(r, s, f, up)
             /\ f \in Frame /\ f.tag \notin {"raw", "data", "error"} /\ f.body = v.body
             /\ Cost(f) = Envelope + Len(v.body)
<1> DEFINE f == ResultFrame(r.id, v)
<1>1. SetResult(r, v, up) = Encode(r, f, up)
  BY DEF SetResult, SetResultStreaming, Commit, Success
<1>2. f \in Frame /\ f.tag \notin {"raw", "data", "error"} /\ f.body = v.body
  <2>1. v \in Value /\ v.tag \in {"result", "null"} /\ r.id \in Ids
    <3>1. v \in Value
      BY ValueTypes
    <3>2. v.tag \in {"result", "null"}
      BY DEF OK, Null, Done
    <3> QED BY <3>1, <3>2 DEF Record
  <2>2. f \in Frame
    BY <2>1, FrameTypes
  <2>3. f.tag = v.tag /\ f.body = v.body
    BY DEF ResultFrame
  <2> QED BY <2>1, <2>2, <2>3
<1>a. Cost(f) = Envelope + Len(v.body)
  BY <1>2 DEF Cost, Content, ResultFrame
<1> HIDE DEF f
<1>3. Emits(r, Encode(r, f, up), f, up) /\ Encode(r, f, up).r.buf = r.buf
  BY <1>2, EncodeEmits
<1> QED BY <1>1, <1>2, <1>a, <1>3 DEF f

\* A line of the output goes out, or is kept.
LEMMA PutLineEmits ==
  ASSUME NEW r \in Record, r.kind = "streaming", NEW p \in Piece, NEW up \in BOOLEAN, Raw(r.buf)
  PROVE  LET w == PutLine(r, p, up)
             f == LineFrame(r.id, Text(r.buf) \o p.body)
         IN  /\ f \in Frame /\ f.tag = "data" /\ f.nl /\ f.body = Text(r.buf) \o p.body
             /\ p.nl => Emits(r, w, f, up) /\ w.r.buf = <<>>
             /\ ~p.nl => /\ w.err = "nil" /\ w.r \in Record /\ w.r.kind = "streaming"
                         /\ w.r.first = r.first /\ w.r.closed = r.closed /\ w.r.wire = r.wire
                         /\ w.r.room = r.room /\ w.r.encErr = r.encErr
                         /\ Raw(w.r.buf) /\ w.r.buf # <<>> /\ Text(w.r.buf) = Text(r.buf) \o p.body
<1> DEFINE j == Join(r.buf, RawFrame(p.body))
           q == [r EXCEPT !.buf = Join(@, RawFrame(p.body))]
           b == [r EXCEPT !.buf = <<>>]
           f == LineFrame(r.id, Text(r.buf) \o p.body)
           e == Encode(b, f, up)
<1>1. /\ j \in Seq(Frame) /\ Raw(j) /\ j # <<>> /\ Text(j) = Text(r.buf) \o p.body
  BY RawJoin DEF Record, Piece
<1>2. q.buf = j
  BY DEF Record
<1>3. PutLine(r, p, up) = IF p.nl THEN e ELSE Success(q)
  <2>1. LineFrame(r.id, Text(q.buf)) = f
    <3> HIDE DEF j, q
    <3> QED BY <1>1, <1>2
  <2>2. PutLine(r, p, up) = IF p.nl THEN Encode(b, LineFrame(r.id, Text(q.buf)), up) ELSE Success(q)
    BY DEF PutLine
  <2> HIDE DEF f, q
  <2> QED BY <2>1, <2>2
<1>4. f \in Frame /\ f.tag = "data" /\ f.nl /\ f.body = Text(r.buf) \o p.body
  <2>1. Text(r.buf) \o p.body \in Seq(Nat)
    BY TextType DEF Record, Piece
  <2>2. f \in Frame /\ f.tag = "data"
    BY <2>1, Tags DEF Record
  <2> QED BY <2>2 DEF LineFrame
<1>5. /\ q \in Record /\ q.kind = r.kind /\ q.first = r.first /\ q.closed = r.closed
      /\ q.wire = r.wire /\ q.room = r.room /\ q.encErr = r.encErr
  BY <1>1 DEF Record
<1>6. /\ b \in Record /\ b.kind = r.kind /\ b.first = r.first /\ b.closed = r.closed
      /\ b.wire = r.wire /\ b.room = r.room /\ b.encErr = r.encErr /\ b.buf = <<>>
  BY Emptied DEF Record
<1> HIDE DEF f, q, b, j
<1>7. Emits(b, e, f, up) /\ e.r.buf = <<>>
  BY <1>4, <1>6, EncodeEmits
<1> HIDE DEF e
<1>8. Emits(r, e, f, up)
  BY <1>6, <1>7 DEF Emits
<1>9. CASE p.nl
  BY <1>3, <1>4, <1>7, <1>8, <1>9 DEF f
<1>10. CASE ~p.nl
  <2>1. PutLine(r, p, up).err = "nil" /\ PutLine(r, p, up).r = q
    BY <1>3, <1>10 DEF Success
  <2> QED BY <1>1, <1>2, <1>4, <1>5, <1>10, <2>1 DEF f
<1> QED BY <1>9, <1>10

-----------------------------------------------------------------------------
(* A stream in lines.                                                      *)

\* Whatever became of the request: the frames are lines, and what is held back is
\* the beginning of the next one.
Tidy(r, base64) ==
  /\ InLines(r.wire, base64) /\ Raw(r.buf)
  /\ r.buf # <<>> =>
       /\ Ready(r.wire, base64) /\ Run(Text(r.buf), Position(r.wire), base64)
       /\ Last(Text(r.buf)) \notin Inner(base64)

\* As long as nothing has failed: the frames and the buffer hold d bytes.
Streams(r, d, base64) ==
  /\ Tidy(r, base64) /\ Ready(r.wire, base64) /\ ~r.closed /\ r.encErr = "nil"
  /\ r.first => r.wire = <<>> /\ r.buf = <<>>
  /\ Data(r.wire) = Bytes(0, Position(r.wire))
  /\ d = Position(r.wire) + Len(Text(r.buf))

\* No encoding of an output is longer.
Most == 2 * MaxOutput

LEMMA MostType == Most \in Nat
BY RequestAssumption DEF Most

LEMMA MostFits == (Envelope + 1) * Most + Envelope + Len(OK.body) <= MaxInt64
BY OutputFits DEF Most

\* An unlimited stream can send the rest of the output, even byte by byte.
Ample(r) ==
  (Envelope + 1) * (Most - Position(r.wire))
    + (IF r.first THEN Envelope + Len(OK.body) ELSE 0) <= r.room

\* What the invoker is about to write after d bytes: a part of a line, or its end.
LinePiece(p, d, base64) ==
  Run(p.body, d, base64) /\ (p.nl <=> Last(p.body) \in Inner(base64))

LEMMA Ends == ASSUME NEW base64 \in BOOLEAN PROVE Inner(base64) \subseteq Outer(base64)
BY DEF Inner, Outer

LEMMA TidySent ==
  ASSUME NEW r \in Record, NEW f \in Frame, NEW base64 \in BOOLEAN, NEW s, s.buf = <<>>,
         InLines(r.wire, base64), s.wire = r.wire \/ s.wire = Append(r.wire, f),
         f.tag = "data" => Ready(r.wire, base64) /\ Line(f, Position(r.wire), base64)
  PROVE  Tidy(s, base64)
<1>1. InLines(s.wire, base64)
  BY LinesAppend DEF Record
<1>2. Raw(<<>>)
  <2>1. Len(<<>>) = 0 /\ DOMAIN <<>> = {}
    OBVIOUS
  <2> QED BY <2>1 DEF Raw
<1> QED BY <1>1, <1>2 DEF Tidy

LEMMA CommitTidy ==
  ASSUME NEW r \in Record, r.kind = "streaming", NEW up \in BOOLEAN, NEW base64 \in BOOLEAN, Tidy(r, base64)
  PROVE  LET c == Commit(r, up) IN
         /\ c.r \in Record /\ c.r.kind = "streaming" /\ c.r.buf = <<>> /\ c.r.closed = r.closed
         /\ Tidy(c.r, base64)
<1> DEFINE c == Commit(r, up)
           f == DataFrame(r.id, Text(r.buf))
<1>1. /\ c.r \in Record /\ c.r.kind = "streaming" /\ c.r.buf = <<>>
      /\ r.buf = <<>> => c = Success(r)
      /\ r.buf # <<>> => Emits(r, c, f, up)
      /\ f \in Frame /\ ~f.nl /\ f.body = Text(r.buf)
  BY CommitEmits
<1> HIDE DEF c, f
<1>2. CASE r.buf = <<>>
  BY <1>1, <1>2 DEF Success, c
<1>3. CASE r.buf # <<>>
  <2>1. InLines(r.wire, base64) /\ Ready(r.wire, base64) /\ Line(f, Position(r.wire), base64)
    BY <1>1, <1>3 DEF Tidy, Line
  <2>2. (c.r.wire = r.wire \/ c.r.wire = Append(r.wire, f)) /\ c.r.closed = r.closed
    BY <1>1, <1>3 DEF Emits
  <2>3. Tidy(c.r, base64)
    BY <1>1, <2>1, <2>2, TidySent
  <2> QED BY <1>1, <2>2, <2>3 DEF c
<1> QED BY <1>2, <1>3

LEMMA ResultTidy ==
  ASSUME NEW r \in Record, r.kind = "streaming", NEW v \in {OK, Null, Done}, NEW up \in BOOLEAN,
         NEW base64 \in BOOLEAN, Tidy(r, base64)
  PROVE  Tidy(SetResult(r, v, up).r, base64)
<1> DEFINE c == Commit(r, up)
           s == SetResult(c.r, v, up)
           f == ResultFrame(c.r.id, v)
<1>1. /\ c.r \in Record /\ c.r.kind = "streaming" /\ c.r.buf = <<>> /\ c.r.closed = r.closed
      /\ Tidy(c.r, base64)
  BY CommitTidy
<1>2. CASE r.closed
  BY <1>2 DEF SetResult, SetResultStreaming, Success
<1>3. CASE ~r.closed /\ c.err # "nil"
  BY <1>1, <1>3 DEF SetResult, SetResultStreaming
<1>4. CASE ~r.closed /\ c.err = "nil"
  <2>1. c.r.id = r.id
    BY DEF Commit, Encode, LimitedWrite, Success, Failure, Record
  <2>2. SetResult(r, v, up) = Encode(c.r, f, up)
    BY <1>4, <2>1 DEF SetResult, SetResultStreaming
  <2> HIDE DEF c
  <2>3. Commit(c.r, up) = Success(c.r)
    BY <1>1 DEF Commit
  <2>4. s = Encode(c.r, f, up)
    BY <1>1, <1>4, <2>3 DEF SetResult, SetResultStreaming, Success
  <2>5. /\ s.r.buf = <<>> /\ Emits(c.r, s, f, up)
        /\ f \in Frame /\ f.tag \notin {"raw", "data", "error"}
    BY <1>1, <1>4, ResultEmits
  <2> HIDE DEF f, s
  <2>6. Tidy(s.r, base64)
    BY <1>1, <2>5, TidySent DEF Emits, Tidy
  <2> QED BY <2>2, <2>4, <2>6 DEF f
<1> QED BY <1>2, <1>3, <1>4

LEMMA ErrorTidy ==
  ASSUME NEW r \in Record, r.kind = "streaming", NEW e \in Errors, NEW up \in BOOLEAN,
         NEW base64 \in BOOLEAN, Tidy(r, base64)
  PROVE  Tidy(SetError(r, e, up).r, base64)
<1> DEFINE c == Commit(r, up)
           q == [MaxResponse(c.r, 0) EXCEPT !.closed = TRUE]
           f == ErrorFrame(r.id, e)
           s == Encode(q, f, up)
<1>1. SetError(r, e, up) = IF r.closed THEN Success(r) ELSE IF c.err # "nil" THEN c ELSE s
  BY DEF SetError, SetErrorStreaming
<1>2. /\ c.r \in Record /\ c.r.kind = "streaming" /\ c.r.buf = <<>> /\ Tidy(c.r, base64)
  BY CommitTidy
<1>3. f \in Frame /\ f.tag \notin {"raw", "data"}
  BY Tags DEF Record
<1> HIDE DEF c, f
<1>4. q \in Record /\ q.kind = "streaming" /\ q.wire = c.r.wire /\ q.buf = <<>>
  <2>1. MaxResponse(c.r, 0) \in Record
    BY <1>2, MaxResponseType
  <2> QED BY <1>2, <2>1 DEF MaxResponse, Record
<1> HIDE DEF q
<1>5. Emits(q, s, f, up) /\ s.r.buf = <<>>
  BY <1>3, <1>4, EncodeEmits
<1> HIDE DEF s
<1>6. Tidy(s.r, base64)
  BY <1>2, <1>3, <1>4, <1>5, TidySent DEF Emits, Tidy
<1> QED BY <1>1, <1>2, <1>6 DEF Success

\* Close sends what is held back, then the footer.
LEMMA CloseSteps ==
  ASSUME NEW r \in Record, r.kind = "streaming", NEW up \in BOOLEAN, ~r.closed
  PROVE  LET c == Commit(r, up)
             s == SetResult(c.r, Done, up)
             z == Close(r, up)
         IN  /\ c.err # "nil" => z.r = c.r
             /\ c.err = "nil" => /\ z.r \in Record /\ z.r.kind = "streaming" /\ z.r.closed
                                 /\ z.r.wire = s.r.wire /\ z.r.buf = s.r.buf
             /\ c.r \in Record /\ c.r.kind = "streaming" /\ c.r.buf = <<>> /\ ~c.r.closed
             /\ s.r.buf = <<>> /\ Emits(c.r, s, ResultFrame(c.r.id, Done), up)
             /\ ResultFrame(c.r.id, Done) \in Frame
             /\ ResultFrame(c.r.id, Done).tag \notin {"raw", "data", "error"}
<1> DEFINE c == Commit(r, up)
           s == SetResult(c.r, Done, up)
           closed == [s EXCEPT !.r.closed = TRUE]
           f == ResultFrame(c.r.id, Done)
<1>1. Close(r, up) = IF c.err # "nil" THEN c ELSE closed
  BY DEF Close, CloseStreaming
<1>2. c.r \in Record /\ c.r.kind = "streaming" /\ c.r.buf = <<>> /\ ~c.r.closed
  BY CommitEmits DEF Emits, Success
<1> HIDE DEF c
<1>3. s.r.buf = <<>> /\ Emits(c.r, s, f, up) /\ f \in Frame /\ f.tag \notin {"raw", "data", "error"}
  BY <1>2, ResultEmits
<1>4. s \in Outcome
  BY <1>2, SetResultType, ValueTypes
<1> HIDE DEF s, f
<1>5. closed \in Outcome
  BY <1>4, Flagged
<1>6. /\ closed.r \in Record /\ closed.r.closed /\ closed.r.kind = s.r.kind
      /\ closed.r.wire = s.r.wire /\ closed.r.buf = s.r.buf
  BY <1>4, <1>5 DEF Outcome, Record
<1> HIDE DEF closed
<1>7. s.r.kind = "streaming"
  BY <1>2, <1>3 DEF Emits
<1> QED BY <1>1, <1>2, <1>3, <1>6, <1>7 DEF c, s, f

LEMMA CloseTidy ==
  ASSUME NEW r \in Record, r.kind = "streaming", NEW up \in BOOLEAN, NEW base64 \in BOOLEAN, Tidy(r, base64)
  PROVE  Tidy(Close(r, up).r, base64)
<1> DEFINE c == Commit(r, up)
           s == SetResult(c.r, Done, up)
           z == Close(r, up)
           f == ResultFrame(c.r.id, Done)
<1>1. c.r \in Record /\ c.r.buf = <<>> /\ Tidy(c.r, base64)
  BY CommitTidy
<1>2. CASE r.closed
  <2>1. z.r = c.r
    BY <1>2 DEF Close, CloseStreaming
  <2> QED BY <1>1, <2>1
<1>3. CASE ~r.closed
  <2>1. /\ c.err # "nil" => z.r = c.r
        /\ c.err = "nil" => z.r.wire = s.r.wire /\ z.r.buf = s.r.buf
        /\ s.r.buf = <<>> /\ Emits(c.r, s, f, up) /\ f \in Frame /\ f.tag \notin {"raw", "data", "error"}
    BY <1>3, CloseSteps
  <2> HIDE DEF c, s, z, f
  <2>2. CASE c.err # "nil"
    BY <1>1, <2>1, <2>2 DEF z
  <2>3. CASE c.err = "nil"
    <3>1. (z.r.wire = c.r.wire \/ z.r.wire = Append(c.r.wire, f)) /\ z.r.buf = <<>>
      BY <2>1, <2>3 DEF Emits
    <3>2. InLines(c.r.wire, base64)
      BY <1>1 DEF Tidy
    <3>3. Tidy(z.r, base64)
      BY <1>1, <2>1, <3>1, <3>2, TidySent
    <3> QED BY <3>3 DEF z
  <2> QED BY <2>2, <2>3
<1> QED BY <1>2, <1>3

\* A frame more costs no more than its bytes sent one by one.
LEMMA Afford ==
  ASSUME NEW a \in Nat, NEW n \in Nat \ {0}, a + n <= Most
  PROVE  /\ Envelope + n <= (Envelope + 1) * (Most - a)
         /\ (Envelope + 1) * (Most - (a + n)) + (Envelope + n) <= (Envelope + 1) * (Most - a)
<1>1. Envelope \in Nat /\ Most \in Nat
  BY ResponserAssumption, MostType
<1>2. PICK k \in Nat : k = Most - (a + n)
  BY <1>1
<1>3. Most - a = n + k
  BY <1>1, <1>2
<1>4. (Envelope + 1) * (n + k) = (Envelope + 1) * n + (Envelope + 1) * k
  BY <1>1, <1>2
<1>5. Envelope * n >= Envelope /\ (Envelope + 1) * n = Envelope * n + n
  BY <1>1
<1>6. (Envelope + 1) * k >= 0
  BY <1>1, <1>2
<1> DEFINE x == (Envelope + 1) * n
           y == (Envelope + 1) * k
           z == (Envelope + 1) * (n + k)
<1>7. x \in Int /\ y \in Int /\ z \in Int /\ Envelope * n \in Int
  BY <1>1, <1>2
<1>8. x >= Envelope + n /\ y >= 0 /\ z = x + y
  BY <1>1, <1>4, <1>5, <1>6, <1>7
<1>9. z = (Envelope + 1) * (Most - a) /\ y = (Envelope + 1) * (Most - (a + n))
  BY <1>2, <1>3
<1> HIDE DEF x, y, z
<1> QED BY <1>1, <1>7, <1>8, <1>9

LEMMA StreamsDeliver ==
  ASSUME NEW r \in Record, NEW base64, NEW d, Streams(r, d, base64)
  PROVE  /\ d \in Nat /\ Position(r.wire) \in Nat /\ Position(r.wire) <= d
         /\ Data(r.wire) \o Text(r.buf) = Bytes(0, d)
<1> DEFINE a == Position(r.wire)
           t == Text(r.buf)
<1>1. a \in Nat
  BY PositionType DEF Streams, Tidy, Record
<1>2. t \in Seq(Nat) /\ Len(t) \in Nat /\ d = a + Len(t) /\ Data(r.wire) = Bytes(0, a)
  BY TextType, LenProperties DEF Record, Streams
<1>3. t = Bytes(a, d)
  <2>1. CASE r.buf = <<>>
    <3>1. t = <<>> /\ Len(t) = 0
      BY <2>1 DEF Text
    <3> HIDE DEF a, t
    <3> QED BY <1>1, <1>2, <3>1, NoBytes
  <2>2. CASE r.buf # <<>>
    BY <1>2, <2>2 DEF Streams, Tidy, Run
  <2> QED BY <2>1, <2>2
<1> HIDE DEF a, t
<1>4. 0 <= a /\ a <= d /\ d \in Nat
  BY <1>1, <1>2
<1>5. Bytes(0, a) \o Bytes(a, d) = Bytes(0, d)
  BY <1>1, <1>4, BytesJoin
<1> QED BY <1>1, <1>2, <1>3, <1>4, <1>5 DEF a, t

\* The outcome of a write that continues the output from d up to e.
Continues(r, w, e, base64) ==
  /\ w.r \in Record /\ w.r.kind = "streaming" /\ Tidy(w.r, base64)
  /\ w.err = "nil" => /\ Streams(w.r, e, base64)
                      /\ Ample(r) /\ e <= Most => Ample(w.r)

LEMMA PutLineContinues ==
  ASSUME NEW r \in Record, r.kind = "streaming", NEW p \in Piece, NEW up \in BOOLEAN,
         NEW base64 \in BOOLEAN, NEW d \in Nat, Streams(r, d, base64), ~r.first, LinePiece(p, d, base64)
  PROVE  Continues(r, PutLine(r, p, up), d + Len(p.body), base64)
<1> DEFINE w == PutLine(r, p, up)
           a == Position(r.wire)
           t == Text(r.buf) \o p.body
           f == LineFrame(r.id, t)
           e == d + Len(p.body)
<1>1. /\ a \in Nat /\ Tidy(r, base64) /\ InLines(r.wire, base64) /\ Ready(r.wire, base64) /\ Raw(r.buf)
      /\ Data(r.wire) = Bytes(0, a) /\ d = a + Len(Text(r.buf))
      /\ r.wire \in Seq(Frame) /\ r.room \in Nat /\ ~r.closed /\ r.encErr = "nil"
  BY StreamsDeliver DEF Streams, Tidy, Record
<1>2. /\ Text(r.buf) \in Seq(Nat) /\ p.body \in Seq(Nat) /\ t \in Seq(Nat)
  BY TextType DEF Record, Piece
<1>3. /\ Run(t, a, base64) /\ Last(t) = Last(p.body) /\ Len(t) \in Nat \ {0}
      /\ e = a + Len(t) /\ Last(t) = e /\ t = Bytes(a, e) /\ e \in Nat
  <2>1. CASE r.buf = <<>>
    <3>1. t = p.body /\ d = a
      <4>1. Text(r.buf) = <<>> /\ Len(<<>>) = 0
        BY <2>1 DEF Text
      <4>2. <<>> \o p.body = p.body
        BY <1>2, ConcatEmptySeq
      <4> QED BY <1>1, <4>1, <4>2
    <3>2. Run(p.body, d, base64)
      BY DEF LinePiece
    <3>3. Last(p.body) = d + Len(p.body) /\ Len(p.body) \in Nat \ {0} /\ p.body = Bytes(d, d + Len(p.body))
      BY <1>2, <3>2, RunLast
    <3> HIDE DEF t, a
    <3> QED BY <3>1, <3>2, <3>3
  <2>2. CASE r.buf # <<>>
    <3>1. Run(Text(r.buf), a, base64) /\ Last(Text(r.buf)) \notin Inner(base64)
      BY <2>2 DEF Streams, Tidy
    <3>2. Run(p.body, a + Len(Text(r.buf)), base64)
      BY <1>1 DEF LinePiece
    <3>3. Run(t, a, base64) /\ Last(t) = Last(p.body) /\ Len(t) = Len(Text(r.buf)) + Len(p.body)
      BY <1>1, <1>2, <3>1, <3>2, RunJoin
    <3>4. Last(t) = a + Len(t) /\ Len(t) \in Nat \ {0} /\ t = Bytes(a, a + Len(t))
      BY <1>1, <1>2, <3>3, RunLast
    <3>5. Len(Text(r.buf)) \in Nat /\ Len(p.body) \in Nat
      BY <1>2, LenProperties
    <3>6. d + Len(p.body) = a + Len(t) /\ a + Len(t) \in Nat
      <4>1. a \in Nat /\ d = a + Len(Text(r.buf)) /\ Len(t) = Len(Text(r.buf)) + Len(p.body)
        BY <1>1, <3>3
      <4> DEFINE m == Len(Text(r.buf))
                 n == Len(p.body)
                 k == Len(t)
      <4>2. a \in Nat /\ d = a + m /\ k = m + n /\ m \in Nat /\ n \in Nat
        BY <3>5, <4>1
      <4> HIDE DEF m, n, k, a
      <4>3. d + n = a + k /\ a + k \in Nat
        BY <4>2
      <4> QED BY <4>3 DEF n, k
    <3>7. e = a + Len(t)
      BY <3>6
    <3> HIDE DEF t, e, a
    <3> QED BY <3>3, <3>4, <3>6, <3>7
  <2> QED BY <2>1, <2>2
<1>4. /\ f \in Frame /\ f.tag = "data" /\ f.nl /\ f.body = t
      /\ p.nl => Emits(r, w, f, up) /\ w.r.buf = <<>>
      /\ ~p.nl => /\ w.err = "nil" /\ w.r \in Record /\ w.r.kind = "streaming"
                  /\ w.r.first = r.first /\ w.r.closed = r.closed /\ w.r.wire = r.wire
                  /\ w.r.room = r.room /\ w.r.encErr = r.encErr
                  /\ Raw(w.r.buf) /\ w.r.buf # <<>> /\ Text(w.r.buf) = t
  BY <1>1, PutLineEmits
<1>5. p.nl <=> Last(p.body) \in Inner(base64)
  BY DEF LinePiece
<1> HIDE DEF w, a, t, f, e
<1>6. CASE p.nl
  <2>1. w.r \in Record /\ w.r.kind = "streaming" /\ (w.r.wire = r.wire \/ w.r.wire = Append(r.wire, f))
    BY <1>4, <1>6 DEF Emits
  <2>2. Line(f, Position(r.wire), base64)
    BY <1>3, <1>4, <1>5, <1>6 DEF a, Line
  <2>3. Tidy(w.r, base64)
    BY <1>1, <1>4, <1>6, <2>1, <2>2, TidySent
  <2>4. ASSUME w.err = "nil"
        PROVE  Streams(w.r, e, base64) /\ (Ample(r) /\ e <= Most => Ample(w.r))
    <3>1. w.r.wire = Append(r.wire, f) /\ w.r.room = r.room - Cost(f) /\ w.r.encErr = "nil"
          /\ ~w.r.first /\ ~w.r.closed
      BY <1>1, <1>4, <1>6, <2>4 DEF Emits
    <3>2. Position(w.r.wire) = e /\ Ready(w.r.wire, base64)
      <4>1. Last(f.body) \in Outer(base64)
        BY <1>3, <1>4, <1>5, <1>6, Ends
      <4> QED BY <1>1, <1>3, <1>4, <3>1, <4>1, AfterAppend
    <3>3. Data(w.r.wire) = Bytes(0, e)
      <4>1. Data(w.r.wire) = Bytes(0, a) \o Bytes(a, e)
        BY <1>1, <1>3, <1>4, <3>1, DataAppend
      <4>2. 0 <= a /\ a <= e
        BY <1>1, <1>3
      <4> QED BY <1>1, <1>3, <4>1, <4>2, BytesJoin
    <3>4. Text(w.r.buf) = <<>> /\ Len(<<>>) = 0 /\ e = e + 0
      BY <1>3, <1>4, <1>6 DEF Text
    <3>5. Streams(w.r, e, base64)
      BY <2>3, <3>1, <3>2, <3>3, <3>4 DEF Streams
    <3>6. ASSUME Ample(r), e <= Most PROVE Ample(w.r)
      <4>1. PICK n \in Nat \ {0} : n = Len(t) /\ e = a + n /\ Cost(f) <= Envelope + n
        BY <1>3, <1>4, CostType
      <4>a. Cost(f) \in Nat
        BY <1>4, CostType
      <4>2. (Envelope + 1) * (Most - (a + n)) + (Envelope + n) <= (Envelope + 1) * (Most - a)
        BY <1>1, <3>6, <4>1, Afford
      <4> DEFINE x == (Envelope + 1) * (Most - (a + n))
                 y == (Envelope + 1) * (Most - a)
      <4>3. x \in Int /\ y \in Int /\ Envelope \in Nat
        BY <1>1, ResponserAssumption, MostType
      <4>4. y + 0 <= r.room
        BY <3>6 DEF Ample, a
      <4> HIDE DEF x, y
      <4>5. x + (Envelope + n) <= y
        BY <4>2 DEF x, y
      <4>6. x + 0 <= w.r.room
        BY <1>1, <3>1, <4>1, <4>a, <4>3, <4>4, <4>5
      <4> QED BY <3>1, <3>2, <4>1, <4>6 DEF Ample, x
    <3> QED BY <3>5, <3>6
  <2> QED BY <2>1, <2>3, <2>4 DEF Continues, w, e
<1>7. CASE ~p.nl
  <2>1. Position(w.r.wire) = a /\ w.r.wire = r.wire
    BY <1>4, <1>7 DEF a
  <2>2. Tidy(w.r, base64)
    BY <1>1, <1>3, <1>4, <1>5, <1>7, <2>1 DEF Tidy
  <2>3. Streams(w.r, e, base64)
    BY <1>1, <1>3, <1>4, <1>7, <2>1, <2>2 DEF Streams
  <2>4. Ample(r) => Ample(w.r)
    BY <1>4, <1>7, <2>1 DEF Ample
  <2> QED BY <1>4, <1>7, <2>2, <2>3, <2>4 DEF Continues, w, e
<1> QED BY <1>6, <1>7

LEMMA NothingSent == Position(<<>>) = 0 /\ Data(<<>>) = <<>> /\ \A b \in BOOLEAN : Ready(<<>>, b) /\ InLines(<<>>, b)
<1>1. DOMAIN <<>> = {}
  OBVIOUS
<1> QED BY <1>1, NoData DEF Position, EndsInData, Ready, InLines

LEMMA NothingKept == Raw(<<>>) /\ Text(<<>>) = <<>> /\ Len(<<>>) = 0 /\ Bytes(0, 0) = <<>>
<1>1. DOMAIN <<>> = {} /\ Len(<<>>) = 0
  OBVIOUS
<1>2. Bytes(0, 0) = <<>>
  BY NoBytes
<1> QED BY <1>1, <1>2 DEF Raw, Text

\* The header of a stream costs what Ample has set aside for it.
LEMMA PutContinues ==
  ASSUME NEW r \in Record, r.kind = "streaming", NEW p \in Piece, NEW up \in BOOLEAN,
         NEW base64 \in BOOLEAN, NEW d \in Nat, Streams(r, d, base64), LinePiece(p, d, base64)
  PROVE  Continues(r, Put(r, p, up), d + Len(p.body), base64)
<1> DEFINE hd == SetResult(r, OK, up)
           on == [hd.r EXCEPT !.first = FALSE]
           off == [hd EXCEPT !.r.first = FALSE]
           f == ResultFrame(r.id, OK)
<1>1. Put(r, p, up) = IF ~r.first THEN PutLine(r, p, up)
                      ELSE IF hd.err # "nil" THEN off ELSE PutLine(on, p, up)
  BY DEF Put
<1>2. CASE ~r.first
  BY <1>1, <1>2, PutLineContinues
<1>3. CASE r.first
  <2>1. r.wire = <<>> /\ r.buf = <<>> /\ ~r.closed /\ d = 0 /\ r.room \in Nat
    BY <1>3, NothingSent, NothingKept DEF Streams, Record
  <2>2. /\ hd.r.buf = <<>> /\ Emits(r, hd, f, up)
        /\ f \in Frame /\ f.tag \notin {"raw", "data", "error"} /\ f.body = OK.body /\ Cost(f) = Envelope + Len(OK.body)
    BY <2>1, ResultEmits
  <2>3. hd \in Outcome
    BY SetResultType, ValueTypes
  <2> HIDE DEF hd, f
  <2>4. off \in Outcome /\ off.r = on /\ off.err = hd.err
    BY <2>3, Flagged DEF Outcome
  <2>5. /\ on \in Record /\ on.kind = hd.r.kind /\ on.closed = hd.r.closed /\ on.first = FALSE
        /\ on.wire = hd.r.wire /\ on.buf = <<>> /\ on.room = hd.r.room /\ on.encErr = hd.r.encErr
    BY <2>2, <2>3 DEF Outcome, Record
  <2> HIDE DEF on, off
  <2>6. on.kind = "streaming" /\ Tidy(on, base64)
    <3>1. on.wire = r.wire \/ on.wire = Append(r.wire, f)
      BY <2>2, <2>5 DEF Emits
    <3>2. InLines(r.wire, base64)
      BY DEF Streams, Tidy
    <3> QED BY <2>2, <2>5, <3>1, <3>2, TidySent DEF Emits
  <2>7. CASE hd.err # "nil"
    BY <1>1, <1>3, <2>4, <2>5, <2>6, <2>7 DEF Continues
  <2>8. CASE hd.err = "nil"
    <3>1. on.wire = Append(<<>>, f) /\ on.room = r.room - Cost(f) /\ on.encErr = "nil" /\ ~on.closed
      BY <2>1, <2>2, <2>5, <2>8 DEF Emits
    <3>2. /\ Position(on.wire) = 0 /\ Ready(on.wire, base64) /\ Data(on.wire) = <<>>
      <4>1. <<>> \in Seq(Frame)
        OBVIOUS
      <4> QED BY <2>2, <3>1, <4>1, AfterAppend, DataAppend, NothingSent
    <3>3. Streams(on, 0, base64)
      BY <2>5, <2>6, <3>1, <3>2, NothingKept DEF Streams
    <3>4. Continues(on, PutLine(on, p, up), d + Len(p.body), base64)
      BY <2>1, <2>5, <2>6, <3>3, PutLineContinues
    <3>5. Ample(r) => Ample(on)
      <4> SUFFICES ASSUME Ample(r) PROVE Ample(on)
        OBVIOUS
      <4> DEFINE x == (Envelope + 1) * (Most - 0)
                 y == Len(OK.body)
      <4>1. x \in Int /\ y \in Int /\ Envelope \in Int
        <5>1. OK.body \in Seq(Nat)
          BY DEF OK
        <5> QED BY <5>1, LenProperties, ResponserAssumption, MostType
      <4>2. x + (Envelope + y) <= r.room /\ Cost(f) = Envelope + y
        BY <1>3, <2>1, <2>2, NothingSent DEF Ample
      <4> HIDE DEF x, y
      <4>3. x + 0 <= on.room
        BY <2>1, <3>1, <4>1, <4>2
      <4> QED BY <2>5, <3>2, <4>3 DEF Ample, x
    <3> QED BY <1>1, <1>3, <2>8, <3>4, <3>5 DEF Continues
  <2> QED BY <2>7, <2>8
<1> QED BY <1>2, <1>3

LEMMA CloseDelivers ==
  ASSUME NEW r \in Record, r.kind = "streaming", NEW base64 \in BOOLEAN, NEW d \in Nat,
         Streams(r, d, base64), d <= Most, Ample(r)
  PROVE  LET z == Close(r, TRUE).r IN Data(z.wire) \o Text(z.buf) = Bytes(0, d)
<1> DEFINE c == Commit(r, TRUE)
           s == SetResult(c.r, Done, TRUE)
           z == Close(r, TRUE)
           f == DataFrame(r.id, Text(r.buf))
           g == ResultFrame(c.r.id, Done)
           a == Position(r.wire)
           n == Len(Text(r.buf))
<1>1. /\ a \in Nat /\ a <= d /\ Data(r.wire) \o Text(r.buf) = Bytes(0, d) /\ d = a + n
      /\ r.wire \in Seq(Frame) /\ r.room \in Nat /\ ~r.closed /\ r.encErr = "nil"
      /\ Data(r.wire) = Bytes(0, a)
  BY StreamsDeliver DEF Streams, Record
<1>2. /\ c.r \in Record /\ c.r.kind = "streaming" /\ c.r.buf = <<>>
      /\ r.buf = <<>> => c = Success(r)
      /\ r.buf # <<>> => Emits(r, c, f, TRUE)
      /\ f \in Frame /\ f.tag = "data" /\ f.body = Text(r.buf)
  BY CommitEmits
<1>3. /\ c.err = "nil" => z.r.wire = s.r.wire /\ z.r.buf = s.r.buf
      /\ ~c.r.closed /\ s.r.buf = <<>> /\ Emits(c.r, s, g, TRUE)
      /\ g \in Frame /\ g.tag \notin {"raw", "data", "error"}
  BY <1>1, CloseSteps
<1>4. n \in Nat /\ (r.buf # <<>> => n # 0)
  <2>1. Text(r.buf) \in Seq(Nat)
    BY TextType DEF Record
  <2>2. r.buf # <<>> => Text(r.buf) # <<>>
    BY DEF Streams, Tidy, Run
  <2> QED BY <2>1, <2>2, EmptySeq, LenProperties
<1> HIDE DEF a, n, c, s, z, f, g
<1>5. c.err = "nil" /\ Data(c.r.wire) = Bytes(0, d) /\ c.r.wire \in Seq(Frame)
  <2>1. CASE r.buf = <<>>
    <3>1. n = 0 /\ d = a
      BY <1>1, <1>4, <2>1, NothingKept DEF n
    <3> QED BY <1>1, <1>2, <2>1, <3>1 DEF Success
  <2>2. CASE r.buf # <<>>
    <3>1. Envelope + n <= (Envelope + 1) * (Most - a)
      <4>1. n \in Nat \ {0} /\ a + n <= Most
        BY <1>1, <1>4, <2>2
      <4> QED BY <1>1, <4>1, Afford
    <3>2. (Envelope + 1) * (Most - a) <= r.room
      <4> DEFINE x == (Envelope + 1) * (Most - a)
                 y == Len(OK.body)
      <4>1. x \in Int /\ y \in Nat /\ Envelope \in Nat
        <5>1. OK.body \in Seq(Nat)
          BY DEF OK
        <5> QED BY <1>1, <5>1, LenProperties, ResponserAssumption, MostType
      <4>2. x + (IF r.first THEN Envelope + y ELSE 0) <= r.room
        BY DEF Ample, a
      <4> HIDE DEF x, y
      <4>3. x <= r.room
        BY <1>1, <4>1, <4>2
      <4> QED BY <4>3 DEF x
    <3>3. Cost(f) <= r.room
      <4>1. Cost(f) <= Envelope + n /\ Cost(f) \in Nat
        BY <1>2, CostType DEF n
      <4> DEFINE x == (Envelope + 1) * (Most - a)
      <4>2. x \in Int /\ Envelope \in Nat
        BY <1>1, ResponserAssumption, MostType
      <4>3. Envelope + n <= x /\ x <= r.room
        BY <3>1, <3>2
      <4> HIDE DEF x
      <4> QED BY <1>1, <1>4, <4>1, <4>2, <4>3
    <3>4. c.err = "nil" /\ c.r.wire = Append(r.wire, f)
      BY <1>1, <1>2, <2>2, <3>3 DEF Emits
    <3> QED BY <1>1, <1>2, <3>4, DataAppend DEF Record
  <2> QED BY <2>1, <2>2
<1>6. z.r.buf = <<>> /\ (z.r.wire = c.r.wire \/ z.r.wire = Append(c.r.wire, g))
  BY <1>3, <1>5 DEF Emits
<1>7. Data(z.r.wire) = Bytes(0, d)
  BY <1>3, <1>5, <1>6, DataAppend
<1>8. Bytes(0, d) \o <<>> = Bytes(0, d)
  BY BytesType, ConcatEmptySeq
<1> QED BY <1>6, <1>7, <1>8, NothingKept DEF z

-----------------------------------------------------------------------------
(* The three responsers alike.                                             *)

\* The responser takes output and has taken d bytes of it.
Holds(r, d, base64) ==
  /\ r.kind = "rpc" => /\ r.wire = <<>> /\ ~r.resultSet /\ ~r.dataSent
                       /\ Raw(r.buf) /\ Text(r.buf) = Bytes(0, d)
  /\ r.kind = "legacy" => Raw(r.wire) /\ Text(r.wire) = Bytes(0, d)
  /\ r.kind = "streaming" => Streams(r, d, base64)

Rich(r) == r.kind = "streaming" => Ample(r)

Taken(r) ==
  IF r.kind = "streaming" THEN Data(r.wire) \o Text(r.buf)
  ELSE Text(IF r.kind = "rpc" /\ r.wire = <<>> THEN r.buf ELSE r.wire)

LEMMA HoldsContent ==
  ASSUME NEW r \in Record, NEW base64, NEW d \in Nat, Holds(r, d, base64) PROVE Taken(r) = Bytes(0, d)
<1>1. r.kind \in {"rpc", "legacy", "streaming"}
  BY DEF Record, Kinds
<1> QED BY <1>1, StreamsDeliver DEF Holds, Taken

\* Nothing has been written to it.
Fresh(r) ==
  /\ r.wire = <<>> /\ r.buf = <<>> /\ r.first /\ ~r.closed /\ ~r.resultSet /\ ~r.dataSent
  /\ r.encErr = "nil"

LEMMA FreshHolds ==
  ASSUME NEW r \in Record, Fresh(r), NEW base64 \in BOOLEAN
  PROVE  Holds(r, 0, base64) /\ (r.room = MaxInt64 => Rich(r))
<1>1. Streams(r, 0, base64)
  BY NothingSent, NothingKept DEF Fresh, Streams, Tidy
<1>2. r.room = MaxInt64 => Ample(r)
  <2> DEFINE x == (Envelope + 1) * (Most - 0)
             y == Len(OK.body)
  <2>1. x \in Int /\ y \in Int /\ Envelope \in Int /\ MaxInt64 \in Int
    <3>1. OK.body \in Seq(Nat)
      BY DEF OK
    <3> QED BY <3>1, LenProperties, ResponserAssumption, MostType
  <2>2. x + Envelope + y <= MaxInt64
    <3>1. Most - 0 = Most
      BY MostType
    <3> QED BY <3>1, MostFits
  <2>3. Ample(r) <=> x + (Envelope + y) <= r.room
    BY NothingSent DEF Fresh, Ample
  <2> HIDE DEF x, y
  <2> QED BY <2>1, <2>2, <2>3
<1> QED BY <1>1, <1>2, NothingKept DEF Fresh, Holds, Rich

\* A plain answer can hold every output.
LEMMA OutputLength ==
  ASSUME NEW d \in Nat, d <= Most PROVE Envelope + d <= MaxInt64
<1> DEFINE x == Len(OK.body)
           y == (Envelope + 1) * Most
<1>1. x \in Nat /\ y \in Nat /\ Most \in Nat /\ Envelope \in Nat /\ MaxInt64 \in Nat
  <2>1. OK.body \in Seq(Nat)
    BY DEF OK
  <2> QED BY <2>1, LenProperties, ResponserAssumption, MostType
<1>2. Most <= y
  <2>1. y = Envelope * Most + Most /\ Envelope * Most >= 0
    BY <1>1
  <2> DEFINE z == Envelope * Most
  <2>2. z \in Int
    BY <1>1
  <2> HIDE DEF y, z
  <2> QED BY <1>1, <2>1, <2>2 DEF z
<1>3. y + Envelope + x <= MaxInt64
  BY MostFits
<1> HIDE DEF x, y
<1> QED BY <1>1, <1>2, <1>3

\* A plain or a legacy responser takes a piece as a whole, or not at all.
LEMMA WriteJoins ==
  ASSUME NEW r \in Record, r.kind # "streaming", NEW p \in Piece, NEW up \in BOOLEAN
  PROVE  LET w == Put(r, p, up)
             f == RawFrame(p.body)
         IN  /\ w.r \in Record /\ w.r.kind = r.kind /\ w.r.resultSet = r.resultSet
             /\ w.r.dataSent = r.dataSent
             /\ w.err # "nil" => w.r = r
             /\ w.err = "nil" =>
                  /\ Len(p.body) <= r.room /\ w.r.room = r.room - Len(p.body)
                  /\ w.r.buf = IF r.kind = "rpc" THEN Join(r.buf, f) ELSE r.buf
                  /\ w.r.wire = IF r.kind = "rpc" THEN r.wire ELSE Join(r.wire, f)
<1> DEFINE f == RawFrame(p.body)
           n == Len(p.body)
           w == LimitedWrite(r, f, n, up)
<1>1. Put(r, p, up) = w
  BY DEF Put
<1>2. w \in Outcome /\ n \in Nat /\ r.room \in Nat
  <2>1. f \in Frame /\ n \in Nat
    BY FrameTypes, LenProperties DEF Piece
  <2> QED BY <2>1, LimitedWriteType DEF Record
<1> HIDE DEF n, f
<1> DEFINE b == [r EXCEPT !.room = @ - n, !.buf = Join(@, f)]
           s == [r EXCEPT !.room = @ - n, !.wire = Join(@, f)]
<1>3. \/ w.r = r /\ w.err # "nil"
      \/ r.kind = "rpc" /\ w.r = b /\ w.err = "nil" /\ n <= r.room
      \/ r.kind # "rpc" /\ w.r = s /\ w.err = "nil" /\ n <= r.room
  BY <1>2 DEF LimitedWrite, Success, Failure
<1>4. /\ b.kind = r.kind /\ b.resultSet = r.resultSet /\ b.dataSent = r.dataSent
      /\ b.room = r.room - n /\ b.buf = Join(r.buf, f) /\ b.wire = r.wire
      /\ s.kind = r.kind /\ s.resultSet = r.resultSet /\ s.dataSent = r.dataSent
      /\ s.room = r.room - n /\ s.buf = r.buf /\ s.wire = Join(r.wire, f)
  BY DEF Record
<1> HIDE DEF w, b, s
<1>5. w.r \in Record
  BY <1>2 DEF Outcome
<1>6. CASE w.err # "nil"
  <2>1. w.r = r
    BY <1>3, <1>6
  <2> QED BY <1>1, <1>6, <2>1
<1>7. CASE w.err = "nil" /\ r.kind = "rpc"
  <2>1. w.r = b /\ n <= r.room
    BY <1>3, <1>7
  <2> QED BY <1>1, <1>4, <1>5, <1>7, <2>1 DEF n, f
<1>8. CASE w.err = "nil" /\ r.kind # "rpc"
  <2>1. w.r = s /\ n <= r.room
    BY <1>3, <1>8
  <2> QED BY <1>1, <1>4, <1>5, <1>8, <2>1 DEF n, f
<1> QED BY <1>6, <1>7, <1>8

\* The outcome of a write that continues the output from d up to e.
Takes(r, w, e, base64) ==
  /\ w.r \in Record /\ w.r.kind = r.kind
  /\ r.kind = "streaming" => Tidy(w.r, base64)
  /\ r.kind = "rpc" => w.r.resultSet = r.resultSet /\ (w.err # "nil" => w.r = r)
  /\ w.err = "nil" => Holds(w.r, e, base64) /\ (Rich(r) /\ e <= Most => Rich(w.r))

LEMMA PutTakes ==
  ASSUME NEW r \in Record, NEW p \in Piece, NEW up \in BOOLEAN, NEW base64 \in BOOLEAN,
         NEW d \in Nat, Holds(r, d, base64), p.body = Bytes(d, d + Len(p.body)),
         r.kind = "streaming" => LinePiece(p, d, base64)
  PROVE  Takes(r, Put(r, p, up), d + Len(p.body), base64)
<1> DEFINE w == Put(r, p, up)
           f == RawFrame(p.body)
           e == d + Len(p.body)
<1>1. CASE r.kind = "streaming"
  <2>1. Continues(r, w, e, base64)
    BY <1>1, PutContinues DEF Holds
  <2> HIDE DEF w, e
  <2> QED BY <1>1, <2>1 DEF Takes, Continues, Holds, Rich, w, e
<1>2. CASE r.kind # "streaming"
  <2>1. /\ w.r \in Record /\ w.r.kind = r.kind /\ w.r.resultSet = r.resultSet
        /\ w.r.dataSent = r.dataSent
        /\ w.err # "nil" => w.r = r
        /\ w.err = "nil" => /\ w.r.buf = IF r.kind = "rpc" THEN Join(r.buf, f) ELSE r.buf
                            /\ w.r.wire = IF r.kind = "rpc" THEN r.wire ELSE Join(r.wire, f)
    BY <1>2, WriteJoins
  <2>2. p.body \in Seq(Nat) /\ r.buf \in Seq(Frame) /\ r.wire \in Seq(Frame)
    BY DEF Piece, Record
  <2>3. e \in Nat /\ d <= e /\ p.body = Bytes(d, e)
    <3>1. Len(p.body) \in Nat /\ p.body = Bytes(d, d + Len(p.body))
      BY <2>2, LenProperties
    <3> QED BY <3>1
  <2> HIDE DEF w, e
  <2>4. Bytes(0, d) \o p.body = Bytes(0, e)
    <3>1. 0 \in Nat /\ 0 <= d
      OBVIOUS
    <3>2. Bytes(0, d) \o Bytes(d, e) = Bytes(0, e)
      BY <2>3, <3>1, BytesJoin
    <3> QED BY <2>3, <3>2
  <2>5. ASSUME w.err = "nil" PROVE Holds(w.r, e, base64)
    <3>1. CASE r.kind = "rpc"
      <4>1. Raw(r.buf) /\ Text(r.buf) = Bytes(0, d) /\ r.wire = <<>> /\ ~r.resultSet /\ ~r.dataSent
        BY <3>1 DEF Holds
      <4>2. Raw(Join(r.buf, f)) /\ Text(Join(r.buf, f)) = Bytes(0, e)
        BY <2>2, <2>4, <4>1, RawJoin
      <4> QED BY <2>1, <2>5, <3>1, <4>1, <4>2 DEF Holds
    <3>2. CASE r.kind = "legacy"
      <4>1. Raw(r.wire) /\ Text(r.wire) = Bytes(0, d)
        BY <3>2 DEF Holds
      <4>2. Raw(Join(r.wire, f)) /\ Text(Join(r.wire, f)) = Bytes(0, e)
        BY <2>2, <2>4, <4>1, RawJoin
      <4> QED BY <2>1, <2>5, <3>2, <4>2 DEF Holds
    <3> QED BY <1>2, <3>1, <3>2 DEF Record, Kinds
  <2> QED BY <1>2, <2>1, <2>5 DEF Takes, Rich, w, e
<1> QED BY <1>1, <1>2

\* Close adds to what the client gets nothing but a header's or a footer's text.
LEMMA CloseContent ==
  ASSUME NEW r \in Record, NEW base64 \in BOOLEAN, NEW d \in Nat, Holds(r, d, base64),
         d <= Most, Rich(r), r.kind = "rpc" => r.id # "absent"
  PROVE  Taken(Close(r, TRUE).r) = Bytes(0, d)
<1> DEFINE z == Close(r, TRUE).r
<1>1. z.kind = r.kind
  BY KeepsKind
<1>2. CASE r.kind = "streaming"
  <2>1. Data(z.wire) \o Text(z.buf) = Bytes(0, d)
    BY <1>2, CloseDelivers DEF Holds, Rich
  <2> HIDE DEF z
  <2> QED BY <1>1, <1>2, <2>1 DEF Taken, z
<1>3. CASE r.kind = "legacy"
  <2>1. z = r
    BY <1>3 DEF Close, Success
  <2> QED BY <1>3, <2>1 DEF Taken, Holds
<1>4. CASE r.kind = "rpc"
  <2>1. /\ r.wire = <<>> /\ ~r.resultSet /\ ~r.dataSent /\ Text(r.buf) = Bytes(0, d)
    BY <1>4 DEF Holds
  <2>2. Envelope + Len(Text(r.buf)) <= MaxInt64
    <3>1. 0 <= d
      OBVIOUS
    <3>2. Len(Bytes(0, d)) = d
      BY <3>1, BytesType
    <3> QED BY <2>1, <3>2, OutputLength
  <2> DEFINE f == ResultFrame(r.id, TextValue(Text(r.buf)))
  <2>3. z.wire = <<f>>
    BY <1>4, <2>1, <2>2, RpcClose
  <2>4. f.body = Bytes(0, d)
    BY <2>1 DEF ResultFrame, TextValue
  <2> HIDE DEF z, f
  <2>5. z.wire # <<>> /\ z.wire[1] = f
    BY <2>3
  <2>6. Taken(z) = Text(z.wire)
    BY <1>1, <1>4, <2>5 DEF Taken
  <2> QED BY <2>4, <2>5, <2>6 DEF Text, z
<1> QED BY <1>2, <1>3, <1>4 DEF Record, Kinds

-----------------------------------------------------------------------------
(* What the goroutines change of what they share.                          *)

LEMMA Busy ==
  ASSUME TypeOK, Control, left # "forced"
  PROVE  /\ inv \notin {"none", "exit", "exited"} => h \in InProcess
         /\ h \in Closing \cup Over => inv \in {"none", "exit", "exited"}
BY DEF TypeOK, Control, Closing, Over

LEMMA HandlerSteps ==
  ASSUME TypeOK, Control, Handler
  PROVE  /\ UNCHANGED <<rq, val, hand, conn, cp, chunk, enc, pw, child>>
         /\ inv' = inv \/ (inv = "none" /\ inv' = "invoke")
         /\ inv # "none" /\ inv' # "none" => h \notin {"read", "process"}
         /\ left = "forced" => left' = "forced"
         /\ ctx' = ctx \/ (h' = "close" /\ ctx = "live" /\ ctx' = "canceled")
         /\ h \in InProcess => rsp' = rsp /\ h' \in InProcess \cup {"close"}
         /\ err' = err \/ h \in {"read", "process"} \/ err' # "nil"
<1> USE DEF Control, InProcess, Closing, Over, invoker, output
<1>1. CASE ReadFromTransport \/ Process
  BY <1>1 DEF ReadFromTransport, Process
<1>2. CASE SelectTimeout \/ SelectDone \/ CheckErr \/ GraceDone \/ GraceTimer
  BY <1>2 DEF SelectTimeout, SelectDone, CheckErr, GraceDone, GraceTimer, LeaveProcess
<1>3. CASE CloseBranch \/ CloseError \/ CloseEnd
  BY <1>3 DEF CloseBranch, CloseError, CloseEnd
<1> QED BY <1>1, <1>2, <1>3 DEF Handler

LEMMA InvokerSteps ==
  ASSUME Invoker
  PROVE  /\ UNCHANGED <<rq, h, left, ctx, conn>>
         /\ inv \notin {"none", "exited"} /\ inv' \notin {"none", "invoke"}
         /\ Invoke \/ UNCHANGED <<val, child, pw>>
BY DEF Invoker, Invoke, DeferFlush, Deliver, SetResponseError, SetResponseResult, ReadPipe,
       ReadEnd, CheckWrite, PutPiece, CloseDone, output

LEMMA OtherSteps ==
  Flush \/ Copier \/ Kill \/ Cancel \/ Environment \/ UNCHANGED vars =>
    /\ UNCHANGED <<rq, h, left, inv, val, hand, err, rsp>>
    /\ conn' \in {conn, "stalled", "gone"} /\ (conn = "gone" => conn' = "gone")
    /\ ctx' = ctx \/ (ctx = "live" /\ ctx' = "deadline")
         \/ (ctx = "live" /\ ctx' = "canceled" /\ (conn = "gone" \/ h \in Over))
BY DEF Flush, Copier, Kill, Cancel, Environment, WakeUp, CopyChunk, StdoutEnd, WriteRejected,
       Wait, Emit, Exit, CloseStdout, Deadline, Stall, Disconnect, handled, apart, invoker, output, vars

-----------------------------------------------------------------------------
(* The responser before the method has an answer.                          *)

FreshInv ==
  h \in {"read", "process"} \/ (inv \in {"invoke", "flush", "deliver", "set"} /\ left # "forced") =>
    Fresh(rsp) /\ (rq.limit = 0 => rsp.room = MaxInt64)

LEMMA FreshStart ==
  ASSUME NEW r \in Record, Fresh(r), NEW plus \in BOOLEAN, NEW id \in Ids, NEW n \in Nat
  PROVE  LET s == SetID(Upgrade(r, plus), id)
             m == MaxResponse(s, n)
         IN  Fresh(s) /\ Fresh(m) /\ m.room = SetLimit(n) /\ (n = 0 => m.room = MaxInt64)
<1> DEFINE u == Upgrade(r, plus)
           s == SetID(u, id)
           m == MaxResponse(s, n)
<1>1. u \in Record /\ Fresh(u)
  <2>1. u \in Record
    BY UpgradeType
  <2> DEFINE x == [New("streaming") EXCEPT !.wire = r.wire]
  <2>2. u = r \/ u = x
    BY DEF Upgrade
  <2>3. /\ x.wire = r.wire /\ x.buf = <<>> /\ x.first = TRUE /\ x.closed = FALSE
        /\ x.resultSet = FALSE /\ x.dataSent = FALSE /\ x.encErr = "nil"
    BY DEF New
  <2> HIDE DEF x, u
  <2>4. Fresh(x)
    BY <2>3 DEF Fresh
  <2> QED BY <2>1, <2>2, <2>4
<1> HIDE DEF u
<1>2. s \in Record /\ Fresh(s)
  BY <1>1, UpgradeType DEF SetID, Fresh, Record
<1> HIDE DEF s
<1>3. m.wire = s.wire /\ m.buf = s.buf /\ m.first = s.first /\ m.closed = s.closed
      /\ m.resultSet = s.resultSet /\ m.dataSent = s.dataSent /\ m.encErr = "nil"
      /\ m.room = SetLimit(n)
  BY <1>2 DEF MaxResponse, Record
<1> HIDE DEF m
<1>4. Fresh(m) /\ m.room = SetLimit(n) /\ (n = 0 => m.room = MaxInt64)
  BY <1>2, <1>3 DEF Fresh, SetLimit
<1> QED BY <1>2, <1>4 DEF m, s, u

LEMMA FreshInit == Init => FreshInv
BY DEF Init, FreshInv, Fresh, New

LEMMA FreshNext == TypeOK /\ Control /\ FreshInv /\ [Next]_vars => FreshInv'
<1> SUFFICES ASSUME TypeOK, Control, FreshInv, [Next]_vars PROVE FreshInv'
  OBVIOUS
<1>1. CASE ReadFromTransport
  BY <1>1 DEF ReadFromTransport, FreshInv, invoker
<1>2. CASE Process
  <2>1. h = "process" /\ Fresh(rsp) /\ inv = "none" /\ rq' = rq
    BY <1>2 DEF Process, FreshInv, Control
  <2> DEFINE m == MaxResponse(SetID(Upgrade(rsp, rq.plus), rq.id), rq.limit)
  <2>2. (h' = "close" /\ inv' = "none") \/ rsp' = m
    BY <1>2, <2>1 DEF Process
  <2>3. Fresh(m) /\ (rq.limit = 0 => m.room = MaxInt64)
    BY <2>1, FreshStart, RequestTypes DEF TypeOK
  <2> HIDE DEF m
  <2> QED BY <2>1, <2>2, <2>3 DEF FreshInv
<1>3. CASE Handler /\ ~ReadFromTransport /\ ~Process
  <2>1. h' \notin {"read", "process"} /\ inv' = inv
    BY <1>3 DEF Handler, SelectTimeout, SelectDone, CheckErr, GraceDone, GraceTimer, LeaveProcess,
                CloseBranch, CloseError, CloseEnd, invoker
  <2>2. inv \notin {"none", "exit", "exited"} /\ left' # "forced" =>
          left # "forced" /\ rsp' = rsp /\ rq' = rq
    <3>1. rq' = rq /\ (left = "forced" => left' = "forced") /\ (h \in InProcess => rsp' = rsp)
      BY <1>3, HandlerSteps
    <3> QED BY <3>1, Busy
  <2> QED BY <2>1, <2>2 DEF FreshInv
<1>4. CASE Invoker
  <2>1. UNCHANGED <<rq, h, left>> /\ h \notin {"read", "process"} /\ inv' # "invoke"
    BY <1>4, InvokerSteps DEF Control
  <2>2. inv' \in {"flush", "deliver", "set"} =>
          inv \in {"invoke", "flush", "deliver"} /\ rsp' = rsp
    BY <1>4 DEF Invoker, Invoke, DeferFlush, Deliver, SetResponseError, SetResponseResult, ReadPipe,
                ReadEnd, CheckWrite, PutPiece, CloseDone
  <2> QED BY <2>1, <2>2 DEF FreshInv
<1>5. CASE Flush \/ Copier \/ Kill \/ Cancel \/ Environment \/ UNCHANGED vars
  BY <1>5, OtherSteps DEF FreshInv
<1> QED BY <1>1, <1>2, <1>3, <1>4, <1>5 DEF Next

-----------------------------------------------------------------------------
(* The pipe between the copier and the invoker.                            *)

PipeInv ==
  /\ child.read <= child.wrote /\ child.wrote <= MaxOutput
  /\ cp # "write" => chunk = <<>>
  /\ Len(enc) < 3 /\ (~rq.base64 => enc = <<>>)
  /\ inv \notin {"check", "put"} => hand = <<>>
  /\ inv \in {"none", "invoke"} =>
       child = NoChild /\ enc = <<>> /\ cp = "none" /\ pw = "none" /\ val = "-"
  /\ inv \in {"copy", "check", "put"} => val = "reader"

\* What is worth a write: in base64, at least a group of three.
Pieced(bytes, kept, base64) ==
  /\ bytes # <<>>
  /\ base64 => Len(kept \o bytes) >= 3

\* The pipe of a reader stays open until the child has been reaped.
ReaderInv ==
  val = "reader" =>
    /\ cp # "none"
    /\ cp \in {"wait", "done"} => ~child.open /\ child.read = child.wrote
    /\ cp # "done" => pw = "open"
    /\ cp = "done" => child.st = "reaped" /\ pw = IF child.status = "ok" THEN "eof" ELSE "ExitError"
    /\ cp = "write" => Pieced(chunk, enc, rq.base64)

LEMMA Groups ==
  ASSUME NEW s \in Seq(Nat)
  PROVE  LET n == 3 * (Len(s) \div 3) IN
         /\ n \in Nat /\ n <= Len(s) /\ Len(s) - n < 3 /\ (Len(s) >= 3 => n # 0)
         /\ Len(Rest(s)) < 3
<1> DEFINE n == 3 * (Len(s) \div 3)
<1>1. Len(s) \in Nat
  BY LenProperties
<1>2. n \in Nat /\ n <= Len(s) /\ Len(s) - n < 3 /\ (Len(s) >= 3 => n # 0)
  BY <1>1, SMT
<1>3. Rest(s) = SubSeq(s, n + 1, Len(s))
  BY DEF Rest
<1> HIDE DEF n
<1>4. Len(Rest(s)) < 3
  <2>1. \A i \in (n + 1)..Len(s) : s[i] \in Nat
    BY <1>1, <1>2
  <2>2. Len(Rest(s)) = IF n + 1 <= Len(s) THEN Len(s) - (n + 1) + 1 ELSE 0
    BY <1>1, <1>2, <1>3, <2>1, SubSeqProperties
  <2> QED BY <1>1, <1>2, <2>2
<1> QED BY <1>2, <1>4 DEF n

LEMMA ChildType ==
  ASSUME TypeOK
  PROVE  /\ child.read \in Nat /\ child.wrote \in Nat /\ child.open \in BOOLEAN
         /\ rq.base64 \in BOOLEAN /\ chunk \in Seq(Nat) /\ enc \in Seq(Nat) /\ rsp \in Record
         /\ MaxOutput \in Nat
BY RequestAssumption DEF TypeOK, Child, Setup

LEMMA ChildFields ==
  /\ NoChild.read = 0 /\ NoChild.wrote = 0
  /\ [NoChild EXCEPT !.st = "running", !.open = TRUE].read = 0
  /\ [NoChild EXCEPT !.st = "running", !.open = TRUE].wrote = 0
BY DEF NoChild

LEMMA PipeInit == Init => PipeInv /\ ReaderInv
<1> SUFFICES ASSUME Init PROVE PipeInv /\ ReaderInv
  OBVIOUS
<1>1. Len(<<>>) = 0
  OBVIOUS
<1>2. MaxOutput \in Nat
  BY RequestAssumption
<1>3. child = NoChild /\ chunk = <<>> /\ enc = <<>> /\ hand = <<>> /\ inv = "none" /\ val = "-"
      /\ cp = "none" /\ pw = "none"
  BY DEF Init
<1> QED BY <1>1, <1>2, <1>3, ChildFields DEF PipeInv, ReaderInv

\* A write leaves the invoker with the rest of what it has, or with nothing.
LEMMA PutHands ==
  ASSUME TypeOK, PutPiece
  PROVE  (hand' = <<>> /\ inv' \in {"exit", "copy"}) \/ inv' = "put"
<1>1. PICK n \in DOMAIN hand :
        \/ hand' = <<>> /\ inv' = "exit"
        \/ hand' = SubSeq(hand, n + 1, Len(hand)) /\ inv' = IF n < Len(hand) THEN "put" ELSE "copy"
  BY DEF PutPiece
<1>2. DOMAIN hand = 1..Len(hand) /\ Len(hand) \in Nat
  BY LenProperties DEF TypeOK
<1>3. ~(n < Len(hand)) => SubSeq(hand, n + 1, Len(hand)) = <<>>
  <2> SUFFICES ASSUME ~(n < Len(hand)) PROVE SubSeq(hand, n + 1, Len(hand)) = <<>>
    OBVIOUS
  <2>1. n = Len(hand)
    BY <1>2
  <2>2. \A i \in (n + 1)..Len(hand) : hand[i] \in Nat
    BY <1>2, <2>1
  <2>3. SubSeq(hand, n + 1, Len(hand)) \in Seq(Nat) /\ Len(SubSeq(hand, n + 1, Len(hand))) = 0
    BY <1>2, <2>1, <2>2, SubSeqProperties
  <2> QED BY <2>3, EmptySeq
<1> QED BY <1>1, <1>3

LEMMA PipeInvoker == TypeOK /\ Control /\ PipeInv /\ ReaderInv /\ Invoker => PipeInv' /\ ReaderInv'
<1> SUFFICES ASSUME TypeOK, Control, PipeInv, ReaderInv, Invoker PROVE PipeInv' /\ ReaderInv'
  OBVIOUS
<1>0. rq' = rq /\ Len(<<>>) = 0
  BY InvokerSteps
<1>1. CASE Invoke
  <2>1. /\ child = NoChild /\ enc = <<>> /\ cp = "none" /\ pw = "none" /\ val = "-" /\ chunk = <<>>
        /\ hand = <<>> /\ UNCHANGED <<hand, chunk, enc>>
    BY <1>1 DEF Invoke, PipeInv
  <2>2. /\ inv' \in {"deliver", "flush"}
        /\ \/ val' \notin {"-", "reader"} /\ UNCHANGED <<cp, pw, child>>
           \/ /\ child' = [NoChild EXCEPT !.st = "running", !.open = TRUE]
              /\ cp' = "sleep" /\ (val' = "reader" => pw' = "open")
    BY <1>1 DEF Invoke
  <2>3. child'.read = 0 /\ child'.wrote = 0
    BY <2>1, <2>2, ChildFields
  <2>4. PipeInv'
    <3>1. MaxOutput \in Nat
      BY RequestAssumption
    <3>2. child'.read <= child'.wrote /\ child'.wrote <= MaxOutput
      BY <2>3, <3>1
    <3>3. Len(enc') < 3 /\ enc' = <<>> /\ chunk' = <<>> /\ hand' = <<>>
      BY <1>0, <2>1
    <3>4. inv' \notin {"none", "invoke", "copy", "check", "put"}
      BY <2>2
    <3> QED BY <3>2, <3>3, <3>4 DEF PipeInv
  <2>5. ReaderInv'
    BY <2>2 DEF ReaderInv
  <2> QED BY <2>4, <2>5
<1>2. CASE DeferFlush
  <2>1. /\ UNCHANGED <<val, hand, cp, chunk, pw, child>> /\ enc' = <<>> /\ inv = "flush" /\ inv' = "deliver"
        /\ enc = <<>> \/ pw # "open"
    BY <1>2 DEF DeferFlush
  <2>2. PipeInv'
    BY <1>0, <2>1 DEF PipeInv
  <2>3. ReaderInv'
    BY <1>0, <2>1 DEF ReaderInv
  <2> QED BY <2>2, <2>3
<1>3. CASE Deliver \/ CloseDone \/ ReadEnd \/ SetResponseError \/ SetResponseResult
  <2>1. /\ UNCHANGED <<val, hand, cp, chunk, enc, pw, child>> /\ inv \notin {"check", "put", "none", "invoke"}
        /\ inv' \notin {"check", "put", "none", "invoke"} /\ (inv' = "copy" => val = "reader")
    BY <1>3 DEF Deliver, CloseDone, ReadEnd, SetResponseError, SetResponseResult, output
  <2> QED BY <1>0, <2>1 DEF PipeInv, ReaderInv
<1>4. CASE ReadPipe
  <2>1. /\ UNCHANGED <<val, pw, child>> /\ inv = "copy" /\ inv' = "check" /\ chunk' = <<>> /\ cp' = "copy"
        /\ pw = "open" /\ enc' = IF rq.base64 THEN Rest(enc \o chunk) ELSE enc
    BY <1>4 DEF ReadPipe
  <2>2. Len(enc') < 3 /\ (~rq.base64 => enc' = <<>>)
    <3>1. enc \o chunk \in Seq(Nat)
      BY ChildType
    <3>2. Len(Rest(enc \o chunk)) < 3
      BY <3>1, Groups
    <3> QED BY <2>1, <3>2 DEF PipeInv
  <2> QED BY <1>0, <2>1, <2>2 DEF PipeInv, ReaderInv
<1>5. CASE CheckWrite \/ PutPiece
  <2>1. /\ UNCHANGED <<val, cp, chunk, enc, pw, child>> /\ inv \in {"check", "put"}
        /\ (hand' = <<>> /\ inv' \in {"exit", "copy"}) \/ inv' = "put"
    <3>1. CASE CheckWrite
      BY <3>1 DEF CheckWrite, output
    <3>2. CASE PutPiece
      BY <3>2, PutHands DEF PutPiece, output
    <3> QED BY <1>5, <3>1, <3>2
  <2> QED BY <1>0, <2>1 DEF PipeInv, ReaderInv
<1> QED BY <1>1, <1>2, <1>3, <1>4, <1>5 DEF Invoker

\* What io.Copy reads.
LEMMA ChunkSteps ==
  ASSUME TypeOK, PipeInv, ReaderInv, CopyChunk
  PROVE  \E n \in Nat :
           /\ child.read < n /\ n <= child.wrote
           /\ child'.read = n /\ child'.wrote = child.wrote /\ child'.open = child.open
           /\ UNCHANGED <<handled, pw>> /\ cp = "copy" /\ chunk = <<>>
           /\ \/ /\ rq.base64 /\ Len(enc \o Bytes(child.read, n)) < 3
                 /\ enc' = enc \o Bytes(child.read, n) /\ chunk' = <<>> /\ cp' = "copy"
              \/ /\ enc' = enc /\ chunk' = Bytes(child.read, n) /\ cp' = "write"
                 /\ Pieced(chunk', enc, rq.base64)
<1> DEFINE a == child.read
<1>1. PICK n \in (a + 1)..child.wrote :
        LET bytes == [i \in 1..(n - a) |-> a + i] IN
        /\ child' = [child EXCEPT !.read = n]
        /\ IF rq.base64 /\ Len(enc \o bytes) < 3
             THEN enc' = enc \o bytes /\ UNCHANGED <<cp, chunk>>
             ELSE chunk' = bytes /\ cp' = "write" /\ UNCHANGED enc
  BY DEF CopyChunk
<1>2. n \in Nat /\ a < n /\ n <= child.wrote /\ a \in Nat /\ a <= n /\ n - a \in Nat \ {0}
  BY <1>1, ChildType
<1>3. [i \in 1..(n - a) |-> a + i] = Bytes(a, n)
  BY DEF Bytes
<1>4. child'.read = n /\ child'.wrote = child.wrote /\ child'.open = child.open
  <2>1. child' = [child EXCEPT !.read = n] /\ child \in Child
    BY <1>1 DEF TypeOK
  <2> QED BY <2>1 DEF Child
<1>5. UNCHANGED <<handled, pw>> /\ cp = "copy" /\ chunk = <<>>
  BY DEF CopyChunk, PipeInv
<1>6. /\ Bytes(a, n) \in Seq(Nat) /\ Len(Bytes(a, n)) = n - a
      /\ \A i \in 1..(n - a) : Bytes(a, n)[i] = a + i
  BY <1>2, BytesType
<1> DEFINE b == Bytes(a, n)
<1>7. IF rq.base64 /\ Len(enc \o b) < 3
        THEN enc' = enc \o b /\ UNCHANGED <<cp, chunk>>
        ELSE chunk' = b /\ cp' = "write" /\ UNCHANGED enc
  BY <1>1, <1>3
<1>9. b # <<>>
  BY <1>2, <1>6, EmptySeq
<1>10. enc \o b \in Seq(Nat) /\ Len(enc \o b) \in Nat
  BY <1>6, ChildType, LenProperties
<1> HIDE DEF b
<1>11. CASE rq.base64 /\ Len(enc \o b) < 3
  BY <1>2, <1>4, <1>5, <1>7, <1>11 DEF b
<1>12. CASE ~(rq.base64 /\ Len(enc \o b) < 3)
  <2>1. enc' = enc /\ chunk' = b /\ cp' = "write"
    BY <1>7, <1>12
  <2>2. Pieced(b, enc, rq.base64)
    BY <1>9, <1>10, <1>12 DEF Pieced
  <2> QED BY <1>2, <1>4, <1>5, <2>1, <2>2 DEF b
<1> QED BY <1>11, <1>12

LEMMA EndedFields ==
  ASSUME TypeOK, NEW how \in {"ok", "failed", "killed"}
  PROVE  LET c == Ended(child, how) IN
         /\ c.read = child.read /\ c.wrote = child.wrote /\ (~child.open => ~c.open)
<1>1. child \in Child
  BY DEF TypeOK
<1> QED BY <1>1 DEF Ended, Child

\* The child and its descendants, however they are stopped.
LEMMA ChildSteps ==
  ASSUME TypeOK, Kill \/ Cancel \/ Environment \/ Flush \/ UNCHANGED vars
  PROVE  /\ UNCHANGED <<cp, chunk, enc, pw>>
         /\ child'.read = child.read /\ (~child.open => ~child'.open)
         /\ \/ child'.wrote = child.wrote
            \/ /\ child.open /\ cp # "done" /\ child.wrote < MaxOutput
               /\ child'.wrote = child.wrote + 1
         /\ child.st = "reaped" => child'.st = "reaped" /\ child'.status = child.status
         /\ child = NoChild => child' = child
<1>0. child \in Child
  BY DEF TypeOK
<1>a. NoChild.st # "running" /\ NoChild.open = FALSE
  BY DEF NoChild
<1>1. CASE Kill \/ Exit
  <2>1. PICK how \in {"ok", "failed", "killed"} : child' = Ended(child, how) /\ child.st = "running"
    BY <1>1 DEF Kill, Exit
  <2>2. UNCHANGED <<cp, chunk, enc, pw>>
    BY <1>1 DEF Kill, Exit, apart
  <2>3. child.st # "reaped" /\ child # NoChild
    BY <1>a, <2>1
  <2>4. child'.read = child.read /\ child'.wrote = child.wrote /\ (~child.open => ~child'.open)
    BY <2>1, EndedFields
  <2> QED BY <2>2, <2>3, <2>4
<1>2. CASE Emit
  <2>1. /\ child.open /\ cp # "done" /\ child.wrote < MaxOutput
        /\ child' = [child EXCEPT !.wrote = @ + 1] /\ UNCHANGED <<cp, chunk, enc, pw>>
    BY <1>2 DEF Emit, apart
  <2> QED BY <1>0, <1>a, <2>1 DEF Child
<1>3. CASE CloseStdout
  <2>1. child.open /\ child' = [child EXCEPT !.open = FALSE] /\ UNCHANGED <<cp, chunk, enc, pw>>
    BY <1>3 DEF CloseStdout, apart
  <2> QED BY <1>0, <1>a, <2>1 DEF Child
<1>4. CASE Cancel \/ Deadline \/ Stall \/ Disconnect \/ Flush \/ UNCHANGED vars
  BY <1>4 DEF Cancel, Deadline, Stall, Disconnect, Flush, output, apart, vars
<1> QED BY <1>1, <1>2, <1>3, <1>4 DEF Environment

LEMMA PipeOthers ==
  TypeOK /\ PipeInv /\ ReaderInv /\ (Kill \/ Cancel \/ Environment \/ Flush \/ UNCHANGED vars)
    => PipeInv' /\ ReaderInv'
<1> SUFFICES ASSUME TypeOK, PipeInv, ReaderInv, Kill \/ Cancel \/ Environment \/ Flush \/ UNCHANGED vars
             PROVE  PipeInv' /\ ReaderInv'
  OBVIOUS
<1>1. /\ UNCHANGED <<cp, chunk, enc, pw>>
      /\ child'.read = child.read /\ (~child.open => ~child'.open)
      /\ \/ child'.wrote = child.wrote
         \/ child.open /\ cp # "done" /\ child.wrote < MaxOutput /\ child'.wrote = child.wrote + 1
      /\ child.st = "reaped" => child'.st = "reaped" /\ child'.status = child.status
      /\ child = NoChild => child' = child
  BY ChildSteps
<1>2. UNCHANGED <<rq, inv, val, hand>>
  BY OtherSteps
<1>3. child.read \in Nat /\ child.wrote \in Nat /\ MaxOutput \in Nat
  BY ChildType
<1>4. child'.read <= child'.wrote /\ child'.wrote <= MaxOutput
  BY <1>1, <1>3 DEF PipeInv
<1>5. PipeInv'
  BY <1>1, <1>2, <1>4 DEF PipeInv
<1>6. ReaderInv'
  BY <1>1, <1>2 DEF ReaderInv
<1> QED BY <1>5, <1>6

LEMMA PipeCopier ==
  TypeOK /\ Control /\ PipeInv /\ ReaderInv /\ Copier => PipeInv' /\ ReaderInv'
<1> SUFFICES ASSUME TypeOK, Control, PipeInv, ReaderInv, Copier PROVE PipeInv' /\ ReaderInv'
  OBVIOUS
<1>1. UNCHANGED <<rq, inv, val, hand>>
  BY OtherSteps
<1>2. cp # "none"
  BY DEF Copier, WakeUp, CopyChunk, StdoutEnd, WriteRejected, Wait
<1>3. inv \notin {"none", "invoke"}
  BY <1>2 DEF PipeInv
<1>4. child \in Child
  BY DEF TypeOK
<1>5. CASE WakeUp \/ StdoutEnd
  <2>1. UNCHANGED <<chunk, enc, pw, child>> /\ cp # "write" /\ cp # "done"
    BY <1>5 DEF WakeUp, StdoutEnd
  <2>2. cp' = "copy" \/ (cp' = "wait" /\ ~child.open /\ child.read = child.wrote)
    BY <1>5 DEF WakeUp, StdoutEnd
  <2> QED BY <1>1, <1>3, <2>1, <2>2 DEF PipeInv, ReaderInv
<1>6. CASE CopyChunk
  <2>1. PICK n \in Nat :
           /\ child.read < n /\ n <= child.wrote
           /\ child'.read = n /\ child'.wrote = child.wrote /\ child'.open = child.open
           /\ UNCHANGED <<handled, pw>> /\ cp = "copy" /\ chunk = <<>>
           /\ \/ /\ rq.base64 /\ Len(enc \o Bytes(child.read, n)) < 3
                 /\ enc' = enc \o Bytes(child.read, n) /\ chunk' = <<>> /\ cp' = "copy"
              \/ /\ enc' = enc /\ chunk' = Bytes(child.read, n) /\ cp' = "write"
                 /\ Pieced(chunk', enc, rq.base64)
    BY <1>6, ChunkSteps
  <2>2. PipeInv'
    <3>1. child'.read <= child'.wrote /\ child'.wrote <= MaxOutput
      BY <2>1 DEF PipeInv
    <3>2. Len(enc') < 3 /\ (~rq.base64 => enc' = <<>>) /\ (cp' # "write" => chunk' = <<>>)
      BY <2>1 DEF PipeInv
    <3> QED BY <1>1, <1>3, <3>1, <3>2 DEF PipeInv
  <2>3. ReaderInv'
    BY <1>1, <2>1 DEF ReaderInv
  <2> QED BY <2>2, <2>3
<1>7. CASE WriteRejected
  <2>1. UNCHANGED <<enc, pw>> /\ cp = "write" /\ pw # "open" /\ cp' = "wait" /\ chunk' = <<>>
    BY <1>7 DEF WriteRejected
  <2>2. val # "reader"
    BY <2>1 DEF ReaderInv
  <2>3. child'.read = child.read /\ child'.wrote = child.wrote
    BY <1>7, EndedFields DEF WriteRejected
  <2> QED BY <1>1, <1>3, <2>1, <2>2, <2>3 DEF PipeInv, ReaderInv
<1>8. CASE Wait
  <2>1. /\ cp = "wait" /\ cp' = "done" /\ UNCHANGED <<chunk, enc>>
        /\ child' = [child EXCEPT !.st = "reaped"]
        /\ pw' = IF pw # "open" THEN pw ELSE IF child.status = "ok" THEN "eof" ELSE "ExitError"
    BY <1>8 DEF Wait
  <2>2. /\ child'.read = child.read /\ child'.wrote = child.wrote /\ child'.open = child.open
        /\ child'.st = "reaped" /\ child'.status = child.status
    BY <1>4, <2>1 DEF Child
  <2> QED BY <1>1, <1>3, <2>1, <2>2 DEF PipeInv, ReaderInv
<1> QED BY <1>5, <1>6, <1>7, <1>8 DEF Copier

LEMMA PipeNext == TypeOK /\ Control /\ PipeInv /\ ReaderInv /\ [Next]_vars => PipeInv' /\ ReaderInv'
<1>1. TypeOK /\ Control /\ PipeInv /\ ReaderInv /\ Handler => PipeInv' /\ ReaderInv'
  <2> SUFFICES ASSUME TypeOK, Control, PipeInv, ReaderInv, Handler PROVE PipeInv' /\ ReaderInv'
    OBVIOUS
  <2>1. /\ UNCHANGED <<rq, val, hand, cp, chunk, enc, pw, child>>
        /\ inv' = inv \/ (inv = "none" /\ inv' = "invoke")
    BY HandlerSteps
  <2> QED BY <2>1 DEF PipeInv, ReaderInv
<1> QED BY <1>1, PipeInvoker, PipeCopier, PipeOthers DEF Next

-----------------------------------------------------------------------------
(* What cuts a request short, and what the handler knows of it.            *)

Cut == ctx = "deadline" \/ conn = "gone"

CutInv ==
  /\ ctx = "canceled" => conn = "gone" \/ h \in Closing \cup Over
  /\ h \in {"check", "grace"} /\ inv \notin {"exit", "exited"} => Cut
  /\ h = "grace" => err # "nil" \/ Cut
  /\ left = "forced" => Cut \/ (inv \in {"exit", "exited"} /\ err # "nil")
  /\ h = "closeerr" /\ left # "forced" => err # "nil"
  /\ inv # "none" /\ left # "forced" => ~(rq.plus /\ rsp.kind = "legacy")

LEMMA CutInit == Init => CutInv
BY DEF Init, CutInv, Closing, Over

LEMMA CutStays == TypeOK /\ Control /\ Cut /\ [Next]_vars => Cut'
<1>1. Handler /\ TypeOK /\ Control => conn' = conn /\ (ctx' = ctx \/ ctx = "live")
  BY HandlerSteps
<1>2. Invoker => UNCHANGED <<conn, ctx>>
  BY InvokerSteps
<1>3. Flush \/ Copier \/ Kill \/ Cancel \/ Environment \/ UNCHANGED vars =>
        (conn = "gone" => conn' = "gone") /\ (ctx' = ctx \/ ctx = "live")
  BY OtherSteps
<1> QED BY <1>1, <1>2, <1>3 DEF Next, Cut

LEMMA CutHandler == TypeOK /\ Control /\ StreamInv /\ CutInv /\ Handler => CutInv'
<1> SUFFICES ASSUME TypeOK, Control, StreamInv, CutInv, Handler PROVE CutInv'
  OBVIOUS
<1>0. /\ conn' = conn /\ rq' = rq /\ (left = "forced" => left' = "forced")
      /\ ctx' = ctx \/ (h' = "close" /\ ctx = "live" /\ ctx' = "canceled")
      /\ Cut => Cut'
  BY HandlerSteps, CutStays DEF Next
<1>1. ctx' = "canceled" => conn' = "gone" \/ h' \in Closing \cup Over
  <2>1. h \in Closing \cup Over => h' \in Closing \cup Over
    BY DEF Handler, ReadFromTransport, Process, SelectTimeout, SelectDone, CheckErr, GraceDone,
           GraceTimer, LeaveProcess, CloseBranch, CloseError, CloseEnd, Closing, Over
  <2> QED BY <1>0, <2>1 DEF CutInv, Closing
<1>2. CASE ReadFromTransport
  BY <1>0, <1>1, <1>2 DEF ReadFromTransport, CutInv, Control, invoker
<1>3. CASE Process
  <2>1. h = "process" /\ inv = "none" /\ left = "-" /\ h' \in {"close", "select"} /\ left' \in {"-", "early"}
    BY <1>3 DEF Process, Control
  <2>2. CASE inv' = "none"
    BY <1>1, <2>1, <2>2 DEF CutInv
  <2>3. CASE inv' # "none"
    <3> DEFINE s == SetID(Upgrade(rsp, rq.plus), rq.id)
    <3>1. rsp' = MaxResponse(s, rq.limit)
      BY <1>3, <2>1, <2>3 DEF Process
    <3>2. rsp.wire = <<>> /\ rsp.kind # "streaming"
      BY <2>1 DEF StreamInv
    <3>3. MaxResponse(s, rq.limit).kind = "legacy" => ~rq.plus
      BY <3>2, NewOrders, RequestTypes DEF TypeOK
    <3> HIDE DEF s
    <3> QED BY <1>0, <1>1, <2>1, <3>1, <3>3 DEF CutInv
  <2> QED BY <2>2, <2>3
<1>4. CASE SelectTimeout
  <2>1. h = "select" /\ h' = "check" /\ ctx # "live" /\ UNCHANGED <<left, inv, rsp, ctx>>
    BY <1>4 DEF SelectTimeout, invoker
  <2>2. Cut
    BY <2>1 DEF CutInv, Cut, TypeOK, Closing, Over
  <2> QED BY <1>0, <1>1, <2>1, <2>2 DEF CutInv, Control, InProcess
<1>5. CASE SelectDone \/ CheckErr \/ GraceDone \/ GraceTimer
  <2>1. UNCHANGED <<inv, rsp, err>> /\ h' # "closeerr"
    BY <1>5 DEF SelectDone, CheckErr, GraceDone, GraceTimer, LeaveProcess, invoker
  <2>2. h' = "check" => inv = "exited"
    BY <1>5 DEF SelectDone, CheckErr, GraceDone, GraceTimer, LeaveProcess
  <2>3. h' = "grace" => h = "check" /\ err # "nil"
    BY <1>5 DEF SelectDone, CheckErr, GraceDone, GraceTimer, LeaveProcess
  <2>4. left' = "forced" => left = "forced" \/ h = "grace"
    BY <1>5 DEF SelectDone, CheckErr, GraceDone, GraceTimer, LeaveProcess
  <2> QED BY <1>0, <1>1, <2>1, <2>2, <2>3, <2>4 DEF CutInv
<1>6. CASE CloseBranch
  <2>1. /\ UNCHANGED <<inv, err, left>> /\ h' \in {"closeerr", "closeend"}
        /\ h' = "closeerr" => err # "nil"
        /\ rsp' = Upgrade(rsp, rq.plus) \/ rsp' = MaxResponse(Upgrade(rsp, rq.plus), 0)
    BY <1>6 DEF CloseBranch, invoker
  <2>2. inv # "none" /\ left # "forced" => ~(rq.plus /\ rsp'.kind = "legacy")
    <3> SUFFICES ASSUME inv # "none", left # "forced" PROVE ~(rq.plus /\ rsp'.kind = "legacy")
      OBVIOUS
    <3>1. Upgrade(rsp, rq.plus) = rsp
      BY DEF CutInv, Upgrade
    <3>2. rsp'.kind = rsp.kind
      BY <2>1, <3>1 DEF MaxResponse, TypeOK, Record
    <3> QED BY <3>2 DEF CutInv
  <2> QED BY <1>0, <1>1, <2>1, <2>2 DEF CutInv
<1>7. CASE CloseError \/ CloseEnd
  <2>1. UNCHANGED <<inv, err, left>> /\ h' \in {"panicked", "closeend", "returned"}
    BY <1>7 DEF CloseError, CloseEnd, invoker
  <2>2. rsp'.kind = rsp.kind
    <3>1. \A up \in Transport : SetError(rsp, err, up).r.kind = rsp.kind /\ Close(rsp, up).r.kind = rsp.kind
      BY SetErrorHoldsBack, KeepsKind, TransportType DEF TypeOK, HeldBack
    <3> QED BY <1>7, <3>1 DEF CloseError, CloseEnd
  <2> QED BY <1>0, <1>1, <2>1, <2>2 DEF CutInv
<1> QED BY <1>2, <1>3, <1>4, <1>5, <1>6, <1>7 DEF Handler

LEMMA CutInvoker == TypeOK /\ Control /\ StreamInv /\ CutInv /\ Invoker => CutInv'
<1> SUFFICES ASSUME TypeOK, Control, StreamInv, CutInv, Invoker PROVE CutInv'
  OBVIOUS
<1>0. UNCHANGED <<rq, h, left, ctx, conn>> /\ inv \notin {"none", "exited"} /\ (Cut' <=> Cut)
  BY InvokerSteps DEF Cut
<1>1. inv = "exit" => inv' = "exited" /\ UNCHANGED <<err, rsp>>
  BY DEF Invoker, Invoke, DeferFlush, Deliver, SetResponseError, SetResponseResult, ReadPipe,
         ReadEnd, CheckWrite, PutPiece, CloseDone
<1>2. CASE inv = "exit"
  BY <1>0, <1>1, <1>2 DEF CutInv
<1>3. CASE inv # "exit"
  <2>1. h \in {"check", "grace"} => Cut
    BY <1>0, <1>3 DEF CutInv
  <2>2. left = "forced" => Cut
    BY <1>0, <1>3 DEF CutInv
  <2>3. left # "forced" => h \in InProcess
    BY <1>0, <1>3, Busy
  <2>4. left # "forced" => ~(rq.plus /\ rsp'.kind = "legacy")
    <3> SUFFICES ASSUME left # "forced" PROVE ~(rq.plus /\ rsp'.kind = "legacy")
      OBVIOUS
    <3>1. StreamInv'
      BY StreamInvoker
    <3> QED BY <1>0, <2>3, <3>1 DEF StreamInv, InProcess
  <2>5. h = "closeerr" => left = "forced"
    BY <2>3 DEF InProcess
  <2> QED BY <1>0, <2>1, <2>2, <2>4, <2>5 DEF CutInv
<1> QED BY <1>2, <1>3

LEMMA CutNext == TypeOK /\ Control /\ StreamInv /\ CutInv /\ [Next]_vars => CutInv'
<1>1. TypeOK /\ Control /\ CutInv /\ (Flush \/ Copier \/ Kill \/ Cancel \/ Environment \/ UNCHANGED vars) => CutInv'
  <2> SUFFICES ASSUME TypeOK, Control, CutInv, Flush \/ Copier \/ Kill \/ Cancel \/ Environment \/ UNCHANGED vars
               PROVE  CutInv'
    OBVIOUS
  <2>1. /\ UNCHANGED <<rq, h, left, inv, val, hand, err, rsp>>
        /\ conn = "gone" => conn' = "gone"
        /\ ctx' = ctx \/ ctx' = "deadline" \/ (ctx' = "canceled" /\ (conn = "gone" \/ h \in Over))
    BY OtherSteps
  <2>2. Cut => Cut'
    BY CutStays DEF Next
  <2> QED BY <2>1, <2>2 DEF CutInv
<1> QED BY <1>1, CutHandler, CutInvoker DEF Next

-----------------------------------------------------------------------------
(* Where each byte is that has been read from the child.                   *)

\* Base64 takes the output by groups of three, and what fills none is lost.
Grouped(n) == \E k \in Nat : n = 3 * k

\* The length of what n bytes are encoded in.
Fit(n, base64) == IF base64 THEN 4 * (n \div 3) ELSE n

LEMMA FitProperties ==
  ASSUME NEW w \in Nat, NEW base64 \in BOOLEAN
  PROVE  LET n == Fit(w, base64) IN
         /\ n \in Nat /\ (w <= MaxOutput => n <= Most)
         /\ \A v \in Nat : v <= w => Fit(v, base64) \in Nat /\ Fit(v, base64) <= n
         /\ \A e \in Nat : e <= w /\ (IF base64 THEN Grouped(e) /\ w - e < 3 ELSE e = w)
                             => Fit(e, base64) = n
<1>0. MaxOutput \in Nat
  BY RequestAssumption
<1>1. CASE ~base64
  BY <1>0, <1>1 DEF Fit, Most
<1>2. CASE base64
  <2>1. PICK q \in Nat : q = w \div 3 /\ 3 * q <= w /\ w < 3 * q + 3
    BY SMT
  <2>2. \A v \in Nat : v <= w => v \div 3 \in Nat /\ v \div 3 <= q
    BY <2>1, SMT
  <2>3. Fit(w, base64) = 4 * q /\ \A v \in Nat : Fit(v, base64) = 4 * (v \div 3)
    BY <1>2, <2>1 DEF Fit
  <2>4. ASSUME NEW e \in Nat, Grouped(e), e <= w, w - e < 3 PROVE Fit(e, base64) = 4 * q
    <3>1. PICK k \in Nat : e = 3 * k
      BY <2>4 DEF Grouped
    <3>2. k = q
      BY <2>1, <2>4, <3>1
    <3>3. e \div 3 = k
      BY <3>1, SMT
    <3> QED BY <2>3, <3>2, <3>3
  <2>5. 4 * q \in Nat /\ (w <= MaxOutput => 4 * q <= 2 * MaxOutput)
    BY <1>0, <2>1
  <2>6. \A v \in Nat : v <= w => Fit(v, base64) \in Nat /\ Fit(v, base64) <= 4 * q
    <3> SUFFICES ASSUME NEW v \in Nat, v <= w PROVE Fit(v, base64) \in Nat /\ Fit(v, base64) <= 4 * q
      OBVIOUS
    <3>1. PICK c \in Nat : c = v \div 3
      BY <2>2
    <3>2. c <= q /\ Fit(v, base64) = 4 * c
      BY <2>2, <2>3, <3>1
    <3> QED BY <3>2
  <2> QED BY <1>2, <2>3, <2>4, <2>5, <2>6 DEF Most
<1> QED BY <1>1, <1>2

\* The responser has taken d characters, the invoker holds the others that the first
\* e bytes are encoded in, the encoder holds the bytes up to the g-th, and the copier's
\* write those that follow.  What the encoder holds at the end is lost.
Carried(d, e, g) ==
  /\ d <= Fit(e, rq.base64) /\ e <= g /\ g <= child.read
  /\ Holds(rsp, d, rq.base64)
  /\ rq.limit = 0 => Rich(rsp)
  /\ hand = Bytes(d, Fit(e, rq.base64))
  /\ rq.base64 => Grouped(e)
  /\ inv \in {"check", "put"} => d < Fit(e, rq.base64)
  /\ IF pw = "open" THEN enc = Bytes(e, g) /\ chunk = Bytes(g, child.read)
     ELSE child.read - e < 3 /\ (~rq.base64 => e = child.read)

Carrying == val = "reader" /\ inv \in {"flush", "deliver", "copy", "check", "put"} /\ left # "forced"

Carries == Carrying => \E d, e, g \in Nat : Carried(d, e, g)

LEMMA CarriesInit == Init => Carries
BY DEF Init, Carries, Carrying

LEMMA CarriesHandler == TypeOK /\ Control /\ Carries /\ Handler => Carries'
<1> SUFFICES ASSUME TypeOK, Control, Carries, Handler, Carrying' PROVE (\E d, e, g \in Nat : Carried(d, e, g))'
  BY DEF Carries
<1>1. /\ UNCHANGED <<rq, val, hand, conn, cp, chunk, enc, pw, child>>
      /\ inv' = inv \/ (inv = "none" /\ inv' = "invoke")
      /\ left = "forced" => left' = "forced"
      /\ h \in InProcess => rsp' = rsp
  BY HandlerSteps
<1>2. Carrying /\ inv' = inv
  BY <1>1 DEF Carrying
<1>3. rsp' = rsp
  BY <1>1, <1>2, Busy DEF Carrying
<1>4. PICK d \in Nat, e \in Nat, g \in Nat : Carried(d, e, g)
  BY <1>2 DEF Carries
<1>5. Carried(d, e, g)'
  BY <1>1, <1>2, <1>3, <1>4 DEF Carried
<1> QED BY <1>5

\* The characters of a group follow those of the groups before it.
LEMMA Character ==
  ASSUME NEW k \in Nat, NEW i \in Nat, NEW t \in Nat, t = i \div 4
  PROVE  4 * ((3 * k + (3 * t + 1)) \div 3) + (i % 4) + 1 = 4 * k + (i + 1)
<1>1. PICK r \in Nat : r = i % 4 /\ i = 4 * t + r
  BY SMT
<1>2. (3 * k + (3 * t + 1)) \div 3 = k + t
  BY SMT
<1> QED BY <1>1, <1>2

LEMMA EncodedBytes ==
  ASSUME NEW k \in Nat, NEW a \in Nat, 3 * k <= a
  PROVE  LET q == (a - 3 * k) \div 3 IN
         q \in Nat /\ Encoded(Bytes(3 * k, a)) = Bytes(4 * k, 4 * k + 4 * q)
<1> DEFINE e == 3 * k
           s == Bytes(e, a)
           q == (a - e) \div 3
<1>1. e \in Nat /\ e <= a /\ a - e \in Nat
  OBVIOUS
<1>2. s \in Seq(Nat) /\ Len(s) = a - e /\ \A i \in 1..(a - e) : s[i] = e + i
  BY <1>1, BytesType
<1>3. PICK c \in Nat : c = q /\ 3 * c <= a - e
  BY <1>1, SMT
<1>4. Len(s) \div 3 = c
  BY <1>2, <1>3
<1> HIDE DEF s, q
<1>5. ASSUME NEW i \in 1..(4 * c)
      PROVE  4 * (s[3 * ((i - 1) \div 4) + 1] \div 3) + ((i - 1) % 4) + 1 = 4 * k + i
  <2>1. PICK j \in Nat : j = i - 1 /\ j < 4 * c
    BY <1>3
  <2>2. PICK t \in Nat : t = j \div 4 /\ t < c
    BY <1>3, <2>1, SMT
  <2>3. 3 * t + 1 \in 1..(a - e)
    BY <1>1, <1>3, <2>2
  <2>4. s[3 * t + 1] = 3 * k + (3 * t + 1)
    BY <1>2, <2>3
  <2>5. 4 * ((3 * k + (3 * t + 1)) \div 3) + (j % 4) + 1 = 4 * k + (j + 1)
    BY <2>2, Character
  <2>6. j + 1 = i
    BY <2>1
  <2> QED BY <2>1, <2>2, <2>4, <2>5, <2>6
<1>6. Encoded(s) = [i \in 1..(4 * c) |-> 4 * k + i]
  BY <1>4, <1>5 DEF Encoded
<1>7. Bytes(4 * k, 4 * k + 4 * c) = [i \in 1..(4 * c) |-> 4 * k + i]
  <2>1. 4 * k + 4 * c - 4 * k = 4 * c
    BY <1>3
  <2> QED BY <2>1 DEF Bytes
<1> QED BY <1>3, <1>6, <1>7 DEF s, q

\* A read of the pipe, in whole groups for base64.
LEMMA PipedBytes ==
  ASSUME TypeOK, PipeInv, ReaderInv, val = "reader", cp = "write", NEW e \in Nat, NEW g \in Nat,
         e <= g, g <= child.read, enc = Bytes(e, g), chunk = Bytes(g, child.read),
         rq.base64 => Grouped(e)
  PROVE  \E m \in Nat :
           /\ e <= m /\ m <= child.read /\ (rq.base64 => Grouped(m))
           /\ Piped = Bytes(Fit(e, rq.base64), Fit(m, rq.base64))
           /\ Fit(e, rq.base64) < Fit(m, rq.base64)
           /\ (IF rq.base64 THEN Rest(enc \o chunk) ELSE enc) = Bytes(m, child.read)
<1> DEFINE a == child.read
           s == enc \o chunk
<1>1. a \in Nat /\ rq.base64 \in BOOLEAN /\ chunk \in Seq(Nat) /\ Pieced(chunk, enc, rq.base64)
  BY ChildType DEF ReaderInv
<1>2. s = Bytes(e, a) /\ s \in Seq(Nat) /\ Len(s) = a - e /\ e <= a
  <2>1. e <= a
    BY <1>1
  <2> QED BY <1>1, <2>1, BytesJoin, BytesType
<1>3. CASE rq.base64
  <2>1. Len(s) >= 3 /\ Piped = Encoded(s) /\ Rest(enc \o chunk) = Rest(s)
    BY <1>1, <1>3 DEF Pieced, Piped
  <2>2. PICK k \in Nat : e = 3 * k
    BY <1>3 DEF Grouped
  <2> HIDE DEF s, a
  <2>3. a - e >= 3 /\ 3 * k <= a
    BY <1>1, <1>2, <2>1, <2>2
  <2>4. PICK q \in Nat : q = (a - 3 * k) \div 3 /\ q # 0 /\ 3 * q <= a - 3 * k
    BY <1>1, <2>2, <2>3, SMT
  <2>5. PICK m \in Nat : m = 3 * (k + q)
    BY <2>4
  <2>6. e <= m /\ m <= a /\ Grouped(m) /\ m - e = 3 * q
    <3>1. k + q \in Nat
      BY <2>4
    <3>2. Grouped(m)
      BY <2>5, <3>1 DEF Grouped
    <3>3. e <= m /\ m <= a /\ m - e = 3 * q
      BY <1>1, <2>2, <2>4, <2>5
    <3> QED BY <3>2, <3>3
  <2>7. Fit(e, rq.base64) = 4 * k /\ Fit(m, rq.base64) = 4 * k + 4 * q
    <3>1. e \div 3 = k /\ m \div 3 = k + q
      BY <2>2, <2>4, <2>5, SMT
    <3> QED BY <1>3, <2>4, <3>1 DEF Fit
  <2>8. Piped = Bytes(4 * k, 4 * k + 4 * q)
    BY <1>1, <1>2, <2>1, <2>2, <2>3, <2>4, EncodedBytes
  <2>9. Rest(s) = Bytes(m, a)
    <3>1. Len(s) \div 3 = q
      BY <1>2, <2>2, <2>4
    <3>2. Rest(s) = SubSeq(s, 3 * q + 1, Len(s))
      BY <3>1 DEF Rest
    <3>3. SubSeq(Bytes(e, a), m - e + 1, a - e) = Bytes(m, a)
      BY <1>1, <2>6, BytesCutAt
    <3> QED BY <1>2, <2>6, <3>2, <3>3
  <2>10. 4 * k < 4 * k + 4 * q
    BY <2>4
  <2> QED BY <1>3, <2>1, <2>6, <2>7, <2>8, <2>9, <2>10 DEF a
<1>4. CASE ~rq.base64
  <2>1. enc = <<>> /\ e = g
    <3>1. enc = <<>>
      BY <1>4 DEF PipeInv
    <3> QED BY <3>1, NoBytes
  <2>2. chunk # <<>> /\ chunk = Bytes(e, a)
    BY <1>1, <2>1 DEF Pieced
  <2>3. e < a
    BY <1>1, <1>2, <2>2, NoBytes
  <2>4. Piped = chunk /\ Fit(e, rq.base64) = e /\ Fit(a, rq.base64) = a
    BY <1>4 DEF Piped, Fit
  <2>5. enc = Bytes(a, a)
    BY <1>1, <2>1, NoBytes
  <2> HIDE DEF s, a
  <2>6. a <= a
    BY <1>1
  <2> QED BY <1>1, <1>2, <1>4, <2>2, <2>3, <2>4, <2>5, <2>6 DEF a
<1> QED BY <1>1, <1>3, <1>4

\* What a Write hands on at a time continues the output.
LEMMA FirstBytes ==
  ASSUME TypeOK, NEW d \in Nat, NEW b \in Nat, d < b, hand = Bytes(d, b), NEW n \in DOMAIN hand, Portion(n)
  PROVE  \E m \in Nat :
           /\ d < m /\ m <= b /\ (m < b <=> n < Len(hand))
           /\ First(n) \in Piece /\ First(n).body = Bytes(d, m) /\ m = d + Len(First(n).body)
           /\ rsp.kind = "streaming" => LinePiece(First(n), d, rq.base64)
           /\ SubSeq(hand, n + 1, Len(hand)) = Bytes(m, b)
<1> DEFINE p == First(n)
<1>1. /\ hand \in Seq(Nat) /\ Len(hand) = b - d /\ DOMAIN hand = 1..(b - d)
      /\ \A i \in 1..(b - d) : hand[i] = d + i
  <2>1. d <= b
    OBVIOUS
  <2> QED BY <2>1, BytesType
<1>2. n \in Nat /\ 1 <= n /\ n <= b - d
  BY <1>1
<1>3. PICK m \in Nat : m = d + n
  BY <1>2
<1>4. d < m /\ m <= b /\ (m < b <=> n < Len(hand)) /\ m - d = n
  BY <1>1, <1>2, <1>3
<1>5. SubSeq(hand, 1, n) = Bytes(d, m) /\ SubSeq(hand, n + 1, Len(hand)) = Bytes(m, b)
  <2>1. d <= m /\ m <= b
    BY <1>4
  <2>2. /\ SubSeq(Bytes(d, b), 1, m - d) = Bytes(d, m)
        /\ SubSeq(Bytes(d, b), m - d + 1, b - d) = Bytes(m, b)
    BY <2>1, BytesCutAt
  <2> QED BY <1>1, <1>4, <2>2
<1>6. p \in Piece /\ p.body = Bytes(d, m) /\ (p.nl <=> ~rq.base64 /\ hand[n] \in LineEnds)
  BY <1>5, FirstType DEF First
<1>7. /\ Len(p.body) = n /\ p.body # <<>> /\ \A i \in 1..n : p.body[i] = hand[i]
      /\ Last(p.body) = hand[n]
  <2>1. d <= m
    BY <1>4
  <2>2. Len(Bytes(d, m)) = n /\ \A i \in 1..n : Bytes(d, m)[i] = d + i
    BY <1>4, <2>1, BytesType
  <2>3. \A i \in 1..n : i \in 1..(b - d)
    BY <1>2
  <2>4. n \in 1..n
    BY <1>2
  <2>5. \A i \in 1..n : p.body[i] = hand[i]
    BY <1>1, <1>6, <2>2, <2>3
  <2>6. p.body # <<>>
    BY <1>4, <1>6, <2>1, NoBytes
  <2> QED BY <1>6, <2>2, <2>4, <2>5, <2>6 DEF Last
<1> HIDE DEF p
<1>8. m = d + Len(p.body)
  BY <1>3, <1>7
<1>9. rq.base64 \in BOOLEAN
  BY ChildType
<1>10. ASSUME rsp.kind = "streaming" PROVE LinePiece(p, d, rq.base64)
  <2>1. \A k \in 1..(n - 1) : p.body[k] \notin Inner(rq.base64)
    <3> SUFFICES ASSUME NEW k \in 1..(n - 1) PROVE p.body[k] \notin Inner(rq.base64)
      OBVIOUS
    <3>1. k \in 1..n
      BY <1>2
    <3>2. ~rq.base64 => hand[k] \notin LineEnds
      BY <1>10 DEF Portion
    <3> QED BY <1>7, <1>9, <3>1, <3>2 DEF Inner
  <2>2. Run(p.body, d, rq.base64)
    BY <1>6, <1>7, <1>8, <2>1 DEF Run
  <2>3. p.nl <=> Last(p.body) \in Inner(rq.base64)
    BY <1>6, <1>7, <1>9 DEF Inner
  <2> QED BY <2>2, <2>3 DEF LinePiece
<1> QED BY <1>4, <1>5, <1>6, <1>8, <1>10 DEF p

\* A write of the invoker takes what it has on, or fails and drops it.
LEMMA PutSteps ==
  ASSUME TypeOK, PipeInv, PutPiece, NEW d \in Nat, NEW e \in Nat, NEW g \in Nat, Carried(d, e, g)
  PROVE  LET b == Fit(e, rq.base64) IN
         \E m \in Nat, w \in Outcome :
           /\ d < m /\ m <= b /\ b \in Nat /\ b <= Most
           /\ rsp' = w.r /\ Takes(rsp, w, m, rq.base64)
           /\ IF w.err = "nil" THEN hand' = Bytes(m, b) /\ inv' = IF m < b THEN "put" ELSE "copy"
              ELSE inv' = "exit"
<1> DEFINE b == Fit(e, rq.base64)
<1>1. inv = "put"
  BY DEF PutPiece
<1>2. rq.base64 \in BOOLEAN /\ rsp \in Record /\ e <= MaxOutput
  <2>1. e <= g /\ g <= child.read /\ child.read <= child.wrote /\ child.wrote <= MaxOutput
    BY DEF Carried, PipeInv
  <2> QED BY <2>1, ChildType
<1>3. b \in Nat /\ b <= Most /\ d < b /\ hand = Bytes(d, b) /\ Holds(rsp, d, rq.base64)
  BY <1>1, <1>2, FitProperties DEF Carried
<1> HIDE DEF b
<1>4. PICK n \in DOMAIN hand, up \in Transport :
        LET w == Put(rsp, First(n), up) IN
        /\ Portion(n) /\ rsp' = w.r
        /\ IF w.err = "nil"
             THEN /\ hand' = SubSeq(hand, n + 1, Len(hand))
                  /\ inv' = IF n < Len(hand) THEN "put" ELSE "copy"
             ELSE inv' = "exit"
  BY DEF PutPiece
<1>5. PICK m \in Nat :
           /\ d < m /\ m <= b /\ (m < b <=> n < Len(hand))
           /\ First(n) \in Piece /\ First(n).body = Bytes(d, m) /\ m = d + Len(First(n).body)
           /\ rsp.kind = "streaming" => LinePiece(First(n), d, rq.base64)
           /\ SubSeq(hand, n + 1, Len(hand)) = Bytes(m, b)
  BY <1>3, <1>4, FirstBytes
<1>6. up \in BOOLEAN
  BY TransportType
<1>7. Takes(rsp, Put(rsp, First(n), up), m, rq.base64)
  BY <1>2, <1>3, <1>5, <1>6, PutTakes
<1>8. PICK w \in Outcome : w = Put(rsp, First(n), up)
  BY <1>2, <1>5, <1>6, PutType
<1> QED BY <1>3, <1>4, <1>5, <1>7, <1>8 DEF b

LEMMA CarriesInvoker ==
  TypeOK /\ Control /\ FreshInv /\ PipeInv /\ ReaderInv /\ Carries /\ Invoker => Carries'
<1> SUFFICES ASSUME TypeOK, Control, FreshInv, PipeInv, ReaderInv, Carries, Invoker, Carrying'
             PROVE  (\E d, e, g \in Nat : Carried(d, e, g))'
  BY DEF Carries
<1>0. UNCHANGED <<rq, left>> /\ left # "forced" /\ rq.base64 \in BOOLEAN
      /\ inv' \in {"flush", "deliver", "copy", "check", "put"}
  BY InvokerSteps, ChildType DEF Carrying
<1>1. CASE Invoke
  <2>1. /\ inv = "invoke" /\ inv' \in {"flush", "deliver"} /\ UNCHANGED <<rsp, hand, enc, chunk>>
        /\ child' = [NoChild EXCEPT !.st = "running", !.open = TRUE] /\ pw' = "open"
    BY <1>1 DEF Invoke, Carrying
  <2>2. hand = <<>> /\ enc = <<>> /\ chunk = <<>> /\ child'.read = 0
    BY <2>1, ChildFields DEF PipeInv
  <2>3. Holds(rsp, 0, rq.base64) /\ (rq.limit = 0 => Rich(rsp))
    <3>1. Fresh(rsp) /\ (rq.limit = 0 => rsp.room = MaxInt64)
      BY <1>0, <2>1 DEF FreshInv
    <3> QED BY <1>0, <3>1, FreshHolds, ChildType
  <2>4. <<>> = Bytes(0, 0) /\ Fit(0, rq.base64) = 0 /\ Grouped(0)
    <3>1. 0 = 3 * 0 /\ 4 * (0 \div 3) = 0
      OBVIOUS
    <3> QED BY <3>1, NothingKept DEF Grouped, Fit
  <2>5. Carried(0, 0, 0)'
    BY <1>0, <2>1, <2>2, <2>3, <2>4 DEF Carried
  <2> QED BY <2>5
<1>2. CASE ~Invoke
  <2>1. UNCHANGED <<val, child, pw>>
    BY <1>2, InvokerSteps
  <2>2. Carrying
    <3>1. inv \in {"flush", "deliver", "copy", "check", "put"}
      BY <1>0, <1>2 DEF Invoker, DeferFlush, Deliver, SetResponseError, SetResponseResult, ReadPipe,
                        ReadEnd, CheckWrite, PutPiece, CloseDone
    <3> QED BY <1>0, <2>1, <3>1 DEF Carrying
  <2>3. PICK d \in Nat, e \in Nat, g \in Nat : Carried(d, e, g)
    BY <2>2 DEF Carries
  <2>a. e \in Nat /\ g \in Nat /\ Fit(e, rq.base64) \in Nat
    BY <1>0, FitProperties
  <2>4. inv \notin {"check", "put"} => d = Fit(e, rq.base64)
    <3> SUFFICES ASSUME inv \notin {"check", "put"} PROVE d = Fit(e, rq.base64)
      OBVIOUS
    <3>1. Bytes(d, Fit(e, rq.base64)) = <<>> /\ d <= Fit(e, rq.base64)
      BY <2>3 DEF PipeInv, Carried
    <3> QED BY <2>a, <3>1, NoBytes
  <2>5. CASE DeferFlush \/ Deliver \/ CheckWrite
    <3>1. /\ UNCHANGED <<rsp, hand, chunk>> /\ (inv' \in {"check", "put"} => inv \in {"check", "put"})
          /\ enc' = enc \/ pw # "open"
      BY <1>0, <2>5 DEF DeferFlush, Deliver, CheckWrite, output
    <3>2. Carried(d, e, g)'
      BY <1>0, <2>1, <2>3, <3>1 DEF Carried
    <3> QED BY <3>2
  <2>6. CASE ReadPipe
    <3>1. /\ inv = "copy" /\ cp = "write" /\ pw = "open" /\ UNCHANGED rsp
          /\ hand' = Piped /\ chunk' = <<>> /\ enc' = IF rq.base64 THEN Rest(enc \o chunk) ELSE enc
      BY <2>6 DEF ReadPipe
    <3>2. /\ e <= g /\ g <= child.read /\ enc = Bytes(e, g) /\ chunk = Bytes(g, child.read) /\ val = "reader"
          /\ rq.base64 => Grouped(e)
      BY <2>2, <2>3, <3>1 DEF Carried, Carrying
    <3>3. PICK m \in Nat :
           /\ e <= m /\ m <= child.read /\ (rq.base64 => Grouped(m))
           /\ Piped = Bytes(Fit(e, rq.base64), Fit(m, rq.base64))
           /\ Fit(e, rq.base64) < Fit(m, rq.base64)
           /\ (IF rq.base64 THEN Rest(enc \o chunk) ELSE enc) = Bytes(m, child.read)
      BY <3>1, <3>2, PipedBytes
    <3>4. PICK b \in Nat : b = child.read
      BY ChildType
    <3>5. chunk' = Bytes(b, b)
      BY <3>1, NoBytes
    <3>6. d = Fit(e, rq.base64)
      BY <2>4, <3>1
    <3>7. Carried(d, m, b)'
      <4>1. d < Fit(m, rq'.base64) /\ m <= b /\ b <= child'.read
        BY <1>0, <2>1, <3>3, <3>4, <3>6
      <4>2. d <= Fit(m, rq'.base64)
        <5>1. Fit(m, rq.base64) \in Nat
          BY <1>0, FitProperties
        <5> QED BY <1>0, <4>1, <5>1
      <4>3. Holds(rsp', d, rq'.base64) /\ (rq'.limit = 0 => Rich(rsp'))
        BY <1>0, <2>3, <3>1 DEF Carried
      <4>4. hand' = Bytes(d, Fit(m, rq'.base64)) /\ (rq'.base64 => Grouped(m))
        BY <1>0, <3>1, <3>3, <3>6
      <4>5. enc' = Bytes(m, b) /\ chunk' = Bytes(b, child'.read) /\ pw' = "open"
        BY <2>1, <3>1, <3>3, <3>4, <3>5
      <4> QED BY <4>1, <4>2, <4>3, <4>4, <4>5 DEF Carried
    <3> QED BY <3>7
  <2>7. CASE PutPiece
    <3> DEFINE b == Fit(e, rq.base64)
    <3>1. PICK m \in Nat, w \in Outcome :
           /\ d < m /\ m <= b /\ b \in Nat /\ b <= Most
           /\ rsp' = w.r /\ Takes(rsp, w, m, rq.base64)
           /\ IF w.err = "nil" THEN hand' = Bytes(m, b) /\ inv' = IF m < b THEN "put" ELSE "copy"
              ELSE inv' = "exit"
      BY <2>3, <2>7, PutSteps
    <3>2. UNCHANGED <<chunk, enc>>
      BY <2>7 DEF PutPiece, output
    <3> HIDE DEF b
    <3>3. w.err = "nil" /\ hand' = Bytes(m, b) /\ (inv' \in {"check", "put"} => m < b) /\ m <= Most
      BY <1>0, <3>1, MostType
    <3>4. Holds(rsp', m, rq.base64) /\ (rq.limit = 0 => Rich(rsp'))
      BY <2>3, <3>1, <3>3 DEF Takes, Carried
    <3>5. Carried(m, e, g)'
      BY <1>0, <2>1, <2>3, <3>1, <3>2, <3>3, <3>4 DEF Carried, b
    <3> QED BY <3>5
  <2>8. Deliver \/ DeferFlush \/ ReadPipe \/ CheckWrite \/ PutPiece
    BY <1>0, <1>2 DEF Invoker, SetResponseError, SetResponseResult, ReadEnd, CloseDone
  <2> QED BY <2>5, <2>6, <2>7, <2>8
<1> QED BY <1>1, <1>2

LEMMA CarriesCopier ==
  ASSUME TypeOK, PipeInv, ReaderInv, Copier, val = "reader", NEW e \in Nat, NEW g \in Nat,
         e <= g, g <= child.read,
         IF pw = "open" THEN enc = Bytes(e, g) /\ chunk = Bytes(g, child.read)
         ELSE child.read - e < 3 /\ (~rq.base64 => e = child.read)
  PROVE  \E k \in Nat :
           /\ e <= k /\ k <= child'.read
           /\ IF pw' = "open" THEN enc' = Bytes(e, k) /\ chunk' = Bytes(k, child'.read)
              ELSE child'.read - e < 3 /\ (~rq.base64 => e = child'.read)
<1> DEFINE a == child.read
<1>1. a \in Nat /\ g <= a /\ e <= a /\ rq.base64 \in BOOLEAN
  BY ChildType
<1>2. pw = "open" => enc = Bytes(e, g) /\ chunk = Bytes(g, a)
  OBVIOUS
<1>3. pw = "open" /\ chunk = <<>> => g = a
  BY <1>1, <1>2, NoBytes
<1>4. CASE WakeUp \/ StdoutEnd
  BY <1>1, <1>4 DEF WakeUp, StdoutEnd
<1>5. CASE CopyChunk
  <2>1. PICK n \in Nat :
           /\ a < n /\ n <= child.wrote
           /\ child'.read = n /\ child'.wrote = child.wrote /\ child'.open = child.open
           /\ UNCHANGED <<handled, pw>> /\ cp = "copy" /\ chunk = <<>>
           /\ \/ /\ rq.base64 /\ Len(enc \o Bytes(a, n)) < 3
                 /\ enc' = enc \o Bytes(a, n) /\ chunk' = <<>> /\ cp' = "copy"
              \/ /\ enc' = enc /\ chunk' = Bytes(a, n) /\ cp' = "write"
                 /\ Pieced(chunk', enc, rq.base64)
    BY <1>5, ChunkSteps
  <2>2. pw = "open" /\ pw' = "open"
    BY <2>1 DEF ReaderInv
  <2>3. g = a /\ enc = Bytes(e, a)
    BY <1>2, <1>3, <2>1, <2>2
  <2> HIDE DEF a
  <2>4. e <= a /\ a <= n /\ e <= n
    BY <1>1, <2>1
  <2>5. CASE enc' = enc \o Bytes(a, n) /\ chunk' = <<>>
    <3>1. enc' = Bytes(e, n)
      BY <1>1, <2>3, <2>4, <2>5, BytesJoin
    <3>2. chunk' = Bytes(n, n)
      BY <2>5, NoBytes
    <3> QED BY <2>1, <2>2, <2>4, <3>1, <3>2
  <2>6. CASE enc' = enc /\ chunk' = Bytes(a, n)
    BY <1>1, <2>1, <2>2, <2>3, <2>4, <2>6
  <2> QED BY <2>1, <2>5, <2>6
<1>6. ~WriteRejected
  BY DEF WriteRejected, ReaderInv
<1>7. CASE Wait
  <2>1. /\ cp = "wait" /\ pw = "open" /\ pw' # "open" /\ chunk = <<>>
        /\ child' = [child EXCEPT !.st = "reaped"]
    BY <1>7 DEF Wait, PipeInv, ReaderInv
  <2>2. child'.read = a
    <3>1. [child EXCEPT !.st = "reaped"].read = child.read
      BY DEF TypeOK, Child
    <3> QED BY <2>1, <3>1
  <2>3. enc = Bytes(e, a) /\ Len(enc) < 3 /\ (~rq.base64 => enc = <<>>)
    BY <1>2, <1>3, <2>1 DEF PipeInv
  <2> HIDE DEF a
  <2>4. a - e < 3 /\ (~rq.base64 => e = a)
    <3>1. Len(enc) = a - e
      BY <1>1, <2>3, BytesType
    <3> QED BY <1>1, <2>3, <3>1, NoBytes
  <2> QED BY <1>1, <2>1, <2>2, <2>4
<1> QED BY <1>4, <1>5, <1>6, <1>7 DEF Copier

LEMMA CarriesOthers ==
  TypeOK /\ PipeInv /\ ReaderInv /\ Carries
  /\ (Flush \/ Copier \/ Kill \/ Cancel \/ Environment \/ UNCHANGED vars) => Carries'
<1> SUFFICES ASSUME TypeOK, PipeInv, ReaderInv, Carries, Carrying',
                    Flush \/ Copier \/ Kill \/ Cancel \/ Environment \/ UNCHANGED vars
             PROVE  (\E d, e, g \in Nat : Carried(d, e, g))'
  BY DEF Carries
<1>1. UNCHANGED <<rq, h, left, inv, val, hand, err, rsp>>
  BY OtherSteps
<1>2. Carrying /\ val = "reader"
  BY <1>1 DEF Carrying
<1>3. PICK d \in Nat, e \in Nat, g \in Nat : Carried(d, e, g)
  BY <1>2 DEF Carries
<1>4. PICK k \in Nat :
           /\ e <= k /\ k <= child'.read
           /\ IF pw' = "open" THEN enc' = Bytes(e, k) /\ chunk' = Bytes(k, child'.read)
              ELSE child'.read - e < 3 /\ (~rq.base64 => e = child'.read)
  <2>1. /\ e <= g /\ g <= child.read
        /\ IF pw = "open" THEN enc = Bytes(e, g) /\ chunk = Bytes(g, child.read)
           ELSE child.read - e < 3 /\ (~rq.base64 => e = child.read)
    BY <1>3 DEF Carried
  <2>2. CASE Copier
    BY <1>2, <2>1, <2>2, CarriesCopier
  <2>3. CASE Flush \/ Kill \/ Cancel \/ Environment \/ UNCHANGED vars
    <3>1. UNCHANGED <<enc, chunk, pw>> /\ child'.read = child.read
      BY <2>3, ChildSteps
    <3> QED BY <2>1, <3>1
  <2> QED BY <2>2, <2>3
<1>5. Carried(d, e, k)'
  BY <1>1, <1>3, <1>4 DEF Carried
<1> QED BY <1>5

LEMMA CarriesNext ==
  TypeOK /\ Control /\ FreshInv /\ PipeInv /\ ReaderInv /\ Carries /\ [Next]_vars => Carries'
BY CarriesHandler, CarriesInvoker, CarriesOthers DEF Next

-----------------------------------------------------------------------------
(* The answer that the handler takes for a success.                        *)

\* Nothing but what base64 could not fill a group with is missing.
Full(n, wrote, base64) == n = Fit(wrote, base64)

Succeeding ==
  val = "reader" /\ inv \in {"exit", "exited"} /\ err = "nil" /\ left # "forced" /\ ~Cut

\* The responser has the whole output; Close may still have to send it.
HasAll(d) ==
  /\ d <= Most /\ Full(d, child.wrote, rq.base64)
  /\ Holds(rsp, d, rq.base64) /\ (rq.limit = 0 => Rich(rsp))

\* It has been sent, unless a limit forbade it or nobody wanted it.
SentAll(d) ==
  /\ Full(d, child.wrote, rq.base64)
  /\ (rsp.kind = "rpc" => rsp.id = "given") /\ (rsp.kind = "streaming" => rq.limit = 0)
       => Taken(rsp) = Bytes(0, d)

Finished ==
  Succeeding => /\ pw = "eof"
                /\ h # "returned" => \E d \in Nat : HasAll(d)
                /\ h = "returned" => \E d \in Nat : SentAll(d)

LEMMA FinishedInit == Init => Finished
BY DEF Init, Finished, Succeeding

LEMMA FinishedHandler ==
  TypeOK /\ Control /\ StreamInv /\ CutInv /\ Finished /\ Handler => Finished'
<1> SUFFICES ASSUME TypeOK, Control, StreamInv, CutInv, Finished, Handler, Succeeding'
             PROVE  (/\ pw = "eof"
                     /\ h # "returned" => \E d \in Nat : HasAll(d)
                     /\ h = "returned" => \E d \in Nat : SentAll(d))'
  BY DEF Finished
<1>1. /\ UNCHANGED <<rq, val, conn, pw, child>>
      /\ inv' = inv \/ (inv = "none" /\ inv' = "invoke")
      /\ inv # "none" /\ inv' # "none" => h \notin {"read", "process"}
      /\ left = "forced" => left' = "forced"
      /\ h \in InProcess => rsp' = rsp /\ h' \in InProcess \cup {"close"}
      /\ err' = err \/ h \in {"read", "process"} \/ err' # "nil"
  BY HandlerSteps
<1>2. ~Cut
  <2>1. Cut => Cut'
    BY CutStays DEF Next
  <2> QED BY <2>1 DEF Succeeding
<1>3. Succeeding /\ h \notin {"read", "process"}
  BY <1>1, <1>2 DEF Succeeding
<1>4. pw' = "eof" /\ rq' = rq /\ child' = child
  BY <1>1, <1>3 DEF Finished
<1>5. ASSUME rsp' = rsp, h # "returned", h' # "returned" PROVE \E d \in Nat : HasAll(d)'
  <2>1. PICK d \in Nat : HasAll(d)
    BY <1>3, <1>5 DEF Finished
  <2>2. HasAll(d)'
    BY <1>4, <1>5, <2>1 DEF HasAll
  <2> QED BY <2>2
<1>6. CASE h \in InProcess
  BY <1>1, <1>4, <1>5, <1>6 DEF InProcess
<1>7. CASE CloseBranch
  <2>1. h = "close" /\ h' = "closeend" /\ rsp' = Upgrade(rsp, rq.plus)
    BY <1>3, <1>7 DEF CloseBranch, Succeeding
  <2>2. Upgrade(rsp, rq.plus) = rsp
    BY <1>3 DEF CutInv, Upgrade, Succeeding
  <2> QED BY <1>4, <1>5, <2>1, <2>2
<1>8. ~CloseError
  BY <1>3 DEF CloseError, CutInv, Succeeding
<1>9. CASE CloseEnd
  <2>1. h = "closeend" /\ h' = "returned" /\ rsp' = Close(rsp, TRUE).r
    BY <1>2, <1>9 DEF CloseEnd, Transport, Cut, Over, TypeOK
  <2>2. PICK d \in Nat : HasAll(d)
    BY <1>3, <2>1 DEF Finished
  <2>3. /\ d <= Most /\ Holds(rsp, d, rq.base64) /\ (rq.limit = 0 => Rich(rsp))
        /\ Full(d, child.wrote, rq.base64) /\ rsp \in Record /\ rq.base64 \in BOOLEAN
    BY <2>2, ChildType DEF HasAll
  <2>4. rsp'.kind = rsp.kind
    BY <2>1, KeepsKind DEF TypeOK
  <2>5. rsp.kind = "rpc" => rsp'.id = rsp.id
    <3> SUFFICES ASSUME rsp.kind = "rpc" PROVE Close(rsp, TRUE).r.id = rsp.id
      BY <2>1
    <3>1. ~rsp.dataSent /\ rsp.wire = <<>> /\ Text(rsp.buf) = Bytes(0, d)
      BY <2>3 DEF Holds
    <3>2. 0 <= d
      OBVIOUS
    <3>3. Len(Bytes(0, d)) = d
      BY <3>2, BytesType
    <3>4. Envelope + Len(Text(rsp.buf)) <= MaxInt64
      BY <2>3, <3>1, <3>3, OutputLength
    <3> QED BY <2>3, <3>1, <3>4, RpcClose
  <2>6. ASSUME rsp'.kind = "rpc" => rsp'.id = "given", rsp'.kind = "streaming" => rq.limit = 0
        PROVE  Taken(rsp') = Bytes(0, d)
    <3>1. Rich(rsp)
      BY <2>3, <2>4, <2>6 DEF Rich
    <3>2. rsp.kind = "rpc" => rsp.id # "absent"
      BY <2>4, <2>5, <2>6
    <3> QED BY <2>1, <2>3, <3>1, <3>2, CloseContent
  <2>7. SentAll(d)'
    BY <1>4, <2>3, <2>6 DEF SentAll
  <2> QED BY <1>4, <2>1, <2>7
<1>10. h \in InProcess \/ CloseBranch \/ CloseEnd
  BY <1>3, <1>8 DEF Handler, ReadFromTransport, Process, SelectTimeout, SelectDone, CheckErr,
                    GraceDone, GraceTimer, InProcess
<1> QED BY <1>6, <1>7, <1>9, <1>10

LEMMA FinishedInvoker ==
  TypeOK /\ Control /\ CutInv /\ PipeInv /\ ReaderInv /\ Carries /\ Finished /\ Invoker => Finished'
<1> SUFFICES ASSUME TypeOK, Control, CutInv, PipeInv, ReaderInv, Carries, Finished, Invoker, Succeeding'
             PROVE  (/\ pw = "eof"
                     /\ h # "returned" => \E d \in Nat : HasAll(d)
                     /\ h = "returned" => \E d \in Nat : SentAll(d))'
  BY DEF Finished
<1>1. UNCHANGED <<rq, h, left, ctx, conn>> /\ inv' \in {"exit", "exited"} /\ val' = "reader"
      /\ err' = "nil" /\ left # "forced" /\ ~Cut
  BY InvokerSteps DEF Succeeding, Cut
<1>2. inv \notin {"none", "exit", "exited"} => h \in InProcess
  BY <1>1, Busy
<1>3. CASE CloseDone
  <2>1. UNCHANGED <<rq, h, left, val, err, rsp, ctx, conn, pw, child>> /\ inv = "exit"
    BY <1>3 DEF CloseDone, output
  <2>2. Succeeding
    BY <1>1, <2>1 DEF Succeeding
  <2>3. pw' = "eof"
    BY <2>1, <2>2 DEF Finished
  <2>4. ASSUME NEW d \in Nat PROVE (HasAll(d) => HasAll(d)') /\ (SentAll(d) => SentAll(d)')
    BY <2>1 DEF HasAll, SentAll
  <2> QED BY <2>1, <2>2, <2>3, <2>4 DEF Finished
<1>4. ~Deliver
  BY <1>1, <1>2 DEF Deliver, CutInv, Cut, Closing, Over, InProcess, TypeOK
<1>5. ~SetResponseError /\ ~SetResponseResult
  BY <1>1 DEF SetResponseError, SetResponseResult, Faults
<1>6. CASE ReadEnd
  <2>1. inv = "copy" /\ pw = "eof" /\ UNCHANGED <<val, rsp, pw, child, hand>>
    BY <1>1, <1>6 DEF ReadEnd, output
  <2>2. Carrying /\ h \in InProcess
    BY <1>1, <1>2, <2>1 DEF Carrying
  <2>3. PICK d \in Nat, e \in Nat, g \in Nat : Carried(d, e, g)
    BY <2>2 DEF Carries
  <2>4. /\ d <= Fit(e, rq.base64) /\ e <= g /\ g <= child.read /\ hand = Bytes(d, Fit(e, rq.base64))
        /\ Holds(rsp, d, rq.base64) /\ (rq.limit = 0 => Rich(rsp)) /\ (rq.base64 => Grouped(e))
    BY <2>3 DEF Carried
  <2>5. child.read - e < 3 /\ (~rq.base64 => e = child.read)
    BY <2>1, <2>3 DEF Carried
  <2>6. d = Fit(e, rq.base64)
    <3>1. hand = <<>> /\ rq.base64 \in BOOLEAN
      BY <2>1, ChildType DEF PipeInv
    <3>2. e \in Nat /\ Fit(e, rq.base64) \in Nat
      BY <3>1, FitProperties
    <3> QED BY <2>4, <3>1, <3>2, NoBytes
  <2>7. child.read = child.wrote /\ child.wrote <= MaxOutput
    BY <2>1, <2>2 DEF ReaderInv, PipeInv, Carrying, TypeOK
  <2>8. d <= Most /\ Full(d, child.wrote, rq.base64)
    <3> DEFINE a == child.wrote
    <3>1. a \in Nat /\ MaxOutput \in Nat /\ a <= MaxOutput /\ e <= g /\ g <= a /\ a - e < 3
          /\ (~rq.base64 => e = a) /\ rq.base64 \in BOOLEAN
      BY <2>4, <2>5, <2>7, ChildType
    <3> HIDE DEF a
    <3>2. e <= a
      BY <3>1
    <3>3. IF rq.base64 THEN Grouped(e) /\ a - e < 3 ELSE e = a
      BY <2>4, <3>1
    <3>4. Fit(e, rq.base64) = Fit(a, rq.base64) /\ Fit(a, rq.base64) <= Most
      BY <3>1, <3>2, <3>3, FitProperties
    <3> QED BY <2>6, <3>4 DEF a, Full
  <2>9. HasAll(d)'
    BY <1>1, <2>1, <2>4, <2>8 DEF HasAll
  <2> QED BY <1>1, <2>1, <2>2, <2>9 DEF InProcess
<1>7. ~CheckWrite
  BY <1>1 DEF CheckWrite
<1>8. ~PutPiece
  BY <1>1 DEF PutPiece
<1> QED
  BY <1>1, <1>3, <1>4, <1>5, <1>6, <1>7, <1>8 DEF Invoker, Invoke, DeferFlush, ReadPipe

LEMMA FinishedOthers ==
  TypeOK /\ Control /\ ReaderInv /\ Finished
  /\ (Flush \/ Copier \/ Kill \/ Cancel \/ Environment \/ UNCHANGED vars) => Finished'
<1> SUFFICES ASSUME TypeOK, Control, ReaderInv, Finished, Succeeding',
                    Flush \/ Copier \/ Kill \/ Cancel \/ Environment \/ UNCHANGED vars
             PROVE  (/\ pw = "eof"
                     /\ h # "returned" => \E d \in Nat : HasAll(d)
                     /\ h = "returned" => \E d \in Nat : SentAll(d))'
  BY DEF Finished
<1>1. UNCHANGED <<rq, h, left, inv, val, err, rsp>>
  BY OtherSteps
<1>2. ~Cut
  <2>1. Cut => Cut'
    BY CutStays DEF Next
  <2> QED BY <2>1 DEF Succeeding
<1>3. Succeeding
  BY <1>1, <1>2 DEF Succeeding
<1>4. pw = "eof" /\ cp = "done"
  BY <1>3 DEF Finished, ReaderInv, Succeeding
<1>5. ~Copier
  BY <1>4 DEF Copier, WakeUp, CopyChunk, StdoutEnd, WriteRejected, Wait
<1>6. pw' = pw /\ child'.wrote = child.wrote
  BY <1>4, <1>5, ChildSteps
<1>7. ASSUME NEW d \in Nat PROVE (HasAll(d) => HasAll(d)') /\ (SentAll(d) => SentAll(d)')
  BY <1>1, <1>6 DEF HasAll, SentAll
<1> QED BY <1>1, <1>3, <1>4, <1>6, <1>7 DEF Finished

LEMMA FinishedNext ==
  TypeOK /\ Control /\ StreamInv /\ CutInv /\ PipeInv /\ ReaderInv /\ Carries /\ Finished /\ [Next]_vars
    => Finished'
BY FinishedHandler, FinishedInvoker, FinishedOthers DEF Next

-----------------------------------------------------------------------------
(* What the responser holds at any time, whatever became of the request.   *)

\* A stream consists of lines; what a plain answer may still be made of fits.
Shaped(r, base64) ==
  /\ r.kind = "streaming" => Tidy(r, base64)
  /\ r.kind = "rpc" /\ ~r.resultSet => Len(Text(r.buf)) <= Most

LEMMA ShapedBlank ==
  ASSUME NEW r \in Record, r.wire = <<>>, r.buf = <<>>, NEW base64 \in BOOLEAN
  PROVE  Shaped(r, base64)
<1>1. Most \in Nat
  BY MostType
<1> QED BY <1>1, NothingSent, NothingKept DEF Shaped, Tidy

LEMMA ShapedFields ==
  ASSUME NEW r \in Record, NEW base64 \in BOOLEAN, Shaped(r, base64), NEW id \in Ids, NEW n \in Nat
  PROVE  Shaped(SetID(r, id), base64) /\ Shaped(MaxResponse(r, n), base64)
<1>1. LET s == SetID(r, id) IN
      s.kind = r.kind /\ s.wire = r.wire /\ s.buf = r.buf /\ s.resultSet = r.resultSet
  BY DEF SetID, Record
<1>2. LET s == MaxResponse(r, n) IN
      s.kind = r.kind /\ s.wire = r.wire /\ s.buf = r.buf /\ s.resultSet = r.resultSet
  BY DEF MaxResponse, Record
<1> QED BY <1>1, <1>2 DEF Shaped, Tidy

LEMMA ShapedUpgrade ==
  ASSUME NEW r \in Record, NEW base64 \in BOOLEAN, Shaped(r, base64), NEW plus \in BOOLEAN,
         r.kind = "legacy" /\ plus => r.wire = <<>>
  PROVE  Shaped(Upgrade(r, plus), base64)
<1> DEFINE u == Upgrade(r, plus)
<1>1. u \in Record
  <2>1. PICK id \in Ids : TRUE
    BY DEF Ids
  <2> QED BY <2>1, UpgradeType
<1>2. CASE r.kind = "legacy" /\ plus
  <2>1. u.wire = <<>> /\ u.buf = <<>>
    BY <1>2 DEF Upgrade, New
  <2> QED BY <1>1, <2>1, ShapedBlank
<1>3. CASE ~(r.kind = "legacy" /\ plus)
  BY <1>3 DEF Upgrade
<1> QED BY <1>2, <1>3

LEMMA ShapedError ==
  ASSUME NEW r \in Record, NEW base64 \in BOOLEAN, Shaped(r, base64), NEW e \in Errors, NEW up \in BOOLEAN
  PROVE  Shaped(SetError(r, e, up).r, base64)
<1> DEFINE s == SetError(r, e, up).r
<1>1. s.kind = r.kind
  BY SetErrorHoldsBack DEF HeldBack
<1>2. r.kind = "streaming" => Tidy(s, base64)
  BY ErrorTidy DEF Shaped
<1>3. r.kind = "rpc" => s = r \/ s.resultSet
  BY DEF SetError, SetErrorRpc, Success, Failure, Record
<1> QED BY <1>1, <1>2, <1>3 DEF Shaped

LEMMA ResultIsSet ==
  ASSUME NEW r \in Record, r.kind = "rpc", NEW v \in Value, NEW up \in BOOLEAN
  PROVE  LET s == SetResult(r, v, up).r IN s = r \/ s.resultSet
<1> DEFINE m == [r EXCEPT !.resultSet = TRUE]
           f == ResultFrame(r.id, v)
           n == Envelope + Len(Content(f))
           w == LimitedWrite(m, f, n, up)
<1>1. m.kind = "rpc" /\ m.resultSet /\ m \in Record
  BY DEF Record
<1>2. SetResult(r, v, up) = IF r.resultSet THEN Failure(r, "errResultAlreadySet")
                            ELSE IF r.id = "absent" THEN Success(r) ELSE Encode(m, f, up)
  BY DEF SetResult, SetResultRpc
<1>3. Encode(m, f, up) = IF m.encErr # "nil" THEN Failure(m, m.encErr)
                         ELSE Failure([w.r EXCEPT !.encErr = w.err], w.err)
  BY DEF Encode
<1> HIDE DEF m, f, n
<1>4. w.r = m \/ w.r = [m EXCEPT !.room = @ - n, !.buf = Join(@, f)]
  BY <1>1 DEF LimitedWrite, Success, Failure
<1>5. DOMAIN w.r = DOMAIN m /\ w.r.resultSet
  BY <1>1, <1>4 DEF Record
<1> HIDE DEF w
<1>6. [w.r EXCEPT !.encErr = w.err].resultSet
  BY <1>1, <1>5 DEF Record
<1>7. Encode(m, f, up).r.resultSet
  BY <1>1, <1>3, <1>6 DEF Failure
<1> QED BY <1>2, <1>7 DEF Success, Failure

LEMMA ShapedResult ==
  ASSUME NEW r \in Record, NEW base64 \in BOOLEAN, Shaped(r, base64), NEW v \in {OK, Null}, NEW up \in BOOLEAN
  PROVE  Shaped(SetResult(r, v, up).r, base64)
<1> DEFINE s == SetResult(r, v, up).r
<1>1. v \in Value /\ v \in {OK, Null, Done}
  BY ValueTypes
<1>2. s.kind = r.kind
  BY <1>1, SetResultHoldsBack DEF HeldBack
<1>3. r.kind = "streaming" => Tidy(s, base64)
  BY <1>1, ResultTidy DEF Shaped
<1>4. r.kind = "rpc" => s = r \/ s.resultSet
  BY <1>1, ResultIsSet
<1> QED BY <1>2, <1>3, <1>4 DEF Shaped

ShapedInv ==
  left # "forced" =>
    /\ h # "returned" => Shaped(rsp, rq.base64)
    /\ rsp.kind = "streaming" => Tidy(rsp, rq.base64)

LEMMA ShapedInit == Init => ShapedInv
<1> SUFFICES ASSUME Init PROVE ShapedInv
  OBVIOUS
<1>1. rsp \in Record /\ rq.base64 \in BOOLEAN
  BY TypeInit DEF TypeOK, Setup
<1>2. rsp.wire = <<>> /\ rsp.buf = <<>>
  BY DEF Init, New
<1> QED BY <1>1, <1>2, ShapedBlank DEF ShapedInv, Shaped

LEMMA ShapedHandler == TypeOK /\ Control /\ StreamInv /\ ShapedInv /\ Handler => ShapedInv'
<1> SUFFICES ASSUME TypeOK, Control, StreamInv, ShapedInv, Handler, left' # "forced" PROVE ShapedInv'
  BY DEF ShapedInv
<1>1. /\ rq' = rq /\ left # "forced" /\ rsp \in Record /\ rq.base64 \in BOOLEAN
      /\ h \in InProcess => rsp' = rsp /\ h' \in InProcess \cup {"close"}
  BY HandlerSteps, ChildType
<1>2. /\ h # "returned" => Shaped(rsp, rq.base64)
      /\ rsp.kind = "streaming" => Tidy(rsp, rq.base64)
  BY <1>1 DEF ShapedInv
<1>3. Shaped(rsp', rq.base64) => ShapedInv'
  BY <1>1 DEF ShapedInv, Shaped
<1> DEFINE u == Upgrade(rsp, rq.plus)
<1>4. h \in {"process", "close"} => u \in Record /\ Shaped(u, rq.base64)
  <2>1. h \in {"process", "close"} => (rsp.kind = "legacy" /\ rq.plus => rsp.wire = <<>>)
    BY <1>1 DEF StreamInv
  <2> QED BY <1>1, <1>2, <2>1, ShapedUpgrade, UpgradeType, RequestTypes
<1> HIDE DEF u
<1>5. CASE ReadFromTransport
  BY <1>2, <1>3, <1>5 DEF ReadFromTransport
<1>6. CASE Process
  <2> DEFINE s == SetID(u, rq.id)
  <2>1. h = "process" /\ rsp' \in {rsp, s, MaxResponse(s, rq.limit)}
    BY <1>6 DEF Process, u
  <2>2. s \in Record /\ Shaped(s, rq.base64)
    BY <1>1, <1>4, <2>1, ShapedFields, UpgradeType, RequestTypes
  <2> HIDE DEF s
  <2>3. Shaped(MaxResponse(s, rq.limit), rq.base64)
    BY <1>1, <2>2, ShapedFields, RequestTypes
  <2> QED BY <1>2, <1>3, <2>1, <2>2, <2>3
<1>7. CASE h \in InProcess
  BY <1>1, <1>2, <1>3, <1>7 DEF InProcess
<1>8. CASE CloseBranch
  <2>1. h = "close" /\ rsp' \in {u, MaxResponse(u, 0)}
    BY <1>8 DEF CloseBranch, u
  <2>2. Shaped(MaxResponse(u, 0), rq.base64)
    BY <1>1, <1>4, <2>1, ShapedFields, RequestTypes
  <2> QED BY <1>3, <1>4, <2>1, <2>2
<1>9. CASE CloseError
  <2>1. h = "closeerr" /\ (rsp' = rsp \/ \E up \in Transport : rsp' = SetError(rsp, err, up).r)
    BY <1>9 DEF CloseError
  <2>2. err \in Errors /\ Shaped(rsp, rq.base64)
    BY <1>2, <2>1 DEF TypeOK
  <2> QED BY <1>1, <1>3, <2>1, <2>2, ShapedError, TransportType
<1>10. CASE CloseEnd
  <2>1. h' = "returned" /\ \E up \in Transport : rsp' = Close(rsp, up).r
    BY <1>10 DEF CloseEnd
  <2>2. rsp'.kind = "streaming" => Tidy(rsp', rq.base64)
    BY <1>1, <1>2, <2>1, CloseTidy, KeepsKind, TransportType
  <2> QED BY <1>1, <2>1, <2>2 DEF ShapedInv
<1> QED
  BY <1>5, <1>6, <1>7, <1>8, <1>9, <1>10 DEF Handler, SelectTimeout, SelectDone, CheckErr, GraceDone,
     GraceTimer, InProcess

LEMMA ShapedInvoker ==
  TypeOK /\ Control /\ PipeInv /\ Carries /\ ShapedInv /\ Invoker => ShapedInv'
<1> SUFFICES ASSUME TypeOK, Control, PipeInv, Carries, ShapedInv, Invoker, left' # "forced" PROVE ShapedInv'
  BY DEF ShapedInv
<1>1. /\ UNCHANGED <<rq, h, left>> /\ left # "forced" /\ rsp \in Record /\ rq.base64 \in BOOLEAN
      /\ inv \notin {"none", "exited"}
  BY InvokerSteps, ChildType
<1>2. CASE rsp' = rsp
  BY <1>1, <1>2 DEF ShapedInv
<1>3. inv # "exit" => h \in InProcess /\ Shaped(rsp, rq.base64)
  BY <1>1, Busy DEF ShapedInv, InProcess
<1>4. Shaped(rsp', rq.base64) => ShapedInv'
  BY <1>1 DEF ShapedInv, Shaped
<1>5. CASE SetResponseError
  <2>1. inv = "set" /\ val \in Errors /\ \E up \in Transport : rsp' = SetError(rsp, val, up).r
    BY <1>5 DEF SetResponseError, Faults, Errors, TypeOK
  <2> QED BY <1>1, <1>3, <1>4, <2>1, ShapedError, TransportType
<1>6. CASE SetResponseResult
  <2> DEFINE v == IF val = "ok" THEN OK ELSE Null
  <2>1. inv = "set" /\ v \in {OK, Null} /\ \E up \in Transport : rsp' = SetResult(rsp, v, up).r
    BY <1>6 DEF SetResponseResult
  <2> HIDE DEF v
  <2> QED BY <1>1, <1>3, <1>4, <2>1, ShapedResult, TransportType
<1>7. CASE PutPiece
  <2>1. inv = "put" /\ val = "reader"
    BY <1>7 DEF PutPiece, PipeInv
  <2>2. PICK d \in Nat, e \in Nat, g \in Nat : Carried(d, e, g)
    BY <1>1, <2>1 DEF Carries, Carrying
  <2>3. PICK m \in Nat, w \in Outcome :
          /\ m <= Fit(e, rq.base64) /\ Fit(e, rq.base64) \in Nat /\ Fit(e, rq.base64) <= Most
          /\ rsp' = w.r /\ Takes(rsp, w, m, rq.base64)
    BY <1>7, <2>2, PutSteps
  <2>4. m <= Most
    BY <2>3, MostType
  <2>8. /\ w.r.kind = rsp.kind
        /\ rsp.kind = "streaming" => Tidy(w.r, rq.base64)
        /\ rsp.kind = "rpc" => w.r = rsp \/ Holds(w.r, m, rq.base64)
    BY <2>3 DEF Takes
  <2>9. Holds(w.r, m, rq.base64) /\ w.r.kind = "rpc" => Len(Text(w.r.buf)) <= Most
    <3>1. 0 <= m
      OBVIOUS
    <3>2. Len(Bytes(0, m)) = m
      BY <3>1, BytesType
    <3> QED BY <2>4, <3>2 DEF Holds
  <2>10. Shaped(w.r, rq.base64)
    BY <1>3, <2>1, <2>8, <2>9 DEF Shaped
  <2> QED BY <1>4, <2>3, <2>10
<1>8. rsp' = rsp \/ SetResponseError \/ SetResponseResult \/ PutPiece
  BY DEF Invoker, Invoke, DeferFlush, Deliver, ReadPipe, ReadEnd, CheckWrite, CloseDone
<1> QED BY <1>2, <1>5, <1>6, <1>7, <1>8

LEMMA ShapedNext ==
  TypeOK /\ Control /\ StreamInv /\ PipeInv /\ Carries /\ ShapedInv /\ [Next]_vars => ShapedInv'
<1>1. ShapedInv /\ (Flush \/ Copier \/ Kill \/ Cancel \/ Environment \/ UNCHANGED vars) => ShapedInv'
  BY OtherSteps DEF ShapedInv
<1> QED BY <1>1, ShapedHandler, ShapedInvoker DEF Next

-----------------------------------------------------------------------------
(* What follows for every answer.                                          *)

ContentInv == FreshInv /\ PipeInv /\ ReaderInv /\ CutInv /\ Carries /\ Finished /\ ShapedInv

LEMMA StreamInvHolds == Spec => []StreamInv
BY StreamInit, StreamNext, ControlHolds, TypeCorrect, PTL DEF Spec

LEMMA ContentHolds == Spec => []ContentInv
<1>1. Init => ContentInv
  BY FreshInit, PipeInit, CutInit, CarriesInit, FinishedInit, ShapedInit DEF ContentInv
<1>2. TypeOK /\ Control /\ StreamInv /\ ContentInv /\ [Next]_vars => ContentInv'
  BY FreshNext, PipeNext, CutNext, CarriesNext, FinishedNext, ShapedNext DEF ContentInv
<1> QED
  BY <1>1, <1>2, StreamInvHolds, ControlHolds, TypeCorrect, PTL DEF Spec

LEMMA WrittenBytes == ASSUME NEW n \in Nat PROVE Written(n) = Bytes(0, n)
BY DEF Written, Bytes

LEMMA DeliveredContent == Delivered = Taken(rsp)
BY DEF Delivered, Taken, Data

\* As long as the invoker copies, every byte of the output is at one place, in order:
\* with the client, in the responser, the invoker's hand, the encoder or the copier's
\* write (MethodDef.Invoke, streamingResponse.Write, rpcResponse.Write).
THEOREM NothingIsLost == Spec => []NothingLostInTransit
<1>1. TypeOK /\ ContentInv => NothingLostInTransit
  <2> SUFFICES ASSUME TypeOK, ContentInv, inv \in {"copy", "check", "put"}, pw = "open", left # "forced"
               PROVE  LET taken == Delivered \o hand IN
                      /\ taken = Written(Len(taken))
                      /\ Written(Decoded(Len(taken))) \o enc \o chunk = Written(child.read)
    BY DEF NothingLostInTransit
  <2>1. Carrying
    BY DEF ContentInv, PipeInv, Carrying
  <2>2. PICK d \in Nat, e \in Nat, g \in Nat : Carried(d, e, g)
    BY <2>1 DEF ContentInv, Carries
  <2> DEFINE a == child.read
             b == Fit(e, rq.base64)
  <2>3. /\ d <= b /\ e <= g /\ g <= a /\ Holds(rsp, d, rq.base64) /\ (rq.base64 => Grouped(e))
        /\ hand = Bytes(d, b) /\ enc = Bytes(e, g) /\ chunk = Bytes(g, a)
    BY <2>2 DEF Carried
  <2>4. a \in Nat /\ rsp \in Record /\ b \in Nat /\ rq.base64 \in BOOLEAN
    BY ChildType, FitProperties
  <2>a. Decoded(b) = e
    <3>1. CASE rq.base64
      <4>1. PICK k \in Nat : e = 3 * k
        BY <2>3, <3>1 DEF Grouped
      <4>2. e \div 3 = k /\ (4 * k) \div 4 = k
        BY <4>1, SMT
      <4> QED BY <3>1, <4>1, <4>2 DEF Decoded, Fit
    <3>2. CASE ~rq.base64
      BY <3>2 DEF Decoded, Fit
    <3> QED BY <2>4, <3>1, <3>2
  <2> HIDE DEF a, b
  <2>5. Delivered = Bytes(0, d)
    BY <2>3, <2>4, HoldsContent, DeliveredContent
  <2>6. 0 <= d /\ 0 <= e /\ 0 <= g /\ 0 <= b
    BY <2>4
  <2>7. Bytes(0, d) \o Bytes(d, b) = Bytes(0, b)
    BY <2>3, <2>4, <2>6, BytesJoin
  <2>8. Bytes(0, e) \o Bytes(e, g) = Bytes(0, g)
    BY <2>3, <2>6, BytesJoin
  <2>9. Bytes(0, g) \o Bytes(g, a) = Bytes(0, a)
    BY <2>3, <2>4, <2>6, BytesJoin
  <2>10. Len(Bytes(0, b)) = b
    BY <2>4, <2>6, BytesType
  <2> QED BY <2>3, <2>4, <2>5, <2>7, <2>8, <2>9, <2>10, <2>a, WrittenBytes DEF a
<1> QED BY <1>1, ContentHolds, TypeCorrect, PTL

\* The frames of a stream are the lines of the output, in whatever pieces they reach
\* the responser (streamingResponse.Write and commit).
THEOREM OutputInLines == Spec => []StreamLines
<1>1. TypeOK /\ ContentInv => StreamLines
  <2> SUFFICES ASSUME TypeOK, ContentInv, rsp.kind = "streaming", ~rq.base64, left # "forced",
                      NEW i \in DOMAIN rsp.wire, rsp.wire[i].tag = "data"
               PROVE  LET line == rsp.wire[i].body
                          from == IF i > 1 /\ rsp.wire[i - 1].tag = "data"
                                    THEN Last(rsp.wire[i - 1].body) + 1 ELSE 1
                      IN  /\ line # <<>> /\ line = [k \in 1..Len(line) |-> from + k - 1]
                          /\ \A k \in 1..(Len(line) - 1) : line[k] \notin LineEnds
                          /\ rsp.wire[i].nl <=> Last(line) \in LineEnds
                          /\ i < Len(rsp.wire) /\ rsp.wire[i + 1].tag = "data" => rsp.wire[i].nl
    BY DEF StreamLines
  <2> DEFINE w == rsp.wire
             line == w[i].body
             a == IF i > 1 /\ w[i - 1].tag = "data" THEN Last(w[i - 1].body) ELSE 0
             from == IF i > 1 /\ w[i - 1].tag = "data" THEN Last(w[i - 1].body) + 1 ELSE 1
  <2>1. InLines(w, rq.base64) /\ w \in Seq(Frame) /\ DOMAIN w = 1..Len(w)
    <3>1. w \in Seq(Frame)
      BY ChildType DEF Record
    <3>2. InLines(w, rq.base64)
      BY DEF ContentInv, ShapedInv, Tidy
    <3> QED BY <3>1, <3>2
  <2> HIDE DEF w
  <2>2. \A j \in DOMAIN w : w[j].tag = "data" => LineAt(w, j, rq.base64) /\ w[j].body \in Seq(Nat)
    <3> SUFFICES ASSUME NEW j \in DOMAIN w, w[j].tag = "data"
                 PROVE  LineAt(w, j, rq.base64) /\ w[j].body \in Seq(Nat)
      OBVIOUS
    <3>1. w[j] \in Frame
      BY <2>1
    <3>2. w[j].body \in Seq(Nat)
      BY <3>1 DEF Frame
    <3> QED BY <2>1, <3>2 DEF InLines
  <2>3. i \in DOMAIN w /\ w[i].tag = "data"
    BY DEF w
  <2>4. a \in Nat /\ from = a + 1
    <3>1. CASE i > 1 /\ w[i - 1].tag = "data"
      <4>1. i - 1 \in DOMAIN w
        BY <2>3, <2>1, <3>1
      <4>2. w[i - 1].body \in Seq(Nat) /\ LineAt(w, i - 1, rq.base64)
        BY <2>2, <3>1, <4>1
      <4>3. w[i - 1].body # <<>>
        BY <4>2 DEF LineAt, Line, Run
      <4>4. Last(w[i - 1].body) \in Nat
        BY <4>2, <4>3, LastType
      <4> QED BY <3>1, <4>4
    <3>2. CASE ~(i > 1 /\ w[i - 1].tag = "data")
      BY <3>2
    <3> QED BY <3>1, <3>2
  <2>5. /\ Run(line, a, rq.base64) /\ (w[i].nl <=> Last(line) \in LineEnds)
        /\ i < Len(w) /\ w[i + 1].tag = "data" => w[i].nl
    BY <2>3, <2>2 DEF LineAt, Line, Outer, Inner
  <2>6. line \in Seq(Nat)
    BY <2>3, <2>2
  <2> HIDE DEF line, a, from
  <2>7. /\ line # <<>> /\ line = Bytes(a, a + Len(line))
        /\ \A k \in 1..(Len(line) - 1) : line[k] \notin LineEnds
    BY <2>5 DEF Run, Inner
  <2>8. Bytes(a, a + Len(line)) = [k \in 1..Len(line) |-> from + k - 1]
    <3>1. PICK n \in Nat : n = Len(line)
      BY <2>6
    <3>2. Bytes(a, a + n) = [k \in 1..n |-> from + k - 1]
      BY <2>4 DEF Bytes
    <3> QED BY <3>1, <3>2
  <2>9. line = [k \in 1..Len(line) |-> from + k - 1]
    BY <2>7, <2>8
  <2> QED BY <2>5, <2>7, <2>9 DEF line, from, w
<1> QED BY <1>1, ContentHolds, TypeCorrect, PTL

\* What the handler takes for a success is one: the child has ended well, and the
\* client or the responser has all of its output, in order (MethodDef.Invoke,
\* jsonRPCrequestPriv.process and Close, and the responsers' Close).
THEOREM SuccessHasAll == Spec => []SuccessIsComplete
<1>1. TypeOK /\ Control /\ ContentInv => SuccessIsComplete
  <2> SUFFICES ASSUME TypeOK, Control, ContentInv,
                      h = "returned", err = "nil", val = "reader", conn = "open", ctx # "deadline",
                      rsp.kind = "rpc" => rsp.id = "given", rsp.kind = "streaming" => rq.limit = 0
               PROVE  /\ child.st = "reaped" /\ child.status = "ok"
                      /\ Delivered = Written(Encodes(child.wrote))
    BY DEF SuccessIsComplete
  <2>1. ~Cut /\ left # "forced"
    BY DEF ContentInv, CutInv, Cut
  <2>2. inv \in {"exit", "exited"}
    <3>1. inv # "none"
      BY DEF ContentInv, PipeInv
    <3> QED BY <2>1, <3>1, Busy DEF Over
  <2>3. Succeeding
    BY <2>1, <2>2 DEF Succeeding
  <2>4. pw = "eof" /\ \E d \in Nat : SentAll(d)
    BY <2>3 DEF ContentInv, Finished
  <2>5. child.st = "reaped" /\ child.status = "ok"
    BY <2>4 DEF ContentInv, ReaderInv
  <2>6. PICK d \in Nat : SentAll(d)
    BY <2>4
  <2>7. Delivered = Bytes(0, d) /\ d = Encodes(child.wrote)
    BY <2>6, DeliveredContent DEF SentAll, Full, Fit, Encodes
  <2> QED BY <2>5, <2>7, WrittenBytes
<1> QED BY <1>1, ContentHolds, ControlHolds, TypeCorrect, PTL

LEMMA AnswerHolds == Spec => []AnswerInv
<1>1. TypeOK /\ ContentInv => Fits
  <2> SUFFICES ASSUME TypeOK, ContentInv, Plain, h = "closeend", ~rsp.resultSet
               PROVE  Envelope + Len(Text(rsp.buf)) <= MaxInt64
    BY DEF Fits
  <2>1. Len(Text(rsp.buf)) <= Most
    BY DEF ContentInv, ShapedInv, Shaped, Plain
  <2>2. Len(Text(rsp.buf)) \in Nat
    <3>1. Text(rsp.buf) \in Seq(Nat)
      BY TextType, ChildType DEF Record
    <3> QED BY <3>1
  <2> QED BY <2>1, <2>2, OutputLength
<1>2. TypeOK /\ Control /\ ContentInv /\ AnswerInv /\ [Next]_vars => AnswerInv'
  BY <1>1, AnswerNext
<1> QED
  BY <1>2, AnswerInit, ContentHolds, ControlHolds, TypeCorrect, PTL DEF Spec

\* A client that stays gets exactly one plain answer, under the request's id, an error
\* exactly when the handler returns one, and nothing for a notification
\* (rpcResponse.SetResponseResult, SetResponseError and Close, jsonRPCrequestPriv.Close).
THEOREM OneAnswer == Spec => []OneRpcAnswer
<1>1. TypeOK /\ AnswerInv => OneRpcAnswer
  <2> SUFFICES ASSUME TypeOK, AnswerInv, h = "returned", rsp.kind = "rpc", conn = "open", left # "forced"
               PROVE  IF rsp.id = "absent" THEN rsp.wire = <<>>
                      ELSE /\ Len(rsp.wire) = 1
                           /\ rsp.wire[1].id = (IF rq.fault = "transport" THEN "null" ELSE "given")
                           /\ rsp.wire[1].tag = "error" <=> err # "nil"
                           /\ rsp.wire[1].tag # "raw"
    BY DEF OneRpcAnswer
  <2>1. Identified /\ Settled
    BY DEF AnswerInv, Plain
  <2>2. rq.id \in {"given", "absent"}
    BY DEF TypeOK, Setup
  <2> QED BY <2>1, <2>2 DEF Identified, Settled, Answers
<1> QED
  BY <1>1, AnswerHolds, TypeCorrect, PTL

=============================================================================
