----------------------------- MODULE LimitProofs -----------------------------
(***************************************************************************)
(* Proofs about Request: the limit of a method holds for all that is sent. *)
(* What a responser has sent is weighed with a bill over its frames; while *)
(* the limit is in force, the bill and the room that is left add up to no  *)
(* more than the limit, and once it has been lifted, only what the limit   *)
(* does not count follows.                                                 *)
(***************************************************************************)
EXTENDS ContentProofs, FiniteSetTheorems

-----------------------------------------------------------------------------
(* The bill for some frames.                                               *)

Picked(frames, K) == [n \in DOMAIN frames |-> IF n \in K THEN Content(frames[n]) ELSE <<>>]

Bill(frames, K) == Envelope * Cardinality(K) + Len(FlattenSeq(Picked(frames, K)))

Price(frames) == Bill(frames, DOMAIN frames)

LEMMA PickedType ==
  ASSUME NEW frames \in Seq(Frame), NEW K
  PROVE  /\ Picked(frames, K) \in Seq(Seq(Nat)) /\ Len(Picked(frames, K)) = Len(frames)
         /\ \A n \in 1..Len(frames) : Picked(frames, K)[n] = IF n \in K THEN Content(frames[n]) ELSE <<>>
<1> DEFINE s == Picked(frames, K)
           m == Len(frames)
<1>1. m \in Nat /\ DOMAIN frames = 1..m /\ \A n \in 1..m : frames[n] \in Frame
  BY LenProperties
<1> HIDE DEF m
<1>2. \A n \in 1..m : (IF n \in K THEN Content(frames[n]) ELSE <<>>) \in Seq(Nat)
  BY <1>1, ContentType
<1>3. s = [n \in 1..m |-> IF n \in K THEN Content(frames[n]) ELSE <<>>]
  BY <1>1 DEF Picked
<1> HIDE DEF s
<1>4. s \in [1..m -> Seq(Nat)]
  BY <1>2, <1>3
<1>5. s \in Seq(Seq(Nat)) /\ Len(s) = m
  BY <1>1, <1>4, FunctionIsSeq
<1> QED BY <1>3, <1>5 DEF s, m

LEMMA PickedAppend ==
  ASSUME NEW frames \in Seq(Frame), NEW f \in Frame, NEW K
  PROVE  Picked(Append(frames, f), K)
           = Append(Picked(frames, K), IF Len(frames) + 1 \in K THEN Content(f) ELSE <<>>)
<1> DEFINE n == Len(frames)
           t == Append(frames, f)
           s == Picked(frames, K)
           u == Picked(t, K)
           e == IF n + 1 \in K THEN Content(f) ELSE <<>>
<1>1. /\ t \in Seq(Frame) /\ Len(t) = n + 1 /\ n \in Nat
      /\ t[n + 1] = f /\ \A i \in 1..n : t[i] = frames[i]
  BY AppendLast, LenProperties
<1>2. e \in Seq(Nat)
  BY ContentType
<1>3. /\ s \in Seq(Seq(Nat)) /\ Len(s) = n
      /\ \A i \in 1..n : s[i] = IF i \in K THEN Content(frames[i]) ELSE <<>>
  BY PickedType
<1> HIDE DEF t
<1>4. /\ u \in Seq(Seq(Nat)) /\ Len(u) = n + 1
      /\ \A i \in 1..(n + 1) : u[i] = IF i \in K THEN Content(t[i]) ELSE <<>>
  BY <1>1, PickedType
<1> HIDE DEF n, s, u
<1>5. u[n + 1] = e /\ \A i \in 1..n : u[i] = s[i]
  <2>1. u[n + 1] = IF n + 1 \in K THEN Content(t[n + 1]) ELSE <<>>
    BY <1>1, <1>4
  <2>2. \A i \in 1..n : u[i] = (IF i \in K THEN Content(t[i]) ELSE <<>>) /\ Content(t[i]) = Content(frames[i])
    <3>1. n + 1 \in Nat /\ 1..n \subseteq 1..(n + 1)
      BY <1>1
    <3>2. \A i \in 1..n : u[i] = IF i \in K THEN Content(t[i]) ELSE <<>>
      BY <1>4, <3>1
    <3> QED BY <1>1, <3>2
  <2>3. \A i \in 1..n : u[i] = s[i]
    BY <1>3, <2>2
  <2> QED BY <1>1, <2>1, <2>3
<1> HIDE DEF e
<1>6. /\ Append(s, e) \in Seq(Seq(Nat)) /\ Len(Append(s, e)) = n + 1
      /\ Append(s, e)[n + 1] = e /\ \A i \in 1..n : Append(s, e)[i] = s[i]
  BY <1>2, <1>3, AppendLast
<1>7. \A i \in 1..(n + 1) : u[i] = Append(s, e)[i]
  BY <1>1, <1>5, <1>6
<1>8. u = Append(s, e)
  BY <1>1, <1>4, <1>6, <1>7, SeqEqual
<1> QED BY <1>8 DEF u, s, t, e, n

LEMMA PickedNone == ASSUME NEW K PROVE Picked(<<>>, K) = <<>>
BY DEF Picked

LEMMA BillType ==
  ASSUME NEW frames \in Seq(Frame), NEW K \in SUBSET (DOMAIN frames)
  PROVE  Bill(frames, K) \in Nat /\ IsFiniteSet(K) /\ IsFiniteSet(DOMAIN frames)
<1>1. DOMAIN frames = 1..Len(frames) /\ Len(frames) \in Nat
  BY LenProperties
<1>2. IsFiniteSet(DOMAIN frames)
  BY <1>1, FS_Interval
<1>3. IsFiniteSet(K) /\ Cardinality(K) \in Nat
  BY <1>2, FS_Subset, FS_CardinalityType
<1>4. Len(FlattenSeq(Picked(frames, K))) \in Nat
  BY PickedType, FlattenType, LenProperties
<1>5. Envelope * Cardinality(K) \in Nat
  BY <1>3, ResponserAssumption
<1> QED BY <1>2, <1>3, <1>4, <1>5 DEF Bill

LEMMA BillAppend ==
  ASSUME NEW frames \in Seq(Frame), NEW f \in Frame, NEW K \in SUBSET (DOMAIN Append(frames, f))
  PROVE  Bill(Append(frames, f), K)
           = Bill(frames, K \cap DOMAIN frames) + IF Len(frames) + 1 \in K THEN Cost(f) ELSE 0
<1> DEFINE n == Len(frames)
           L == K \cap DOMAIN frames
           s == Picked(frames, K)
           e == IF n + 1 \in K THEN Content(f) ELSE <<>>
<1>1. n \in Nat /\ DOMAIN frames = 1..n /\ DOMAIN Append(frames, f) = 1..(n + 1)
  BY AppendLast, LenProperties
<1>2. Picked(Append(frames, f), K) = Append(s, e)
  BY PickedAppend
<1>3. s = Picked(frames, L)
  BY DEF Picked
<1>4. s \in Seq(Seq(Nat)) /\ e \in Seq(Nat) /\ Content(f) \in Seq(Nat)
  <2>1. Content(f) \in Seq(Nat) /\ <<>> \in Seq(Nat)
    BY ContentType
  <2>2. s \in Seq(Seq(Nat))
    BY PickedType
  <2> QED BY <2>1, <2>2
<1> HIDE DEF s
<1>5. /\ FlattenSeq(Append(s, e)) = FlattenSeq(s) \o e
      /\ FlattenSeq(s) \in Seq(Nat) /\ e \in Seq(Nat)
  BY <1>4, FlattenAppend, FlattenType
<1>6. Len(FlattenSeq(Append(s, e))) = Len(FlattenSeq(s)) + Len(e) /\ Len(FlattenSeq(s)) \in Nat
  BY <1>5, ConcatProperties, LenProperties
<1>7. IsFiniteSet(L) /\ Cardinality(L) \in Nat
  BY BillType, FS_CardinalityType
<1>8. n + 1 \notin L
  BY <1>1
<1>9. K = IF n + 1 \in K THEN L \cup {n + 1} ELSE L
  BY <1>1
<1>10. Envelope \in Nat /\ Len(Content(f)) \in Nat
  BY <1>4, LenProperties, ResponserAssumption
<1> HIDE DEF L
<1>11. CASE n + 1 \in K
  <2>1. Cardinality(K) = Cardinality(L) + 1
    BY <1>7, <1>8, <1>9, <1>11, FS_AddElement
  <2>2. Envelope * (Cardinality(L) + 1) = Envelope * Cardinality(L) + Envelope
    BY <1>7, <1>10
  <2>3. Len(e) = Len(Content(f))
    BY <1>11
  <2> DEFINE c == Envelope * Cardinality(L)
             y == Len(FlattenSeq(s))
             z == Len(Content(f))
  <2>4. Bill(Append(frames, f), K) = (c + Envelope) + (y + z)
    BY <1>2, <1>6, <2>1, <2>2, <2>3 DEF Bill
  <2>5. Bill(frames, L) = c + y /\ Cost(f) = Envelope + z
    BY <1>3 DEF Bill, Cost
  <2>6. c \in Nat /\ y \in Nat /\ z \in Nat
    BY <1>6, <1>7, <1>10
  <2> HIDE DEF c, y, z
  <2>7. (c + Envelope) + (y + z) = (c + y) + (Envelope + z)
    BY <1>10, <2>6
  <2> QED BY <1>11, <2>4, <2>5, <2>7 DEF L
<1>12. CASE n + 1 \notin K
  <2>1. K = L /\ Len(e) = 0
    BY <1>9, <1>12
  <2>2. Bill(Append(frames, f), K) = Envelope * Cardinality(L) + (Len(FlattenSeq(s)) + 0)
    BY <1>2, <1>6, <2>1 DEF Bill
  <2>3. Bill(frames, L) = Envelope * Cardinality(L) + Len(FlattenSeq(s))
    BY <1>3 DEF Bill
  <2>4. Envelope * Cardinality(L) \in Nat
    BY <1>7, <1>10
  <2> QED BY <1>6, <1>12, <2>2, <2>3, <2>4 DEF L
<1> QED BY <1>11, <1>12

LEMMA PriceEmpty == Price(<<>>) = 0
<1>1. DOMAIN <<>> = {} /\ Len(<<>>) = 0
  OBVIOUS
<1>2. Envelope * 0 = 0
  BY ResponserAssumption
<1> QED BY <1>1, <1>2, PickedNone, FlattenEmpty, FS_EmptySet DEF Price, Bill

LEMMA PriceAppend ==
  ASSUME NEW frames \in Seq(Frame), NEW f \in Frame
  PROVE  Price(Append(frames, f)) = Price(frames) + Cost(f)
<1>1. /\ DOMAIN frames = 1..Len(frames) /\ DOMAIN Append(frames, f) = 1..(Len(frames) + 1)
      /\ Len(frames) \in Nat
  BY AppendLast, LenProperties
<1>2. (DOMAIN Append(frames, f)) \cap DOMAIN frames = DOMAIN frames /\ Len(frames) + 1 \in DOMAIN Append(frames, f)
  BY <1>1
<1> QED BY <1>2, BillAppend DEF Price

\* Some frames cost no more than all.
LEMMA BillLess ==
  ASSUME NEW frames \in Seq(Frame), NEW K \in SUBSET (DOMAIN frames)
  PROVE  Bill(frames, K) <= Price(frames)
<1> DEFINE Cheaper(w) == \A L \in SUBSET (DOMAIN w) : Bill(w, L) <= Price(w)
           T == {w \in Seq(Frame) : Cheaper(w)}
<1>1. <<>> \in T
  <2>1. <<>> \in Seq(Frame) /\ DOMAIN <<>> = {} /\ Price(<<>>) \in Nat
    BY PriceEmpty
  <2>2. \A L \in SUBSET (DOMAIN <<>>) : Bill(<<>>, L) = Price(<<>>)
    BY <2>1 DEF Price
  <2> QED BY <2>1, <2>2
<1>2. ASSUME NEW w \in Seq(Frame), w \in T, NEW f \in Frame PROVE Append(w, f) \in T
  <2> DEFINE t == Append(w, f)
  <2>1. t \in Seq(Frame)
    BY AppendLast
  <2>2. ASSUME NEW L \in SUBSET (DOMAIN t) PROVE Bill(t, L) <= Price(t)
    <3> DEFINE M == L \cap DOMAIN w
               x == Bill(w, M)
    <3>1. Bill(t, L) = x + IF Len(w) + 1 \in L THEN Cost(f) ELSE 0
      BY BillAppend
    <3>2. Price(t) = Price(w) + Cost(f)
      BY PriceAppend
    <3>3. x <= Price(w) /\ x \in Nat /\ Price(w) \in Nat
      BY <1>2, BillType DEF Price
    <3>4. Cost(f) \in Nat
      BY CostType
    <3> HIDE DEF x, t
    <3> QED BY <3>1, <3>2, <3>3, <3>4
  <2> HIDE DEF t
  <2>3. t \in T
    BY <2>1, <2>2
  <2> QED BY <2>3 DEF t
<1>3. Seq(Frame) \subseteq T
  <2> HIDE DEF T
  <2> QED BY <1>1, <1>2, SequenceInduction
<1> QED BY <1>3

-----------------------------------------------------------------------------
(* A stream under a limit: what it has cost and what is left are within it. *)

Within(r, n) == Price(r.wire) + r.room <= n

LEMMA PriceType == ASSUME NEW frames \in Seq(Frame) PROVE Price(frames) \in Nat
BY BillType DEF Price

LEMMA Affordable ==
  ASSUME NEW r \in Record, NEW n \in Nat, Within(r, n) PROVE Price(r.wire) <= n
<1>1. Price(r.wire) \in Nat /\ r.room \in Nat
  BY PriceType DEF Record
<1> DEFINE x == Price(r.wire)
<1> HIDE DEF x
<1> QED BY <1>1 DEF Within, x

LEMMA EmitsWithin ==
  ASSUME NEW r \in Record, NEW o, NEW f \in Frame, NEW up, NEW n \in Nat, Within(r, n), Emits(r, o, f, up)
  PROVE  Within(o.r, n)
<1> DEFINE x == Price(r.wire)
           c == Cost(f)
<1>1. x \in Nat /\ r.room \in Nat /\ r.wire \in Seq(Frame) /\ c \in Nat
  BY PriceType, CostType DEF Record
<1>2. CASE o.err = "nil"
  <2>1. o.r.wire = Append(r.wire, f) /\ o.r.room = r.room - c
    BY <1>2 DEF Emits
  <2>2. Price(o.r.wire) = x + c
    BY <1>1, <2>1, PriceAppend
  <2>3. x + r.room <= n
    BY DEF Within
  <2> HIDE DEF x, c
  <2>4. (x + c) + (r.room - c) <= n
    BY <1>1, <2>3
  <2> QED BY <2>1, <2>2, <2>4 DEF Within
<1>3. CASE o.err # "nil"
  BY <1>3 DEF Emits, Within
<1> QED BY <1>2, <1>3

LEMMA CommitWithin ==
  ASSUME NEW r \in Record, r.kind = "streaming", NEW up \in BOOLEAN, NEW n \in Nat, Within(r, n)
  PROVE  Within(Commit(r, up).r, n)
<1> DEFINE c == Commit(r, up)
           f == DataFrame(r.id, Text(r.buf))
<1>1. /\ r.buf = <<>> => c = Success(r)
      /\ r.buf # <<>> => Emits(r, c, f, up)
      /\ f \in Frame
  BY CommitEmits
<1> HIDE DEF c, f
<1>2. Success(r).r = r
  BY DEF Success
<1> QED BY <1>1, <1>2, EmitsWithin DEF c

\* Setting a result first sends the line that is held back.
LEMMA ResultSteps ==
  ASSUME NEW r \in Record, r.kind = "streaming", NEW v \in {OK, Null, Done}, NEW up \in BOOLEAN, ~r.closed
  PROVE  LET c == Commit(r, up)
             s == SetResult(r, v, up)
             f == ResultFrame(r.id, v)
         IN  /\ c.r \in Record /\ c.r.kind = "streaming" /\ c.r.closed = r.closed /\ c.r.first = r.first
             /\ c.r.buf = <<>>
             /\ c.err # "nil" => s = c
             /\ c.err = "nil" => Emits(c.r, s, f, up) /\ s.r.buf = <<>> /\ f \in Frame
<1> DEFINE c == Commit(r, up)
           s == SetResult(r, v, up)
           f == ResultFrame(r.id, v)
           g == DataFrame(r.id, Text(r.buf))
<1>1. /\ c.r \in Record /\ c.r.kind = "streaming" /\ c.r.buf = <<>>
      /\ r.buf = <<>> => c = Success(r)
      /\ r.buf # <<>> => Emits(r, c, g, up)
  BY CommitEmits
<1>2. c.r.closed = r.closed /\ c.r.first = r.first
  <2> HIDE DEF c, g
  <2> QED BY <1>1 DEF Emits, Success
<1>3. s = IF c.err # "nil" THEN c ELSE Encode(c.r, f, up)
  BY DEF SetResult, SetResultStreaming
<1>4. c.err = "nil" => Emits(c.r, s, f, up) /\ s.r.buf = <<>> /\ f \in Frame
  <2> SUFFICES ASSUME c.err = "nil" PROVE Emits(c.r, s, f, up) /\ s.r.buf = <<>> /\ f \in Frame
    OBVIOUS
  <2>1. c.r.id = r.id
    BY DEF Commit, Encode, LimitedWrite, Success, Failure, Record
  <2>2. s = Encode(c.r, ResultFrame(c.r.id, v), up)
    BY <1>3, <2>1
  <2> HIDE DEF c
  <2>3. Commit(c.r, up) = Success(c.r)
    BY <1>1 DEF Commit
  <2>4. SetResult(c.r, v, up) = Encode(c.r, ResultFrame(c.r.id, v), up)
    BY <1>1, <1>2, <2>3 DEF SetResult, SetResultStreaming, Success
  <2>5. LET t == SetResult(c.r, v, up)
            y == ResultFrame(c.r.id, v)
        IN  t.r.buf = <<>> /\ Emits(c.r, t, y, up) /\ y \in Frame
    BY <1>1, <1>2, ResultEmits
  <2> HIDE DEF s
  <2> QED BY <2>1, <2>2, <2>4, <2>5
<1> QED BY <1>1, <1>2, <1>3, <1>4

LEMMA ResultWithin ==
  ASSUME NEW r \in Record, r.kind = "streaming", NEW v \in {OK, Null, Done}, NEW up \in BOOLEAN, ~r.closed,
         NEW n \in Nat, Within(r, n)
  PROVE  Within(SetResult(r, v, up).r, n)
<1> DEFINE c == Commit(r, up)
           s == SetResult(r, v, up)
           f == ResultFrame(r.id, v)
<1>1. /\ c.r \in Record
      /\ c.err # "nil" => s = c
      /\ c.err = "nil" => Emits(c.r, s, f, up) /\ f \in Frame
  BY ResultSteps
<1>2. Within(c.r, n)
  BY CommitWithin
<1> HIDE DEF c, s, f
<1>3. Within(s.r, n)
  BY <1>1, <1>2, EmitsWithin
<1> QED BY <1>3 DEF s

LEMMA PutLineWithin ==
  ASSUME NEW r \in Record, r.kind = "streaming", NEW p \in Piece, NEW up \in BOOLEAN, Raw(r.buf),
         NEW n \in Nat, Within(r, n)
  PROVE  LET w == PutLine(r, p, up) IN Within(w.r, n) /\ w.r \in Record /\ w.r.kind = "streaming" /\ w.r.closed = r.closed
<1> DEFINE w == PutLine(r, p, up)
           f == LineFrame(r.id, Text(r.buf) \o p.body)
<1>1. /\ f \in Frame
      /\ p.nl => Emits(r, w, f, up)
      /\ ~p.nl => /\ w.r \in Record /\ w.r.kind = "streaming"
                  /\ w.r.wire = r.wire /\ w.r.room = r.room /\ w.r.closed = r.closed
  BY PutLineEmits
<1>2. p.nl \in BOOLEAN
  BY DEF Piece
<1> HIDE DEF w, f
<1>3. Within(w.r, n) /\ w.r \in Record /\ w.r.kind = "streaming" /\ w.r.closed = r.closed
  <2>1. CASE p.nl
    BY <1>1, <2>1, EmitsWithin DEF Emits
  <2>2. CASE ~p.nl
    BY <1>1, <2>2 DEF Within
  <2> QED BY <2>1, <2>2
<1> QED BY <1>3 DEF w

LEMMA PutWithin ==
  ASSUME NEW r \in Record, r.kind = "streaming", NEW p \in Piece, NEW up \in BOOLEAN, Raw(r.buf), ~r.closed,
         NEW n \in Nat, Within(r, n)
  PROVE  LET w == Put(r, p, up) IN Within(w.r, n) /\ ~w.r.closed /\ w.r \in Record /\ w.r.kind = "streaming"
<1> DEFINE w == Put(r, p, up)
           hd == SetResult(r, OK, up)
           on == [hd.r EXCEPT !.first = FALSE]
           off == [hd EXCEPT !.r.first = FALSE]
           c == Commit(r, up)
           f == ResultFrame(r.id, OK)
<1>1. w = IF ~r.first THEN PutLine(r, p, up) ELSE IF hd.err # "nil" THEN off ELSE PutLine(on, p, up)
  BY DEF Put
<1>2. CASE ~r.first
  <2>1. w = PutLine(r, p, up)
    BY <1>1, <1>2
  <2> HIDE DEF w
  <2>2. Within(w.r, n) /\ w.r \in Record /\ w.r.kind = "streaming" /\ w.r.closed = r.closed
    BY <2>1, PutLineWithin
  <2> QED BY <2>2 DEF w
<1>3. CASE r.first
  <2>1. hd \in Outcome /\ hd.r \in Record /\ hd.r.kind = "streaming"
    <3>1. OK \in Value
      BY ValueTypes
    <3>2. hd \in Outcome /\ HeldBack(r, hd.r)
      BY <3>1, SetResultType, SetResultHoldsBack
    <3> HIDE DEF hd
    <3> QED BY <3>2 DEF Outcome, HeldBack
  <2>2. ~hd.r.closed /\ hd.r.buf = <<>>
    <3>1. /\ c.r.closed = r.closed /\ c.r.buf = <<>>
          /\ c.err # "nil" => hd = c
          /\ c.err = "nil" => Emits(c.r, hd, f, up) /\ hd.r.buf = <<>>
      BY ResultSteps
    <3> HIDE DEF c, hd, f
    <3> QED BY <3>1 DEF Emits
  <2>3. Within(hd.r, n)
    BY ResultWithin
  <2> HIDE DEF hd
  <2>4. /\ on \in Record /\ on.kind = "streaming" /\ on.buf = <<>> /\ ~on.closed
        /\ on.wire = hd.r.wire /\ on.room = hd.r.room
    BY <2>1, <2>2 DEF Record
  <2>5. off.r = on
    BY <2>1 DEF Outcome
  <2>6. Within(on, n) /\ Raw(on.buf)
    BY <2>3, <2>4, NothingKept DEF Within
  <2> HIDE DEF on, off
  <2>7. LET z == PutLine(on, p, up) IN
         Within(z.r, n) /\ z.r \in Record /\ z.r.kind = "streaming" /\ z.r.closed = on.closed
    BY <2>4, <2>6, PutLineWithin
  <2>8. w.r = on \/ w = PutLine(on, p, up)
    BY <1>1, <1>3, <2>5
  <2> HIDE DEF w
  <2>9. Within(w.r, n) /\ w.r \in Record /\ w.r.kind = "streaming" /\ ~w.r.closed
    BY <2>4, <2>6, <2>7, <2>8
  <2> QED BY <2>9 DEF w
<1> QED BY <1>2, <1>3

\* Closing a stream may leave its footer out, not its limit.
LEMMA CloseWithin ==
  ASSUME NEW r \in Record, r.kind = "streaming", NEW up \in BOOLEAN, ~r.closed, NEW n \in Nat, Within(r, n)
  PROVE  Price(Close(r, up).r.wire) <= n
<1> DEFINE c == Commit(r, up)
           s == SetResult(c.r, Done, up)
           z == Close(r, up)
           g == ResultFrame(c.r.id, Done)
<1>1. /\ c.err # "nil" => z.r = c.r
      /\ c.err = "nil" => z.r.wire = s.r.wire
      /\ c.r \in Record /\ Emits(c.r, s, g, up) /\ g \in Frame
  BY CloseSteps
<1>2. Within(c.r, n)
  BY CommitWithin
<1> HIDE DEF c, s, z, g
<1>3. Within(s.r, n) /\ s.r \in Record
  BY <1>1, <1>2, EmitsWithin DEF Emits
<1>4. Price(c.r.wire) <= n /\ Price(s.r.wire) <= n
  BY <1>1, <1>2, <1>3, Affordable
<1>5. Price(z.r.wire) <= n
  BY <1>1, <1>4
<1> QED BY <1>5 DEF z

\* An encoder that has failed sends nothing more.
LEMMA CloseStuck ==
  ASSUME NEW r \in Record, r.kind = "streaming", NEW up \in BOOLEAN, ~r.closed, r.encErr # "nil"
  PROVE  Close(r, up).r.wire = r.wire
<1> DEFINE c == Commit(r, up)
           s == SetResult(c.r, Done, up)
           z == Close(r, up)
           f == DataFrame(r.id, Text(r.buf))
           g == ResultFrame(c.r.id, Done)
<1>1. /\ c.err # "nil" => z.r = c.r
      /\ c.err = "nil" => z.r.wire = s.r.wire
      /\ Emits(c.r, s, g, up)
  BY CloseSteps
<1>2. /\ r.buf = <<>> => c = Success(r)
      /\ r.buf # <<>> => Emits(r, c, f, up)
  BY CommitEmits
<1> HIDE DEF c, s, z, f, g
<1>3. CASE r.buf = <<>>
  <2>1. c.r = r /\ c.err = "nil"
    BY <1>2, <1>3 DEF Success
  <2>2. s.r.wire = r.wire
    BY <1>1, <2>1 DEF Emits
  <2> QED BY <1>1, <2>1, <2>2 DEF z
<1>4. CASE r.buf # <<>>
  <2>1. c.err # "nil" /\ c.r.wire = r.wire
    BY <1>2, <1>4 DEF Emits
  <2> QED BY <1>1, <2>1 DEF z
<1> QED BY <1>3, <1>4

-----------------------------------------------------------------------------
(* What the limit does not count: an error, and the line that it cuts off.  *)

Charged(frames) ==
  {n \in DOMAIN frames :
     /\ frames[n].tag # "error"
     /\ ~(/\ n + 1 \in DOMAIN frames /\ frames[n + 1].tag = "error"
          /\ frames[n].tag = "data" /\ ~frames[n].nl)}

Due(r) == IF r.closed THEN Bill(r.wire, Charged(r.wire)) ELSE Price(r.wire)

LEMMA DueLess ==
  ASSUME NEW r, r.wire \in Seq(Frame) PROVE Due(r) <= Price(r.wire)
<1>1. Charged(r.wire) \in SUBSET (DOMAIN r.wire)
  BY DEF Charged
<1>2. Bill(r.wire, Charged(r.wire)) <= Price(r.wire)
  BY <1>1, BillLess
<1>3. Price(r.wire) <= Price(r.wire)
  BY PriceType
<1> QED BY <1>2, <1>3 DEF Due

\* The error comes free of charge.
LEMMA ErrorFree ==
  ASSUME NEW frames \in Seq(Frame), NEW f \in Frame, f.tag = "error"
  PROVE  LET s == Append(frames, f) IN Bill(s, Charged(s)) <= Price(frames)
<1> DEFINE s == Append(frames, f)
           K == Charged(s)
           L == K \cap DOMAIN frames
<1>1. s[Len(frames) + 1] = f
  BY AppendLast
<1>2. K \in SUBSET (DOMAIN s) /\ Len(frames) + 1 \notin K
  BY <1>1 DEF Charged
<1> HIDE DEF K
<1>3. Bill(s, K) = Bill(frames, L) + 0
  BY <1>2, BillAppend
<1>4. Bill(frames, L) \in Nat /\ Bill(frames, L) <= Price(frames)
  BY BillType, BillLess
<1> QED BY <1>3, <1>4 DEF K

\* ... and so does the line before it.
LEMMA CutOffFree ==
  ASSUME NEW frames \in Seq(Frame), NEW d \in Frame, NEW f \in Frame,
         d.tag = "data", ~d.nl, f.tag = "error"
  PROVE  LET s == Append(Append(frames, d), f) IN Bill(s, Charged(s)) <= Price(frames)
<1> DEFINE m == Len(frames)
           t == Append(frames, d)
           s == Append(t, f)
           K == Charged(s)
           L == K \cap DOMAIN t
           M == L \cap DOMAIN frames
<1>1. m \in Nat /\ t \in Seq(Frame) /\ Len(t) = m + 1 /\ t[m + 1] = d
  BY AppendLast, LenProperties
<1>2. /\ DOMAIN s = 1..(m + 1 + 1) /\ s[m + 1 + 1] = f /\ s[m + 1] = d
  <2> HIDE DEF t, m
  <2>1. /\ DOMAIN s = 1..(Len(t) + 1) /\ s[Len(t) + 1] = f /\ \A i \in 1..Len(t) : s[i] = t[i]
    BY <1>1, AppendLast
  <2>2. m + 1 \in 1..Len(t)
    BY <1>1
  <2> QED BY <1>1, <2>1, <2>2
<1> HIDE DEF m, t, s
<1>3. m + 1 + 1 \in DOMAIN s
  BY <1>1, <1>2
<1>4. K \in SUBSET (DOMAIN s) /\ m + 1 + 1 \notin K /\ m + 1 \notin K
  BY <1>2, <1>3 DEF Charged
<1> HIDE DEF K
<1>5. Bill(s, K) = Bill(t, L) + 0
  BY <1>1, <1>4, BillAppend DEF s
<1>6. L \in SUBSET (DOMAIN t) /\ m + 1 \notin L
  BY <1>4
<1> HIDE DEF L
<1>7. Bill(t, L) = Bill(frames, M) + 0
  BY <1>6, BillAppend DEF t, m
<1>8. Bill(frames, M) \in Nat /\ Bill(frames, M) <= Price(frames)
  BY BillType, BillLess
<1> QED BY <1>5, <1>7, <1>8 DEF K, s, t

\* A stream that is told an error ends with it, or it has already failed.
LEMMA ErrorSteps ==
  ASSUME NEW r \in Record, r.kind = "streaming", ~r.closed, NEW e \in Errors, NEW up \in BOOLEAN
  PROVE  LET s == SetError(r, e, up).r IN
         IF s.closed THEN Due(s) <= Price(r.wire)
         ELSE s.wire = r.wire /\ s.room = r.room /\ s.encErr # "nil"
<1> DEFINE c == Commit(r, up)
           q == [MaxResponse(c.r, 0) EXCEPT !.closed = TRUE]
           f == ErrorFrame(r.id, e)
           d == DataFrame(r.id, Text(r.buf))
           x == Encode(q, f, up)
           s == SetError(r, e, up).r
<1>1. s = IF c.err # "nil" THEN c.r ELSE x.r
  BY DEF SetError, SetErrorStreaming
<1>2. /\ c.r \in Record /\ c.r.kind = "streaming" /\ c.r.buf = <<>>
      /\ r.buf = <<>> => c = Success(r)
      /\ r.buf # <<>> => Emits(r, c, d, up)
      /\ d \in Frame /\ d.tag = "data" /\ ~d.nl
  BY CommitEmits
<1>3. f \in Frame /\ f.tag = "error" /\ Cost(f) = Envelope
  <2>1. f \in Frame /\ f.tag = "error" /\ Content(f) = <<>>
    BY FrameTypes DEF ErrorFrame, Record, Content
  <2>2. Len(<<>>) = 0 /\ Envelope + 0 = Envelope
    BY ResponserAssumption
  <2> HIDE DEF f
  <2> QED BY <2>1, <2>2 DEF Cost
<1> HIDE DEF c, d, f
<1>4. CASE c.err # "nil"
  <2>1. r.buf # <<>> /\ Emits(r, c, d, up)
    BY <1>2, <1>4 DEF Success
  <2>2. c.r.closed = r.closed /\ c.r.wire = r.wire /\ c.r.room = r.room /\ c.r.encErr # "nil"
    BY <1>4, <2>1 DEF Emits
  <2>3. s = c.r
    BY <1>1, <1>4
  <2> HIDE DEF s
  <2> QED BY <2>2, <2>3 DEF s
<1>5. CASE c.err = "nil"
  <2>1. q \in Record /\ q.kind = "streaming" /\ q.closed /\ q.wire = c.r.wire /\ q.room = MaxInt64 /\ q.encErr = "nil"
    <3>1. MaxResponse(c.r, 0) \in Record
      BY <1>2, MaxResponseType
    <3>2. LET m == MaxResponse(c.r, 0) IN
          m.kind = c.r.kind /\ m.wire = c.r.wire /\ m.room = MaxInt64 /\ m.encErr = "nil"
      BY <1>2 DEF MaxResponse, SetLimit, Record
    <3> DEFINE m == MaxResponse(c.r, 0)
    <3> HIDE DEF m
    <3> QED BY <1>2, <3>1, <3>2 DEF Record, m
  <2> HIDE DEF q
  <2>2. Emits(q, x, f, up)
    BY <1>3, <2>1, EncodeEmits
  <2>3. Cost(f) <= q.room
    BY <1>3, <2>1, ResponserAssumption
  <2> HIDE DEF x
  <2>4. x.r.closed /\ (up => x.r.wire = Append(q.wire, f)) /\ (~up => x.r.wire = q.wire)
    BY <2>1, <2>2, <2>3 DEF Emits
  <2>5. s = x.r
    BY <1>1, <1>5
  <2> HIDE DEF s
  <2>6. r.wire \in Seq(Frame) /\ x.r \in Record
    BY <2>2 DEF Emits, Record
  <2>7. Due(x.r) = Bill(x.r.wire, Charged(x.r.wire))
    BY <2>4 DEF Due
  <2>8. CASE r.buf = <<>>
    <3>1. q.wire = r.wire
      BY <1>2, <2>1, <2>8 DEF Success
    <3>2. CASE up
      BY <1>3, <2>4, <2>5, <2>6, <2>7, <3>1, <3>2, ErrorFree DEF s
    <3>3. CASE ~up
      <4>1. x.r.wire = r.wire
        BY <2>4, <3>1, <3>3
      <4>2. Due(x.r) <= Price(r.wire)
        BY <2>6, <4>1, DueLess
      <4> QED BY <2>4, <2>5, <4>2 DEF s
    <3> QED BY <3>2, <3>3
  <2>9. CASE r.buf # <<>>
    <3>1. up /\ c.r.wire = Append(r.wire, d)
      BY <1>2, <1>5, <2>9 DEF Emits
    <3>2. x.r.wire = Append(Append(r.wire, d), f)
      BY <2>1, <2>4, <3>1
    <3>3. Due(x.r) <= Price(r.wire)
      BY <1>2, <1>3, <2>6, <2>7, <3>2, CutOffFree
    <3> QED BY <2>4, <2>5, <3>3 DEF s
  <2> QED BY <2>8, <2>9
<1> QED BY <1>4, <1>5

-----------------------------------------------------------------------------
(* An answer that is no stream: the limiter counts the output itself.       *)

Metered(frames, room, n, on) ==
  /\ Raw(frames) /\ Len(Text(frames)) <= n
  /\ on => Len(Text(frames)) + room <= n

\* At most one frame, which holds no more output than the limit allows.
Small(frames, n) ==
  /\ Len(frames) <= 1
  /\ \A i \in DOMAIN frames : \/ frames[i].tag = "error"
                              \/ \A k \in DOMAIN frames[i].body : frames[i].body[k] = 0
                              \/ Len(frames[i].body) <= n

\* A frame is sent with no more than its body.
LEMMA ContentOfBody ==
  ASSUME NEW f \in Frame
  PROVE  /\ Len(Content(f)) <= Len(f.body) /\ DOMAIN Content(f) \subseteq DOMAIN f.body
         /\ \A k \in DOMAIN Content(f) : Content(f)[k] = f.body[k]
<1>1. f.body \in Seq(Nat) /\ f.nl \in BOOLEAN
  BY DEF Frame
<1> DEFINE c == SubSeq(f.body, 1, Len(f.body) - 1)
<1>2. /\ c \in Seq(Nat) /\ Len(c) <= Len(f.body)
      /\ \A k \in 1..Len(c) : c[k] = f.body[k]
  <2>1. \A i \in 1..(Len(f.body) - 1) : f.body[i] \in Nat
    BY <1>1
  <2> QED BY <1>1, <2>1, SubSeqProperties
<1>3. DOMAIN c = 1..Len(c) /\ DOMAIN f.body = 1..Len(f.body) /\ Len(f.body) \in Nat /\ Len(c) \in Nat
  BY <1>1, <1>2, LenProperties
<1> HIDE DEF c
<1>4. DOMAIN c \subseteq DOMAIN f.body
  BY <1>2, <1>3
<1>5. Content(f) = c \/ Content(f) = f.body
  BY DEF Content, c
<1> QED BY <1>2, <1>3, <1>4, <1>5

LEMMA SmallEmpty == ASSUME NEW n PROVE Small(<<>>, n)
<1>1. DOMAIN <<>> = {} /\ Len(<<>>) = 0
  OBVIOUS
<1> QED BY <1>1 DEF Small

LEMMA SmallOne ==
  ASSUME NEW f \in Frame, NEW n,
         \/ f.tag = "error"
         \/ \A k \in DOMAIN f.body : f.body[k] = 0
         \/ Len(f.body) <= n
  PROVE  Small(<<f>>, n)
<1>1. DOMAIN <<f>> = {1} /\ Len(<<f>>) = 1 /\ <<f>>[1] = f
  OBVIOUS
<1> QED BY <1>1 DEF Small

LEMMA MeteredSmall ==
  ASSUME NEW frames \in Seq(Frame), NEW room, NEW n, NEW on, Metered(frames, room, n, on)
  PROVE  Small(frames, n)
<1>1. DOMAIN frames = 1..Len(frames) /\ Len(frames) \in Nat /\ Len(frames) <= 1
  BY LenProperties DEF Metered, Raw
<1>2. \A i \in DOMAIN frames : i = 1 /\ frames # <<>>
  BY <1>1
<1>3. frames # <<>> => Len(frames[1].body) <= n
  BY DEF Metered, Text
<1> QED BY <1>1, <1>2, <1>3 DEF Small

LEMMA MeteredJoin ==
  ASSUME NEW frames \in Seq(Frame), NEW bytes \in Seq(Nat), NEW room \in Nat, NEW n \in Nat,
         NEW size \in Nat, Len(bytes) <= size, size <= room, Metered(frames, room, n, TRUE)
  PROVE  Metered(Join(frames, RawFrame(bytes)), room - size, n, TRUE)
<1> DEFINE j == Join(frames, RawFrame(bytes))
           x == Len(Text(frames))
           y == Len(bytes)
<1>1. Raw(frames) /\ x + room <= n /\ x \in Nat /\ y \in Nat /\ y <= size
  BY TextType, LenProperties DEF Metered
<1>2. Raw(j) /\ Text(j) = Text(frames) \o bytes
  BY <1>1, RawJoin
<1>3. Len(Text(j)) = x + y
  BY <1>2, TextType, ConcatProperties
<1> HIDE DEF j, x, y
<1>4. x + y <= n /\ (x + y) + (room - size) <= n
  BY <1>1
<1> QED BY <1>2, <1>3, <1>4 DEF Metered, j

\* What a bill of at most one frame comes to in output.
LEMMA SmallSpends ==
  ASSUME NEW frames \in Seq(Frame), NEW n \in Nat, Small(frames, n),
         NEW K, \A i \in K : frames[i].tag # "error"
  PROVE  LET b == FlattenSeq(Picked(frames, K)) IN Cardinality({k \in DOMAIN b : b[k] > 0}) <= n
<1> DEFINE b == FlattenSeq(Picked(frames, K))
           Z == {k \in DOMAIN b : b[k] > 0}
<1>1. b \in Seq(Nat) /\ DOMAIN b = 1..Len(b) /\ Len(b) \in Nat
  BY PickedType, FlattenType, LenProperties
<1>2. b = <<>> \/ (\A k \in DOMAIN b : b[k] = 0) \/ Len(b) <= n
  <2>1. CASE frames = <<>>
    BY <2>1, PickedNone, FlattenEmpty
  <2>2. CASE frames # <<>>
    <3>1. Len(frames) = 1 /\ DOMAIN frames = {1} /\ frames[1] \in Frame
      <4>1. Len(frames) \in Nat /\ Len(frames) # 0 /\ DOMAIN frames = 1..Len(frames)
        BY <2>2, EmptySeq, LenProperties
      <4>2. Len(frames) = 1
        BY <4>1 DEF Small
      <4>3. DOMAIN frames = {1}
        BY <4>1, <4>2
      <4>4. frames[1] \in Frame
        BY <4>2
      <4> QED BY <4>2, <4>3, <4>4
    <3>2. PICK f \in Frame : f = frames[1]
      BY <3>1
    <3> DEFINE e == IF 1 \in K THEN Content(f) ELSE <<>>
               s == Picked(frames, K)
    <3>3. e \in Seq(Nat)
      BY ContentType
    <3>4. s \in Seq(Seq(Nat)) /\ Len(s) = 1 /\ s[1] = e
      BY <3>1, <3>2, PickedType
    <3> HIDE DEF s, e
    <3>5. s = Append(<<>>, e)
      <4>1. <<>> \in Seq(Seq(Nat)) /\ Len(<<>>) = 0
        OBVIOUS
      <4>2. /\ Append(<<>>, e) \in Seq(Seq(Nat)) /\ Len(Append(<<>>, e)) = 1
            /\ Append(<<>>, e)[1] = e
        BY <3>3, <4>1
      <4>3. \A i \in 1..1 : s[i] = Append(<<>>, e)[i]
        BY <3>4, <4>2
      <4> QED BY <3>4, <4>2, <4>3, SeqEqual
    <3>6. FlattenSeq(s) = <<>> \o e
      <4>1. <<>> \in Seq(Seq(Nat))
        OBVIOUS
      <4> QED BY <3>3, <3>5, <4>1, FlattenAppend, FlattenEmpty
    <3>7. b = e
      BY <3>3, <3>6 DEF s
    <3>8. 1 \in K => (\A k \in DOMAIN f.body : f.body[k] = 0) \/ Len(f.body) <= n
      BY <3>1, <3>2 DEF Small
    <3>9. 1 \in K => (\A k \in DOMAIN Content(f) : Content(f)[k] = 0) \/ Len(Content(f)) <= n
      <4>1. Len(f.body) \in Nat /\ Len(Content(f)) \in Nat
        BY ContentType DEF Frame
      <4> QED BY <3>8, <4>1, ContentOfBody
    <3> QED BY <3>7, <3>9 DEF e
  <2> QED BY <2>1, <2>2
<1>3. CASE b = <<>> \/ \A k \in DOMAIN b : b[k] = 0
  <2> HIDE DEF b
  <2>1. Z = {}
    BY <1>1, <1>3
  <2>2. Cardinality(Z) = 0
    BY <2>1, FS_EmptySet
  <2> QED BY <2>2 DEF b
<1>4. CASE Len(b) <= n
  <2>1. IsFiniteSet(1..Len(b)) /\ Cardinality(1..Len(b)) = Len(b)
    <3> HIDE DEF b
    <3>0. Len(b) \in Nat
      BY <1>1
    <3>1. PICK m \in Nat : m = Len(b)
      BY <3>0, Zenon
    <3>2. m \in Int /\ 1 \in Int
      OBVIOUS
    <3>3. /\ IsFiniteSet(1..m)
          /\ Cardinality(1..m) = IF 1 > m THEN 0 ELSE m - 1 + 1
      BY <3>2, FS_Interval
    <3>4. Cardinality(1..m) = m
      BY <3>3
    <3> QED BY <3>1, <3>3, <3>4
  <2>2. Z \in SUBSET (1..Len(b))
    BY <1>1
  <2> HIDE DEF b, Z
  <2>3. Cardinality(Z) <= Cardinality(1..Len(b)) /\ Cardinality(Z) \in Nat
    BY <2>1, <2>2, FS_Subset, FS_CardinalityType
  <2>4. Cardinality(Z) <= n
    BY <1>1, <1>4, <2>1, <2>3
  <2> QED BY <2>4 DEF Z, b
<1> QED BY <1>2, <1>3, <1>4

-----------------------------------------------------------------------------
(* What the calls leave of a limit n; `on` while the limiter still keeps it. *)

Paid(r, n, on) ==
  /\ r.kind = "streaming" => Due(r) <= n /\ (on /\ ~r.closed => Within(r, n))
  /\ r.kind = "legacy" => Metered(r.wire, r.room, n, on)
  /\ r.kind = "rpc" => /\ r.wire = <<>>
                       /\ IF r.resultSet THEN Small(r.buf, n) ELSE Metered(r.buf, r.room, n, on)

PaidUp(r, n) ==
  IF r.kind = "streaming" THEN Due(r) <= n ELSE Small(r.wire, n)

LEMMA KindCases ==
  ASSUME NEW r \in Record PROVE r.kind = "streaming" \/ r.kind = "legacy" \/ r.kind = "rpc"
BY DEF Record, Kinds

LEMMA DueWithin ==
  ASSUME NEW r, r.wire \in Seq(Frame), NEW n \in Nat, Price(r.wire) <= n
  PROVE  Due(r) <= n
<1> DEFINE x == Price(r.wire)
           y == Due(r)
           K == Charged(r.wire)
<1>1. K \in SUBSET (DOMAIN r.wire)
  BY DEF Charged
<1>2. x \in Nat /\ Bill(r.wire, K) \in Nat
  BY <1>1, PriceType, BillType
<1>3. y \in Nat /\ y <= x
  BY <1>2, DueLess DEF Due
<1> HIDE DEF x, y
<1>4. y <= n
  BY <1>2, <1>3 DEF x
<1> QED BY <1>4 DEF y

\* Lifting the limit, or ending its time, keeps what has been paid.
LEMMA PaidLoosely ==
  ASSUME NEW r, NEW n, NEW on, Paid(r, n, on) PROVE Paid(r, n, FALSE)
BY DEF Paid, Metered

LEMMA PaidLifted ==
  ASSUME NEW r \in Record, NEW n, NEW on, Paid(r, n, on), NEW m \in Nat
  PROVE  Paid(MaxResponse(r, m), n, FALSE)
<1>1. LET s == MaxResponse(r, m) IN
      /\ s.kind = r.kind /\ s.wire = r.wire /\ s.buf = r.buf /\ s.resultSet = r.resultSet
      /\ s.closed = r.closed
  BY DEF MaxResponse, Record
<1> DEFINE s == MaxResponse(r, m)
<1> HIDE DEF s
<1>2. Paid(s, n, FALSE)
  BY <1>1 DEF Paid, Metered, Due, s
<1> QED BY <1>2 DEF s

LEMMA PaidFresh ==
  ASSUME NEW r \in Record, Fresh(r), NEW n \in Nat, NEW on \in BOOLEAN, on => r.room <= n
  PROVE  Paid(r, n, on)
<1>1. r.wire = <<>> /\ r.buf = <<>> /\ ~r.closed /\ ~r.resultSet
  BY DEF Fresh
<1>2. r.room \in Nat /\ Price(<<>>) = 0
  BY PriceEmpty DEF Record
<1>3. Due(r) <= n /\ (on => Within(r, n))
  BY <1>1, <1>2 DEF Due, Within
<1>4. Metered(<<>>, r.room, n, on)
  BY <1>2, NothingKept DEF Metered
<1> QED BY <1>1, <1>3, <1>4 DEF Paid

LEMMA PaidPut ==
  ASSUME NEW r \in Record, NEW p \in Piece, NEW up \in BOOLEAN, NEW n \in Nat,
         Paid(r, n, TRUE), r.kind = "streaming" => ~r.closed /\ Raw(r.buf),
         r.kind = "rpc" => ~r.resultSet
  PROVE  Paid(Put(r, p, up).r, n, TRUE)
<1> DEFINE w == Put(r, p, up)
           s == w.r
           f == RawFrame(p.body)
<1>1. CASE r.kind = "streaming"
  <2>1. Within(s, n) /\ ~s.closed /\ s \in Record /\ s.kind = "streaming"
    BY <1>1, PutWithin DEF Paid
  <2> HIDE DEF s
  <2>2. Price(s.wire) <= n /\ s.wire \in Seq(Frame)
    BY <2>1, Affordable DEF Record
  <2>3. Due(s) <= n
    BY <2>2, DueWithin
  <2> QED BY <2>1, <2>3 DEF Paid, s
<1>2. CASE r.kind # "streaming"
  <2>1. /\ w.r \in Record /\ w.r.kind = r.kind /\ w.r.resultSet = r.resultSet
        /\ w.err # "nil" => w.r = r
        /\ w.err = "nil" =>
             /\ Len(p.body) <= r.room /\ w.r.room = r.room - Len(p.body)
             /\ w.r.buf = IF r.kind = "rpc" THEN Join(r.buf, f) ELSE r.buf
             /\ w.r.wire = IF r.kind = "rpc" THEN r.wire ELSE Join(r.wire, f)
    BY <1>2, WriteJoins
  <2> HIDE DEF w, f
  <2>2. CASE w.err # "nil"
    BY <2>1, <2>2 DEF w
  <2>3. CASE w.err = "nil"
    <3>1. Len(p.body) \in Nat /\ Len(p.body) <= Len(p.body) /\ p.body \in Seq(Nat) /\ r.room \in Nat
      BY LenProperties DEF Piece, Record
    <3>2. CASE r.kind = "rpc"
      <4>1. Metered(r.buf, r.room, n, TRUE) /\ r.buf \in Seq(Frame) /\ r.wire = <<>>
        BY <3>2 DEF Paid, Record
      <4>2. Metered(Join(r.buf, RawFrame(p.body)), r.room - Len(p.body), n, TRUE)
        BY <2>1, <2>3, <3>1, <4>1, MeteredJoin
      <4>3. Metered(w.r.buf, w.r.room, n, TRUE)
        BY <2>1, <2>3, <3>2, <4>2 DEF f
      <4> QED BY <2>1, <2>3, <3>2, <4>1, <4>3 DEF Paid, w
    <3>3. CASE r.kind = "legacy"
      <4>1. Metered(r.wire, r.room, n, TRUE) /\ r.wire \in Seq(Frame)
        BY <3>3 DEF Paid, Record
      <4>2. Metered(Join(r.wire, RawFrame(p.body)), r.room - Len(p.body), n, TRUE)
        BY <2>1, <2>3, <3>1, <4>1, MeteredJoin
      <4>3. Metered(w.r.wire, w.r.room, n, TRUE)
        BY <2>1, <2>3, <3>3, <4>2 DEF f
      <4> QED BY <2>1, <2>3, <3>3, <4>3 DEF Paid, w
    <3> QED BY <1>2, <3>2, <3>3, KindCases
  <2> QED BY <2>2, <2>3
<1> QED BY <1>1, <1>2

LEMMA PaidResult ==
  ASSUME NEW r \in Record, NEW v \in {OK, Null}, NEW up \in BOOLEAN, NEW n \in Nat,
         Paid(r, n, TRUE), r.kind = "rpc" => r.buf = <<>> /\ ~r.resultSet
  PROVE  Paid(SetResult(r, v, up).r, n, TRUE)
<1> DEFINE s == SetResult(r, v, up)
<1>0. v \in Value /\ s \in Outcome /\ s.r.kind = r.kind
  <2>1. v \in Value
    BY ValueTypes
  <2>2. s \in Outcome /\ HeldBack(r, s.r)
    BY <2>1, SetResultType, SetResultHoldsBack
  <2> HIDE DEF s
  <2> QED BY <2>1, <2>2 DEF HeldBack
<1>1. CASE r.kind = "streaming"
  <2>1. CASE r.closed
    <3>1. s.r = r
      BY <1>1, <2>1 DEF SetResult, SetResultStreaming, Success
    <3> HIDE DEF s
    <3> QED BY <3>1 DEF s
  <2>2. CASE ~r.closed
    <3>1. Within(r, n)
      BY <1>1, <2>2 DEF Paid
    <3>2. Within(s.r, n)
      <4>1. v \in {OK, Null, Done}
        OBVIOUS
      <4> QED BY <1>1, <2>2, <3>1, <4>1, ResultWithin
    <3> HIDE DEF s
    <3>3. s.r \in Record
      BY <1>0 DEF Outcome
    <3>4. Price(s.r.wire) <= n /\ s.r.wire \in Seq(Frame)
      BY <3>2, <3>3, Affordable DEF Record
    <3>5. Due(s.r) <= n
      BY <3>4, DueWithin
    <3> QED BY <1>0, <1>1, <3>2, <3>5 DEF Paid, s
  <2> QED BY <2>1, <2>2
<1>2. CASE r.kind = "legacy"
  <2>1. CASE v.tag = "null"
    <3>1. s.r = r
      BY <1>2, <2>1 DEF SetResult, SetResultLegacy, Success
    <3> HIDE DEF s
    <3> QED BY <3>1 DEF s
  <2>2. CASE v.tag # "null"
    <3> DEFINE p == [body |-> v.body, nl |-> FALSE]
    <3>1. p \in Piece
      BY <1>0 DEF Piece, Value
    <3>2. p.body = v.body
      OBVIOUS
    <3>3. s = LimitedWrite(r, RawFrame(v.body), Len(v.body), up)
      BY <1>2, <2>2 DEF SetResult, SetResultLegacy
    <3>4. Put(r, p, up) = LimitedWrite(r, RawFrame(p.body), Len(p.body), up)
      BY <1>2 DEF Put
    <3>5. Put(r, p, up) = s
      BY <3>2, <3>3, <3>4
    <3> HIDE DEF p, s
    <3>6. Paid(Put(r, p, up).r, n, TRUE)
      BY <1>2, <3>1, PaidPut
    <3> QED BY <3>5, <3>6 DEF s
  <2> QED BY <2>1, <2>2
<1>3. CASE r.kind = "rpc"
  <2> DEFINE f == ResultFrame(r.id, v)
  <2>1. /\ s.r \in Record /\ Kept(r, s.r) /\ (s.r.resultSet <=> r.id # "absent")
        /\ r.id = "absent" => s = Success(r) /\ s.err = "nil" /\ s.r.buf = <<>>
        /\ s.r.buf \in {<<>>, <<f>>}
    BY <1>0, <1>3, RpcResult
  <2>2. f \in Frame /\ \A k \in DOMAIN f.body : f.body[k] = 0
    <3>1. f \in Frame /\ f.body = v.body
      BY <1>0, FrameTypes DEF ResultFrame, Record
    <3>2. \A k \in DOMAIN v.body : v.body[k] = 0
      BY DEF OK, Null
    <3> QED BY <3>1, <3>2
  <2> HIDE DEF s, f
  <2>3. r.wire = <<>>
    BY <1>3 DEF Paid
  <2>4. CASE r.id = "absent"
    <3>1. s.r = r
      BY <2>1, <2>4 DEF Success
    <3> QED BY <3>1 DEF s
  <2>5. CASE r.id # "absent"
    <3>1. Small(s.r.buf, n)
      BY <2>1, <2>2, SmallEmpty, SmallOne
    <3>2. s.r.wire = <<>> /\ s.r.resultSet
      BY <2>1, <2>3, <2>5 DEF Kept
    <3> QED BY <1>0, <1>3, <3>1, <3>2 DEF Paid, s
  <2> QED BY <2>4, <2>5
<1> QED BY <1>1, <1>2, <1>3, KindCases

\* An error ends what the limiter counts.
LEMMA PaidError ==
  ASSUME NEW r \in Record, NEW e \in Errors, NEW up \in BOOLEAN, NEW n \in Nat,
         NEW on \in BOOLEAN, Paid(r, n, on), r.kind = "rpc" => ~r.dataSent
  PROVE  LET s == SetError(r, e, up).r IN
         /\ Paid(s, n, on) /\ s.kind = r.kind
         /\ r.kind = "streaming" => s.closed \/ s.encErr # "nil"
<1> DEFINE s == SetError(r, e, up).r
<1>1. s.kind = r.kind /\ s \in Record
  <2>1. SetError(r, e, up) \in Outcome /\ HeldBack(r, s)
    BY SetErrorType, SetErrorHoldsBack
  <2> HIDE DEF s
  <2> QED BY <2>1 DEF HeldBack, Outcome, s
<1>2. CASE r.kind = "streaming"
  <2>1. CASE r.closed
    <3>1. s = r
      BY <1>2, <2>1 DEF SetError, SetErrorStreaming, Success
    <3> HIDE DEF s
    <3> QED BY <2>1, <3>1 DEF s
  <2>2. CASE ~r.closed
    <3>1. IF s.closed THEN Due(s) <= Price(r.wire)
          ELSE s.wire = r.wire /\ s.room = r.room /\ s.encErr # "nil"
      BY <1>2, <2>2, ErrorSteps
    <3>2. Price(r.wire) <= n /\ Price(r.wire) \in Nat
      BY <1>2, <2>2, PriceType DEF Paid, Due, Record
    <3> HIDE DEF s
    <3>3. CASE s.closed
      <4> DEFINE x == Price(r.wire)
                 y == Due(s)
      <4>1. y \in Nat
        <5>1. Charged(s.wire) \in SUBSET (DOMAIN s.wire)
          BY DEF Charged
        <5> QED BY <1>1, <3>3, <5>1, BillType DEF Due, Record
      <4>2. y <= x /\ x <= n /\ x \in Nat
        BY <3>1, <3>2, <3>3
      <4> HIDE DEF x, y
      <4>3. y <= n
        BY <4>1, <4>2
      <4> QED BY <1>1, <1>2, <3>3, <4>3 DEF Paid, y, s
    <3>4. CASE ~s.closed
      <4>1. Due(s) <= n /\ (on => Within(s, n))
        BY <1>2, <2>2, <3>1, <3>2, <3>4 DEF Due, Paid, Within
      <4> QED BY <1>1, <1>2, <3>1, <3>4, <4>1 DEF Paid, s
    <3> QED BY <3>3, <3>4
  <2> QED BY <2>1, <2>2
<1>3. CASE r.kind = "legacy"
  <2>1. s = r
    BY <1>3 DEF SetError, Success
  <2> HIDE DEF s
  <2> QED BY <1>3, <2>1 DEF s
<1>4. CASE r.kind = "rpc"
  <2> DEFINE f == ErrorFrame(r.id, e)
  <2>1. /\ Kept(r, s)
        /\ r.id = "absent" => s = r
        /\ r.id # "absent" => s.resultSet /\ s.buf = <<f>>
    BY <1>4, RpcError
  <2>2. f \in Frame /\ f.tag = "error"
    BY FrameTypes DEF ErrorFrame, Record
  <2> HIDE DEF s, f
  <2>3. CASE r.id = "absent"
    BY <1>4, <2>1, <2>3 DEF s
  <2>4. CASE r.id # "absent"
    <3>1. Small(s.buf, n) /\ s.wire = <<>> /\ s.resultSet
      BY <1>4, <2>1, <2>2, <2>4, SmallOne DEF Kept, Paid
    <3> QED BY <1>1, <1>4, <3>1 DEF Paid, s
  <2> QED BY <2>3, <2>4
<1> QED BY <1>2, <1>3, <1>4, KindCases

\* What Close may send of a plain answer.
LEMMA RpcCloseSends ==
  ASSUME NEW r \in Record, r.kind = "rpc", ~r.dataSent, r.wire = <<>>, NEW up \in BOOLEAN
  PROVE  LET z == Close(r, up).r IN
         z.wire \in {<<>>, IF r.resultSet THEN r.buf ELSE <<ResultFrame(r.id, TextValue(Text(r.buf)))>>}
<1> DEFINE r1 == [r EXCEPT !.dataSent = TRUE]
           q  == MaxResponse(r1, 0)
           m  == [q EXCEPT !.buf = <<>>]
           v  == TextValue(Text(r.buf))
           x  == SetResult(m, v, up)
           o  == IF r.resultSet THEN Success(r1) ELSE x
           y1 == [o.r EXCEPT !.wire = @ \o o.r.buf, !.buf = <<>>]
           y2 == [o.r EXCEPT !.buf = <<>>]
           z  == Close(r, up).r
<1>1. /\ r1 \in Record /\ r1.kind = "rpc" /\ r1.id = r.id /\ r1.buf = r.buf /\ r1.wire = <<>>
      /\ r1.resultSet = r.resultSet
  BY DEF Record
<1>2. z = IF o.err # "nil" THEN o.r ELSE IF up THEN y1 ELSE y2
  BY DEF Close, CloseRpc, Success, Failure
<1>3. v \in Value
  BY ValueTypes, TextType DEF Record
<1> HIDE DEF r1
<1>4. q \in Record /\ q.kind = "rpc" /\ q.id = r.id /\ q.wire = <<>> /\ q.resultSet = r.resultSet
  <2>1. q = [r1 EXCEPT !.room = MaxInt64, !.encErr = "nil"]
    BY DEF MaxResponse, SetLimit
  <2>2. q \in Record
    BY <1>1, MaxResponseType
  <2> HIDE DEF q
  <2> QED BY <1>1, <2>1, <2>2 DEF Record
<1> HIDE DEF q
<1>5. /\ m \in Record /\ m.kind = "rpc" /\ m.id = r.id /\ m.buf = <<>> /\ m.wire = <<>>
      /\ m.resultSet = r.resultSet
  BY <1>4, Emptied DEF Record
<1> HIDE DEF m, v
<1>6. ASSUME ~r.resultSet
      PROVE  x.r \in Record /\ x.r.wire = <<>> /\ x.r.buf \in {<<>>, <<ResultFrame(r.id, v)>>}
  <2>1. x.r \in Record /\ Kept(m, x.r) /\ x.r.buf \in {<<>>, <<ResultFrame(m.id, v)>>}
    BY <1>3, <1>5, <1>6, RpcResult
  <2> HIDE DEF x
  <2> QED BY <1>5, <2>1 DEF Kept
<1> HIDE DEF x
<1>7. /\ o.r \in Record /\ o.r.wire = <<>>
      /\ o.r.buf \in {<<>>, IF r.resultSet THEN r.buf ELSE <<ResultFrame(r.id, v)>>}
  BY <1>1, <1>6 DEF Success
<1> HIDE DEF o
<1>8. <<>> \o o.r.buf = o.r.buf
  BY <1>7 DEF Record
<1>9. y1.wire = o.r.wire \o o.r.buf /\ y2.wire = o.r.wire
  BY <1>7 DEF Record
<1> HIDE DEF y1, y2, z
<1>10. z.wire \in {<<>>, IF r.resultSet THEN r.buf ELSE <<ResultFrame(r.id, v)>>}
  BY <1>2, <1>7, <1>8, <1>9
<1> QED BY <1>10 DEF z, v

LEMMA PaidClose ==
  ASSUME NEW r \in Record, NEW up \in BOOLEAN, NEW n \in Nat, NEW on \in BOOLEAN,
         Paid(r, n, on),
         r.kind = "streaming" => /\ r.closed => r.buf = <<>>
                                 /\ on \/ r.closed \/ r.encErr # "nil",
         r.kind = "rpc" => ~r.dataSent
  PROVE  PaidUp(Close(r, up).r, n)
<1> DEFINE z == Close(r, up).r
<1>1. z.kind = r.kind /\ z \in Record
  <2>1. z.kind = r.kind /\ Close(r, up) \in Outcome
    BY KeepsKind, CloseType
  <2> HIDE DEF z
  <2> QED BY <2>1 DEF Outcome, z
<1>2. CASE r.kind = "streaming"
  <2>1. CASE r.closed
    <3>1. Commit(r, up) = Success(r)
      BY <1>2, <2>1 DEF Commit
    <3>2. z = r
      BY <1>2, <2>1, <3>1 DEF Close, CloseStreaming, Success
    <3> HIDE DEF z
    <3> QED BY <1>2, <3>2 DEF Paid, PaidUp, z
  <2>2. CASE ~r.closed
    <3>1. Price(z.wire) <= n
      <4>1. CASE on
        BY <1>2, <2>2, <4>1, CloseWithin DEF Paid
      <4>2. CASE ~on
        <5>1. z.wire = r.wire
          BY <1>2, <2>2, <4>2, CloseStuck
        <5>2. Price(r.wire) <= n
          BY <1>2, <2>2 DEF Paid, Due
        <5> HIDE DEF z
        <5> QED BY <5>1, <5>2
      <4> QED BY <4>1, <4>2
    <3> HIDE DEF z
    <3>2. z.wire \in Seq(Frame)
      BY <1>1 DEF Record
    <3>3. Due(z) <= n
      BY <3>1, <3>2, DueWithin
    <3> QED BY <1>1, <1>2, <3>3 DEF PaidUp, z
  <2> QED BY <2>1, <2>2
<1>3. CASE r.kind = "legacy"
  <2>1. z = r
    BY <1>3 DEF Close, Success
  <2> HIDE DEF z
  <2>2. Small(r.wire, n)
    BY <1>3, MeteredSmall DEF Paid, Record
  <2> QED BY <1>3, <2>1, <2>2 DEF PaidUp, z
<1>4. CASE r.kind = "rpc"
  <2> DEFINE v == TextValue(Text(r.buf))
             f == ResultFrame(r.id, v)
  <2>1. z.wire \in {<<>>, IF r.resultSet THEN r.buf ELSE <<f>>}
    BY <1>4, RpcCloseSends DEF Paid
  <2>2. v \in Value /\ v.body = Text(r.buf)
    BY ValueTypes, TextType DEF TextValue, Record
  <2> HIDE DEF v
  <2>3. f \in Frame /\ f.body = Text(r.buf)
    BY <2>2, FrameTypes DEF ResultFrame, Record
  <2> HIDE DEF f, z
  <2>4. r.resultSet => Small(r.buf, n)
    BY <1>4 DEF Paid
  <2>5. ~r.resultSet => Small(<<f>>, n)
    <3>1. ~r.resultSet => Len(f.body) <= n
      BY <1>4, <2>3 DEF Paid, Metered
    <3> QED BY <2>3, <3>1, SmallOne
  <2>6. Small(z.wire, n)
    BY <2>1, <2>4, <2>5, SmallEmpty
  <2> QED BY <1>1, <1>4, <2>6 DEF PaidUp, z
<1> QED BY <1>2, <1>3, <1>4, KindCases

LEMMA PaidEnough ==
  ASSUME NEW r \in Record, NEW n \in Nat, NEW on, Paid(r, n, on)
  PROVE  PaidUp(r, n)
BY MeteredSmall, SmallEmpty, KindCases DEF Paid, PaidUp, Record

-----------------------------------------------------------------------------
(* The limit through a request.                                             *)

\* The limiter still keeps the limit that process() has set.
Metering == inv # "none" /\ (h \in InProcess \cup {"close"} \/ (h = "closeend" /\ err = "nil"))

\* A request that fails before its invoker starts is closed with an error.
Early == left = "early" => err # "nil"

Pays ==
  left # "forced" /\ rq.limit > 0 =>
    IF h = "returned" THEN PaidUp(rsp, rq.limit)
    ELSE /\ Paid(rsp, rq.limit, Metering)
         /\ rsp.kind = "streaming" /\ h = "closeend" /\ err # "nil" => rsp.closed \/ rsp.encErr # "nil"

LEMMA EarlyNext == TypeOK /\ Control /\ Early /\ [Next]_vars => Early'
<1> SUFFICES ASSUME TypeOK, Control, Early, [Next]_vars PROVE Early'
  OBVIOUS
<1>1. CASE Handler
  <2>1. CASE ReadFromTransport \/ Process
    BY <2>1 DEF ReadFromTransport, Process, Control, Early
  <2>2. CASE SelectTimeout \/ SelectDone \/ CheckErr \/ GraceDone \/ GraceTimer
    BY <2>2 DEF SelectTimeout, SelectDone, CheckErr, GraceDone, GraceTimer, LeaveProcess, Control,
                InProcess, Early
  <2>3. CASE CloseBranch \/ CloseError \/ CloseEnd
    BY <2>3 DEF CloseBranch, CloseError, CloseEnd, Early
  <2> QED BY <1>1, <2>1, <2>2, <2>3 DEF Handler
<1>2. CASE Invoker
  BY <1>2, InvokerSteps DEF Control, Early
<1>3. CASE Flush \/ Copier \/ Kill \/ Cancel \/ Environment \/ UNCHANGED vars
  BY <1>3, OtherSteps DEF Early
<1> QED BY <1>1, <1>2, <1>3 DEF Next

LEMMA PaidWeaker ==
  ASSUME NEW r, NEW n, NEW on \in BOOLEAN, NEW still \in BOOLEAN, Paid(r, n, on), still => on
  PROVE  Paid(r, n, still)
BY DEF Paid, Metered

LEMMA PaysAfter ==
  ASSUME NEW on \in BOOLEAN, h' # "returned", Metering' => on, Paid(rsp', rq'.limit, on),
         rsp'.kind = "streaming" /\ h' = "closeend" /\ err' # "nil" => rsp'.closed \/ rsp'.encErr # "nil"
  PROVE  Pays'
<1>1. Metering' \in BOOLEAN
  BY DEF Metering
<1>2. Paid(rsp', rq'.limit, Metering')
  BY <1>1, PaidWeaker
<1> QED BY <1>2 DEF Pays

\* The steps that leave the responser alone.
LEMMA PaysOn ==
  ASSUME Pays, UNCHANGED <<rq, rsp>>, left' # "forced" => left # "forced", h # "returned",
         h' \notin {"returned", "closeend"}, Metering' => Metering
  PROVE  Pays'
<1> SUFFICES ASSUME left' # "forced", rq.limit > 0 PROVE Paid(rsp, rq.limit, Metering')
  BY DEF Pays
<1>1. Paid(rsp, rq.limit, Metering)
  BY DEF Pays
<1>2. Metering \in BOOLEAN /\ Metering' \in BOOLEAN
  BY DEF Metering
<1> QED BY <1>1, <1>2, PaidWeaker

\* The handler closes a request whose invoker never ran with an error.
LEMMA LeftEarly ==
  ASSUME TypeOK, Control, Early, h \in Closing, left # "forced", err = "nil" PROVE inv # "none"
BY DEF TypeOK, Control, Early, Closing

LEMMA PaysHandler ==
  TypeOK /\ Control /\ StreamInv /\ ContentInv /\ AnswerInv /\ Early /\ Pays /\ Handler => Pays'
<1> SUFFICES ASSUME TypeOK, Control, StreamInv, ContentInv, AnswerInv, Early, Pays, Handler PROVE Pays'
  OBVIOUS
<1>0. rq' = rq
  BY HandlerSteps
<1> SUFFICES ASSUME left' # "forced", rq.limit > 0 PROVE Pays'
  BY <1>0 DEF Pays
<1> DEFINE n == rq.limit
<1>1. /\ rq' = rq /\ left # "forced" /\ rsp \in Record /\ rq.limit \in Nat
      /\ inv' = inv \/ (inv = "none" /\ inv' = "invoke")
      /\ h \in InProcess => rsp' = rsp /\ h' \in InProcess \cup {"close"}
  BY HandlerSteps, ChildType, RequestTypes
<1>2. h # "returned" => Paid(rsp, rq.limit, Metering)
  BY <1>1 DEF Pays
<1>3. CASE ReadFromTransport
  <2>1. rsp' = rsp /\ h = "read" /\ h' = "process"
    BY <1>3 DEF ReadFromTransport
  <2>2. ~Metering'
    BY <2>1 DEF Metering, InProcess
  <2> QED BY <1>1, <2>1, <2>2, PaysOn
<1>4. CASE Process
  <2> DEFINE s == SetID(Upgrade(rsp, rq.plus), rq.id)
             m == MaxResponse(s, rq.limit)
  <2>1. h = "process" /\ inv = "none" /\ Fresh(rsp)
    BY <1>4 DEF Process, Control, ContentInv, FreshInv
  <2>2. Fresh(s) /\ Fresh(m) /\ m.room = SetLimit(rq.limit)
    BY <1>1, <2>1, FreshStart, RequestTypes
  <2>3. s \in Record /\ m \in Record
    BY <1>1, RequestTypes, UpgradeType, MaxResponseType
  <2>4. SetLimit(rq.limit) = rq.limit
    BY DEF SetLimit
  <2>5. \/ h' = "close" /\ inv' = "none" /\ (rsp' = rsp \/ rsp' = s)
        \/ h' = "select" /\ rsp' = m
    BY <1>4, <2>1 DEF Process
  <2> HIDE DEF s, m
  <2>6. CASE h' = "close" /\ inv' = "none" /\ (rsp' = rsp \/ rsp' = s)
    <3>1. Paid(rsp', n, FALSE)
      BY <1>1, <2>1, <2>2, <2>3, <2>6, PaidFresh
    <3>2. ~Metering'
      BY <2>6 DEF Metering
    <3> QED BY <1>1, <2>6, <3>1, <3>2, PaysAfter
  <2>7. CASE h' = "select" /\ rsp' = m
    <3>1. m.room <= n
      BY <1>1, <2>2, <2>4
    <3>2. Paid(m, n, TRUE)
      BY <1>1, <2>2, <2>3, <3>1, PaidFresh
    <3> QED BY <1>1, <2>7, <3>2, PaysAfter
  <2> QED BY <2>5, <2>6, <2>7
<1>5. CASE h \in InProcess
  <2>1. h # "returned" /\ h' \notin {"returned", "closeend"} /\ rsp' = rsp
    BY <1>1, <1>5 DEF InProcess
  <2>2. inv' = inv
    BY <1>5 DEF Handler, ReadFromTransport, Process, SelectTimeout, SelectDone, CheckErr, GraceDone,
                GraceTimer, LeaveProcess, CloseBranch, CloseError, CloseEnd, InProcess, invoker
  <2>3. Metering' => Metering
    BY <1>5, <2>2 DEF Metering
  <2> QED BY <1>1, <2>1, <2>3, PaysOn
<1>6. CASE CloseBranch
  <2> DEFINE u == Upgrade(rsp, rq.plus)
             m == MaxResponse(u, 0)
  <2>1. h = "close" /\ UNCHANGED <<inv, err>>
    BY <1>6 DEF CloseBranch, invoker
  <2>2. CASE err = "nil"
    <3>1. inv # "none"
      BY <1>1, <2>1, <2>2, LeftEarly DEF Closing
    <3>2. ~(rq.plus /\ rsp.kind = "legacy")
      BY <1>1, <3>1 DEF ContentInv, CutInv
    <3>3. rsp' = rsp /\ h' = "closeend"
      BY <1>6, <2>2, <3>2 DEF CloseBranch, Upgrade
    <3>4. Metering /\ Metering'
      BY <2>1, <2>2, <3>1, <3>3 DEF Metering
    <3>5. Paid(rsp, n, TRUE)
      BY <1>2, <2>1, <3>4
    <3> QED BY <1>1, <2>1, <2>2, <3>3, <3>5, PaysAfter
  <2>3. CASE err # "nil"
    <3>1. rsp' = m /\ h' = "closeerr"
      BY <1>6, <2>3 DEF CloseBranch
    <3>2. u \in Record /\ \E on \in BOOLEAN : Paid(u, n, on)
      <4>1. u \in Record
        BY <1>1, UpgradeType, RequestTypes
      <4>2. CASE rq.plus /\ rsp.kind = "legacy"
        <5>1. rsp.wire = <<>>
          BY <1>1, <4>2 DEF StreamInv
        <5>2. Fresh(u)
          BY <4>2, <5>1 DEF Upgrade, New, Fresh
        <5> HIDE DEF u
        <5> QED BY <1>1, <4>1, <5>2, PaidFresh
      <4>3. CASE ~(rq.plus /\ rsp.kind = "legacy")
        <5>1. u = rsp
          BY <4>3 DEF Upgrade
        <5>2. Metering \in BOOLEAN /\ Paid(rsp, n, Metering)
          BY <1>2, <2>1 DEF Metering
        <5> QED BY <4>1, <5>1, <5>2
      <4> QED BY <4>2, <4>3, <4>1
    <3> HIDE DEF u
    <3>3. Paid(m, n, FALSE)
      BY <3>2, PaidLifted
    <3>4. ~Metering'
      BY <3>1 DEF Metering, InProcess
    <3> HIDE DEF m
    <3> QED BY <1>1, <3>1, <3>3, <3>4, PaysAfter
  <2> QED BY <2>2, <2>3
<1>7. CASE CloseError
  <2>1. h = "closeerr" /\ UNCHANGED <<inv, err>> /\ err # "nil"
    BY <1>1, <1>7 DEF CloseError, invoker, ContentInv, CutInv
  <2>2. h' = "closeend" /\ \E up \in Transport : rsp' = SetError(rsp, err, up).r
    BY <1>7, <2>1 DEF CloseError
  <2>3. PICK up \in BOOLEAN : rsp' = SetError(rsp, err, up).r
    BY <2>2, TransportType
  <2>4. Paid(rsp, n, Metering) /\ ~Metering /\ ~Metering'
    BY <1>2, <2>1, <2>2 DEF Metering, InProcess
  <2>5. Paid(rsp, n, FALSE)
    BY <2>4, PaidLoosely
  <2>6. rsp.kind = "rpc" => ~rsp.dataSent
    BY <1>1, <2>1 DEF AnswerInv, Plain, Unsent
  <2>7. err \in Errors
    BY DEF TypeOK
  <2> DEFINE s == SetError(rsp, err, up).r
  <2>8. /\ Paid(s, n, FALSE) /\ s.kind = rsp.kind
        /\ rsp.kind = "streaming" => s.closed \/ s.encErr # "nil"
    <3>1. PICK off \in BOOLEAN : off = FALSE
      OBVIOUS
    <3>2. Paid(rsp, n, off)
      BY <2>5, <3>1
    <3>3. n \in Nat /\ rsp \in Record
      BY <1>1
    <3> HIDE DEF n
    <3>4. /\ Paid(s, n, off) /\ s.kind = rsp.kind
          /\ rsp.kind = "streaming" => s.closed \/ s.encErr # "nil"
      BY <2>3, <2>6, <2>7, <3>2, <3>3, PaidError
    <3> QED BY <3>1, <3>4
  <2>9. rsp' = s
    BY <2>3
  <2> HIDE DEF s
  <2> QED BY <1>1, <2>2, <2>4, <2>8, <2>9, PaysAfter
<1>8. CASE CloseEnd
  <2>1. h = "closeend" /\ h' = "returned" /\ \E up \in Transport : rsp' = Close(rsp, up).r
    BY <1>8 DEF CloseEnd
  <2>2. PICK up \in BOOLEAN : rsp' = Close(rsp, up).r
    BY <2>1, TransportType
  <2>3. PICK on \in BOOLEAN : on = Metering
    BY DEF Metering
  <2>4. Paid(rsp, n, on)
    BY <1>2, <2>1, <2>3
  <2>5. rsp.kind = "streaming" => /\ rsp.closed => rsp.buf = <<>>
                                  /\ on \/ rsp.closed \/ rsp.encErr # "nil"
    <3>1. rsp.kind = "streaming" => (rsp.closed => rsp.buf = <<>>)
      BY <1>1 DEF StreamInv, Ordered
    <3>2. err = "nil" => on
      BY <1>1, <2>1, <2>3, LeftEarly DEF Metering, Closing
    <3>3. rsp.kind = "streaming" /\ err # "nil" => rsp.closed \/ rsp.encErr # "nil"
      BY <1>1, <2>1 DEF Pays
    <3> QED BY <3>1, <3>2, <3>3
  <2>6. rsp.kind = "rpc" => ~rsp.dataSent
    BY <1>1, <2>1 DEF AnswerInv, Plain, Unsent
  <2>7. PaidUp(rsp', n)
    BY <1>1, <2>2, <2>4, <2>5, <2>6, PaidClose
  <2> QED BY <1>1, <2>1, <2>7 DEF Pays
<1> QED
  BY <1>3, <1>4, <1>5, <1>6, <1>7, <1>8 DEF Handler, SelectTimeout, SelectDone, CheckErr, GraceDone,
     GraceTimer, InProcess

LEMMA PaysInvoker ==
  TypeOK /\ Control /\ StreamInv /\ ContentInv /\ AnswerInv /\ Pays /\ Invoker => Pays'
<1> SUFFICES ASSUME TypeOK, Control, StreamInv, ContentInv, AnswerInv, Pays, Invoker PROVE Pays'
  OBVIOUS
<1>0. UNCHANGED <<rq, h, left>> /\ inv \notin {"none", "exited"} /\ inv' # "none"
  BY InvokerSteps
<1> SUFFICES ASSUME left # "forced", rq.limit > 0 PROVE Pays'
  BY <1>0 DEF Pays
<1> DEFINE n == rq.limit
<1>1. rsp \in Record /\ n \in Nat
  BY ChildType, RequestTypes
<1>2. CASE inv = "exit"
  <2>1. UNCHANGED <<err, rsp>>
    BY <1>2 DEF Invoker, Invoke, DeferFlush, Deliver, SetResponseError, SetResponseResult, ReadPipe,
                ReadEnd, CheckWrite, PutPiece, CloseDone, output
  <2>2. CASE h = "returned"
    BY <1>0, <2>1, <2>2 DEF Pays
  <2>3. CASE h # "returned"
    <3>1. PICK on \in BOOLEAN : on = Metering
      BY DEF Metering
    <3>2. Metering' = on
      BY <1>0, <2>1, <3>1 DEF Metering
    <3>3. Paid(rsp, n, on)
      BY <2>3, <3>1 DEF Pays
    <3>4. rsp.kind = "streaming" /\ h = "closeend" /\ err # "nil" => rsp.closed \/ rsp.encErr # "nil"
      BY <2>3 DEF Pays
    <3> QED BY <1>0, <2>1, <2>3, <3>2, <3>3, <3>4, PaysAfter
  <2> QED BY <2>2, <2>3
<1>3. CASE inv # "exit"
  <2>1. h \in InProcess
    BY <1>0, <1>3, Busy
  <2>2. h \notin {"returned", "closeend"} /\ Metering
    BY <1>0, <2>1 DEF Metering, InProcess
  <2>3. Paid(rsp, n, TRUE)
    BY <2>2 DEF Pays
  <2>4. Paid(rsp', n, TRUE) => Pays'
    BY <1>0, <2>2, PaysAfter
  <2>5. CASE rsp' = rsp
    BY <2>3, <2>4, <2>5
  <2>6. CASE SetResponseError
    <3>1. inv = "set" /\ val \in Errors /\ \E up \in Transport : rsp' = SetError(rsp, val, up).r
      BY <2>6 DEF SetResponseError, Faults, Errors, TypeOK
    <3>2. PICK up \in BOOLEAN : rsp' = SetError(rsp, val, up).r
      BY <3>1, TransportType
    <3>3. rsp.kind = "rpc" => ~rsp.dataSent
      BY <2>2 DEF AnswerInv, Plain, Unsent
    <3>4. PICK on \in BOOLEAN : on = TRUE
      OBVIOUS
    <3>5. Paid(rsp, n, on)
      BY <2>3, <3>4
    <3> HIDE DEF n
    <3>6. Paid(rsp', n, on)
      BY <1>1, <3>1, <3>2, <3>3, <3>5, PaidError
    <3> QED BY <2>4, <3>4, <3>6
  <2>7. CASE SetResponseResult
    <3> DEFINE v == IF val = "ok" THEN OK ELSE Null
    <3>1. inv = "set" /\ v \in {OK, Null} /\ \E up \in Transport : rsp' = SetResult(rsp, v, up).r
      BY <2>7 DEF SetResponseResult
    <3>2. PICK up \in BOOLEAN : rsp' = SetResult(rsp, v, up).r
      BY <3>1, TransportType
    <3>3. rsp.kind = "rpc" => rsp.buf = <<>> /\ ~rsp.resultSet
      BY <2>2, <3>1 DEF AnswerInv, Plain, Blank
    <3> HIDE DEF v, n
    <3>4. Paid(rsp', n, TRUE)
      BY <1>1, <2>3, <3>1, <3>2, <3>3, PaidResult
    <3> QED BY <2>4, <3>4
  <2>8. CASE PutPiece
    <3>1. inv = "put" /\ \E k \in DOMAIN hand, up \in Transport : rsp' = Put(rsp, First(k), up).r
      BY <2>8 DEF PutPiece
    <3>2. PICK p \in Piece, up \in BOOLEAN : rsp' = Put(rsp, p, up).r
      BY <3>1, FirstType, TransportType
    <3>3. rsp.kind = "streaming" => ~rsp.closed /\ Raw(rsp.buf)
      BY <3>1 DEF StreamInv, Beginning, ContentInv, ShapedInv, Tidy
    <3>4. rsp.kind = "rpc" => ~rsp.resultSet
      BY <3>1 DEF AnswerInv, Plain, Blank
    <3> HIDE DEF n
    <3>5. Paid(rsp', n, TRUE)
      BY <1>1, <2>3, <3>2, <3>3, <3>4, PaidPut
    <3> QED BY <2>4, <3>5
  <2>9. rsp' = rsp \/ SetResponseError \/ SetResponseResult \/ PutPiece
    BY DEF Invoker, Invoke, DeferFlush, Deliver, ReadPipe, ReadEnd, CheckWrite, CloseDone
  <2> QED BY <2>5, <2>6, <2>7, <2>8, <2>9
<1> QED BY <1>2, <1>3

LEMMA PaysInit == Init => Pays /\ Early
<1> SUFFICES ASSUME Init PROVE Pays /\ Early
  OBVIOUS
<1>1. rsp \in Record /\ rq.limit \in Nat /\ inv = "none" /\ h = "read" /\ left = "-"
  BY TypeInit, RequestTypes DEF TypeOK, Init
<1>2. Fresh(rsp)
  BY DEF Init, Fresh, New
<1>3. PICK on \in BOOLEAN : on = FALSE
  OBVIOUS
<1>4. Paid(rsp, rq.limit, on)
  BY <1>1, <1>2, <1>3, PaidFresh
<1>5. Metering = on
  BY <1>1, <1>3 DEF Metering
<1>6. Paid(rsp, rq.limit, Metering)
  BY <1>4, <1>5
<1> QED BY <1>1, <1>6 DEF Pays, Early

LEMMA PaysNext ==
  TypeOK /\ Control /\ StreamInv /\ ContentInv /\ AnswerInv /\ Early /\ Pays /\ [Next]_vars => Pays'
<1>1. Pays /\ (Flush \/ Copier \/ Kill \/ Cancel \/ Environment \/ UNCHANGED vars) => Pays'
  BY OtherSteps DEF Pays, Metering
<1> QED BY <1>1, PaysHandler, PaysInvoker DEF Next

-----------------------------------------------------------------------------
(* What is sent is within the limit.                                        *)

LEMMA CountedCharged == Counted = Charged(rsp.wire)
BY DEF Counted, CutOff, Charged

LEMMA SpentPaid ==
  ASSUME TypeOK, rq.limit > 0, PaidUp(rsp, rq.limit) PROVE Spent <= rq.limit
<1> DEFINE w == rsp.wire
           K == Counted
           n == rq.limit
           bytes == FlattenSeq(Picked(w, K))
<1>1. rsp \in Record /\ n \in Nat /\ w \in Seq(Frame)
  BY ChildType, RequestTypes DEF Record
<1>2. K \in SUBSET (DOMAIN w) /\ \A i \in K : w[i].tag # "error"
  BY DEF Counted
<1>3. Spent = IF rsp.kind = "streaming" THEN Bill(w, K)
              ELSE Cardinality({k \in DOMAIN bytes : bytes[k] > 0})
  BY DEF Spent, Bill, Picked
<1>4. CASE rsp.kind = "streaming"
  <2>1. Due(rsp) <= n
    BY <1>4 DEF PaidUp
  <2>2. CASE rsp.closed
    BY <1>3, <1>4, <2>1, <2>2, CountedCharged DEF Due
  <2>3. CASE ~rsp.closed
    <3>1. Price(w) <= n
      BY <2>1, <2>3 DEF Due
    <3> HIDE DEF w, K
    <3>2. Bill(w, K) <= Price(w) /\ Bill(w, K) \in Nat /\ Price(w) \in Nat
      BY <1>1, <1>2, BillLess, BillType, PriceType
    <3> HIDE DEF n
    <3>3. Bill(w, K) <= n
      BY <1>1, <3>1, <3>2
    <3> QED BY <1>3, <1>4, <3>3 DEF n
  <2> QED BY <2>2, <2>3
<1>5. CASE rsp.kind # "streaming"
  <2>1. Small(w, n)
    BY <1>5 DEF PaidUp
  <2> HIDE DEF w, K, n
  <2>2. Cardinality({k \in DOMAIN bytes : bytes[k] > 0}) <= n
    BY <1>1, <1>2, <2>1, SmallSpends
  <2> QED BY <1>3, <1>5, <2>2 DEF n
<1> QED BY <1>4, <1>5

\* The limit of a method (methodDef.MaxResponse) holds for every answer, although the
\* invoker's writes count it down (exceptionalLimitedWriter.Write) and the handler sets it
\* before the invoker starts and lifts it when it closes the answer
\* (jsonRPCrequestPriv.process and Close).
THEOREM LimitHolds == Spec => []WithinLimit
<1>1. TypeOK /\ Pays => WithinLimit
  <2> SUFFICES ASSUME TypeOK, Pays, rq.limit > 0, left # "forced" PROVE Spent <= rq.limit
    BY DEF WithinLimit
  <2>1. rsp \in Record /\ rq.limit \in Nat
    BY ChildType, RequestTypes
  <2>2. PaidUp(rsp, rq.limit)
    BY <2>1, PaidEnough DEF Pays
  <2> QED BY <2>2, SpentPaid
<1>2. Init => Early /\ Pays
  BY PaysInit
<1>3. TypeOK /\ Control /\ StreamInv /\ ContentInv /\ AnswerInv /\ Early /\ Pays /\ [Next]_vars
        => Early' /\ Pays'
  BY EarlyNext, PaysNext
<1> QED
  BY <1>1, <1>2, <1>3, TypeCorrect, ControlHolds, StreamInvHolds, ContentHolds, AnswerHolds, PTL DEF Spec

=============================================================================
