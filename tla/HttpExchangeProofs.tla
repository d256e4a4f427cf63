-------------------------- MODULE HttpExchangeProofs --------------------------
(***************************************************************************)
(* For any number of requests, any options, statuses and lengths of bodies:*)
(* what the middleware does to the response of a handler, and what it says *)
(* of it.                                                                  *)
(***************************************************************************)
EXTENDS HttpExchange, SequenceTheorems, TLAPS

-----------------------------------------------------------------------------
(* A body that is read ahead and put back, and read, is whole.              *)
LEMMA Associative ==
  \A s, t, u \in Seq(Nat) : (s \o t) \o u = s \o (t \o u)
BY ConcatAssociative, SMTT(30)

LEMMA Concatenated ==
  \A s, t \in Seq(Nat) : s \o t \in Seq(Nat) /\ (s # <<>> => (s \o t)[1] = s[1])
<1>1. \A s, t \in Seq(Nat) : s \o t \in Seq(Nat)
  BY ConcatProperties
<1>2. ASSUME NEW s \in Seq(Nat), NEW t \in Seq(Nat), s # <<>> PROVE (s \o t)[1] = s[1]
  <2>1. Len(s) \in Nat \ {0} /\ Len(t) \in Nat
    BY <1>2, EmptySeq, LenProperties
  <2>2. 1 \in 1..(Len(s) + Len(t)) /\ 1 <= Len(s)
    BY <2>1
  <2> QED
    BY <2>2, ConcatProperties
<1> QED
  BY <1>1, <1>2

LEMMA SplitBody ==
  ASSUME NEW s \in Seq(Nat), NEW n \in Nat
  PROVE  /\ Upto(s, n) \in Seq(Nat) /\ From(s, n) \in Seq(Nat)
         /\ Upto(s, n) \o From(s, n) = s
<1>1. Len(s) \in Nat /\ \A i \in 1..Len(s) : s[i] \in Nat
  BY LenProperties, ElementOfSeq
<1>2. SubSeq(s, 1, Len(s)) = s
  BY SubSeqFull
<1>3. From(s, n) \in Seq(Nat)
  <2>1. \A i \in (n + 1)..Len(s) : s[i] \in Nat
    BY <1>1
  <2> QED
    BY <1>1, <2>1, SubSeqProperties DEF From
<1>4. CASE n < Len(s)
  <2>1. Upto(s, n) = SubSeq(s, 1, n) /\ \A i \in 1..n : s[i] \in Nat
    BY <1>1, <1>4 DEF Upto
  <2>2. Upto(s, n) \in Seq(Nat)
    BY <2>1, SubSeqProperties
  <2>3. 1 \in 1..Len(s) + 1 /\ n \in 0..Len(s) /\ Len(s) \in n..Len(s) /\ 0 = 1 - 1
    BY <1>1, <1>4
  <2>4. SubSeq(s, 1, n) \o SubSeq(s, n + 1, Len(s)) = SubSeq(s, 1, Len(s))
    BY <2>3, ConcatAdjacentSubSeq
  <2> QED
    BY <1>2, <1>3, <2>1, <2>2, <2>4 DEF From
<1>5. CASE ~(n < Len(s))
  <2>1. Upto(s, n) = s
    BY <1>2, <1>5 DEF Upto
  <2>2. From(s, n) = <<>>
    BY <1>1, <1>5, SubSeqEmpty DEF From
  <2> QED
    BY <1>3, <2>1, <2>2, ConcatEmptySeq
<1> QED
  BY <1>4, <1>5

(* However much of a body is read ahead, its reader gets it as it was.      *)
LEMMA ReadAheadArrives ==
  ASSUME NEW s \in Seq(Nat), NEW n \in Nat, NEW end \in Endings
  PROVE  ReadAhead(s, n, end) \in Readers /\ Arrives(ReadAhead(s, n, end), s, end)
<1> DEFINE b == ReadAhead(s, n, end)
<1>1. <<>> \in Seq(Nat)
  BY EmptySeq
<1>2. b \in Readers /\ b.end = end /\ b.met = "open"
  BY <1>1, SplitBody DEF ReadAhead, Readers, Endings
<1>3. <<>> \o Upto(s, n) = Upto(s, n)
  BY SplitBody, ConcatEmptySeq
<1>4. Whole(b) = s
  BY <1>3, SplitBody DEF ReadAhead, Whole
<1> HIDE DEF b
<1>5. b \in Readers /\ Arrives(b, s, end)
  BY <1>2, <1>4 DEF Arrives
<1> QED
  BY <1>5 DEF b

LEMMA HeadThenTail ==
  ASSUME NEW s \in Seq(Nat), s # <<>>
  PROVE  /\ Head(s) \in Nat /\ Tail(s) \in Seq(Nat)
         /\ <<Head(s)>> \in Seq(Nat) /\ <<Head(s)>> \o Tail(s) = s
         /\ From(s, 1) = Tail(s) /\ Head(s) = s[1]
<1>1. Head(s) \in Nat /\ Tail(s) \in Seq(Nat) /\ Head(s) = s[1]
  BY HeadTailProperties
<1>2. Tail(s) = SubSeq(s, 2, Len(s))
  BY TailIsSubSeq
<1>3. Len(s) \in Nat \ {0}
  BY EmptySeq
<1>4. SubSeq(s, 1, Len(s)) = <<s[1]>> \o SubSeq(s, 1 + 1, Len(s))
  BY <1>3, SubSeqRecursiveFirst
<1>5. SubSeq(s, 1, Len(s)) = s
  BY SubSeqFull
<1> QED
  BY <1>1, <1>2, <1>4, <1>5 DEF From

LEMMA TakeByteWhole ==
  ASSUME NEW b \in Readers, Len(b.buffer \o b.conn) > 0
  PROVE  /\ TakeByte(b) \in Readers /\ Whole(TakeByte(b)) = Whole(b)
         /\ TakeByte(b).end = b.end /\ TakeByte(b).met = b.met
<1> DEFINE h == Head(b.buffer \o b.conn)
           t == TakeByte(b)
<1>1. b.taken \in Seq(Nat) /\ b.buffer \in Seq(Nat) /\ b.conn \in Seq(Nat)
  BY DEF Readers
<1>2. b.buffer \o b.conn \in Seq(Nat) /\ b.buffer \o b.conn # <<>>
  <2>1. b.buffer \o b.conn \in Seq(Nat)
    BY <1>1, Concatenated, Zenon
  <2>2. b.buffer \o b.conn # <<>>
    <3>1. SUFFICES ASSUME b.buffer \o b.conn = <<>> PROVE FALSE
      OBVIOUS
    <3>2. Len(<<>>) > 0
      BY <3>1, Zenon
    <3> QED
      BY <3>2
  <2> QED
    BY <2>1, <2>2
<1>3. h \in Nat /\ <<h>> \in Seq(Nat)
  BY <1>2, HeadThenTail
<1>4. /\ t.buffer = From(b.buffer, 1) /\ t.taken = Append(b.taken, h)
      /\ t.conn = IF b.buffer = <<>> THEN Tail(b.conn) ELSE b.conn
      /\ t.end = b.end /\ t.met = b.met
  BY DEF TakeByte, Readers
<1>5. t.buffer \in Seq(Nat) /\ t.taken \in Seq(Nat) /\ t.taken = b.taken \o <<h>>
  <2>1. t.buffer \in Seq(Nat)
    BY <1>1, <1>4, SplitBody
  <2>2. Append(b.taken, h) \in Seq(Nat)
    BY <1>1, <1>3, AppendProperties
  <2>3. Append(b.taken, h) = b.taken \o <<h>>
    BY <1>1, <1>3, AppendIsConcat, Zenon
  <2> QED
    BY <1>4, <2>1, <2>2, <2>3
<1>6. CASE b.buffer = <<>>
  <2>1. b.buffer \o b.conn = b.conn
    BY <1>1, <1>6, ConcatEmptySeq
  <2>2. Tail(b.conn) \in Seq(Nat) /\ <<h>> \o Tail(b.conn) = b.conn
    BY <1>1, <1>2, <2>1, HeadThenTail
  <2>3. t.buffer = <<>>
    <3>1. Len(b.buffer) = 0
      BY <1>6
    <3> QED
      BY <1>4, <3>1, SubSeqEmpty DEF From
  <2>4. t.taken \o t.buffer = t.taken /\ b.taken \o b.buffer = b.taken
    BY <1>1, <1>5, <1>6, <2>3, ConcatEmptySeq
  <2>5. (b.taken \o <<h>>) \o Tail(b.conn) = b.taken \o (<<h>> \o Tail(b.conn))
    BY <1>1, <1>3, <2>2, Associative, Zenon
  <2>6. Whole(t) = Whole(b)
    BY <1>4, <1>5, <1>6, <2>2, <2>4, <2>5 DEF Whole
  <2>7. t \in Readers
    BY <1>4, <1>5, <1>6, <2>2 DEF TakeByte, Readers
  <2> QED
    BY <1>4, <2>6, <2>7
<1>7. CASE b.buffer # <<>>
  <2>2. (b.buffer \o b.conn)[1] = b.buffer[1]
    BY <1>1, <1>7, Concatenated, Zenon
  <2>3. h = Head(b.buffer)
    <3>1. h = (b.buffer \o b.conn)[1]
      BY <1>2, HeadThenTail
    <3>2. b.buffer \in Seq(Nat)
      BY <1>1
    <3>3. Head(b.buffer) = b.buffer[1]
      BY <1>7, <3>2, HeadThenTail, Zenon
    <3> QED
      BY <2>2, <3>1, <3>3
  <2>4. t.buffer = Tail(b.buffer) /\ <<h>> \o Tail(b.buffer) = b.buffer
    <3>1. b.buffer \in Seq(Nat)
      BY <1>1
    <3>2. /\ From(b.buffer, 1) = Tail(b.buffer)
          /\ <<Head(b.buffer)>> \o Tail(b.buffer) = b.buffer
      BY <1>7, <3>1, HeadThenTail, Zenon
    <3> QED
      BY <1>4, <2>3, <3>2
  <2>5. (b.taken \o <<h>>) \o t.buffer = b.taken \o (<<h>> \o t.buffer)
    <3>1. b.taken \in Seq(Nat) /\ <<h>> \in Seq(Nat) /\ t.buffer \in Seq(Nat)
      BY <1>1, <1>3, <1>5
    <3> QED
      BY <3>1, Associative, Zenon
  <2>6. Whole(t) = Whole(b)
    BY <1>4, <1>5, <1>7, <2>4, <2>5 DEF Whole
  <2>7. t \in Readers
    BY <1>1, <1>4, <1>5, <1>7 DEF TakeByte, Readers
  <2> QED
    BY <1>4, <2>6, <2>7
<1> QED
  BY <1>6, <1>7

(* A reader that has met the end had taken every byte before.               *)
LEMMA ReadOnArrives ==
  ASSUME NEW b \in Readers, CanRead(b)
  PROVE  /\ ReadOn(b) \in Readers
         /\ \A s, end : Arrives(b, s, end) => Arrives(ReadOn(b), s, end)
<1> DEFINE rest == b.buffer \o b.conn
<1>1. b.taken \in Seq(Nat) /\ b.buffer \in Seq(Nat) /\ b.conn \in Seq(Nat) /\ b.end \in Endings
  BY DEF Readers
<1>2. rest \in Seq(Nat) /\ Len(rest) \in Nat
  <2>1. rest \in Seq(Nat)
    BY <1>1, Concatenated, Zenon
  <2> QED
    BY <2>1, LenProperties
<1>3. Whole(b) = b.taken \o rest
  BY <1>1, Associative, Zenon DEF Whole
<1>4. CASE Len(rest) > 0
  <2>1. ReadOn(b) = TakeByte(b)
    BY <1>4 DEF ReadOn
  <2>2. Whole(b) # b.taken
    <3> HIDE DEF rest
    <3>1. Len(b.taken \o rest) = Len(b.taken) + Len(rest) /\ Len(b.taken) \in Nat
      BY <1>1, <1>2, ConcatProperties, LenProperties
    <3> QED
      BY <1>2, <1>3, <1>4, <3>1
  <2>3. /\ TakeByte(b) \in Readers /\ Whole(TakeByte(b)) = Whole(b)
        /\ TakeByte(b).end = b.end /\ TakeByte(b).met = b.met
    BY <1>4, TakeByteWhole
  <2> QED
    BY <2>1, <2>2, <2>3 DEF Arrives
<1>5. CASE ~(Len(rest) > 0)
  <2>1. ReadOn(b) = [b EXCEPT !.met = b.end] /\ b.end # "open"
    BY <1>5 DEF ReadOn, CanRead
  <2>2. rest = <<>>
    <3> HIDE DEF rest
    <3>1. Len(rest) = 0
      BY <1>2, <1>5
    <3> QED
      BY <1>2, <3>1, EmptySeq
  <2>3. Whole(b) = b.taken
    BY <1>1, <1>3, <2>2, ConcatEmptySeq
  <2> DEFINE r == [b EXCEPT !.met = b.end]
  <2>4. /\ r \in Readers /\ r.taken = b.taken /\ r.buffer = b.buffer /\ r.conn = b.conn
        /\ r.end = b.end /\ r.met = b.end
    BY <1>1 DEF Readers
  <2>5. Whole(r) = Whole(b)
    BY <2>4 DEF Whole
  <2> HIDE DEF r
  <2>6. ASSUME NEW s, NEW end, Arrives(b, s, end) PROVE Arrives(r, s, end)
    BY <2>3, <2>4, <2>5, <2>6 DEF Arrives
  <2> QED
    BY <2>1, <2>4, <2>6 DEF r
<1> QED
  BY <1>4, <1>5

(* The bytes of a body are numbered; the server sends the next.              *)
LEMMA NumberedBytes ==
  ASSUME NEW n \in Nat
  PROVE  Bytes(n) \in Seq(Nat) /\ Append(Bytes(n), n + 1) = Bytes(n + 1)
<1>1. Bytes(n) \in Seq(Nat) /\ Bytes(n + 1) \in Seq(Nat) /\ Len(Bytes(n)) = n
      /\ Len(Bytes(n + 1)) = n + 1
  BY DEF Bytes
<1>2. /\ Append(Bytes(n), n + 1) \in Seq(Nat) /\ Len(Append(Bytes(n), n + 1)) = n + 1
      /\ \A i \in 1..n : Append(Bytes(n), n + 1)[i] = Bytes(n)[i]
      /\ Append(Bytes(n), n + 1)[n + 1] = n + 1
  BY <1>1, AppendProperties
<1>3. \A i \in 1..(n + 1) : Append(Bytes(n), n + 1)[i] = Bytes(n + 1)[i]
  BY <1>2 DEF Bytes
<1> QED
  BY <1>1, <1>2, <1>3, SeqEqual

LEMMA PutLast ==
  ASSUME NEW r \in Seq(Nat), NEW c \in Seq(Nat), NEW k \in Nat
  PROVE  Append(c, k) \in Seq(Nat) /\ r \o Append(c, k) = Append(r \o c, k)
<1>1. <<k>> \in Seq(Nat) /\ r \o c \in Seq(Nat)
  BY Concatenated
<1>2. Append(c, k) \in Seq(Nat) /\ Append(c, k) = c \o <<k>>
  BY AppendProperties, AppendIsConcat
<1>3. Append(r \o c, k) = (r \o c) \o <<k>>
  BY <1>1, AppendIsConcat
<1>4. (r \o c) \o <<k>> = r \o (c \o <<k>>)
  BY <1>1, Associative, Zenon
<1> QED
  BY <1>2, <1>3, <1>4

LEMMA ServeArrives ==
  ASSUME NEW b \in Readers, NEW k \in Nat, NEW s, Arrives(b, s, "open")
  PROVE  LET c == [b EXCEPT !.conn = Append(b.conn, k)]
         IN  c \in Readers /\ Arrives(c, Append(s, k), "open")
<1> DEFINE c == [b EXCEPT !.conn = Append(b.conn, k)]
<1>1. b.taken \in Seq(Nat) /\ b.buffer \in Seq(Nat) /\ b.conn \in Seq(Nat)
  BY DEF Readers
<1>2. b.taken \o b.buffer \in Seq(Nat)
  BY <1>1, Concatenated, Zenon
<1>3. /\ Append(b.conn, k) \in Seq(Nat)
      /\ (b.taken \o b.buffer) \o Append(b.conn, k) = Append((b.taken \o b.buffer) \o b.conn, k)
  BY <1>1, <1>2, PutLast, Zenon
<1>4. /\ c \in Readers /\ c.taken = b.taken /\ c.buffer = b.buffer /\ c.conn = Append(b.conn, k)
      /\ c.end = b.end /\ c.met = b.met
  BY <1>1, <1>3 DEF Readers
<1>5. Whole(c) = Append(Whole(b), k)
  BY <1>3, <1>4 DEF Whole
<1> HIDE DEF c
<1>6. c \in Readers /\ Arrives(c, Append(s, k), "open")
  BY <1>4, <1>5 DEF Arrives
<1> QED
  BY <1>6 DEF c

LEMMA EndArrives ==
  ASSUME NEW b \in Readers, NEW end \in Endings, NEW s, Arrives(b, s, "open")
  PROVE  LET c == [b EXCEPT !.end = end]
         IN  c \in Readers /\ Arrives(c, s, end)
<1> DEFINE c == [b EXCEPT !.end = end]
<1>1. /\ c \in Readers /\ c.taken = b.taken /\ c.buffer = b.buffer /\ c.conn = b.conn
      /\ c.end = end /\ c.met = b.met
  BY DEF Readers
<1>2. Whole(c) = Whole(b)
  BY <1>1 DEF Whole
<1> HIDE DEF c
<1>3. c \in Readers /\ Arrives(c, s, end)
  BY <1>1, <1>2 DEF Arrives
<1> QED
  BY <1>3 DEF c

(* What the middleware puts in the place of a body.                         *)
LEMMA CapturedArrives ==
  ASSUME httpOpts \in HttpOptions, NEW a \in Arrivals
  PROVE  /\ CaptureRequestBody(a) \in Readers
         /\ Arrives(CaptureRequestBody(a), Bytes(a.bytes), Ending(a.fails))
<1>1. a.bytes \in Nat /\ CapturedAhead(a) \in Nat /\ Ending(a.fails) \in Endings
  BY HttpAssumption DEF CapturedAhead, Ending, Endings
<1> QED
  BY <1>1, NumberedBytes, ReadAheadArrives DEF CaptureRequestBody

LEMMA UptoProperties ==
  ASSUME NEW s \in Seq(Nat), NEW n \in Nat
  PROVE  /\ Upto(s, n) \in Seq(Nat)
         /\ Len(Upto(s, n)) = IF n < Len(s) THEN n ELSE Len(s)
         /\ \A i \in 1..Len(Upto(s, n)) : Upto(s, n)[i] = s[i]
<1> DEFINE m == IF n < Len(s) THEN n ELSE Len(s)
<1>1. Len(s) \in Nat /\ m \in Nat /\ m <= Len(s)
  BY LenProperties
<1>2. \A i \in 1..m : s[i] \in Nat
  BY <1>1, ElementOfSeq
<1>3. Upto(s, n) = SubSeq(s, 1, m)
  BY DEF Upto
<1> HIDE DEF m
<1>4. /\ SubSeq(s, 1, m) \in Seq(Nat)
      /\ Len(SubSeq(s, 1, m)) = IF 1 <= m THEN m - 1 + 1 ELSE 0
      /\ \A i \in 1..(m - 1 + 1) : SubSeq(s, 1, m)[i] = s[1 + i - 1]
  BY <1>1, <1>2, SubSeqProperties
<1>5. Len(SubSeq(s, 1, m)) = m
  BY <1>1, <1>4
<1> QED
  BY <1>1, <1>3, <1>4, <1>5 DEF m

-----------------------------------------------------------------------------
(* The response writer, and what the calls make of it.                      *)
LEMMA WriterFields ==
  ASSUME NEW w \in Writers
  PROVE  /\ w.status \in Nat /\ w.next \in Nat /\ w.sent \in Seq(Nat) /\ w.gone \in BOOLEAN
         /\ w.wrote \in BOOLEAN /\ w.code \in Nat /\ w.size \in Nat
         /\ w.kept \in Seq(Nat) /\ w.cut \in BOOLEAN
BY DEF Writers

LEMMA SendHeaderType ==
  ASSUME NEW w \in Writers
  PROVE  SendHeader(w) \in Writers
BY DEF SendHeader, Writers

LEMMA SetStatusType ==
  ASSUME NEW w \in Writers, NEW code \in Nat
  PROVE  SetStatus(w, code) \in Writers
BY DEF SetStatus, Writers

LEMMA AcceptType ==
  ASSUME NEW w \in Writers, NEW bytes \in Seq(Nat), NEW n \in Nat
  PROVE  Accept(w, bytes, n) \in Writers
<1> DEFINE h == IF Is("fiber") THEN w ELSE SendHeader(w)
<1>1. h \in Writers
  BY SendHeaderType
<1>2. h.sent \o Upto(bytes, n) \in Seq(Nat)
  <2>1. h.sent \in Seq(Nat) /\ Upto(bytes, n) \in Seq(Nat)
    BY <1>1, UptoProperties DEF Writers
  <2> QED
    BY <2>1, Concatenated, Zenon
<1>3. Accept(w, bytes, n) = [h EXCEPT !.sent = h.sent \o Upto(bytes, n), !.gone = n < Len(bytes)]
  BY DEF Accept
<1>4. (n < Len(bytes)) \in BOOLEAN
  OBVIOUS
<1> HIDE DEF h
<1> QED
  BY <1>1, <1>2, <1>3, <1>4 DEF Writers

LEMMA RwCaptureType ==
  ASSUME NEW w \in Writers, NEW bytes \in Seq(Nat), httpOpts.limit \in Nat
  PROVE  /\ RwCapture(w, bytes) \in Writers
         /\ RwCapture(w, bytes) = [w EXCEPT !.kept = RwCapture(w, bytes).kept,
                                            !.cut = RwCapture(w, bytes).cut]
<1> DEFINE r == httpOpts.limit - Len(w.kept)
<1>1. w.kept \in Seq(Nat) /\ Len(w.kept) \in Nat /\ Len(bytes) \in Nat /\ r \in Int
  BY LenProperties DEF Writers
<1>2. CASE w.cut \/ r <= 0
  BY <1>2 DEF RwCapture, Writers
<1>3. CASE ~w.cut /\ ~(r <= 0)
  <2>1. r \in Nat
    BY <1>1, <1>3
  <2>2. w.kept \o Upto(bytes, r) \in Seq(Nat)
    <3>1. Upto(bytes, r) \in Seq(Nat)
      BY <2>1, UptoProperties
    <3> QED
      BY <1>1, <3>1, Concatenated, Zenon
  <2>3. RwCapture(w, bytes) = [w EXCEPT !.kept = w.kept \o Upto(bytes, r), !.cut = Len(bytes) > r]
    BY <1>3 DEF RwCapture
  <2>4. (Len(bytes) > r) \in BOOLEAN
    OBVIOUS
  <2> HIDE DEF r
  <2> QED
    BY <2>2, <2>3, <2>4 DEF Writers
<1> QED
  BY <1>2, <1>3

LEMMA HandlerWriteType ==
  ASSUME NEW w \in Writers, NEW bytes \in Seq(Nat), NEW n \in Nat, httpOpts.limit \in Nat
  PROVE  HandlerWrite(w, bytes, n) \in Writers
<1> DEFINE c == IF KeepsBody THEN RwCapture(w, bytes) ELSE w
           d == [c EXCEPT !.wrote = TRUE, !.size = c.size + n]
<1>1. c \in Writers
  BY RwCaptureType
<1>2. d \in Writers
  <2>1. c.size + n \in Nat
    BY <1>1, WriterFields
  <2>2. ASSUME NEW k \in Nat PROVE [c EXCEPT !.wrote = TRUE, !.size = k] \in Writers
    <3> HIDE DEF c
    <3> QED
      BY <1>1 DEF Writers
  <2> QED
    BY <2>1, <2>2
<1>3. RwWrite(w, bytes, n) = Accept(d, bytes, n) /\ GinWrite(w, bytes, n) = Accept(c, bytes, n)
  BY DEF RwWrite, GinWrite
<1> HIDE DEF c, d
<1> QED
  BY <1>1, <1>2, <1>3, AcceptType DEF HandlerWrite

LEMMA HandlerWriteHeaderType ==
  ASSUME NEW w \in Writers, NEW code \in Nat
  PROVE  HandlerWriteHeader(w, code) \in Writers
<1> DEFINE d == [w EXCEPT !.wrote = TRUE, !.code = code]
<1>1. d \in Writers
  BY DEF Writers
<1>2. RwWriteHeader(w, code) = IF w.wrote THEN w ELSE SetStatus(d, code)
  BY DEF RwWriteHeader
<1> HIDE DEF d
<1> QED
  BY <1>1, <1>2, SetStatusType DEF HandlerWriteHeader

LEMMA CloseResponseType ==
  ASSUME NEW w \in Writers, NEW err \in Nat
  PROVE  CloseResponse(w, err) \in Writers
<1> DEFINE p == [w EXCEPT !.next = err, !.sent = ErrorPage]
<1>1. ErrorPage \in Seq(Nat)
  BY DEF ErrorPage
<1>2. p \in Writers
  BY <1>1 DEF Writers
<1>3. CloseResponse(w, err) = SendHeader(IF Is("fiber") /\ err # 0 THEN p ELSE w)
  BY Zenon DEF CloseResponse
<1> HIDE DEF p
<1> QED
  BY <1>2, <1>3, SendHeaderType

-----------------------------------------------------------------------------
(* Contexts, and what events are made of.                                   *)
LEMMA ContextTypes ==
  ASSUME NEW c \in Contexts, NEW id \in Id
  PROVE  /\ WithID(c, id) \in Contexts /\ GetOrGenerate(c, id) \in Contexts
         /\ WithCorrelationID(c, id) \in Contexts /\ OtelWithTrace(c, id) \in Contexts
         /\ c.corr \in Id /\ c.meta \in Meta /\ CorrelationID(c) \in Id /\ Stamp(c) \in Meta
<1>1. c.corr \in Id /\ c.meta \in Meta
  BY DEF Contexts
<1>2. \A m \in Meta : WithMeta(c, m) \in Contexts
  BY DEF WithMeta, Contexts
<1>3. WithID(c, id) \in Contexts
  BY DEF WithID, Contexts
<1>4. GetOrGenerate(c, id) \in Contexts
  BY <1>3 DEF GetOrGenerate
<1>5. WithCorrelationID(c, id) \in Contexts
  <2>1. [c.meta EXCEPT !.corr = id] \in Meta
    BY <1>1 DEF Meta
  <2>2. \A d \in Contexts, m \in Meta : WithMeta(d, m) \in Contexts
    BY DEF WithMeta, Contexts
  <2> QED
    BY <1>3, <2>1, <2>2 DEF WithCorrelationID
<1>6. OtelWithTrace(c, id) \in Contexts
  <2>1. [c.meta EXCEPT !.trace = id] \in Meta
    BY <1>1 DEF Meta
  <2> QED
    BY <1>2, <2>1 DEF OtelWithTrace, WithTrace
<1>7. CorrelationID(c) \in Id
  BY <1>1 DEF CorrelationID, Meta
<1>8. Stamp(c) \in Meta
  BY <1>1, <1>7 DEF Stamp, Meta
<1> QED
  BY <1>1, <1>3, <1>4, <1>5, <1>6, <1>7, <1>8

LEMMA ContextForType ==
  ASSUME NEW a \in Arrivals, NEW fresh \in Id
  PROVE  ContextFor(a, fresh) \in Contexts
<1> DEFINE c == IF a.header # NoId THEN WithID(a.context, a.header)
                ELSE GetOrGenerate(a.context, fresh)
           m == [corr |-> c.corr, trace |-> a.trace]
<1>1. a.header \in Id /\ a.trace \in Id /\ a.context \in Contexts
  BY HttpAssumption
<1>2. c \in Contexts
  BY <1>1, ContextTypes
<1>3. ContextFor(a, fresh) = WithMeta(c, m)
  BY DEF ContextFor
<1> HIDE DEF c
<1>4. m \in Meta
  BY <1>1, <1>2 DEF Meta, Contexts
<1> HIDE DEF m
<1>5. WithMeta(c, m) \in Contexts
  BY <1>2, <1>4 DEF WithMeta, Contexts
<1> QED
  BY <1>3, <1>5

LEMMA BodyTypes ==
  ASSUME NEW textual \in BOOLEAN, NEW bytes \in Seq(Nat), NEW limit \in Nat
  PROVE  NoBody \in Bodies /\ CaptureBody(textual, bytes, limit) \in Bodies
<1>1. NoBody \in Bodies
  BY EmptySeq DEF NoBody, Bodies
<1>2. Upto(bytes, limit) \in Seq(Nat) /\ (Len(bytes) > limit) \in BOOLEAN
  BY UptoProperties
<1> QED
  BY <1>1, <1>2 DEF CaptureBody, Bodies

LEMMA ArrivalFields ==
  ASSUME NEW a \in Arrivals \union {NoArrival}
  PROVE  a.textual \in BOOLEAN /\ a.bytes \in Nat /\ a.fails \in BOOLEAN
<1>1. CASE a = NoArrival
  BY <1>1 DEF NoArrival
<1>2. CASE a \in Arrivals
  BY <1>2, HttpAssumption
<1> QED
  BY <1>1, <1>2

LEMMA RequestBodyType ==
  ASSUME HttpTypeOK, NEW a \in Arrivals \union {NoArrival}
  PROVE  RequestBody(a) \in Bodies
<1>1. httpOpts.limit \in Nat
  BY HttpAssumption DEF HttpTypeOK
<1>2. a.textual \in BOOLEAN /\ a.bytes \in Nat
  BY ArrivalFields
<1> QED
  BY <1>1, <1>2, BodyTypes, NumberedBytes DEF RequestBody

LEMMA ResponseBodyType ==
  ASSUME HttpTypeOK, NEW w \in Writers, NEW status, NEW textual \in BOOLEAN
  PROVE  ResponseBody(w, status, textual) \in Bodies
<1>1. httpOpts.limit \in Nat
  BY HttpAssumption DEF HttpTypeOK
<1>2. w.sent \in Seq(Nat) /\ w.kept \in Seq(Nat) /\ w.cut \in BOOLEAN
  BY DEF Writers
<1>3. FiberBody(w, textual) \in Bodies /\ NoBody \in Bodies
  BY <1>1, <1>2, BodyTypes DEF FiberBody
<1>4. KeptBody(w, textual) \in Bodies
  BY <1>2, <1>3 DEF KeptBody, Bodies
<1> QED
  BY <1>3, <1>4 DEF ResponseBody

LEMMA EndOfType ==
  ASSUME NEW w \in Writers, NEW err \in Nat, NEW refused
  PROVE  LET e == EndOf(w, err, refused)
         IN  /\ e.status \in Nat /\ e.size \in Nat
             /\ e.event \in {"complete", "error", "none"}
             /\ e.event # "none" => e.event \in httpOpts.logs
<1>1. w.code \in Nat /\ w.size \in Nat /\ w.next \in Nat /\ Len(w.sent) \in Nat
  BY WriterFields, LenProperties
<1>2. Completion \in {"complete", "none"} /\ (Completion = "complete" => "complete" \in httpOpts.logs)
  BY DEF Completion
<1> DEFINE Good(e) == /\ e.status \in Nat /\ e.size \in Nat
                      /\ e.event \in {"complete", "error", "none"}
                      /\ e.event # "none" => e.event \in httpOpts.logs
<1>3. Good(NethttpEnd(w, err, refused))
  BY <1>1, <1>2 DEF NethttpEnd, Wants
<1>4. Good(GinEnd(w, err, refused))
  BY <1>1, <1>2 DEF GinEnd, Wants
<1>5. Good(FiberEnd(w, err, refused))
  BY <1>1, <1>2 DEF FiberEnd, Wants
<1> QED
  BY <1>3, <1>4, <1>5 DEF EndOf

LEMMA EventType ==
  ASSUME NEW event \in Stages, NEW stamp \in Meta, NEW request \in Bodies,
         NEW status \in Nat, NEW size \in Nat, NEW body \in Bodies
  PROVE  Event(event, stamp, request, status, size, body) \in Events
BY DEF Event, Events

LEMMA CounterTypes ==
  ASSUME NEW every, NEW d, NEW counter \in 0..(CounterSize - 1), NEW row \in Nat
  PROVE  /\ CounterAfter(every, d, counter) \in 0..(CounterSize - 1)
         /\ RowAfter(every, d, counter, row) \in Nat
<1>1. (counter + 1) % CounterSize \in 0..(CounterSize - 1)
  BY CounterAssumption
<1> QED
  BY <1>1 DEF CounterAfter, RowAfter, Bumped

-----------------------------------------------------------------------------
(* The variables keep their types.                                          *)
LEMMA InitTypes == HttpInit => HttpTypeOK
<1> SUFFICES ASSUME HttpInit PROVE HttpTypeOK
  OBVIOUS
<1>1. Background \in Contexts
  BY DEF Background, Contexts, Meta, Id
<1>2. ReadAhead(<<>>, 0, "eof") \in Readers
  BY EmptySeq, ReadAheadArrives DEF Endings
<1>3. Blank \in Writers
  BY EmptySeq DEF Blank, Writers
<1>4. <<>> \in Seq(Events)
  BY EmptySeq
<1>5. 0 \in 0..(CounterSize - 1)
  BY CounterAssumption
<1>6. /\ arrival \in [Requests -> Arrivals \union {NoArrival}]
      /\ base \in [Requests -> Contexts] /\ ctx \in [Requests -> Contexts]
      /\ inbound \in [Requests -> Readers]
      /\ out \in [Requests -> Writers] /\ plain \in [Requests -> Writers]
      /\ httpLog \in [Requests -> Seq(Events)]
  BY <1>1, <1>2, <1>3, <1>4 DEF HttpInit
<1>7. /\ httpOpts \in HttpOptions
      /\ phase \in [Requests -> {"new", "handling", "ended", "answered", "panicked"}]
      /\ httpCounter \in 0..(CounterSize - 1) /\ httpRow \in Nat
      /\ up \in BOOLEAN /\ handed \in [Requests -> Nat]
      /\ used \in [Requests -> SUBSET Quirks]
  BY <1>5 DEF HttpInit
<1>8. verdict \in [Requests -> [err : Nat, slow : BOOLEAN, refused : SUBSET Stages, status : Nat]]
  BY DEF HttpInit
<1> QED
  BY <1>6, <1>7, <1>8 DEF HttpTypeOK

LEMMA BeginTypes ==
  ASSUME HttpTypeOK, NEW x \in Requests, NEW a \in Arrivals, NEW fresh \in Id, NEW refused,
         Begin(x, a, fresh, refused)
  PROVE  HttpTypeOK'
<1>1. ContextFor(a, fresh) \in Contexts
  BY ContextForType
<1>2. CaptureRequestBody(a) \in Readers
  BY CapturedArrives DEF HttpTypeOK
<1> DEFINE e == Event("start", Stamp(ContextFor(a, fresh)), RequestBody(a), 0, 0, NoBody)
           l == IF Wants("start", refused) THEN <<e>> ELSE <<>>
<1>3. l \in Seq(Events)
  <2>1. Stamp(ContextFor(a, fresh)) \in Meta
    BY <1>1, ContextTypes DEF Id
  <2>2. RequestBody(a) \in Bodies /\ NoBody \in Bodies
    BY RequestBodyType, EmptySeq DEF NoBody, Bodies
  <2>3. e \in Events
    BY <2>1, <2>2, EventType DEF Stages
  <2> HIDE DEF e
  <2> QED
    BY <2>3
<1>4. /\ phase' = [phase EXCEPT ![x] = "handling"] /\ arrival' = [arrival EXCEPT ![x] = a]
      /\ base' = [base EXCEPT ![x] = ContextFor(a, fresh)]
      /\ ctx' = [ctx EXCEPT ![x] = ContextFor(a, fresh)]
      /\ inbound' = [inbound EXCEPT ![x] = CaptureRequestBody(a)]
      /\ httpLog' = [httpLog EXCEPT ![x] = l]
      /\ UNCHANGED <<httpOpts, httpCounter, httpRow, verdict, out, up, plain, handed, used>>
  BY DEF Begin
<1> HIDE DEF l
<1> QED
  BY <1>1, <1>2, <1>3, <1>4 DEF HttpTypeOK

LEMMA EndTypes ==
  ASSUME HttpTypeOK, NEW x \in Requests, NEW err \in Nat, NEW slow \in BOOLEAN,
         NEW refused \in SUBSET Stages, NEW c \in Contexts, End(x, err, slow, refused, c)
  PROVE  HttpTypeOK'
<1> DEFINE w == out[x]
           e == EndOf(w, err, refused)
           d == Decision(e.event, e.status, e.failing, slow)
           v == [err |-> err, slow |-> slow, refused |-> refused, status |-> e.status]
           ev == Event(e.event, Stamp(c), RequestBody(arrival[x]), e.status, e.size,
                       ResponseBody(w, e.status, arrival[x].textual))
           tells == e.event # "none" /\ ShouldLog(httpOpts.every, d, httpCounter, refused)
<1>1. w \in Writers /\ arrival[x] \in Arrivals \union {NoArrival}
  BY DEF HttpTypeOK
<1>2. /\ e.status \in Nat /\ e.size \in Nat /\ e.event \in {"complete", "error", "none"}
  BY <1>1, EndOfType
<1>3. e.event # "none" => ev \in Events
  <2>1. Stamp(c) \in Meta /\ RequestBody(arrival[x]) \in Bodies
    BY <1>1, ContextTypes, RequestBodyType DEF Id
  <2>2. ResponseBody(w, e.status, arrival[x].textual) \in Bodies
    BY <1>1, ResponseBodyType, ArrivalFields
  <2>3. e.event # "none" => e.event \in Stages
    BY <1>2 DEF Stages
  <2> HIDE DEF e, w
  <2> QED
    BY <1>2, <2>1, <2>2, <2>3, EventType
<1>4. v \in [err : Nat, slow : BOOLEAN, refused : SUBSET Stages, status : Nat]
  BY <1>2
<1>5. /\ phase' = [phase EXCEPT ![x] = "ended"] /\ verdict' = [verdict EXCEPT ![x] = v]
      /\ httpCounter' = CounterAfter(httpOpts.every, d, httpCounter)
      /\ httpRow' = RowAfter(httpOpts.every, d, httpCounter, httpRow)
      /\ httpLog' = [httpLog EXCEPT ![x] = IF tells THEN Append(httpLog[x], ev) ELSE httpLog[x]]
      /\ UNCHANGED <<httpOpts, arrival, base, handlerVars>>
  BY DEF End, HttpTypeOK
<1> HIDE DEF d, ev, v
<1>6. httpLog' \in [Requests -> Seq(Events)]
  <2>1. httpLog[x] \in Seq(Events)
    BY DEF HttpTypeOK
  <2>2. tells => Append(httpLog[x], ev) \in Seq(Events)
    BY <1>3, <2>1, AppendProperties
  <2> HIDE DEF tells
  <2> QED
    BY <1>5, <2>1, <2>2 DEF HttpTypeOK
<1>7. httpCounter' \in 0..(CounterSize - 1) /\ httpRow' \in Nat
  BY <1>5, CounterTypes DEF HttpTypeOK
<1> HIDE DEF tells, e
<1> QED
  BY <1>4, <1>5, <1>6, <1>7 DEF HttpTypeOK, handlerVars

LEMMA AnswerTypes ==
  ASSUME HttpTypeOK, NEW x \in Requests, Answer(x)
  PROVE  HttpTypeOK'
<1>1. verdict[x].err \in Nat
  BY DEF HttpTypeOK
<1>2. /\ CloseResponse(out[x], verdict[x].err) \in Writers
      /\ CloseResponse(plain[x], verdict[x].err) \in Writers
  BY <1>1, CloseResponseType DEF HttpTypeOK
<1>3. /\ phase' = [phase EXCEPT ![x] = "answered"]
      /\ out' = [out EXCEPT ![x] = CloseResponse(out[x], verdict[x].err)]
      /\ plain' = [plain EXCEPT ![x] = CloseResponse(plain[x], verdict[x].err)]
      /\ UNCHANGED <<ctx, inbound, up, handed, used, frameVars>>
  BY DEF Answer, HttpTypeOK
<1> QED
  BY <1>2, <1>3 DEF HttpTypeOK, frameVars

LEMMA RespondsTypes ==
  ASSUME HttpTypeOK, NEW x \in Requests, NEW w \in Writers, NEW p \in Writers,
         NEW quirks \in SUBSET Quirks, Responds(x, w, p, quirks),
         up' \in BOOLEAN, handed' \in [Requests -> Nat]
  PROVE  HttpTypeOK'
<1>1. /\ out' = [out EXCEPT ![x] = w] /\ plain' = [plain EXCEPT ![x] = p]
      /\ used' = [used EXCEPT ![x] = used[x] \union quirks]
      /\ UNCHANGED <<phase, ctx, inbound, frameVars>>
  BY DEF Responds, HttpTypeOK
<1>2. used[x] \union quirks \in SUBSET Quirks
  BY DEF HttpTypeOK
<1> QED
  BY <1>1, <1>2 DEF HttpTypeOK, frameVars

(* The bytes a handler writes go on where it was; so does what is kept.      *)
Following(h, k) == [i \in 1..k |-> h + i]

LEMMA FollowingBytes ==
  ASSUME NEW h \in Nat, NEW k \in Nat
  PROVE  /\ Following(h, k) \in Seq(Nat) /\ Len(Following(h, k)) = k
         /\ Bytes(h) \o Following(h, k) = Bytes(h + k)
<1>1. Following(h, k) \in Seq(Nat) /\ Len(Following(h, k)) = k
  BY DEF Following
<1>2. Bytes(h) \in Seq(Nat) /\ Bytes(h + k) \in Seq(Nat) /\ Len(Bytes(h)) = h /\ Len(Bytes(h + k)) = h + k
  BY DEF Bytes
<1> DEFINE s == Bytes(h)
           t == Following(h, k)
<1>3. /\ s \o t \in Seq(Nat) /\ Len(s \o t) = h + k
      /\ \A i \in 1..(h + k) : (s \o t)[i] = IF i <= h THEN s[i] ELSE t[i - h]
  <2> HIDE DEF s, t
  <2>1. s \in Seq(Nat) /\ t \in Seq(Nat) /\ Len(s) = h /\ Len(t) = k
    BY <1>1, <1>2 DEF s, t
  <2> QED
    BY <2>1, ConcatProperties
<1>4. \A i \in 1..(h + k) : (s \o t)[i] = Bytes(h + k)[i]
  <2>1. ASSUME NEW i \in 1..(h + k), i <= h PROVE (s \o t)[i] = Bytes(h + k)[i]
    <3>1. s[i] = i /\ Bytes(h + k)[i] = i
      BY <2>1 DEF Bytes
    <3> QED
      BY <1>3, <2>1, <3>1
  <2>2. ASSUME NEW i \in 1..(h + k), ~(i <= h) PROVE (s \o t)[i] = Bytes(h + k)[i]
    <3>1. i - h \in 1..k
      BY <2>2
    <3>2. t[i - h] = h + (i - h) /\ Bytes(h + k)[i] = i
      BY <3>1 DEF Bytes, Following
    <3> QED
      BY <1>3, <2>2, <3>2
  <2> QED
    BY <2>1, <2>2
<1>5. s \o t = Bytes(h + k)
  <2> DEFINE u == s \o t
             b == Bytes(h + k)
  <2>1. u \in Seq(Nat) /\ b \in Seq(Nat) /\ Len(u) = Len(b) /\ \A i \in 1..Len(u) : u[i] = b[i]
    BY <1>2, <1>3, <1>4
  <2> HIDE DEF u, b
  <2>2. u = b
    BY <2>1, SeqEqual
  <2> QED
    BY <2>2 DEF u, b
<1> QED
  BY <1>1, <1>5

LEMMA BeginningOfBytes ==
  ASSUME NEW h \in Nat, NEW k \in Nat, NEW n \in Nat
  PROVE  Upto(Following(h, k), n) = Following(h, IF n < k THEN n ELSE k)
<1> DEFINE m == IF n < k THEN n ELSE k
           s == Following(h, k)
           u == Upto(s, n)
           t == Following(h, m)
<1>1. m \in Nat /\ m <= k
  OBVIOUS
<1>2. s \in Seq(Nat) /\ Len(s) = k /\ t \in Seq(Nat) /\ Len(t) = m
  BY <1>1, FollowingBytes
<1>3. u \in Seq(Nat) /\ Len(u) = m /\ \A i \in 1..Len(u) : u[i] = s[i]
  <2> HIDE DEF s
  <2> QED
    BY <1>2, UptoProperties
<1>4. ASSUME NEW i \in 1..Len(u) PROVE u[i] = t[i]
  <2>1. i \in 1..m /\ i \in 1..k
    BY <1>1, <1>3
  <2>2. s[i] = h + i /\ t[i] = h + i
    BY <2>1 DEF Following
  <2> HIDE DEF s, t, u
  <2> QED
    BY <1>3, <2>2
<1> HIDE DEF u, t
<1>5. u = t
  BY <1>2, <1>3, <1>4, SeqEqual
<1> QED
  BY <1>5 DEF u, t

LEMMA BytesFollowNone ==
  ASSUME NEW h \in Nat, NEW n \in Nat
  PROVE  Bytes(h) = Following(0, h) /\ Upto(Bytes(h), n) = Bytes(IF n < h THEN n ELSE h)
<1>1. \A k \in Nat : Bytes(k) = Following(0, k)
  BY DEF Bytes, Following
<1> QED
  BY <1>1, BeginningOfBytes

LEMMA UnlabelledBytes ==
  ASSUME NEW k \in Nat
  PROVE  Unlabelled(k) \in Seq(Nat) /\ Len(Unlabelled(k)) = k
BY DEF Unlabelled

LEMMA HandlerTypes ==
  ASSUME HttpTypeOK, NEW x \in Requests, Handler(x)
  PROVE  HttpTypeOK'
<1>1. out[x] \in Writers /\ plain[x] \in Writers /\ handed[x] \in Nat /\ httpOpts.limit \in Nat
  BY HttpAssumption DEF HttpTypeOK
<1>2. ASSUME NEW code \in Codes, WriteHeader(x, code) PROVE HttpTypeOK'
  <2>1. code \in Nat
    BY HttpAssumption
  <2>2. HandlerWriteHeader(out[x], code) \in Writers /\ SetStatus(plain[x], code) \in Writers
    BY <1>1, <2>1, HandlerWriteHeaderType, SetStatusType
  <2>3. (IF code < 200 THEN {"informational"} ELSE {}) \in SUBSET Quirks
    BY DEF Quirks
  <2>4. up' \in BOOLEAN /\ handed' \in [Requests -> Nat]
    BY <1>2 DEF WriteHeader, HttpTypeOK
  <2> QED
    BY <1>2, <2>2, <2>3, <2>4, RespondsTypes DEF WriteHeader
<1>3. ASSUME NEW len \in 0..2, NEW n \in 0..len, Write(x, len, n) PROVE HttpTypeOK'
  <2> DEFINE bytes == Following(handed[x], len)
  <2>0. n \in Nat /\ len \in Nat
    OBVIOUS
  <2>1. bytes \in Seq(Nat)
    BY <1>1, <2>0, FollowingBytes, Zenon
  <2>2. HandlerWrite(out[x], bytes, n) \in Writers /\ Accept(plain[x], bytes, n) \in Writers
    BY <1>1, <2>0, <2>1, HandlerWriteType, AcceptType
  <2>3. up' \in BOOLEAN /\ handed' \in [Requests -> Nat]
    BY <1>1, <1>3, <2>0 DEF Write, HttpTypeOK
  <2>4. Responds(x, HandlerWrite(out[x], bytes, n), Accept(plain[x], bytes, n), {})
    BY <1>3 DEF Write, Following
  <2> HIDE DEF bytes
  <2> QED
    BY <2>2, <2>3, <2>4, RespondsTypes
<1>4. ASSUME NEW len \in 0..2, NEW n \in 0..len, WriteString(x, len, n) PROVE HttpTypeOK'
  <2>1. Unlabelled(len) \in Seq(Nat) /\ n \in Nat
    BY UnlabelledBytes
  <2>2. Accept(out[x], Unlabelled(len), n) \in Writers /\ Accept(plain[x], Unlabelled(len), n) \in Writers
    BY <1>1, <2>1, AcceptType
  <2>3. up' \in BOOLEAN /\ handed' \in [Requests -> Nat]
    BY <1>4 DEF WriteString, HttpTypeOK
  <2> QED
    BY <1>4, <2>2, <2>3, RespondsTypes DEF WriteString
<1>5. ASSUME NEW n \in 0..1, Copy(x, 1, n) PROVE HttpTypeOK'
  <2> DEFINE bytes == Following(handed[x], 1)
             loops == Is("nethttp") /\ Wrapped
             w == IF loops THEN out[x] ELSE HandlerWrite(out[x], bytes, n)
  <2>0. n \in Nat /\ 1 \in Nat
    OBVIOUS
  <2>1. bytes \in Seq(Nat)
    BY <1>1, <2>0, FollowingBytes, Zenon
  <2>2. w \in Writers /\ Accept(plain[x], bytes, n) \in Writers
    BY <1>1, <2>0, <2>1, HandlerWriteType, AcceptType
  <2>3. up' \in BOOLEAN /\ handed' \in [Requests -> Nat]
    BY <1>1, <1>5 DEF Copy, HttpTypeOK
  <2>4. Responds(x, w, Accept(plain[x], bytes, n), {"copy"})
    BY <1>5 DEF Copy, Following
  <2>5. {"copy"} \in SUBSET Quirks
    BY DEF Quirks
  <2> HIDE DEF bytes, w
  <2> QED
    BY <2>2, <2>3, <2>4, <2>5, RespondsTypes
<1>6. CASE Flush(x)
  <2>1. up' \in BOOLEAN /\ handed' \in [Requests -> Nat] /\ {"flush"} \in SUBSET Quirks
    BY <1>6 DEF Flush, HttpTypeOK, Quirks
  <2> QED
    BY <1>1, <1>6, <2>1, SendHeaderType, RespondsTypes DEF Flush
<1>7. CASE Hijack(x)
  <2> DEFINE w == [out[x] EXCEPT !.status = 101, !.gone = TRUE]
             p == [plain[x] EXCEPT !.status = 101, !.gone = TRUE]
  <2>1. w \in Writers /\ p \in Writers
    <3>1. ASSUME NEW o \in Writers PROVE [o EXCEPT !.status = 101, !.gone = TRUE] \in Writers
      BY <3>1 DEF Writers
    <3> QED
      BY <1>1, <3>1
  <2>2. up' \in BOOLEAN /\ handed' \in [Requests -> Nat] /\ {"hijack"} \in SUBSET Quirks
    <3>1. {"hijack"} \in SUBSET Quirks
      BY DEF Quirks
    <3>2. UNCHANGED <<up, handed>>
      BY <1>7, Zenon DEF Hijack
    <3> QED
      BY <3>1, <3>2 DEF HttpTypeOK
  <2>3. Responds(x, w, p, {"hijack"})
    BY <1>7 DEF Hijack
  <2> HIDE DEF w, p
  <2> QED
    BY <2>1, <2>2, <2>3, RespondsTypes
<1>8. CASE ReadBody(x)
  <2>1. inbound[x] \in Readers
    BY DEF HttpTypeOK
  <2>2. ReadOn(inbound[x]) \in Readers
    BY <1>8, <2>1, ReadOnArrives DEF ReadBody
  <2> QED
    BY <1>8, <2>2 DEF ReadBody, HttpTypeOK, frameVars
<1>9. CASE Panic(x)
  BY <1>9 DEF Panic, HttpTypeOK, handlerVars, frameVars
<1>10. ASSUME NEW c \in Contexts, NEW quirk \in Quirks, Derive(x, c, quirk) PROVE HttpTypeOK'
  BY <1>10 DEF Derive, HttpTypeOK, frameVars
<1>11. ASSUME NEW id \in Ids PROVE /\ WithID(ctx[x], id) \in Contexts
                                   /\ WithCorrelationID(ctx[x], id) \in Contexts
                                   /\ OtelWithTrace(ctx[x], id) \in Contexts
  BY ContextTypes DEF Id, HttpTypeOK
<1>12. {"renamed", "rebased", "traced"} \subseteq Quirks
  BY DEF Quirks
<1> QED
  BY <1>2, <1>3, <1>4, <1>5, <1>6, <1>7, <1>8, <1>9, <1>10, <1>11, <1>12 DEF Handler

LEMMA MiddlewareTypes ==
  ASSUME HttpTypeOK, NEW x \in Requests, Middleware(x)
  PROVE  HttpTypeOK'
<1>1. ASSUME NEW a \in Arrivals, NEW fresh \in {x, NoId}, NEW refused, Begin(x, a, fresh, refused)
      PROVE  HttpTypeOK'
  BY <1>1, IdsAssumption, BeginTypes DEF Id
<1>2. ASSUME NEW err \in Errors, NEW slow \in BOOLEAN, NEW refused \in SUBSET {"complete", "error"},
             NEW c \in EndContexts(x), End(x, err, slow, refused, c)
      PROVE  HttpTypeOK'
  <2>1. err \in Nat /\ refused \in SUBSET Stages
    BY HttpAssumption DEF Errors, Stages
  <2>2. c \in Contexts
    BY DEF EndContexts, HttpTypeOK
  <2> QED
    BY <1>2, <2>1, <2>2, EndTypes
<1> QED
  BY <1>1, <1>2, AnswerTypes DEF Middleware

LEMMA HttpTypes == HttpTypeOK /\ [HttpNext]_httpVars => HttpTypeOK'
<1>1. HttpTypeOK /\ UNCHANGED httpVars => HttpTypeOK'
  BY DEF HttpTypeOK, httpVars, handlerVars, frameVars
<1> QED
  BY <1>1, HandlerTypes, MiddlewareTypes DEF HttpNext

-----------------------------------------------------------------------------
(* What holds of each request, whatever its handler has done so far.        *)

(* The status that is sent if the response is closed now.                   *)
Final(w) == IF w.status = 0 THEN w.next ELSE w.status

Wraps == Is("nethttp") /\ Wrapped

(* The server's writer behind the wrapper is as without it; net/http's      *)
(* wrapper knows when the status is sent.                                   *)
Mirrors(x) ==
  /\ out[x].next # 0
  /\ ~Wraps \/ used[x] \cap {"informational", "copy"} = {} =>
       /\ SeenByClient(out[x]) = SeenByClient(plain[x])
       /\ Wraps /\ out[x].wrote => out[x].status # 0

(* What the middleware will say of the response is what the client gets.    *)
Truthful(w) ==
  IF Is("nethttp")
  THEN Wrapped => /\ w.code = Final(w) /\ w.size = Len(w.sent)
                  /\ w.wrote = (w.status # 0)
  ELSE w.next = Final(w)

Faithful(x) ==
  used[x] \cap Overlooked = {} =>
    /\ phase[x] \in {"new", "handling"} => Truthful(out[x])
    /\ phase[x] = "ended" => \A i \in EndEvents(x) :
         httpLog[x][i].status = Final(out[x]) /\ httpLog[x][i].size = Len(out[x].sent)
    /\ phase[x] = "answered" /\ ~(Is("fiber") /\ verdict[x].err # 0) => \A i \in EndEvents(x) :
         httpLog[x][i].status = out[x].status /\ httpLog[x][i].size = Len(out[x].sent)

(* What is kept of the body is its beginning, and known to be no more.      *)
KeptOf(w, n) ==
  /\ w.kept = Bytes(IF httpOpts.limit < n THEN httpOpts.limit ELSE n)
  /\ n > httpOpts.limit => w.cut
  /\ w.cut => n >= httpOpts.limit

Shown(x, body) ==
  LET written == IF Is("fiber") THEN plain[x].sent ELSE Bytes(handed[x])
  IN  body.value # <<>> =>
        /\ body.value = Upto(written, httpOpts.limit)
        /\ Len(written) > httpOpts.limit => body.cut

Captured(x) ==
  /\ phase[x] \in {"new", "handling"} /\ up /\ KeepsBody /\ ~Is("fiber")
     => KeptOf(out[x], handed[x])
  /\ phase[x] = "ended" => \A i \in EndEvents(x) : Shown(x, httpLog[x][i].body)

(* Its end is told of when it has ended, once.                              *)
Told(x) ==
  /\ phase[x] \in {"new", "handling", "panicked"} => EndEvents(x) = {}
  /\ \A i, j \in EndEvents(x) : i = j
  /\ /\ phase[x] \in {"ended", "answered"}
     /\ {"complete", "error"} \subseteq httpOpts.logs /\ verdict[x].refused = {}
     /\ verdict[x].err # 0 \/ verdict[x].status >= 400 \/ verdict[x].slow
     => EndEvents(x) # {}

HttpIInv == HttpTypeOK /\ \A x \in Requests : Mirrors(x) /\ Faithful(x) /\ Captured(x) /\ Told(x)

-----------------------------------------------------------------------------
(* A step of one request is not one of another's.                           *)
own(y) == <<phase[y], arrival[y], base[y], ctx[y], inbound[y], out[y], httpLog[y],
            plain[y], handed[y], used[y], verdict[y]>>

LEMMA OptionsStay ==
  ASSUME httpOpts' = httpOpts
  PROVE  /\ Wraps' = Wraps /\ KeepsBody' = KeepsBody /\ Overlooked' = Overlooked
         /\ \A a \in Adapters : Is(a)' = Is(a)
BY DEF Wraps, Wrapped, LogsAny, Is, KeepsBody, Overlooked

LEMMA Frame ==
  ASSUME NEW y \in Requests, UNCHANGED own(y), httpOpts' = httpOpts, up' => up
  PROVE  /\ Mirrors(y) => Mirrors(y)'
         /\ Faithful(y) => Faithful(y)'
         /\ Captured(y) => Captured(y)'
         /\ Told(y) => Told(y)'
<1>1. /\ phase'[y] = phase[y] /\ out'[y] = out[y] /\ httpLog'[y] = httpLog[y]
      /\ plain'[y] = plain[y] /\ handed'[y] = handed[y] /\ used'[y] = used[y]
      /\ verdict'[y] = verdict[y]
  BY DEF own
<1>2. EndEvents(y)' = EndEvents(y)
  BY <1>1 DEF EndEvents
<1>3. Mirrors(y) => Mirrors(y)'
  BY <1>1 DEF Mirrors, Wraps, Wrapped, LogsAny, Is, SeenByClient
<1>4. Faithful(y) => Faithful(y)'
  BY <1>1, <1>2 DEF Faithful, Truthful, Final, Wrapped, LogsAny, Is, Overlooked
<1>5. Captured(y) => Captured(y)'
  BY <1>1, <1>2 DEF Captured, KeptOf, Shown, KeepsBody, LogsAny, Is
<1>6. Told(y) => Told(y)'
  BY <1>1, <1>2 DEF Told
<1> QED
  BY <1>3, <1>4, <1>5, <1>6

LEMMA Others ==
  ASSUME HttpTypeOK, NEW x \in Requests, Middleware(x) \/ Handler(x)
  PROVE  /\ httpOpts' = httpOpts /\ (up' => up)
         /\ \A y \in Requests \ {x} : UNCHANGED own(y)
<1> DEFINE Goal == /\ httpOpts' = httpOpts /\ (up' => up)
                   /\ \A y \in Requests \ {x} : UNCHANGED own(y)
<1>1. ASSUME NEW a, NEW fresh, NEW refused, Begin(x, a, fresh, refused) PROVE Goal
  BY <1>1 DEF Begin, HttpTypeOK, own
<1>2. ASSUME NEW err, NEW slow, NEW refused, NEW c, End(x, err, slow, refused, c) PROVE Goal
  BY <1>2 DEF End, HttpTypeOK, own, handlerVars
<1>3. Answer(x) => Goal
  BY DEF Answer, HttpTypeOK, own, frameVars
<1>4. ASSUME NEW w, NEW p, NEW quirks, Responds(x, w, p, quirks),
             UNCHANGED handed \/ \E h : handed' = [handed EXCEPT ![x] = h]
      PROVE  Goal
  BY <1>4 DEF Responds, HttpTypeOK, own, frameVars, Handling
<1>5. ASSUME NEW code, WriteHeader(x, code) PROVE Goal
  BY <1>4, <1>5 DEF WriteHeader
<1>6. ASSUME NEW len, NEW n, Write(x, len, n) \/ WriteString(x, len, n) \/ Copy(x, len, n) PROVE Goal
  BY <1>4, <1>6 DEF Write, WriteString, Copy
<1>7. Flush(x) \/ Hijack(x) => Goal
  BY <1>4 DEF Flush, Hijack
<1>8. ReadBody(x) \/ Panic(x) => Goal
  <2>1. ASSUME NEW b, inbound' = [inbound EXCEPT ![x] = b],
               UNCHANGED <<phase, ctx, out, up, plain, handed, used, frameVars>>
        PROVE  Goal
    BY <2>1 DEF HttpTypeOK, own, frameVars
  <2>2. Panic(x) => Goal
    BY DEF Panic, HttpTypeOK, own, frameVars, handlerVars
  <2> QED
    BY <2>1, <2>2 DEF ReadBody
<1>9. ASSUME NEW c, NEW quirk, Derive(x, c, quirk) PROVE Goal
  BY <1>9 DEF Derive, HttpTypeOK, own, frameVars
<1> HIDE DEF Goal
<1>10. Middleware(x) => Goal
  BY <1>1, <1>2, <1>3 DEF Middleware
<1>11. ASSUME NEW id, \/ Derive(x, WithID(ctx[x], id), "renamed")
                      \/ Derive(x, WithCorrelationID(ctx[x], id), "rebased")
                      \/ Derive(x, OtelWithTrace(ctx[x], id), "traced")
       PROVE  Goal
  BY <1>9, <1>11
<1>12. Handler(x) => Goal
  BY <1>5, <1>6, <1>7, <1>8, <1>11 DEF Handler
<1> QED
  BY <1>10, <1>12 DEF Goal

-----------------------------------------------------------------------------
(* The calls, field by field.                                               *)
LEMMA SendHeaderFields ==
  ASSUME NEW w \in Writers
  PROVE  LET r == SendHeader(w)
         IN  /\ r.status = Final(w) /\ r.next = w.next /\ r.sent = w.sent /\ r.gone = w.gone
             /\ r.wrote = w.wrote /\ r.code = w.code /\ r.size = w.size
             /\ r.kept = w.kept /\ r.cut = w.cut
BY DEF SendHeader, Final, Writers

LEMMA SetStatusFields ==
  ASSUME NEW w \in Writers, NEW code
  PROVE  LET r == SetStatus(w, code)
         IN  /\ r.sent = w.sent /\ r.gone = w.gone /\ r.wrote = w.wrote /\ r.code = w.code
             /\ r.size = w.size /\ r.kept = w.kept /\ r.cut = w.cut
             /\ r.status = IF w.status = 0 /\ Is("nethttp") /\ ~(code < 200) THEN code ELSE w.status
             /\ r.next = IF w.status = 0 /\ ~Is("nethttp") THEN code ELSE w.next
BY DEF SetStatus, Writers

Sent(w) == IF Is("fiber") THEN w.status ELSE Final(w)

LEMMA AcceptFields ==
  ASSUME NEW w \in Writers, NEW bytes \in Seq(Nat), NEW n \in Nat
  PROVE  LET r == Accept(w, bytes, n)
         IN  /\ r.status = Sent(w) /\ r.next = w.next
             /\ r.sent = w.sent \o Upto(bytes, n) /\ r.gone = (n < Len(bytes))
             /\ r.wrote = w.wrote /\ r.code = w.code /\ r.size = w.size
             /\ r.kept = w.kept /\ r.cut = w.cut
<1> DEFINE h == IF Is("fiber") THEN w ELSE SendHeader(w)
           s == Upto(bytes, n)
           g == n < Len(bytes)
<1>1. h \in Writers /\ h.status = Sent(w)
      /\ h.next = w.next /\ h.sent = w.sent /\ h.wrote = w.wrote /\ h.code = w.code
      /\ h.size = w.size /\ h.kept = w.kept /\ h.cut = w.cut
  BY SendHeaderFields, SendHeaderType DEF Sent
<1>2. Accept(w, bytes, n) = [h EXCEPT !.sent = h.sent \o s, !.gone = g]
  BY DEF Accept
<1> HIDE DEF h, s, g
<1>3. Accept(w, bytes, n).sent = w.sent \o s /\ Accept(w, bytes, n).gone = g
  BY <1>1, <1>2 DEF Writers
<1>4. /\ Accept(w, bytes, n).status = h.status /\ Accept(w, bytes, n).next = h.next
      /\ Accept(w, bytes, n).wrote = h.wrote /\ Accept(w, bytes, n).code = h.code
      /\ Accept(w, bytes, n).size = h.size
      /\ Accept(w, bytes, n).kept = h.kept /\ Accept(w, bytes, n).cut = h.cut
  BY <1>1, <1>2 DEF Writers
<1> QED
  BY <1>1, <1>3, <1>4 DEF s, g

(* What is written is accepted; the wrapper counts it, and keeps its part.   *)
LEMMA HandlerWriteFields ==
  ASSUME NEW w \in Writers, NEW bytes \in Seq(Nat), NEW n \in Nat, httpOpts \in HttpOptions
  PROVE  LET r == HandlerWrite(w, bytes, n)
             a == Accept(w, bytes, n)
         IN  /\ SeenByClient(r) = SeenByClient(a)
             /\ Wraps => r.wrote /\ r.code = w.code /\ r.size = w.size + n
             /\ KeepsBody /\ ~Is("fiber")
                => r.kept = RwCapture(w, bytes).kept /\ r.cut = RwCapture(w, bytes).cut
<1>0. httpOpts.limit \in Nat /\ httpOpts.adapter \in Adapters
  BY HttpAssumption
<1> DEFINE c == IF KeepsBody THEN RwCapture(w, bytes) ELSE w
           k == c.size + n
           d == [c EXCEPT !.wrote = TRUE, !.size = k]
           r == HandlerWrite(w, bytes, n)
<1>1. c \in Writers
  BY <1>0, RwCaptureType
<1>2. /\ c.status = w.status /\ c.next = w.next /\ c.sent = w.sent /\ c.gone = w.gone
      /\ c.code = w.code /\ c.size = w.size
  <2>1. ASSUME NEW i, NEW j
        PROVE  LET v == [w EXCEPT !.kept = i, !.cut = j]
               IN  /\ v.status = w.status /\ v.next = w.next /\ v.sent = w.sent
                   /\ v.gone = w.gone /\ v.code = w.code /\ v.size = w.size
    BY DEF Writers
  <2>2. CASE KeepsBody
    <3>1. RwCapture(w, bytes) = [w EXCEPT !.kept = RwCapture(w, bytes).kept,
                                          !.cut = RwCapture(w, bytes).cut]
      BY <1>0, RwCaptureType
    <3> DEFINE i == RwCapture(w, bytes).kept
               j == RwCapture(w, bytes).cut
               v == [w EXCEPT !.kept = i, !.cut = j]
    <3>2. c = v
      BY <2>2, <3>1
    <3> HIDE DEF c, i, j
    <3> QED
      BY <2>1, <3>2
  <2> QED
    BY <2>2
<1>3. k \in Nat
  BY <1>1, WriterFields
<1>4. RwWrite(w, bytes, n) = Accept(d, bytes, n) /\ GinWrite(w, bytes, n) = Accept(c, bytes, n)
  BY DEF RwWrite, GinWrite
<1> HIDE DEF c, k
<1>5. /\ d \in Writers /\ d.status = c.status /\ d.next = c.next /\ d.sent = c.sent
      /\ d.code = c.code /\ d.wrote /\ d.size = k /\ d.kept = c.kept /\ d.cut = c.cut
  BY <1>1, <1>3 DEF Writers
<1> HIDE DEF d
<1>6. KeepsBody => c.kept = RwCapture(w, bytes).kept /\ c.cut = RwCapture(w, bytes).cut
  BY DEF c
<1>7. ASSUME NEW v \in Writers, v.status = w.status, v.next = w.next, v.sent = w.sent
      PROVE  SeenByClient(Accept(v, bytes, n)) = SeenByClient(Accept(w, bytes, n))
  <2> DEFINE p == Accept(v, bytes, n)
             q == Accept(w, bytes, n)
  <2>1. Sent(v) = Sent(w)
    BY <1>7 DEF Sent, Final
  <2>2. /\ p.status = Sent(v) /\ p.next = v.next
        /\ p.sent = v.sent \o Upto(bytes, n) /\ p.gone = (n < Len(bytes))
    BY <1>7, AcceptFields
  <2>3. /\ q.status = Sent(w) /\ q.next = w.next
        /\ q.sent = w.sent \o Upto(bytes, n) /\ q.gone = (n < Len(bytes))
    BY AcceptFields
  <2> HIDE DEF p, q
  <2>4. p.status = q.status /\ p.next = q.next /\ p.sent = q.sent /\ p.gone = q.gone
    BY <1>7, <2>1, <2>2, <2>3
  <2>5. SeenByClient(p) = SeenByClient(q)
    BY <2>4 DEF SeenByClient
  <2> QED
    BY <2>5 DEF p, q
<1>8. CASE Wraps
  <2>1. r = Accept(d, bytes, n) /\ ~Is("fiber")
    BY <1>4, <1>8 DEF HandlerWrite, Wraps, Is
  <2> HIDE DEF r
  <2>2. r.wrote = d.wrote /\ r.code = d.code /\ r.size = d.size /\ r.kept = d.kept /\ r.cut = d.cut
    <3> DEFINE a == Accept(d, bytes, n)
    <3>1. a.wrote = d.wrote /\ a.code = d.code /\ a.size = d.size /\ a.kept = d.kept /\ a.cut = d.cut
      BY ONLY <1>5, AcceptFields
    <3> QED
      BY <2>1, <3>1
  <2>3. r.size = w.size + n
    BY <2>2, <1>2, <1>5 DEF k
  <2>4. SeenByClient(r) = SeenByClient(Accept(w, bytes, n))
    BY <1>2, <1>5, <1>7, <2>1
  <2> QED
    BY <1>2, <1>5, <1>6, <2>2, <2>3, <2>4 DEF r
<1>9. CASE ~Wraps
  <2>1. CASE Is("gin")
    <3>1. r = Accept(c, bytes, n)
      BY <1>4, <1>9, <2>1 DEF HandlerWrite, Wraps
    <3> HIDE DEF r
    <3>2. r.kept = c.kept /\ r.cut = c.cut
      BY <3>1, <1>1, AcceptFields
    <3>3. SeenByClient(r) = SeenByClient(Accept(w, bytes, n))
      BY <1>1, <1>2, <1>7, <3>1
    <3> QED
      BY <1>6, <1>9, <3>2, <3>3 DEF r
  <2>2. CASE ~Is("gin")
    <3>1. r = Accept(w, bytes, n)
      BY <1>9, <2>2 DEF HandlerWrite, Wraps
    <3>2. KeepsBody => Is("fiber")
      BY <1>0, <1>9, <2>2 DEF KeepsBody, Wraps, Wrapped, Is, Adapters
    <3> QED
      BY <1>9, <3>1, <3>2
  <2> QED
    BY <2>1, <2>2
<1> QED
  BY <1>8, <1>9 DEF r

LEMMA HandlerWriteHeaderFields ==
  ASSUME NEW w \in Writers, NEW code \in Nat
  PROVE  LET r == HandlerWriteHeader(w, code)
         IN  /\ r.sent = w.sent /\ r.gone = w.gone /\ r.size = w.size
             /\ r.kept = w.kept /\ r.cut = w.cut
             /\ ~Wraps => r = SetStatus(w, code)
             /\ Wraps /\ w.wrote => r = w
             /\ Wraps /\ ~w.wrote =>
                  /\ r.wrote /\ r.code = code /\ r.next = w.next
                  /\ r.status = IF w.status = 0 /\ ~(code < 200) THEN code ELSE w.status
<1> DEFINE d == [w EXCEPT !.wrote = TRUE, !.code = code]
<1>1. /\ d \in Writers /\ d.status = w.status /\ d.next = w.next /\ d.sent = w.sent
      /\ d.gone = w.gone /\ d.size = w.size /\ d.kept = w.kept /\ d.cut = w.cut
      /\ d.wrote /\ d.code = code
  BY DEF Writers
<1>2. RwWriteHeader(w, code) = IF w.wrote THEN w ELSE SetStatus(d, code)
  BY DEF RwWriteHeader
<1> HIDE DEF d
<1>3. CASE ~Wraps
  BY <1>3, SetStatusFields DEF HandlerWriteHeader, Wraps
<1>4. CASE Wraps /\ w.wrote
  BY <1>2, <1>4 DEF HandlerWriteHeader, Wraps
<1>5. CASE Wraps /\ ~w.wrote
  <2>1. HandlerWriteHeader(w, code) = SetStatus(d, code) /\ Is("nethttp")
    BY <1>2, <1>5 DEF HandlerWriteHeader, Wraps
  <2> QED
    BY <1>1, <1>5, <2>1, SetStatusFields
<1> QED
  BY <1>3, <1>4, <1>5

-----------------------------------------------------------------------------
(* The response the client sees, with the wrapper and without.              *)
LEMMA SameSeen ==
  ASSUME NEW w, NEW p
  PROVE  (SeenByClient(w) = SeenByClient(p))
         <=> /\ w.status = p.status /\ w.next = p.next
             /\ w.sent = p.sent /\ w.gone = p.gone
BY DEF SeenByClient

LEMMA AfterResponse ==
  ASSUME HttpTypeOK, NEW x \in Requests, NEW w, NEW p, NEW quirks, Responds(x, w, p, quirks)
  PROVE  /\ phase[x] = "handling" /\ up /\ phase' = phase /\ httpLog' = httpLog
         /\ verdict' = verdict /\ httpOpts' = httpOpts
         /\ out'[x] = w /\ plain'[x] = p /\ used'[x] = used[x] \union quirks
BY DEF HttpTypeOK, Responds, Handling, frameVars

(* A call that does to the writer behind the wrapper what it does to one    *)
(* without keeps them alike.                                                *)
LEMMA MirrorsAfter ==
  ASSUME NEW x \in Requests, NEW w, NEW p, NEW quirks,
         httpOpts' = httpOpts, out'[x] = w, plain'[x] = p, used'[x] = used[x] \union quirks,
         w.next # 0,
         ~Wraps \/ (used[x] \union quirks) \cap {"informational", "copy"} = {} =>
           /\ SeenByClient(w) = SeenByClient(p)
           /\ Wraps /\ w.wrote => w.status # 0
  PROVE  Mirrors(x)'
BY OptionsStay DEF Mirrors, SeenByClient

LEMMA WriteHeaderMirrors ==
  ASSUME HttpTypeOK, NEW x \in Requests, Mirrors(x), NEW code \in Codes, WriteHeader(x, code)
  PROVE  Mirrors(x)'
<1> DEFINE o == out[x]
           q == plain[x]
           w == HandlerWriteHeader(o, code)
           p == SetStatus(q, code)
           quirks == IF code < 200 THEN {"informational"} ELSE {}
<1>1. code \in Nat /\ code # 0 /\ o \in Writers /\ q \in Writers
  BY HttpAssumption DEF HttpTypeOK
<1>2. Responds(x, w, p, quirks) /\ (code >= 200 \/ Is("nethttp"))
  BY DEF WriteHeader
<1>3. httpOpts' = httpOpts /\ out'[x] = w /\ plain'[x] = p /\ used'[x] = used[x] \union quirks
  BY <1>2, AfterResponse
<1>4. /\ o.next # 0
      /\ ~Wraps \/ used[x] \cap {"informational", "copy"} = {} =>
           /\ o.status = q.status /\ o.next = q.next /\ o.sent = q.sent /\ o.gone = q.gone
           /\ Wraps /\ o.wrote => o.status # 0
  BY SameSeen DEF Mirrors
<1>5. /\ p.sent = q.sent /\ p.gone = q.gone
      /\ p.status = IF q.status = 0 /\ Is("nethttp") /\ ~(code < 200) THEN code ELSE q.status
      /\ p.next = IF q.status = 0 /\ ~Is("nethttp") THEN code ELSE q.next
  BY <1>1, SetStatusFields
<1>6. /\ w.sent = o.sent /\ w.gone = o.gone
      /\ Wraps /\ o.wrote => w = o
      /\ Wraps /\ ~o.wrote =>
           /\ w.wrote /\ w.code = code /\ w.next = o.next
           /\ w.status = IF o.status = 0 /\ ~(code < 200) THEN code ELSE o.status
  BY <1>1, HandlerWriteHeaderFields
<1>7. ~Wraps =>
        /\ w.status = IF o.status = 0 /\ Is("nethttp") /\ ~(code < 200) THEN code ELSE o.status
        /\ w.next = IF o.status = 0 /\ ~Is("nethttp") THEN code ELSE o.next
  BY <1>1, HandlerWriteHeaderFields, SetStatusFields
<1>8. (used[x] \union quirks) \cap {"informational", "copy"} = {} =>
        used[x] \cap {"informational", "copy"} = {} /\ ~(code < 200)
  OBVIOUS
<1>9. Wraps => Is("nethttp")
  BY DEF Wraps
<1> HIDE DEF o, q, w, p, quirks
<1>10. w.next # 0
  BY <1>1, <1>4, <1>6, <1>7
<1>11. ~Wraps \/ (used[x] \union quirks) \cap {"informational", "copy"} = {} =>
         /\ w.status = p.status /\ w.next = p.next /\ w.sent = p.sent /\ w.gone = p.gone
         /\ Wraps /\ w.wrote => w.status # 0
  <2>1. CASE ~Wraps
    BY <1>4, <1>5, <1>6, <1>7, <2>1
  <2>2. CASE Wraps /\ o.wrote
    BY <1>4, <1>5, <1>6, <1>8, <1>9, <2>2
  <2>3. CASE Wraps /\ ~o.wrote
    BY <1>1, <1>4, <1>5, <1>6, <1>8, <1>9, <2>3
  <2> QED
    BY <2>1, <2>2, <2>3
<1>12. ~Wraps \/ (used[x] \union quirks) \cap {"informational", "copy"} = {} =>
         SeenByClient(w) = SeenByClient(p) /\ (Wraps /\ w.wrote => w.status # 0)
  BY <1>11, SameSeen
<1> QED
  BY <1>3, <1>10, <1>12, MirrorsAfter

(* Writing, by whatever call, and sending the header.                        *)
LEMMA AcceptMirrors ==
  ASSUME NEW o \in Writers, NEW q \in Writers, NEW bytes \in Seq(Nat), NEW n \in Nat,
         SeenByClient(o) = SeenByClient(q)
  PROVE  SeenByClient(Accept(o, bytes, n)) = SeenByClient(Accept(q, bytes, n))
<1> DEFINE w == Accept(o, bytes, n)
           p == Accept(q, bytes, n)
<1>1. o.status = q.status /\ o.next = q.next /\ o.sent = q.sent /\ o.gone = q.gone
  BY SameSeen
<1>2. Sent(o) = Sent(q)
  BY <1>1 DEF Sent, Final
<1>3. /\ w.status = Sent(o) /\ w.next = o.next
      /\ w.sent = o.sent \o Upto(bytes, n) /\ w.gone = (n < Len(bytes))
  BY AcceptFields
<1>4. /\ p.status = Sent(q) /\ p.next = q.next
      /\ p.sent = q.sent \o Upto(bytes, n) /\ p.gone = (n < Len(bytes))
  BY AcceptFields
<1> HIDE DEF w, p
<1>5. w.status = p.status /\ w.next = p.next /\ w.sent = p.sent /\ w.gone = p.gone
  BY <1>1, <1>2, <1>3, <1>4
<1>6. SeenByClient(w) = SeenByClient(p)
  BY <1>5, SameSeen
<1> QED
  BY <1>6 DEF w, p

LEMMA AcceptsMirror ==
  ASSUME HttpTypeOK, NEW x \in Requests, Mirrors(x), NEW bytes \in Seq(Nat), NEW n \in Nat,
         NEW w \in Writers, NEW quirks,
         Responds(x, w, Accept(plain[x], bytes, n), quirks), w.next # 0,
         ~Wraps \/ quirks \cap {"informational", "copy"} = {} =>
           /\ SeenByClient(w) = SeenByClient(Accept(out[x], bytes, n))
           /\ Wraps => w.status # 0
  PROVE  Mirrors(x)'
<1> DEFINE p == Accept(plain[x], bytes, n)
<1>1. httpOpts' = httpOpts /\ out'[x] = w /\ plain'[x] = p /\ used'[x] = used[x] \union quirks
  BY AfterResponse
<1>2. out[x] \in Writers /\ plain[x] \in Writers
  BY DEF HttpTypeOK
<1>3. ~Wraps \/ used[x] \cap {"informational", "copy"} = {} =>
        SeenByClient(Accept(out[x], bytes, n)) = SeenByClient(p)
  BY <1>2, AcceptMirrors DEF Mirrors
<1>4. (used[x] \union quirks) \cap {"informational", "copy"} = {} =>
        used[x] \cap {"informational", "copy"} = {} /\ quirks \cap {"informational", "copy"} = {}
  OBVIOUS
<1> HIDE DEF p
<1> QED
  BY <1>1, <1>3, <1>4, MirrorsAfter

LEMMA AcceptedNext ==
  ASSUME NEW w \in Writers, NEW bytes \in Seq(Nat), NEW n \in Nat, w.next # 0
  PROVE  LET a == Accept(w, bytes, n)
         IN  a.next # 0 /\ (Wraps => a.status # 0)
BY AcceptFields DEF Sent, Final, Wraps, Is

LEMMA WritesMirror ==
  ASSUME HttpTypeOK, NEW x \in Requests, Mirrors(x), NEW len \in 0..2, NEW n \in 0..len,
         Write(x, len, n) \/ WriteString(x, len, n) \/ (len = 1 /\ Copy(x, len, n))
  PROVE  Mirrors(x)'
<1> DEFINE o == out[x]
<1>1. o \in Writers /\ plain[x] \in Writers /\ handed[x] \in Nat /\ httpOpts \in HttpOptions
      /\ n \in Nat /\ len \in Nat /\ o.next # 0
  BY DEF HttpTypeOK, Mirrors
<1>2. ASSUME NEW bytes \in Seq(Nat)
      PROVE  /\ HandlerWrite(o, bytes, n) \in Writers
             /\ SeenByClient(HandlerWrite(o, bytes, n)) = SeenByClient(Accept(o, bytes, n))
             /\ HandlerWrite(o, bytes, n).next # 0
             /\ Wraps => HandlerWrite(o, bytes, n).status # 0
  <2>0. httpOpts.limit \in Nat
    BY <1>1, HttpAssumption
  <2>1. SeenByClient(HandlerWrite(o, bytes, n)) = SeenByClient(Accept(o, bytes, n))
    BY <1>1, HandlerWriteFields
  <2>2. HandlerWrite(o, bytes, n) \in Writers
    BY <1>1, <2>0, HandlerWriteType
  <2>3. Accept(o, bytes, n).next # 0 /\ (Wraps => Accept(o, bytes, n).status # 0)
    BY <1>1, AcceptedNext
  <2> HIDE DEF o
  <2> QED
    BY <2>1, <2>2, <2>3, SameSeen
<1> DEFINE bytes == Following(handed[x], len)
<1>3. bytes \in Seq(Nat)
  BY <1>1, FollowingBytes, Zenon
<1>4. CASE Write(x, len, n)
  <2>1. Responds(x, HandlerWrite(o, bytes, n), Accept(plain[x], bytes, n), {})
    BY <1>4 DEF Write, Following
  <2> HIDE DEF o, bytes
  <2> QED
    BY <1>1, <1>2, <1>3, <2>1, AcceptsMirror DEF o
<1>5. CASE WriteString(x, len, n)
  <2> DEFINE s == Unlabelled(len)
  <2>1. s \in Seq(Nat)
    BY <1>1, UnlabelledBytes
  <2>2. Responds(x, Accept(o, s, n), Accept(plain[x], s, n), {}) /\ Is("gin")
    BY <1>5 DEF WriteString
  <2> HIDE DEF s
  <2>3. Accept(o, s, n) \in Writers /\ Accept(o, s, n).next # 0
    BY <1>1, <2>1, AcceptType, AcceptedNext
  <2>4. ~Wraps
    BY <2>2 DEF Wraps, Is
  <2> QED
    BY <1>1, <2>1, <2>2, <2>3, <2>4, AcceptsMirror
<1>6. CASE len = 1 /\ Copy(x, len, n)
  <2> DEFINE w == IF Wraps THEN o ELSE HandlerWrite(o, bytes, n)
  <2>1. Responds(x, w, Accept(plain[x], bytes, n), {"copy"})
    BY <1>6 DEF Copy, Following, Wraps
  <2>2. w \in Writers /\ w.next # 0
    BY <1>1, <1>2, <1>3
  <2>3. ~Wraps \/ {"copy"} \cap {"informational", "copy"} = {} =>
          /\ SeenByClient(w) = SeenByClient(Accept(o, bytes, n))
          /\ Wraps => w.status # 0
    BY <1>2, <1>3
  <2> HIDE DEF w, bytes
  <2> QED
    BY <1>1, <1>3, <2>1, <2>2, <2>3, AcceptsMirror
<1> QED
  BY <1>4, <1>5, <1>6

LEMMA TakesMirror ==
  ASSUME HttpTypeOK, NEW x \in Requests, Mirrors(x), Flush(x) \/ Hijack(x)
  PROVE  Mirrors(x)'
<1> DEFINE o == out[x]
           q == plain[x]
<1>1. o \in Writers /\ q \in Writers
  BY DEF HttpTypeOK
<1>2. /\ o.next # 0
      /\ ~Wraps \/ used[x] \cap {"informational", "copy"} = {} =>
           /\ o.status = q.status /\ o.next = q.next /\ o.sent = q.sent /\ o.gone = q.gone
           /\ Wraps /\ o.wrote => o.status # 0
  BY SameSeen DEF Mirrors
<1>3. ASSUME NEW w, NEW p, NEW quirks, Responds(x, w, p, quirks), w.next = o.next,
             w.status # 0,
             SeenByClient(o) = SeenByClient(q) => SeenByClient(w) = SeenByClient(p)
      PROVE  Mirrors(x)'
  <2>1. httpOpts' = httpOpts /\ out'[x] = w /\ plain'[x] = p /\ used'[x] = used[x] \union quirks
    BY <1>3, AfterResponse
  <2>2. (used[x] \union quirks) \cap {"informational", "copy"} = {} =>
          used[x] \cap {"informational", "copy"} = {}
    OBVIOUS
  <2>3. ~Wraps \/ (used[x] \union quirks) \cap {"informational", "copy"} = {} =>
          SeenByClient(w) = SeenByClient(p)
    BY <1>2, <1>3, <2>2, SameSeen
  <2> QED
    BY <1>2, <1>3, <2>1, <2>3, MirrorsAfter
<1>4. CASE Flush(x)
  <2> DEFINE w == SendHeader(o)
             p == SendHeader(q)
  <2>1. w.status = Final(o) /\ w.next = o.next /\ w.sent = o.sent /\ w.gone = o.gone
    BY <1>1, SendHeaderFields
  <2>2. p.status = Final(q) /\ p.next = q.next /\ p.sent = q.sent /\ p.gone = q.gone
    BY <1>1, SendHeaderFields
  <2>3. Responds(x, w, p, {"flush"})
    BY <1>4 DEF Flush
  <2> HIDE DEF o, q, w, p
  <2>4. w.status # 0
    BY <1>2, <2>1 DEF Final
  <2>5. SeenByClient(o) = SeenByClient(q) => SeenByClient(w) = SeenByClient(p)
    BY <2>1, <2>2, SameSeen DEF Final
  <2> QED
    BY <1>3, <2>1, <2>3, <2>4, <2>5
<1>5. CASE Hijack(x)
  <2> DEFINE w == [o EXCEPT !.status = 101, !.gone = TRUE]
             p == [q EXCEPT !.status = 101, !.gone = TRUE]
  <2>1. w.status = 101 /\ w.next = o.next /\ w.sent = o.sent /\ w.gone = TRUE
    BY <1>1 DEF Writers
  <2>2. p.status = 101 /\ p.next = q.next /\ p.sent = q.sent /\ p.gone = TRUE
    BY <1>1 DEF Writers
  <2>3. Responds(x, w, p, {"hijack"})
    BY <1>5 DEF Hijack
  <2> HIDE DEF o, q, w, p
  <2>4. w.status # 0
    BY <2>1
  <2>5. w.status = p.status /\ w.gone = p.gone
    BY <2>1, <2>2, Zenon
  <2>6. SeenByClient(o) = SeenByClient(q) => SeenByClient(w) = SeenByClient(p)
    BY <2>1, <2>2, <2>5, SameSeen
  <2> QED
    BY <1>3, <2>1, <2>3, <2>4, <2>6
<1> QED
  BY <1>4, <1>5

(* The server's part when the middleware has returned.                       *)
LEMMA AnswerMirrors ==
  ASSUME HttpTypeOK, NEW x \in Requests, Mirrors(x), Answer(x)
  PROVE  Mirrors(x)'
<1> DEFINE o == out[x]
           q == plain[x]
           err == verdict[x].err
           page(v) == IF Is("fiber") /\ err # 0 THEN [v EXCEPT !.next = err, !.sent = ErrorPage] ELSE v
           w == SendHeader(page(o))
           p == SendHeader(page(q))
<1>1. o \in Writers /\ q \in Writers /\ err \in Nat
  BY DEF HttpTypeOK
<1>2. /\ httpOpts' = httpOpts /\ out'[x] = w /\ plain'[x] = p /\ used'[x] = used[x] \union {}
  BY DEF Answer, HttpTypeOK, CloseResponse, frameVars
<1>3. ASSUME NEW v \in Writers, v.next # 0
      PROVE  /\ page(v) \in Writers /\ page(v).next # 0
             /\ page(v).status = v.status /\ page(v).gone = v.gone
             /\ page(v).next = IF Is("fiber") /\ err # 0 THEN err ELSE v.next
             /\ page(v).sent = IF Is("fiber") /\ err # 0 THEN ErrorPage ELSE v.sent
  <2>1. ErrorPage \in Seq(Nat)
    BY DEF ErrorPage
  <2> QED
    BY <1>1, <1>3, <2>1 DEF Writers
<1>4. /\ o.next # 0
      /\ ~Wraps \/ used[x] \cap {"informational", "copy"} = {} =>
           o.status = q.status /\ o.next = q.next /\ o.sent = q.sent /\ o.gone = q.gone
  BY SameSeen DEF Mirrors
<1>5. /\ w.status = Final(page(o)) /\ w.next = page(o).next
      /\ w.sent = page(o).sent /\ w.gone = page(o).gone
  BY <1>1, <1>3, <1>4, SendHeaderFields
<1>6. ASSUME q.next # 0
      PROVE  /\ p.status = Final(page(q)) /\ p.next = page(q).next
             /\ p.sent = page(q).sent /\ p.gone = page(q).gone
  BY <1>1, <1>3, <1>6, SendHeaderFields
<1>7. w.status # 0 /\ w.next # 0
  <2>1. page(o).next # 0 /\ page(o).status = o.status
    BY <1>1, <1>3, <1>4
  <2> HIDE DEF page, o, w
  <2> QED
    BY <1>5, <2>1 DEF Final
<1>8. ~Wraps \/ used[x] \cap {"informational", "copy"} = {} =>
        w.status = p.status /\ w.next = p.next /\ w.sent = p.sent /\ w.gone = p.gone
  <2>1. SUFFICES ASSUME ~Wraps \/ used[x] \cap {"informational", "copy"} = {}
                 PROVE  w.status = p.status /\ w.next = p.next /\ w.sent = p.sent /\ w.gone = p.gone
    OBVIOUS
  <2>2. q.next # 0 /\ o.status = q.status /\ o.next = q.next /\ o.sent = q.sent /\ o.gone = q.gone
    BY <1>4, <2>1
  <2>3. /\ page(o).status = page(q).status /\ page(o).next = page(q).next
        /\ page(o).sent = page(q).sent /\ page(o).gone = page(q).gone
    BY <1>1, <1>3, <1>4, <2>2
  <2> HIDE DEF page, o, q, w, p
  <2> QED
    BY <1>5, <1>6, <2>2, <2>3 DEF Final
<1> HIDE DEF w, p, o, q
<1> QED
  BY <1>2, <1>7, <1>8, SameSeen, MirrorsAfter

LEMMA MirrorsStep ==
  ASSUME HttpTypeOK, NEW x \in Requests, Mirrors(x), Middleware(x) \/ Handler(x)
  PROVE  Mirrors(x)'
<1>1. CASE UNCHANGED <<httpOpts, out, plain>> /\ (used'[x] = used[x] \/ \E k \in {"renamed", "rebased", "traced"} : used'[x] = used[x] \union {k})
  <2>1. used'[x] \cap {"informational", "copy"} = used[x] \cap {"informational", "copy"}
    BY <1>1
  <2> QED
    BY <1>1, <2>1, OptionsStay DEF Mirrors, SeenByClient
<1>2. ASSUME NEW a, NEW fresh, NEW refused, Begin(x, a, fresh, refused) PROVE Mirrors(x)'
  BY <1>1, <1>2 DEF Begin
<1>3. ASSUME NEW err, NEW slow, NEW refused, NEW c, End(x, err, slow, refused, c) PROVE Mirrors(x)'
  BY <1>1, <1>3 DEF End, handlerVars
<1>4. ReadBody(x) \/ Panic(x) => Mirrors(x)'
  BY <1>1 DEF ReadBody, Panic, handlerVars, frameVars
<1>5. ASSUME NEW c, NEW quirk \in {"renamed", "rebased", "traced"}, Derive(x, c, quirk) PROVE Mirrors(x)'
  BY <1>1, <1>5 DEF Derive, HttpTypeOK, frameVars
<1>6. ASSUME NEW id, \/ Derive(x, WithID(ctx[x], id), "renamed")
                     \/ Derive(x, WithCorrelationID(ctx[x], id), "rebased")
                     \/ Derive(x, OtelWithTrace(ctx[x], id), "traced")
      PROVE  Mirrors(x)'
  BY <1>5, <1>6
<1>7. CASE Middleware(x)
  BY <1>2, <1>3, <1>7, AnswerMirrors DEF Middleware
<1>8. ASSUME NEW len \in 0..2, NEW n \in 0..len, Write(x, len, n) \/ WriteString(x, len, n)
      PROVE  Mirrors(x)'
  BY <1>8, WritesMirror
<1>9. ASSUME NEW n \in 0..1, Copy(x, 1, n) PROVE Mirrors(x)'
  BY <1>9, WritesMirror
<1>10. CASE Handler(x)
  BY <1>4, <1>6, <1>8, <1>9, <1>10, WriteHeaderMirrors, TakesMirror DEF Handler
<1> QED
  BY <1>7, <1>10

-----------------------------------------------------------------------------
(* The end of a request is told of once, and truthfully.                    *)
LEMMA EndTells ==
  ASSUME HttpTypeOK, NEW x \in Requests, Told(x), NEW err \in Nat, NEW slow \in BOOLEAN,
         NEW refused \in SUBSET Stages, NEW c \in Contexts, End(x, err, slow, refused, c)
  PROVE  LET e == EndOf(out[x], err, refused)
             d == Decision(e.event, e.status, e.failing, slow)
             tells == e.event # "none" /\ ShouldLog(httpOpts.every, d, httpCounter, refused)
         IN  /\ \A i \in EndEvents(x)' :
                  /\ tells /\ httpLog'[x][i].status = e.status /\ httpLog'[x][i].size = e.size
                  /\ httpLog'[x][i].body = ResponseBody(out[x], e.status, arrival[x].textual)
             /\ \A i, j \in EndEvents(x)' : i = j
             /\ tells => EndEvents(x)' # {}
<1> DEFINE e == EndOf(out[x], err, refused)
           d == Decision(e.event, e.status, e.failing, slow)
           tells == e.event # "none" /\ ShouldLog(httpOpts.every, d, httpCounter, refused)
           body == ResponseBody(out[x], e.status, arrival[x].textual)
           ev == Event(e.event, Stamp(c), RequestBody(arrival[x]), e.status, e.size, body)
           log == httpLog[x]
<1>1. EndEvents(x) = {} /\ log \in Seq(Events)
  BY DEF Told, End, Handling, HttpTypeOK
<1>2. httpLog'[x] = IF tells THEN Append(log, ev) ELSE log
  BY DEF End, HttpTypeOK
<1>3. ev.event = e.event /\ ev.status = e.status /\ ev.size = e.size /\ ev.body = body
  BY DEF Event
<1>4. e.event \in {"complete", "error", "none"}
  BY EndOfType DEF HttpTypeOK
<1>5. tells => ev.event # "start"
  BY <1>3, <1>4
<1> HIDE DEF tells, ev, e, d
<1>6. CASE ~tells
  <2>1. httpLog'[x] = log
    BY <1>2, <1>6
  <2>2. EndEvents(x)' = {}
    BY <1>1, <2>1 DEF EndEvents
  <2> QED
    BY <1>6, <2>2 DEF tells, e, d
<1>7. CASE tells
  <2>1. httpLog'[x] = Append(log, ev)
    BY <1>2, <1>7
  <2> DEFINE n == Len(log)
  <2> HIDE DEF log
  <2>2. n \in Nat /\ DOMAIN log = 1..n
    BY <1>1, LenProperties
  <2>3. /\ DOMAIN Append(log, ev) = 1..(n + 1) /\ Append(log, ev)[n + 1] = ev
        /\ \A i \in 1..n : Append(log, ev)[i] = log[i]
    BY <1>1, <2>2
  <2>4. \A i \in 1..n : log[i].event = "start"
    BY <1>1, <2>2 DEF EndEvents, log
  <2>5. EndEvents(x)' = {n + 1}
    <3>1. EndEvents(x)' = {i \in DOMAIN httpLog'[x] : httpLog'[x][i].event # "start"}
      BY DEF EndEvents
    <3>2. EndEvents(x)' = {i \in 1..(n + 1) : Append(log, ev)[i].event # "start"}
      BY <2>1, <2>3, <3>1
    <3> QED
      BY <1>5, <1>7, <2>2, <2>3, <2>4, <3>2
  <2>6. httpLog'[x][n + 1] = ev
    BY <2>1, <2>3
  <2> QED
    BY <1>3, <1>7, <2>5, <2>6 DEF tells, e, d
<1> QED
  BY <1>6, <1>7

(* What is trouble to the middleware is neither sampled out nor left alone.  *)
LEMMA TroubleTells ==
  ASSUME HttpTypeOK, NEW x \in Requests, NEW err \in Nat, NEW slow \in BOOLEAN,
         {"complete", "error"} \subseteq httpOpts.logs, err = 0 \/ ~Is("nethttp"),
         LET e == EndOf(out[x], err, {}) IN err # 0 \/ e.status >= 400 \/ slow
  PROVE  LET e == EndOf(out[x], err, {})
             d == Decision(e.event, e.status, e.failing, slow)
         IN  e.event # "none" /\ ShouldLog(httpOpts.every, d, httpCounter, {})
<1> DEFINE e == EndOf(out[x], err, {})
           d == Decision(e.event, e.status, e.failing, slow)
<1>1. Completion = "complete" /\ Wants("error", {})
  BY DEF Completion, Wants
<1>2. e.event # "none" /\ (err # 0 => e.failing)
  <2>1. NethttpEnd(out[x], err, {}).event # "none"
    BY <1>1 DEF NethttpEnd
  <2>2. GinEnd(out[x], err, {}).event # "none" /\ (err # 0 => GinEnd(out[x], err, {}).failing)
    BY <1>1 DEF GinEnd
  <2>3. FiberEnd(out[x], err, {}).event # "none" /\ (err # 0 => FiberEnd(out[x], err, {}).failing)
    BY <1>1 DEF FiberEnd
  <2> QED
    BY <2>1, <2>2, <2>3 DEF EndOf
<1> HIDE DEF e
<1>3. IsImportant(d)
  BY <1>2 DEF IsImportant, Decision, e
<1>4. ~Counted(httpOpts.every, d)
  BY <1>3 DEF Counted
<1> QED
  BY <1>2, <1>4 DEF ShouldLog, ShouldKeep, e

LEMMA EndTold ==
  ASSUME HttpTypeOK, NEW x \in Requests, Told(x), NEW err \in Nat, NEW slow \in BOOLEAN,
         NEW refused \in SUBSET Stages, NEW c \in Contexts, End(x, err, slow, refused, c)
  PROVE  Told(x)'
<1> DEFINE e == EndOf(out[x], err, refused)
<1>1. /\ phase'[x] = "ended" /\ httpOpts' = httpOpts
      /\ verdict'[x] = [err |-> err, slow |-> slow, refused |-> refused, status |-> e.status]
      /\ err = 0 \/ ~Is("nethttp")
  BY DEF End, HttpTypeOK
<1>2. \A i, j \in EndEvents(x)' : i = j
  BY EndTells
<1>3. ASSUME {"complete", "error"} \subseteq httpOpts.logs, refused = {},
             err # 0 \/ e.status >= 400 \/ slow
      PROVE  EndEvents(x)' # {}
  BY <1>1, <1>3, EndTells, TroubleTells
<1>4. /\ verdict'[x].err = err /\ verdict'[x].slow = slow
      /\ verdict'[x].refused = refused /\ verdict'[x].status = e.status
  BY <1>1
<1> HIDE DEF e
<1> QED
  BY <1>1, <1>2, <1>3, <1>4 DEF Told

LEMMA BeginTold ==
  ASSUME HttpTypeOK, NEW x \in Requests, NEW a, NEW fresh, NEW refused, Begin(x, a, fresh, refused)
  PROVE  EndEvents(x)' = {}
<1> DEFINE ev == Event("start", Stamp(ContextFor(a, fresh)), RequestBody(a), 0, 0, NoBody)
<1>1. httpLog'[x] = IF Wants("start", refused) THEN <<ev>> ELSE <<>>
  BY DEF Begin, HttpTypeOK
<1>2. ev.event = "start"
  BY DEF Event
<1> HIDE DEF ev
<1> QED
  BY <1>1, <1>2 DEF EndEvents

LEMMA ToldStep ==
  ASSUME HttpTypeOK, NEW x \in Requests, Told(x), Middleware(x) \/ Handler(x)
  PROVE  Told(x)'
<1>0. httpOpts' = httpOpts
  BY Others
<1>1. ASSUME NEW a, NEW fresh, NEW refused, Begin(x, a, fresh, refused) PROVE Told(x)'
  <2>1. phase'[x] = "handling"
    BY <1>1 DEF Begin, HttpTypeOK
  <2> QED
    BY <1>1, <2>1, BeginTold DEF Told
<1>2. ASSUME NEW err \in Errors, NEW slow \in BOOLEAN, NEW refused \in SUBSET {"complete", "error"},
             NEW c \in EndContexts(x), End(x, err, slow, refused, c)
      PROVE  Told(x)'
  <2>1. err \in Nat /\ refused \in SUBSET Stages
    BY HttpAssumption DEF Errors, Stages
  <2>2. c \in Contexts
    BY DEF EndContexts, HttpTypeOK
  <2> QED
    BY <1>2, <2>1, <2>2, EndTold
<1>3. ASSUME UNCHANGED <<httpLog, verdict>>,
             \/ phase'[x] = phase[x]
             \/ phase[x] = "ended" /\ phase'[x] = "answered"
             \/ phase[x] = "handling" /\ phase'[x] = "panicked"
      PROVE  Told(x)'
  <2>1. EndEvents(x)' = EndEvents(x)
    BY <1>3 DEF EndEvents
  <2> QED
    BY <1>0, <1>3, <2>1 DEF Told
<1>4. Answer(x) => Told(x)'
  BY <1>3 DEF Answer, HttpTypeOK, frameVars
<1>5. ASSUME NEW w, NEW p, NEW quirks, Responds(x, w, p, quirks) PROVE Told(x)'
  BY <1>3, <1>5 DEF Responds, frameVars
<1>6. ASSUME NEW code, WriteHeader(x, code) PROVE Told(x)'
  BY <1>5, <1>6 DEF WriteHeader
<1>7. ASSUME NEW len, NEW n, Write(x, len, n) \/ WriteString(x, len, n) \/ Copy(x, len, n) PROVE Told(x)'
  BY <1>5, <1>7 DEF Write, WriteString, Copy
<1>8. Flush(x) \/ Hijack(x) => Told(x)'
  BY <1>5 DEF Flush, Hijack
<1>9. ReadBody(x) \/ Panic(x) => Told(x)'
  BY <1>3 DEF ReadBody, Panic, HttpTypeOK, frameVars, handlerVars, Handling
<1>10. ASSUME NEW id, \/ Derive(x, WithID(ctx[x], id), "renamed")
                      \/ Derive(x, WithCorrelationID(ctx[x], id), "rebased")
                      \/ Derive(x, OtelWithTrace(ctx[x], id), "traced")
       PROVE  Told(x)'
  BY <1>3, <1>10 DEF Derive, frameVars
<1>11. CASE Middleware(x)
  BY <1>1, <1>2, <1>4, <1>11 DEF Middleware
<1>12. CASE Handler(x)
  BY <1>6, <1>7, <1>8, <1>9, <1>10, <1>12 DEF Handler
<1> QED
  BY <1>11, <1>12

(* A handler that does nothing the wrappers overlook.                        *)
LEMMA FaithfulAfter ==
  ASSUME NEW x \in Requests, Faithful(x), httpOpts' = httpOpts,
         phase[x] = "handling", phase'[x] = "handling", used[x] \subseteq used'[x],
         used'[x] \cap Overlooked = {} /\ Truthful(out[x]) => Truthful(out'[x])
  PROVE  Faithful(x)'
<1>1. Overlooked' = Overlooked
  BY OptionsStay
<1>2. used'[x] \cap Overlooked = {} => Truthful(out'[x])
  BY DEF Faithful
<1>3. Truthful(out[x])' = Truthful(out'[x])
  BY DEF Truthful, Final, Wrapped, LogsAny, Is
<1> QED
  BY <1>1, <1>2, <1>3 DEF Faithful

LEMMA WriteHeaderFaithful ==
  ASSUME HttpTypeOK, NEW x \in Requests, Faithful(x), NEW code \in Codes, WriteHeader(x, code)
  PROVE  Faithful(x)'
<1> DEFINE o == out[x]
           w == HandlerWriteHeader(o, code)
           quirks == IF code < 200 THEN {"informational"} ELSE {}
<1>1. code \in Nat /\ code # 0 /\ o \in Writers
  BY HttpAssumption DEF HttpTypeOK
<1>2. /\ phase[x] = "handling" /\ phase'[x] = "handling" /\ httpOpts' = httpOpts
      /\ out'[x] = w /\ used'[x] = used[x] \union quirks
  BY AfterResponse DEF WriteHeader
<1>3. /\ w.sent = o.sent /\ w.size = o.size
      /\ Wraps /\ o.wrote => w = o
      /\ Wraps /\ ~o.wrote =>
           /\ w.wrote /\ w.code = code /\ w.next = o.next
           /\ w.status = IF o.status = 0 /\ ~(code < 200) THEN code ELSE o.status
  BY <1>1, HandlerWriteHeaderFields
<1>4. ~Wraps =>
        /\ w.status = IF o.status = 0 /\ Is("nethttp") /\ ~(code < 200) THEN code ELSE o.status
        /\ w.next = IF o.status = 0 /\ ~Is("nethttp") THEN code ELSE o.next
  BY <1>1, HandlerWriteHeaderFields, SetStatusFields
<1>5. used'[x] \cap Overlooked = {} => ~(code < 200)
  BY <1>2 DEF Overlooked
<1>6. w \in Writers
  BY <1>1, HandlerWriteHeaderType
<1> HIDE DEF o, w, quirks
<1>7. ~(code < 200) /\ Truthful(o) => Truthful(w)
  <2>1. CASE Is("nethttp") /\ ~Wrapped
    BY <2>1 DEF Truthful
  <2>2. CASE Is("nethttp") /\ Wrapped /\ o.wrote
    BY <1>3, <2>2 DEF Truthful, Wraps
  <2>3. CASE Is("nethttp") /\ Wrapped /\ ~o.wrote
    <3>1. w.wrote /\ w.code = code /\ w.status = IF o.status = 0 /\ ~(code < 200) THEN code ELSE o.status
      BY <1>3, <2>3 DEF Wraps
    <3>2. SUFFICES ASSUME ~(code < 200), Truthful(o) PROVE Truthful(w)
      OBVIOUS
    <3>3. o.status = 0 /\ o.size = Len(o.sent)
      <4>1. o.wrote = (o.status # 0) /\ o.size = Len(o.sent)
        BY <2>3, <3>2 DEF Truthful
      <4> QED
        BY <2>3, <4>1
    <3>4. w.status = code /\ w.status # 0 /\ w.size = Len(w.sent)
      BY <1>1, <1>3, <3>1, <3>2, <3>3
    <3>5. w.wrote = TRUE
      BY <1>6, <3>1 DEF Writers
    <3> QED
      BY <2>3, <3>1, <3>4, <3>5 DEF Truthful, Final
  <2>4. CASE ~Is("nethttp")
    BY <1>1, <1>4, <2>4 DEF Truthful, Final, Wraps
  <2> QED
    BY <2>1, <2>2, <2>3, <2>4
<1> QED
  BY <1>2, <1>5, <1>7, FaithfulAfter DEF o

LEMMA LengthSent ==
  ASSUME NEW s \in Seq(Nat), NEW bytes \in Seq(Nat), NEW n \in Nat, n <= Len(bytes)
  PROVE  Len(s \o Upto(bytes, n)) = Len(s) + n
<1> DEFINE u == Upto(bytes, n)
<1>1. u \in Seq(Nat) /\ Len(u) = n
  BY UptoProperties, LenProperties
<1> HIDE DEF u
<1>2. Len(s \o u) = Len(s) + Len(u)
  BY <1>1, ConcatProperties
<1> QED
  BY <1>1, <1>2 DEF u

LEMMA AcceptTruthful ==
  ASSUME NEW o \in Writers, NEW bytes \in Seq(Nat), NEW n \in Nat, n <= Len(bytes), NEW w \in Writers,
         SeenByClient(w) = SeenByClient(Accept(o, bytes, n)),
         Wraps => w.wrote /\ w.code = o.code /\ w.size = o.size + n,
         o.next # 0, Truthful(o)
  PROVE  Truthful(w)
<1> DEFINE a == Accept(o, bytes, n)
<1>1. a.status = Sent(o) /\ a.next = o.next /\ a.sent = o.sent \o Upto(bytes, n)
  BY AcceptFields
<1> HIDE DEF a
<1>2. w.status = Sent(o) /\ w.next = o.next /\ w.sent = o.sent \o Upto(bytes, n)
  BY <1>1, SameSeen DEF a
<1>3. CASE Wraps
  <2>1. Is("nethttp") /\ Wrapped /\ ~Is("fiber")
    BY <1>3 DEF Wraps, Is
  <2>2. o.code = Final(o) /\ o.size = Len(o.sent)
    BY <2>1 DEF Truthful
  <2>3. w.status = Final(o) /\ Final(o) # 0
    BY <1>2, <2>1 DEF Sent, Final
  <2>4. w.size = Len(w.sent)
    <3>1. Len(o.sent \o Upto(bytes, n)) = Len(o.sent) + n
      BY WriterFields, LengthSent
    <3> QED
      BY <1>2, <1>3, <2>2, <3>1
  <2>5. w.wrote = TRUE
    BY <1>3, WriterFields
  <2> QED
    BY <1>3, <2>1, <2>2, <2>3, <2>4, <2>5 DEF Truthful, Final
<1>4. CASE ~Wraps
  <2>1. CASE Is("nethttp")
    BY <1>4, <2>1 DEF Truthful, Wraps
  <2>2. CASE ~Is("nethttp")
    BY <1>2, <2>2 DEF Truthful, Sent, Final
  <2> QED
    BY <2>1, <2>2
<1> QED
  BY <1>3, <1>4

LEMMA WritesFaithful ==
  ASSUME HttpTypeOK, NEW x \in Requests, Faithful(x), Mirrors(x), NEW len \in 0..2, NEW n \in 0..len,
         Write(x, len, n) \/ WriteString(x, len, n) \/ (len = 1 /\ Copy(x, len, n))
  PROVE  Faithful(x)'
<1> DEFINE o == out[x]
           bytes == Following(handed[x], len)
<1>1. o \in Writers /\ handed[x] \in Nat /\ httpOpts \in HttpOptions
      /\ n \in Nat /\ len \in Nat /\ o.next # 0
  BY DEF HttpTypeOK, Mirrors
<1>2. bytes \in Seq(Nat) /\ Len(bytes) = len /\ n <= len
  <2>1. bytes \in Seq(Nat) /\ Len(bytes) = len
    BY <1>1, FollowingBytes, Zenon
  <2> QED
    BY <2>1
<1>3. ASSUME NEW w, NEW p, NEW quirks, Responds(x, w, p, quirks), Truthful(o) => Truthful(w)
      PROVE  Faithful(x)'
  <2>1. /\ phase[x] = "handling" /\ phase'[x] = "handling" /\ httpOpts' = httpOpts
        /\ out'[x] = w /\ used'[x] = used[x] \union quirks
    BY <1>3, AfterResponse
  <2> QED
    BY <1>3, <2>1, FaithfulAfter
<1>4. Truthful(o) => Truthful(HandlerWrite(o, bytes, n))
  <2> DEFINE w == HandlerWrite(o, bytes, n)
  <2>1. w \in Writers
    BY <1>1, <1>2, HttpAssumption, HandlerWriteType
  <2>2. /\ SeenByClient(w) = SeenByClient(Accept(o, bytes, n))
        /\ Wraps => w.wrote /\ w.code = o.code /\ w.size = o.size + n
    BY <1>1, <1>2, HandlerWriteFields
  <2> HIDE DEF w, o, bytes
  <2>3. Truthful(o) => Truthful(w)
    BY <1>1, <1>2, <2>1, <2>2, AcceptTruthful
  <2> QED
    BY <2>3 DEF w
<1>5. CASE Write(x, len, n)
  <2>1. Responds(x, HandlerWrite(o, bytes, n), Accept(plain[x], bytes, n), {})
    BY <1>5 DEF Write, Following
  <2> QED
    BY <1>3, <1>4, <2>1
<1>6. CASE WriteString(x, len, n)
  <2> DEFINE s == Unlabelled(len)
  <2>1. s \in Seq(Nat) /\ n <= Len(s)
    BY <1>1, <1>2, UnlabelledBytes
  <2>2. Responds(x, Accept(o, s, n), Accept(plain[x], s, n), {}) /\ ~Wraps
    BY <1>6 DEF WriteString, Wraps, Is
  <2> HIDE DEF s, o
  <2>3. Truthful(o) => Truthful(Accept(o, s, n))
    BY <1>1, <2>1, <2>2, AcceptTruthful, AcceptType
  <2> QED
    BY <1>3, <2>2, <2>3
<1>7. CASE len = 1 /\ Copy(x, len, n)
  <2> DEFINE w == IF Wraps THEN o ELSE HandlerWrite(o, bytes, n)
  <2>1. Responds(x, w, Accept(plain[x], bytes, n), {"copy"})
    BY <1>7 DEF Copy, Following, Wraps
  <2>2. Truthful(o) => Truthful(w)
    BY <1>4
  <2> HIDE DEF w
  <2> QED
    BY <1>3, <2>1, <2>2
<1> QED
  BY <1>5, <1>6, <1>7

LEMMA TakesFaithful ==
  ASSUME HttpTypeOK, NEW x \in Requests, Faithful(x), Flush(x) \/ Hijack(x)
  PROVE  Faithful(x)'
<1> DEFINE o == out[x]
<1>1. CASE Flush(x)
  <2>1. /\ phase[x] = "handling" /\ phase'[x] = "handling" /\ httpOpts' = httpOpts
        /\ out'[x] = SendHeader(o) /\ used'[x] = used[x] \union {"flush"}
    BY <1>1, AfterResponse DEF Flush
  <2>2. used'[x] \cap Overlooked = {} => ~Is("nethttp")
    BY <2>1 DEF Overlooked
  <2>3. o \in Writers
    BY DEF HttpTypeOK
  <2>4. SendHeader(o).status = Final(o) /\ SendHeader(o).next = o.next
    BY <2>3, SendHeaderFields
  <2> DEFINE w == SendHeader(o)
  <2> HIDE DEF o, w
  <2>5. ~Is("nethttp") /\ Truthful(o) => Truthful(w)
    BY <2>4 DEF Truthful, Final, w
  <2> QED
    BY <2>1, <2>2, <2>5, FaithfulAfter DEF o, w
<1>2. CASE Hijack(x)
  <2>1. /\ phase[x] = "handling" /\ phase'[x] = "handling" /\ httpOpts' = httpOpts
        /\ used'[x] = used[x] \union {"hijack"}
    BY <1>2, AfterResponse DEF Hijack
  <2>2. used'[x] \cap Overlooked # {}
    BY <2>1 DEF Overlooked
  <2> QED
    BY <2>1, <2>2, FaithfulAfter
<1> QED
  BY <1>1, <1>2

(* Where the handler returns: the wrapper's word is the event's.             *)
LEMMA EndFaithful ==
  ASSUME HttpTypeOK, NEW x \in Requests, Faithful(x), Told(x), NEW err \in Nat, NEW slow \in BOOLEAN,
         NEW refused \in SUBSET Stages, NEW c \in Contexts, End(x, err, slow, refused, c)
  PROVE  Faithful(x)'
<1> DEFINE w == out[x]
           e == EndOf(w, err, refused)
<1>1. /\ phase[x] = "handling" /\ phase'[x] = "ended" /\ httpOpts' = httpOpts
      /\ out'[x] = w /\ used'[x] = used[x]
  BY DEF End, HttpTypeOK, Handling, handlerVars
<1>2. \A i \in EndEvents(x)' :
        /\ e.event # "none" /\ httpLog'[x][i].status = e.status /\ httpLog'[x][i].size = e.size
  BY EndTells
<1>3. w \in Writers
  BY DEF HttpTypeOK
<1>4. e.event # "none" => LogsAny
  BY <1>3, EndOfType DEF LogsAny
<1>5. ASSUME used[x] \cap Overlooked = {}, e.event # "none"
      PROVE  e.status = Final(w) /\ e.size = Len(w.sent)
  <2>1. Truthful(w) /\ Wrapped
    BY <1>1, <1>4, <1>5 DEF Faithful, Wrapped
  <2> QED
    BY <2>1 DEF Truthful, EndOf, NethttpEnd, GinEnd, FiberEnd
<1>6. Overlooked' = Overlooked
  BY <1>1, OptionsStay
<1>7. used'[x] \cap Overlooked' = {} => \A i \in EndEvents(x)' :
        httpLog'[x][i].status = Final(w) /\ httpLog'[x][i].size = Len(w.sent)
  BY <1>1, <1>2, <1>5, <1>6
<1>8. Final(out'[x]) = Final(w)
  BY <1>1
<1> HIDE DEF e, w
<1>9. used'[x] \cap Overlooked' = {} => \A i \in EndEvents(x)' :
        httpLog'[x][i].status = Final(out'[x]) /\ httpLog'[x][i].size = Len(out'[x].sent)
  BY <1>1, <1>7, <1>8
<1> QED
  BY <1>1, <1>9 DEF Faithful, Final

LEMMA AnswerFaithful ==
  ASSUME HttpTypeOK, NEW x \in Requests, Faithful(x), Answer(x)
  PROVE  Faithful(x)'
<1> DEFINE o == out[x]
           w == SendHeader(o)
<1>1. /\ phase[x] = "ended" /\ phase'[x] = "answered"
      /\ UNCHANGED <<httpOpts, httpLog, verdict, used>>
      /\ out'[x] = CloseResponse(o, verdict[x].err)
  BY DEF Answer, HttpTypeOK, frameVars
<1>2. ~(Is("fiber") /\ verdict[x].err # 0) => out'[x] = w
  BY <1>1 DEF CloseResponse
<1>3. w.status = Final(o) /\ w.sent = o.sent
  BY SendHeaderFields DEF HttpTypeOK
<1>4. EndEvents(x)' = EndEvents(x) /\ Overlooked' = Overlooked /\ Is("fiber")' = Is("fiber")
  BY <1>1, OptionsStay DEF EndEvents, Adapters
<1>5. used[x] \cap Overlooked = {} => \A i \in EndEvents(x) :
        httpLog[x][i].status = Final(o) /\ httpLog[x][i].size = Len(o.sent)
  BY <1>1 DEF Faithful
<1> HIDE DEF o, w
<1>6. used[x] \cap Overlooked = {} /\ ~(Is("fiber") /\ verdict[x].err # 0) =>
        \A i \in EndEvents(x) :
          httpLog[x][i].status = out'[x].status /\ httpLog[x][i].size = Len(out'[x].sent)
  BY <1>2, <1>3, <1>5
<1> QED
  BY <1>1, <1>4, <1>6 DEF Faithful

LEMMA FaithfulStep ==
  ASSUME HttpTypeOK, NEW x \in Requests, Faithful(x), Mirrors(x), Told(x),
         Middleware(x) \/ Handler(x)
  PROVE  Faithful(x)'
<1>0. httpOpts' = httpOpts
  BY Others
<1>1. ASSUME NEW a, NEW fresh, NEW refused, Begin(x, a, fresh, refused) PROVE Faithful(x)'
  <2>1. /\ phase[x] = "new" /\ phase'[x] = "handling" /\ UNCHANGED <<out, used>>
    BY <1>1 DEF Begin, HttpTypeOK
  <2>2. Truthful(out[x])' = Truthful(out[x]) /\ Overlooked' = Overlooked
    BY <1>0, <2>1, OptionsStay DEF Truthful, Final, Wrapped, LogsAny, Is
  <2> QED
    BY <2>1, <2>2 DEF Faithful
<1>2. ASSUME NEW err \in Errors, NEW slow \in BOOLEAN, NEW refused \in SUBSET {"complete", "error"},
             NEW c \in EndContexts(x), End(x, err, slow, refused, c)
      PROVE  Faithful(x)'
  <2>1. err \in Nat /\ refused \in SUBSET Stages
    BY HttpAssumption DEF Errors, Stages
  <2>2. c \in Contexts
    BY DEF EndContexts, HttpTypeOK
  <2> QED
    BY <1>2, <2>1, <2>2, EndFaithful
<1>3. CASE Middleware(x)
  BY <1>1, <1>2, <1>3, AnswerFaithful DEF Middleware
<1>4. ASSUME NEW len \in 0..2, NEW n \in 0..len, Write(x, len, n) \/ WriteString(x, len, n)
      PROVE  Faithful(x)'
  BY <1>4, WritesFaithful
<1>5. ASSUME NEW n \in 0..1, Copy(x, 1, n) PROVE Faithful(x)'
  BY <1>5, WritesFaithful
<1>6. ASSUME phase[x] = "handling", phase'[x] = "handling", out' = out, used[x] \subseteq used'[x]
      PROVE  Faithful(x)'
  BY <1>0, <1>6, FaithfulAfter
<1>7. CASE ReadBody(x)
  BY <1>6, <1>7 DEF ReadBody, Handling
<1>8. CASE Panic(x)
  <2>1. phase'[x] = "panicked"
    BY <1>8 DEF Panic, HttpTypeOK
  <2> QED
    BY <2>1 DEF Faithful
<1>9. ASSUME NEW c, NEW quirk, Derive(x, c, quirk) PROVE Faithful(x)'
  BY <1>6, <1>9 DEF Derive, HttpTypeOK, Handling
<1>10. ASSUME NEW id, \/ Derive(x, WithID(ctx[x], id), "renamed")
                      \/ Derive(x, WithCorrelationID(ctx[x], id), "rebased")
                      \/ Derive(x, OtelWithTrace(ctx[x], id), "traced")
       PROVE  Faithful(x)'
  BY <1>9, <1>10
<1>11. CASE Handler(x)
  BY <1>4, <1>5, <1>7, <1>8, <1>10, <1>11, WriteHeaderFaithful, TakesFaithful DEF Handler
<1> QED
  BY <1>3, <1>11

-----------------------------------------------------------------------------
(* The body that is kept is the beginning of what is written.               *)
LEMMA CaptureKeeps ==
  ASSUME NEW w \in Writers, NEW h \in Nat, NEW k \in Nat, httpOpts.limit \in Nat, KeptOf(w, h),
         NEW r, r.kept = RwCapture(w, Following(h, k)).kept,
         r.cut = RwCapture(w, Following(h, k)).cut
  PROVE  KeptOf(r, h + k)
<1> DEFINE L == httpOpts.limit
           s == Following(h, k)
           v == RwCapture(w, s)
           rest == L - Len(w.kept)
<1>1. L \in Nat /\ s \in Seq(Nat) /\ Len(s) = k /\ w.cut \in BOOLEAN
  BY FollowingBytes, WriterFields
<1>2. /\ w.kept = Bytes(IF L < h THEN L ELSE h)
      /\ h > L => w.cut
      /\ w.cut => h >= L
  BY DEF KeptOf
<1>3. \A n \in Nat : Len(Bytes(n)) = n
  BY DEF Bytes
<1>4. CASE w.cut
  <2>1. v = w
    BY <1>4 DEF RwCapture
  <2>2. h >= L /\ w.kept = Bytes(L)
    BY <1>1, <1>2, <1>4
  <2> HIDE DEF v, s, L
  <2>3. r.kept = Bytes(L) /\ r.cut
    BY <1>4, <2>1, <2>2 DEF v, s
  <2> QED
    BY <1>1, <2>2, <2>3 DEF KeptOf, L
<1>5. CASE ~w.cut
  <2>1. h <= L /\ w.kept = Bytes(h) /\ Len(w.kept) = h /\ rest = L - h
    BY <1>1, <1>2, <1>3, <1>5
  <2>2. CASE rest <= 0
    <3>1. v = [w EXCEPT !.cut = TRUE]
      BY <1>5, <2>2 DEF RwCapture
    <3>2. v.cut /\ v.kept = w.kept
      BY <3>1 DEF Writers
    <3>3. h = L
      BY <1>1, <2>1, <2>2
    <3> HIDE DEF v, s, L
    <3>4. r.kept = Bytes(L) /\ r.cut
      BY <2>1, <3>2, <3>3 DEF v, s
    <3> QED
      BY <1>1, <3>3, <3>4 DEF KeptOf, L
  <2>3. CASE ~(rest <= 0)
    <3> DEFINE m == IF L - h < k THEN L - h ELSE k
               u == Upto(s, rest)
    <3>1. v = [w EXCEPT !.kept = w.kept \o u, !.cut = Len(s) > rest]
      BY <1>5, <2>3 DEF RwCapture
    <3>2. v.kept = w.kept \o u /\ v.cut = (Len(s) > rest)
      <4> HIDE DEF v, u, s, rest
      <4> QED
        BY <3>1 DEF Writers
    <3>3. L - h \in Nat /\ m \in Nat
      BY <1>1, <2>1, <2>3
    <3>4. u = Following(h, m)
      <4>1. rest \in Nat /\ rest = L - h /\ h \in Nat /\ k \in Nat
        BY <1>1, <2>1, <2>3
      <4> HIDE DEF rest, L, s
      <4>2. Upto(s, rest) = Following(h, IF rest < k THEN rest ELSE k)
        BY <4>1, BeginningOfBytes DEF s
      <4> QED
        BY <4>1, <4>2
    <3>5. v.kept = Bytes(h + m)
      <4> HIDE DEF v, u, m
      <4>1. v.kept = Bytes(h) \o Following(h, m)
        BY <2>1, <3>2, <3>4
      <4> QED
        BY <3>3, <4>1, FollowingBytes
    <3>6. h + m = IF L < h + k THEN L ELSE h + k
      BY <1>1, <2>1
    <3>7. v.cut = (h + k > L)
      BY <1>1, <2>1, <3>2
    <3> HIDE DEF v, s, L, m
    <3>8. r.kept = Bytes(h + m) /\ r.cut = (h + k > L)
      BY <3>5, <3>7, Zenon DEF v, s
    <3>9. r.kept = Bytes(IF L < h + k THEN L ELSE h + k)
      BY <3>6, <3>8
    <3>10. (r.cut => h + k > L) /\ (h + k > L => r.cut)
      BY <3>8, Zenon
    <3>11. h + k > L => h + k >= L
      BY <1>1
    <3> QED
      BY <3>9, <3>10, <3>11, Zenon DEF KeptOf, L
  <2> QED
    BY <2>2, <2>3
<1> QED
  BY <1>1, <1>4, <1>5

LEMMA EndShows ==
  ASSUME HttpTypeOK, NEW x \in Requests, Captured(x), Mirrors(x), Handling(x), LogsAny,
         NEW status, NEW textual
  PROVE  Shown(x, ResponseBody(out[x], status, textual))
<1> DEFINE w == out[x]
           L == httpOpts.limit
           body == ResponseBody(w, status, textual)
<1>1. w \in Writers /\ plain[x] \in Writers /\ handed[x] \in Nat /\ L \in Nat
  BY HttpAssumption DEF HttpTypeOK
<1>2. CASE body = NoBody
  BY <1>2 DEF NoBody, Shown
<1>3. CASE body # NoBody /\ Is("fiber")
  <2>1. body = FiberBody(w, textual)
    BY <1>3 DEF ResponseBody
  <2>2. textual
    BY <1>3, <2>1 DEF FiberBody, CaptureBody
  <2>3. body.value = Upto(w.sent, L) /\ body.cut = (Len(w.sent) > L)
    BY <2>1, <2>2 DEF FiberBody, CaptureBody
  <2>4. w.sent = plain[x].sent
    <3>1. ~Wraps
      BY <1>3 DEF Wraps, Is
    <3>2. SeenByClient(w) = SeenByClient(plain[x])
      BY <3>1 DEF Mirrors
    <3> QED
      BY <3>2, SameSeen
  <2>5. Len(w.sent) > L => body.cut
    BY <2>3, Zenon
  <2>6. Shown(x, body)
    <3> HIDE DEF body
    <3> QED
      BY <1>3, <2>3, <2>4, <2>5 DEF Shown
  <2> QED
    BY <2>6
<1>4. CASE body # NoBody /\ ~Is("fiber")
  <2>1. body = KeptBody(w, textual) /\ KeepsBody
    BY <1>4 DEF ResponseBody, KeepsBody
  <2>2. body.value = w.kept /\ body.cut = w.cut
    BY <1>4, <2>1 DEF KeptBody
  <2>3. KeptOf(w, handed[x])
    BY <1>4, <2>1 DEF Captured, Handling
  <2>4. Len(Bytes(handed[x])) = handed[x]
    BY <1>1 DEF Bytes
  <2>5. Bytes(IF L < handed[x] THEN L ELSE handed[x]) = Upto(Bytes(handed[x]), L)
    BY <1>1, BytesFollowNone
  <2> HIDE DEF body, w
  <2>6. handed[x] > L => body.cut
    BY <2>2, <2>3, Zenon DEF KeptOf
  <2>7. body.value = Upto(Bytes(handed[x]), L)
    BY <2>2, <2>3, <2>5 DEF KeptOf
  <2>8. Shown(x, body)
    BY <1>4, <2>4, <2>6, <2>7 DEF Shown
  <2> QED
    BY <2>8 DEF body, w
<1> QED
  BY <1>2, <1>3, <1>4

LEMMA EndCaptured ==
  ASSUME HttpTypeOK, NEW x \in Requests, Captured(x), Mirrors(x), Told(x),
         NEW err \in Nat, NEW slow \in BOOLEAN,
         NEW refused \in SUBSET Stages, NEW c \in Contexts, End(x, err, slow, refused, c)
  PROVE  Captured(x)'
<1> DEFINE e == EndOf(out[x], err, refused)
           body == ResponseBody(out[x], e.status, arrival[x].textual)
<1>1. /\ Handling(x) /\ phase'[x] = "ended" /\ UNCHANGED <<httpOpts, plain, handed>>
  BY DEF End, HttpTypeOK, handlerVars
<1>2. \A i \in EndEvents(x)' : e.event # "none" /\ httpLog'[x][i].body = body
  BY EndTells
<1>3. e.event # "none" => LogsAny
  <2>1. out[x] \in Writers
    BY DEF HttpTypeOK
  <2>2. e.event # "none" => e.event \in httpOpts.logs
    BY <2>1, EndOfType
  <2> HIDE DEF e
  <2> QED
    BY <2>2 DEF LogsAny
<1>4. LogsAny => Shown(x, body)
  BY <1>1, EndShows
<1> HIDE DEF e, body
<1>5. ASSUME NEW i \in EndEvents(x)' PROVE Shown(x, httpLog[x][i].body)'
  <2>1. httpLog'[x][i].body = body /\ Shown(x, body)
    BY <1>2, <1>3, <1>4
  <2> QED
    BY <1>1, <2>1 DEF Shown, Is
<1> QED
  BY <1>1, <1>5 DEF Captured

LEMMA CapturedAfter ==
  ASSUME NEW x \in Requests, httpOpts' = httpOpts, phase'[x] \in {"handling", "panicked"},
         phase'[x] = "handling" /\ up' /\ KeepsBody /\ ~Is("fiber")
           => KeptOf(out'[x], handed'[x])
  PROVE  Captured(x)'
<1>1. KeepsBody' = KeepsBody /\ Is("fiber")' = Is("fiber")
  BY OptionsStay DEF Adapters
<1>2. KeptOf(out'[x], handed'[x]) => KeptOf(out[x], handed[x])'
  BY DEF KeptOf
<1> QED
  BY <1>1, <1>2 DEF Captured

LEMMA SameKept ==
  ASSUME NEW w, NEW v, NEW n, v.kept = w.kept, v.cut = w.cut, KeptOf(w, n)
  PROVE  KeptOf(v, n)
BY DEF KeptOf

(* A call that keeps nothing of what it sends leaves what is kept.          *)
LEMMA KeptAfter ==
  ASSUME HttpTypeOK, NEW x \in Requests, Captured(x), NEW w, NEW p, NEW quirks,
         Responds(x, w, p, quirks), UNCHANGED handed,
         w.kept = out[x].kept, w.cut = out[x].cut
  PROVE  Captured(x)'
<1>1. /\ phase[x] = "handling" /\ up /\ phase'[x] = "handling" /\ httpOpts' = httpOpts
      /\ out'[x] = w /\ handed'[x] = handed[x]
  BY AfterResponse
<1>2. KeepsBody /\ ~Is("fiber") => KeptOf(out[x], handed[x])
  BY <1>1 DEF Captured
<1> QED
  BY <1>1, <1>2, SameKept, CapturedAfter

LEMMA WritesCaptured ==
  ASSUME HttpTypeOK, NEW x \in Requests, Captured(x), NEW len \in 0..2, NEW n \in 0..len,
         Write(x, len, n) \/ (len = 1 /\ Copy(x, len, n))
  PROVE  Captured(x)'
<1> DEFINE o == out[x]
           h == handed[x]
           bytes == Following(h, len)
           w == HandlerWrite(o, bytes, n)
<1>1. o \in Writers /\ h \in Nat /\ httpOpts \in HttpOptions /\ n \in Nat /\ len \in Nat
      /\ httpOpts.limit \in Nat
  BY HttpAssumption DEF HttpTypeOK
<1>2. bytes \in Seq(Nat)
  BY <1>1, FollowingBytes, Zenon
<1>3. KeepsBody /\ ~Is("fiber")
      => w.kept = RwCapture(o, bytes).kept /\ w.cut = RwCapture(o, bytes).cut
  BY <1>1, <1>2, HandlerWriteFields
<1>4. KeepsBody /\ ~Is("fiber") /\ KeptOf(o, h) => KeptOf(w, h + len)
  <2> HIDE DEF w, o, h
  <2> QED
    BY <1>1, <1>3, CaptureKeeps
<1>5. phase[x] = "handling" /\ up /\ phase'[x] = "handling" /\ httpOpts' = httpOpts
      /\ handed'[x] = h + len /\ (up' => out'[x] = w)
  <2>1. CASE Write(x, len, n)
    <3>1. Responds(x, w, Accept(plain[x], bytes, n), {}) /\ handed' = [handed EXCEPT ![x] = h + len]
      BY <2>1 DEF Write, Following
    <3>2. handed'[x] = h + len
      BY <3>1 DEF HttpTypeOK
    <3> HIDE DEF w, bytes, h
    <3> QED
      BY <3>1, <3>2, AfterResponse
  <2>2. CASE len = 1 /\ Copy(x, len, n)
    <3>1. /\ Responds(x, IF Wraps THEN o ELSE w, Accept(plain[x], bytes, n), {"copy"})
          /\ handed' = [handed EXCEPT ![x] = h + len] /\ up' = ~Wraps
      BY <2>2 DEF Copy, Following, Wraps
    <3>2. handed'[x] = h + len
      BY <3>1 DEF HttpTypeOK
    <3> HIDE DEF w, bytes, h
    <3> QED
      BY <3>1, <3>2, AfterResponse
  <2> QED
    BY <2>1, <2>2
<1>6. KeepsBody /\ ~Is("fiber") => KeptOf(o, h)
  BY <1>5 DEF Captured
<1> HIDE DEF w, o, h
<1> QED
  BY <1>4, <1>5, <1>6, CapturedAfter

LEMMA CapturedStep ==
  ASSUME HttpTypeOK, NEW x \in Requests, Captured(x), Mirrors(x), Told(x),
         Middleware(x) \/ Handler(x)
  PROVE  Captured(x)'
<1>0. httpOpts' = httpOpts /\ out[x] \in Writers
  BY Others DEF HttpTypeOK
<1>1. ASSUME NEW a, NEW fresh, NEW refused, Begin(x, a, fresh, refused) PROVE Captured(x)'
  <2>1. /\ phase[x] = "new" /\ phase'[x] = "handling" /\ up /\ UNCHANGED <<out, handed>>
    BY <1>1 DEF Begin, HttpTypeOK
  <2> QED
    BY <1>0, <2>1, CapturedAfter DEF Captured
<1>2. ASSUME NEW err \in Errors, NEW slow \in BOOLEAN, NEW refused \in SUBSET {"complete", "error"},
             NEW c \in EndContexts(x), End(x, err, slow, refused, c)
      PROVE  Captured(x)'
  <2>1. err \in Nat /\ refused \in SUBSET Stages
    BY HttpAssumption DEF Errors, Stages
  <2>2. c \in Contexts
    BY DEF EndContexts, HttpTypeOK
  <2> QED
    BY <1>2, <2>1, <2>2, EndCaptured
<1>3. CASE Answer(x)
  <2>1. phase'[x] = "answered"
    BY <1>3 DEF Answer, HttpTypeOK
  <2> QED
    BY <2>1 DEF Captured
<1>4. CASE Middleware(x)
  BY <1>1, <1>2, <1>3, <1>4 DEF Middleware
<1>5. ASSUME NEW code \in Codes, WriteHeader(x, code) PROVE Captured(x)'
  <2> DEFINE w == HandlerWriteHeader(out[x], code)
  <2>1. code \in Nat
    BY HttpAssumption
  <2>2. w.kept = out[x].kept /\ w.cut = out[x].cut
    BY <1>0, <2>1, HandlerWriteHeaderFields
  <2>3. /\ Responds(x, w, SetStatus(plain[x], code), IF code < 200 THEN {"informational"} ELSE {})
        /\ UNCHANGED handed
    BY <1>5 DEF WriteHeader
  <2> HIDE DEF w
  <2> QED
    BY <2>2, <2>3, KeptAfter
<1>6. ASSUME NEW len \in 0..2, NEW n \in 0..len, Write(x, len, n) \/ WriteString(x, len, n)
      PROVE  Captured(x)'
  <2>1. CASE WriteString(x, len, n)
    <3> DEFINE s == Unlabelled(len)
               w == Accept(out[x], s, n)
    <3>1. s \in Seq(Nat) /\ n \in Nat
      BY UnlabelledBytes
    <3>2. w.kept = out[x].kept /\ w.cut = out[x].cut
      BY <1>0, <3>1, AcceptFields
    <3>3. Responds(x, w, Accept(plain[x], s, n), {}) /\ UNCHANGED handed
      BY <2>1 DEF WriteString
    <3> HIDE DEF w
    <3> QED
      BY <3>2, <3>3, KeptAfter
  <2> QED
    BY <1>6, <2>1, WritesCaptured
<1>7. ASSUME NEW n \in 0..1, Copy(x, 1, n) PROVE Captured(x)'
  BY <1>7, WritesCaptured
<1>8. CASE Flush(x)
  BY <1>0, <1>8, SendHeaderFields, KeptAfter DEF Flush
<1>9. CASE Hijack(x)
  <2> DEFINE w == [out[x] EXCEPT !.status = 101, !.gone = TRUE]
             p == [plain[x] EXCEPT !.status = 101, !.gone = TRUE]
  <2>1. w.kept = out[x].kept /\ w.cut = out[x].cut
    BY <1>0 DEF Writers
  <2>2. Responds(x, w, p, {"hijack"}) /\ UNCHANGED handed
    BY <1>9 DEF Hijack
  <2> HIDE DEF w, p
  <2> QED
    BY <2>1, <2>2, KeptAfter
<1>10. ASSUME phase[x] = "handling", phase'[x] \in {"handling", "panicked"}, UNCHANGED <<out, handed, up>>
       PROVE  Captured(x)'
  BY <1>0, <1>10, CapturedAfter DEF Captured
<1>11. CASE ReadBody(x) \/ Panic(x)
  BY <1>10, <1>11 DEF ReadBody, Panic, HttpTypeOK, Handling, handlerVars
<1>12. ASSUME NEW c, NEW quirk, Derive(x, c, quirk) PROVE Captured(x)'
  BY <1>10, <1>12 DEF Derive, Handling
<1>13. ASSUME NEW id, \/ Derive(x, WithID(ctx[x], id), "renamed")
                      \/ Derive(x, WithCorrelationID(ctx[x], id), "rebased")
                      \/ Derive(x, OtelWithTrace(ctx[x], id), "traced")
       PROVE  Captured(x)'
  BY <1>12, <1>13
<1>14. CASE Handler(x)
  BY <1>5, <1>6, <1>7, <1>8, <1>9, <1>11, <1>13, <1>14 DEF Handler
<1> QED
  BY <1>4, <1>14

-----------------------------------------------------------------------------
LEMMA InitHttpIInv == HttpInit => HttpIInv
<1> SUFFICES ASSUME HttpInit PROVE HttpIInv
  OBVIOUS
<1>1. HttpTypeOK
  BY InitTypes
<1>2. ASSUME NEW x \in Requests PROVE Mirrors(x) /\ Faithful(x) /\ Captured(x) /\ Told(x)
  <2>1. /\ phase[x] = "new" /\ out[x] = Blank /\ plain[x] = Blank /\ handed[x] = 0
        /\ httpLog[x] = <<>>
    BY DEF HttpInit
  <2>2. /\ Blank.status = 0 /\ Blank.next = 200 /\ Blank.sent = <<>> /\ Blank.wrote = FALSE
        /\ Blank.code = 200 /\ Blank.size = 0 /\ Blank.kept = <<>> /\ Blank.cut = FALSE
    BY DEF Blank
  <2>3. EndEvents(x) = {}
    BY <2>1 DEF EndEvents
  <2>4. Mirrors(x)
    BY <2>1, <2>2 DEF Mirrors
  <2>5. Faithful(x)
    <3>1. Len(Blank.sent) = 0 /\ Final(Blank) = 200
      BY <2>2 DEF Final
    <3>2. Blank.wrote = (Blank.status # 0)
      BY <2>2
    <3>3. Truthful(Blank)
      BY <2>2, <3>1, <3>2, Zenon DEF Truthful
    <3> QED
      BY <2>1, <3>3 DEF Faithful
  <2>6. httpOpts.limit \in Nat
    BY <1>1, HttpAssumption DEF HttpTypeOK
  <2>7. Bytes(0) = <<>>
    BY DEF Bytes
  <2>8. Captured(x)
    BY <2>1, <2>2, <2>6, <2>7 DEF Captured, KeptOf
  <2>9. Told(x)
    BY <2>1, <2>3 DEF Told
  <2> QED
    BY <2>4, <2>5, <2>8, <2>9
<1> QED
  BY <1>1, <1>2 DEF HttpIInv

LEMMA NextHttpIInv == HttpIInv /\ [HttpNext]_httpVars => HttpIInv'
<1> SUFFICES ASSUME HttpIInv, [HttpNext]_httpVars PROVE HttpIInv'
  OBVIOUS
<1>1. HttpTypeOK /\ HttpTypeOK'
  BY HttpTypes DEF HttpIInv
<1> DEFINE Each(y) == Mirrors(y) /\ Faithful(y) /\ Captured(y) /\ Told(y)
<1>2. ASSUME NEW x \in Requests, Middleware(x) \/ Handler(x), NEW y \in Requests
      PROVE  Each(y)'
  <2>1. CASE y = x
    BY <1>1, <1>2, <2>1, MirrorsStep, FaithfulStep, CapturedStep, ToldStep DEF HttpIInv
  <2>2. CASE y # x
    <3>1. httpOpts' = httpOpts /\ (up' => up) /\ UNCHANGED own(y)
      BY <1>1, <1>2, <2>2, Others
    <3> QED
      BY <3>1, Frame DEF HttpIInv
  <2> QED
    BY <2>1, <2>2
<1>3. ASSUME UNCHANGED httpVars, NEW y \in Requests PROVE Each(y)'
  <2>1. httpOpts' = httpOpts /\ (up' => up) /\ UNCHANGED own(y)
    BY <1>3 DEF httpVars, handlerVars, frameVars, own
  <2> QED
    BY <2>1, Frame DEF HttpIInv
<1> QED
  BY <1>1, <1>2, <1>3 DEF HttpIInv, HttpNext

(* Every request a server takes: the invariant that gives what follows.     *)
THEOREM HttpInvariance == HttpSpec => []HttpIInv
BY InitHttpIInv, NextHttpIInv, PTL DEF HttpSpec

LEMMA IInvMirrors == HttpIInv => ClientUnaffected
<1> SUFFICES ASSUME HttpIInv, NEW x \in Requests, used[x] \cap {"informational", "copy"} = {}
             PROVE  SeenByClient(out[x]) = SeenByClient(plain[x])
  BY DEF ClientUnaffected, ClientUnaffectedUnless
<1> QED
  BY DEF HttpIInv, Mirrors

LEMMA IInvLogged == HttpIInv => LoggedAsSent
<1> SUFFICES ASSUME HttpIInv, NEW x \in Requests,
                    phase[x] = "answered", used[x] \cap Overlooked = {},
                    ~(Is("fiber") /\ verdict[x].err # 0), NEW i \in EndEvents(x)
             PROVE  httpLog[x][i].status = out[x].status /\ httpLog[x][i].size = Len(out[x].sent)
  BY DEF LoggedAsSent
<1> QED
  BY DEF HttpIInv, Faithful

LEMMA IInvCaptured == HttpIInv => CaptureIsPrefix
<1> SUFFICES ASSUME HttpIInv, NEW x \in Requests, NEW i \in EndEvents(x), phase[x] = "ended"
             PROVE  Shown(x, httpLog[x][i].body)
  BY DEF CaptureIsPrefix, Shown
<1> QED
  BY DEF HttpIInv, Captured

LEMMA IInvTold == HttpIInv => TroubleIsTold
BY DEF HttpIInv, Told, TroubleIsTold

(* The client of a server that logs gets what it would get without, however *)
(* the handler sets status, writes, flushes and hijacks and however much    *)
(* the client takes (not if the handler copies, or sends a 1xx by itself).  *)
THEOREM ClientIsUnaffected == HttpSpec => []ClientUnaffected
BY HttpInvariance, IInvMirrors, PTL

(* Status and size in an event are those of the answer.                     *)
THEOREM EventsAreTrue == HttpSpec => []LoggedAsSent
BY HttpInvariance, IInvLogged, PTL

(* The body in an event is how the written one begins, cut at the limit.    *)
THEOREM CapturesArePrefixes == HttpSpec => []CaptureIsPrefix
BY HttpInvariance, IInvCaptured, PTL

(* A request that went wrong is told of when it ends, and once.             *)
THEOREM RequestsAreTold == HttpSpec => []TroubleIsTold
BY HttpInvariance, IInvTold, PTL
==============================================================================
