------------------------- MODULE LidarDriverProofs -------------------------
(***************************************************************************)
(* Theorems about LidarDriver: the published scans match the stream of     *)
(* lines, for every number of slots and of lines.                          *)
(*                                                                         *)
(* However the port cuts the stream, the tokens in line_buf and in the     *)
(* port's buffer are the next ones of the stream after the P lines parsed  *)
(* so far (Cut).  So the buffer holds what those P lines say (Filled), and *)
(* the scans published answer the marks among them (Published).            *)
(***************************************************************************)
EXTENDS LidarDriver, FiniteSetTheorems, TLAPS

\* The t-th token of the stream.
Token(t) == << (t + 1) \div 2, IF t % 2 = 1 THEN "text" ELSE "nl" >>

Texts == Nat \X {"text", "nl"}

\* P lines have been parsed and Q have reached the port.
Cut(P, Q) ==
  /\ P \in Nat /\ Q \in Nat /\ Q <= Len(sent)
  /\ port => Q = Len(sent)
  /\ 2 * P + Len(line_buf) + Len(wire) = 2 * Q
  /\ \A j \in DOMAIN line_buf : line_buf[j] = Token(2 * P + j)
  /\ \A j \in DOMAIN wire : wire[j] = Token(2 * P + Len(line_buf) + j)

\* The angle slot i stands for, and its samples before line k.
AngleOf(i) == ((TOTAL_SAMPLES \div 2) + TOTAL_SAMPLES - i) % TOTAL_SAMPLES

News(stream, k, i) ==
  {j \in 1 .. (k - 1) : stream[j].kind = "data" /\ stream[j].angle = AngleOf(i)}

\* The distance r is what the newest of them says.
Newest(stream, k, i, r) ==
  \/ News(stream, k, i) = {} /\ r = 0
  \/ \E last \in News(stream, k, i) :
       /\ \A m \in News(stream, k, i) : m <= last
       /\ r = IF stream[last].hit THEN last ELSE 0

Filled(P) == \A i \in Slots : Newest(sent, P + 1, i, ranges[i])

MarksUpTo(stream, k) == {j \in DOMAIN stream : stream[j].kind = "mark" /\ j <= k}

Published(P) ==
  /\ \A n \in DOMAIN scans :
       /\ scans[n].mark \in MarksUpTo(sent, P)
       /\ Cardinality(MarksUpTo(sent, scans[n].mark)) = n
       /\ \A i \in Slots : Newest(sent, scans[n].mark, i, scans[n].ranges[i])
  /\ alive => Len(scans) = Cardinality(MarksUpTo(sent, P))

Scans == [mark : Nat, ranges : [Slots -> Nat]]

Kinds ==
  /\ TypeOK
  /\ sent \in Seq(Lines) /\ line_buf \in Seq(Texts) /\ wire \in Seq(Texts)
  /\ scans \in Seq(Scans)

DriverInv ==
  Kinds /\ \E P, Q \in Nat : Cut(P, Q) /\ Filled(P) /\ Published(P)

-----------------------------------------------------------------------------
(* Slots and their newest samples.                                         *)

LEMMA HalfTurn ==
  /\ TOTAL_SAMPLES \in Nat \ {0}
  /\ TOTAL_SAMPLES \div 2 \in Nat /\ 2 * (TOTAL_SAMPLES \div 2) <= TOTAL_SAMPLES
BY SampleAssumption

LEMMA Turned ==
  ASSUME NEW x \in (-TOTAL_SAMPLES) .. (2 * TOTAL_SAMPLES - 1)
  PROVE  x % TOTAL_SAMPLES = IF x < 0 THEN x + TOTAL_SAMPLES
                             ELSE IF x >= TOTAL_SAMPLES THEN x - TOTAL_SAMPLES ELSE x
<1> TOTAL_SAMPLES \in Nat \ {0}
  BY HalfTurn
<1> QED
  OBVIOUS

\* The slots mirror the angles, one for one.
LEMMA SlotOfAngle ==
  ASSUME NEW a \in Angles, NEW i \in Slots
  PROVE  Slot(a) \in Slots /\ (i = Slot(a) <=> a = AngleOf(i))
<1> DEFINE h == TOTAL_SAMPLES \div 2
<1>1. h \in Nat /\ 2 * h <= TOTAL_SAMPLES /\ TOTAL_SAMPLES \in Nat \ {0}
  BY HalfTurn
<1> HIDE DEF h
<1>2. a \in 0 .. (TOTAL_SAMPLES - 1) /\ i \in 0 .. (TOTAL_SAMPLES - 1)
  BY DEF Angles, Slots
<1> DEFINE x == h - a
           y == h + TOTAL_SAMPLES - i
<1>3. /\ x \in (-TOTAL_SAMPLES) .. (2 * TOTAL_SAMPLES - 1)
      /\ y \in (-TOTAL_SAMPLES) .. (2 * TOTAL_SAMPLES - 1)
  BY <1>1, <1>2
<1> HIDE DEF x, y
<1>4. x % TOTAL_SAMPLES = IF x < 0 THEN x + TOTAL_SAMPLES
                          ELSE IF x >= TOTAL_SAMPLES THEN x - TOTAL_SAMPLES ELSE x
  BY <1>3, Turned
<1>5. y % TOTAL_SAMPLES = IF y < 0 THEN y + TOTAL_SAMPLES
                          ELSE IF y >= TOTAL_SAMPLES THEN y - TOTAL_SAMPLES ELSE y
  BY <1>3, Turned
<1>6. Slot(a) = x % TOTAL_SAMPLES /\ AngleOf(i) = y % TOTAL_SAMPLES
  BY DEF Slot, AngleOf, h, x, y
<1>7. Slot(a) \in 0 .. (TOTAL_SAMPLES - 1)
  BY <1>1, <1>2, <1>4, <1>6 DEF x
<1>8. i = Slot(a) <=> a = AngleOf(i)
  BY <1>1, <1>2, <1>4, <1>5, <1>6 DEF x, y
<1> QED
  BY <1>7, <1>8 DEF Slots

\* The newest sample is the one ScansMatchStream speaks of.
LEMMA NewestIsReported ==
  ASSUME NEW k \in Nat, NEW i, NEW r, Newest(sent, k, i, r)
  PROVE  r = Reported(k, i)
<1> DEFINE news == {j \in 1 .. (k - 1) : sent[j].kind = "data" /\ sent[j].angle = AngleOf(i)}
           last == CHOOSE j \in news : \A m \in news : m <= j
<1>1. Reported(k, i) = IF news # {} /\ sent[last].hit THEN last ELSE 0
  BY DEF Reported, AngleOf
<1>2. news = News(sent, k, i)
  BY DEF News
<1>3. news \subseteq Int
  OBVIOUS
<1> HIDE DEF news
<1>4. CASE news = {}
  BY <1>1, <1>2, <1>4 DEF Newest
<1>5. CASE news # {}
  <2>1. PICK l \in news :
          /\ \A m \in news : m <= l
          /\ r = IF sent[l].hit THEN l ELSE 0
    BY <1>2, <1>5 DEF Newest
  <2>2. last \in news /\ \A m \in news : m <= last
    BY <2>1
  <2> HIDE DEF last
  <2>3. last = l
    BY <1>3, <2>1, <2>2
  <2> QED
    BY <1>1, <1>5, <2>1, <2>3
<1> QED
  BY <1>4, <1>5

\* A line that comes later changes nothing.
LEMMA NewestOfLonger ==
  ASSUME NEW line, NEW stream \in Seq(Lines), line \in Lines,
         NEW k \in Nat, k <= Len(stream) + 1, NEW i, NEW r, Newest(stream, k, i, r)
  PROVE  Newest(Append(stream, line), k, i, r)
<1>1. \A j \in 1 .. (k - 1) : Append(stream, line)[j] = stream[j]
  OBVIOUS
<1>2. News(Append(stream, line), k, i) = News(stream, k, i)
  BY <1>1 DEF News
<1>3. \A j \in News(stream, k, i) : Append(stream, line)[j] = stream[j]
  BY <1>1 DEF News
<1> QED
  BY <1>2, <1>3 DEF Newest

\* The next line is the newest sample of its angle, if it is one.
LEMMA NewestOfNext ==
  ASSUME NEW stream \in Seq(Lines), NEW k \in DOMAIN stream,
         NEW i, NEW r, Newest(stream, k, i, r)
  PROVE  Newest(stream, k + 1, i,
                IF stream[k].kind = "data" /\ stream[k].angle = AngleOf(i)
                  THEN IF stream[k].hit THEN k ELSE 0 ELSE r)
<1>1. k \in Nat \ {0} /\ 1 .. ((k + 1) - 1) = 1 .. (k - 1) \cup {k}
  OBVIOUS
<1>2. CASE stream[k].kind = "data" /\ stream[k].angle = AngleOf(i)
  <2>1. News(stream, k + 1, i) = News(stream, k, i) \cup {k}
    BY <1>1, <1>2 DEF News
  <2>2. \A m \in News(stream, k + 1, i) : m <= k
    BY <1>1, <2>1 DEF News
  <2> QED
    BY <1>2, <2>1, <2>2 DEF Newest
<1>3. CASE ~(stream[k].kind = "data" /\ stream[k].angle = AngleOf(i))
  <2>1. News(stream, k + 1, i) = News(stream, k, i)
    BY <1>1, <1>3 DEF News
  <2> QED
    BY <1>3, <2>1 DEF Newest
<1> QED
  BY <1>2, <1>3

LEMMA MarksOfLonger ==
  ASSUME NEW line, NEW stream \in Seq(Lines), NEW k \in Nat, k <= Len(stream)
  PROVE  MarksUpTo(Append(stream, line), k) = MarksUpTo(stream, k)
<1>1. /\ Append(stream, line) \in Seq(Lines \cup {line})
      /\ DOMAIN Append(stream, line) = 1 .. (Len(stream) + 1)
      /\ DOMAIN stream = 1 .. Len(stream)
      /\ \A j \in 1 .. Len(stream) : Append(stream, line)[j] = stream[j]
  OBVIOUS
<1> QED
  BY <1>1 DEF MarksUpTo

LEMMA MarksAreFinite ==
  ASSUME NEW stream \in Seq(Lines), NEW k
  PROVE  IsFiniteSet(MarksUpTo(stream, k)) /\ Cardinality(MarksUpTo(stream, k)) \in Nat
<1>1. DOMAIN stream = 1 .. Len(stream) /\ Len(stream) \in Int /\ 1 \in Int
  OBVIOUS
<1>2. IsFiniteSet(DOMAIN stream)
  BY <1>1, FS_Interval
<1>3. MarksUpTo(stream, k) \subseteq DOMAIN stream
  BY DEF MarksUpTo
<1>4. IsFiniteSet(MarksUpTo(stream, k))
  BY <1>2, <1>3, FS_Subset
<1> QED
  BY <1>4, FS_CardinalityType

\* A mark is one more.
LEMMA MarksOfNext ==
  ASSUME NEW stream \in Seq(Lines), NEW k \in Nat, k + 1 \in DOMAIN stream
  PROVE  Cardinality(MarksUpTo(stream, k + 1))
           = Cardinality(MarksUpTo(stream, k))
             + (IF stream[k + 1].kind = "mark" THEN 1 ELSE 0)
<1>1. DOMAIN stream \subseteq Nat
  OBVIOUS
<1>2. CASE stream[k + 1].kind = "mark"
  <2>1. MarksUpTo(stream, k + 1) = MarksUpTo(stream, k) \cup {k + 1}
    BY <1>1, <1>2 DEF MarksUpTo
  <2>2. k + 1 \notin MarksUpTo(stream, k)
    BY DEF MarksUpTo
  <2>3. IsFiniteSet(MarksUpTo(stream, k))
    BY MarksAreFinite
  <2>4. Cardinality(MarksUpTo(stream, k) \cup {k + 1}) = Cardinality(MarksUpTo(stream, k)) + 1
    BY <2>2, <2>3, FS_AddElement
  <2> QED
    BY <1>2, <2>1, <2>4
<1>3. CASE stream[k + 1].kind # "mark"
  <2>1. MarksUpTo(stream, k + 1) = MarksUpTo(stream, k)
    BY <1>1, <1>3 DEF MarksUpTo
  <2>2. Cardinality(MarksUpTo(stream, k)) \in Nat
    BY MarksAreFinite
  <2> QED
    BY <1>3, <2>1, <2>2
<1> QED
  BY <1>2, <1>3

-----------------------------------------------------------------------------
(* Tokens.                                                                 *)

LEMMA TokensOfLine ==
  ASSUME NEW k \in Nat
  PROVE  /\ Token(2 * k + 1) = <<k + 1, "text">> /\ Token(2 * k + 2) = <<k + 1, "nl">>
         /\ Token(2 * k + 1) \in Texts /\ Token(2 * k + 2) \in Texts
BY DEF Token, Texts

\* The first newline in line_buf ends the line at its beginning.
LEMMA CutLengths ==
  ASSUME Kinds, NEW P \in Nat, NEW Q \in Nat, Cut(P, Q)
  PROVE  /\ 2 * P + Len(line_buf) + Len(wire) = 2 * Q /\ Q <= Len(sent)
         /\ Len(line_buf) \in Nat /\ Len(wire) \in Nat /\ Len(sent) \in Nat
         /\ P <= Len(sent)
         /\ Len(line_buf) >= 2 => P + 1 <= Len(sent)
<1>1. 2 * P + Len(line_buf) + Len(wire) = 2 * Q /\ Q <= Len(sent)
  BY DEF Cut
<1>2. Len(line_buf) \in Nat /\ Len(wire) \in Nat /\ Len(sent) \in Nat
  BY DEF Kinds
<1> QED
  BY <1>1, <1>2

LEMMA FirstLine ==
  ASSUME Kinds, NEW P \in Nat, NEW Q \in Nat, Cut(P, Q), Newlines(line_buf) # {}
  PROVE  /\ 2 \in Newlines(line_buf) /\ Len(line_buf) >= 2
         /\ \A q \in Newlines(line_buf) : q >= 2
         /\ line_buf[1] = <<P + 1, "text">>
         /\ P + 1 \in DOMAIN sent
<1>1. /\ line_buf \in Seq(Texts) /\ wire \in Seq(Texts) /\ sent \in Seq(Lines)
      /\ DOMAIN line_buf = 1 .. Len(line_buf) /\ Len(line_buf) \in Nat
      /\ DOMAIN sent = 1 .. Len(sent) /\ Len(sent) \in Nat /\ Len(wire) \in Nat
  BY DEF Kinds
<1>2. PICK q \in DOMAIN line_buf : line_buf[q][2] = "nl"
  BY DEF Newlines
<1>3. 1 \in DOMAIN line_buf /\ line_buf[1] = <<P + 1, "text">>
  <2>1. 1 \in DOMAIN line_buf
    BY <1>1, <1>2
  <2>2. line_buf[1] = Token(2 * P + 1)
    BY <2>1 DEF Cut
  <2> QED
    BY <2>1, <2>2, TokensOfLine
<1>4. \A r \in Newlines(line_buf) : r \in DOMAIN line_buf /\ r # 1
  BY <1>3 DEF Newlines
<1>5. Len(line_buf) >= 2 /\ \A r \in Newlines(line_buf) : r >= 2
  BY <1>1, <1>4
<1>6. line_buf[2] = <<P + 1, "nl">>
  <2>1. 2 \in DOMAIN line_buf
    BY <1>1, <1>5
  <2>2. line_buf[2] = Token(2 * P + 2)
    BY <2>1 DEF Cut
  <2> QED
    BY <2>2, TokensOfLine
<1>7. 2 \in Newlines(line_buf)
  BY <1>1, <1>5, <1>6 DEF Newlines
<1>8. P + 1 <= Len(sent)
  BY <1>5, CutLengths
<1> QED
  BY <1>1, <1>3, <1>5, <1>7, <1>8

-----------------------------------------------------------------------------
(* The steps.                                                              *)

LEMMA SendKeeps ==
  ASSUME DriverInv, NEW line \in Lines, SendLine(line)
  PROVE  DriverInv'
<1>1. Kinds
  BY DEF DriverInv
<1>2. PICK P \in Nat, Q \in Nat : Cut(P, Q) /\ Filled(P) /\ Published(P)
  BY DEF DriverInv
<1>3. /\ sent' = Append(sent, line)
      /\ wire' = IF port THEN wire \o << <<Len(sent) + 1, "text">>, <<Len(sent) + 1, "nl">> >>
                         ELSE wire
      /\ sweep' \in 0 .. TOTAL_SAMPLES
      /\ UNCHANGED <<port, line_buf, ranges, freq, scans, alive>>
  <2>1. sweep' = 0 \/ (sweep < TOTAL_SAMPLES /\ sweep' = sweep + 1)
    BY DEF SendLine
  <2>2. sweep \in 0 .. TOTAL_SAMPLES
    BY <1>1 DEF Kinds, TypeOK
  <2>3. sweep' \in 0 .. TOTAL_SAMPLES
    BY <2>1, <2>2, HalfTurn
  <2> QED
    BY <2>3 DEF SendLine, TokensOf
<1>4. /\ sent \in Seq(Lines) /\ Len(sent) \in Nat /\ DOMAIN sent = 1 .. Len(sent)
      /\ sent' \in Seq(Lines) /\ Len(sent') = Len(sent) + 1 /\ DOMAIN sent' = 1 .. (Len(sent) + 1)
      /\ line_buf \in Seq(Texts) /\ wire \in Seq(Texts)
      /\ Len(line_buf) \in Nat /\ Len(wire) \in Nat /\ DOMAIN wire = 1 .. Len(wire)
  BY <1>1, <1>3 DEF Kinds
<1>5. P <= Len(sent)
  BY <1>1, <1>2, CutLengths
<1> DEFINE new == << <<Len(sent) + 1, "text">>, <<Len(sent) + 1, "nl">> >>
<1>6. new \in Seq(Texts) /\ Len(new) = 2
  BY <1>4 DEF Texts
<1>7. Kinds'
  <2>1. wire' \in Seq(Texts)
    BY <1>3, <1>4, <1>6
  <2>2. \A k \in DOMAIN sent' : sent'[k] \in Lines
    BY <1>4
  <2>3. ranges' \in [Slots -> 0 .. Len(sent')]
    BY <1>1, <1>3, <1>4 DEF Kinds, TypeOK
  <2>4. \A n \in DOMAIN scans' : scans'[n].mark \in DOMAIN sent'
    BY <1>1, <1>3, <1>4 DEF Kinds, TypeOK
  <2> QED
    BY <1>1, <1>3, <1>4, <2>1, <2>2, <2>3, <2>4 DEF Kinds, TypeOK
<1>8. \E R \in Nat : Cut(P, R)'
  <2>1. CASE port
    <3>1. Q = Len(sent)
      BY <1>2, <2>1 DEF Cut
    <3> DEFINE b == Len(line_buf)
               w == Len(wire)
    <3>2. 2 * P + b + w = 2 * Q /\ b \in Nat /\ w \in Nat /\ P \in Nat /\ Q \in Nat
      BY <1>1, <1>2, CutLengths
    <3>3. wire' = wire \o new /\ Len(wire') = Len(wire) + 2 /\ DOMAIN wire' = 1 .. (Len(wire) + 2)
      BY <1>3, <1>4, <1>6, <2>1
    <3>4. \A j \in DOMAIN wire' : wire'[j] = Token(2 * P + Len(line_buf) + j)
      <4> TAKE j \in DOMAIN wire'
      <4>1. CASE j \in DOMAIN wire
        <5>1. wire[j] = Token(2 * P + Len(line_buf) + j)
          BY <1>2, <4>1 DEF Cut
        <5>2. wire'[j] = wire[j]
          BY <1>4, <1>6, <3>3, <4>1
        <5> QED
          BY <5>1, <5>2
      <4>2. CASE j = Len(wire) + 1
        <5>1. wire'[j] = <<Q + 1, "text">>
          <6>1. wire'[j] = new[j - Len(wire)]
            BY <1>4, <1>6, <3>3, <4>2
          <6>2. j - Len(wire) = 1
            BY <1>4, <4>2
          <6> QED
            BY <3>1, <6>1, <6>2
        <5>2. 2 * P + b + j = 2 * Q + 1
          <6>1. j = w + 1
            BY <4>2
          <6> HIDE DEF b, w
          <6> QED
            BY <3>2, <6>1
        <5> QED
          BY <5>1, <5>2, TokensOfLine
      <4>3. CASE j = Len(wire) + 2
        <5>1. wire'[j] = <<Q + 1, "nl">>
          <6>1. wire'[j] = new[j - Len(wire)]
            BY <1>4, <1>6, <3>3, <4>3
          <6>2. j - Len(wire) = 2
            BY <1>4, <4>3
          <6> QED
            BY <3>1, <6>1, <6>2
        <5>2. 2 * P + b + j = 2 * Q + 2
          <6>1. j = w + 2
            BY <4>3
          <6> HIDE DEF b, w
          <6> QED
            BY <3>2, <6>1
        <5> QED
          BY <5>1, <5>2, TokensOfLine
      <4> QED
        <5>1. j \in 1 .. (Len(wire) + 2)
          BY <3>3
        <5>2. j \in 1 .. Len(wire) \/ j = Len(wire) + 1 \/ j = Len(wire) + 2
          BY <1>4, <5>1
        <5> QED
          BY <1>4, <4>1, <4>2, <4>3, <5>2
    <3>5. \A j \in DOMAIN line_buf : line_buf[j] = Token(2 * P + j)
      BY <1>2 DEF Cut
    <3>6. 2 * P + b + (w + 2) = 2 * (Q + 1) /\ Q + 1 \in Nat
      <4> HIDE DEF b, w
      <4> QED
        BY <3>2
    <3>7. Q + 1 = Len(sent')
      BY <1>4, <3>1
    <3>8. P \in Nat /\ Q + 1 \in Nat /\ Q + 1 <= Len(sent')
      BY <1>4, <3>6, <3>2, <3>7
    <3>9. 2 * P + Len(line_buf') + Len(wire') = 2 * (Q + 1)
      BY <1>3, <3>3, <3>6
    <3>10. Cut(P, Q + 1)'
      BY <1>3, <3>4, <3>5, <3>7, <3>8, <3>9 DEF Cut
    <3> QED
      BY <3>10
  <2>2. CASE ~port
    <3>1. Cut(P, Q)'
      <4>1. Q <= Len(sent) /\ Q \in Nat
        BY <1>2 DEF Cut
      <4>2. Q <= Len(sent')
        BY <1>4, <4>1
      <4>3. wire' = wire /\ line_buf' = line_buf /\ port' = port
        BY <1>3, <2>2
      <4> QED
        BY <1>2, <2>2, <4>2, <4>3 DEF Cut
    <3> QED
      BY <3>1
  <2> QED
    BY <2>1, <2>2
<1>9. Filled(P)'
  <2> SUFFICES ASSUME NEW i \in Slots
               PROVE  Newest(sent', P + 1, i, ranges[i])
    BY <1>3 DEF Filled
  <2>1. Newest(sent, P + 1, i, ranges[i])
    BY <1>2 DEF Filled
  <2> QED
    BY <1>3, <1>4, <1>5, <2>1, NewestOfLonger
<1>10. Published(P)'
  <2>1. ASSUME NEW n \in DOMAIN scans
        PROVE  /\ scans[n].mark \in MarksUpTo(sent', P)
               /\ Cardinality(MarksUpTo(sent', scans[n].mark)) = n
               /\ \A i \in Slots : Newest(sent', scans[n].mark, i, scans[n].ranges[i])
    <3> DEFINE m == scans[n].mark
    <3>1. /\ m \in MarksUpTo(sent, P)
          /\ Cardinality(MarksUpTo(sent, m)) = n
          /\ \A i \in Slots : Newest(sent, m, i, scans[n].ranges[i])
      BY <1>2 DEF Published
    <3> HIDE DEF m
    <3>2. m \in Nat /\ m <= Len(sent) /\ m <= Len(sent) + 1
      BY <1>4, <3>1 DEF MarksUpTo
    <3>3. MarksUpTo(sent', P) = MarksUpTo(sent, P) /\ MarksUpTo(sent', m) = MarksUpTo(sent, m)
      BY <1>3, <1>4, <1>5, <3>2, MarksOfLonger
    <3>4. \A i \in Slots : Newest(sent', m, i, scans[n].ranges[i])
      BY <1>3, <1>4, <3>1, <3>2, NewestOfLonger
    <3> QED
      BY <3>1, <3>3, <3>4 DEF m
  <2>2. alive => Len(scans) = Cardinality(MarksUpTo(sent', P))
    BY <1>2, <1>3, <1>4, <1>5, MarksOfLonger DEF Published
  <2> QED
    BY <1>3, <2>1, <2>2 DEF Published
<1> QED
  BY <1>7, <1>8, <1>9, <1>10 DEF DriverInv

LEMMA UnplugKeeps ==
  ASSUME DriverInv, Unplug
  PROVE  DriverInv'
<1>1. PICK P \in Nat, Q \in Nat : Cut(P, Q) /\ Filled(P) /\ Published(P)
  BY DEF DriverInv
<1>2. port' = FALSE /\ UNCHANGED <<sent, sweep, wire, line_buf, ranges, freq, scans, alive>>
  BY DEF Unplug, sensorVars
<1>3. Kinds'
  BY <1>2 DEF DriverInv, Kinds, TypeOK
<1>4. Cut(P, Q)' /\ Filled(P)' /\ Published(P)'
  BY <1>1, <1>2 DEF Cut, Filled, Published
<1> QED
  BY <1>3, <1>4 DEF DriverInv

LEMMA ReadKeeps ==
  ASSUME DriverInv, NEW n \in 1 .. Len(wire), ReadCallback(n)
  PROVE  DriverInv'
<1>1. PICK P \in Nat, Q \in Nat : Cut(P, Q) /\ Filled(P) /\ Published(P)
  BY DEF DriverInv
<1>2. /\ line_buf' = line_buf \o SubSeq(wire, 1, n)
      /\ wire' = SubSeq(wire, n + 1, Len(wire))
      /\ UNCHANGED <<sent, sweep, port, ranges, freq, scans, alive>>
  BY DEF ReadCallback, sensorVars
<1>3. /\ line_buf \in Seq(Texts) /\ wire \in Seq(Texts)
      /\ Len(line_buf) \in Nat /\ Len(wire) \in Nat /\ n \in Nat /\ 1 <= n /\ n <= Len(wire)
      /\ DOMAIN line_buf = 1 .. Len(line_buf) /\ DOMAIN wire = 1 .. Len(wire)
  BY DEF DriverInv, Kinds
<1>4. /\ SubSeq(wire, 1, n) \in Seq(Texts) /\ Len(SubSeq(wire, 1, n)) = n
      /\ \A j \in 1 .. n : SubSeq(wire, 1, n)[j] = wire[j]
  BY <1>3
<1>5. /\ wire' \in Seq(Texts) /\ Len(wire') = Len(wire) - n
      /\ \A j \in 1 .. (Len(wire) - n) : wire'[j] = wire[j + n]
  <2> DEFINE rest == SubSeq(wire, n + 1, Len(wire))
  <2>1. rest \in Seq(Texts)
    BY <1>3
  <2>2. Len(rest) = Len(wire) - n
    <3> DEFINE m == n + 1
    <3>1. m \in Nat /\ m >= 1 /\ m <= Len(wire) + 1 /\ Len(wire) - m + 1 = Len(wire) - n
      BY <1>3
    <3> HIDE DEF m
    <3>2. Len(SubSeq(wire, m, Len(wire))) = Len(wire) - m + 1
      BY <1>3, <3>1
    <3> QED
      BY <3>1, <3>2 DEF m
  <2>3. \A j \in 1 .. (Len(wire) - n) : rest[j] = wire[j + n]
    <3> TAKE j \in 1 .. (Len(wire) - n)
    <3>1. rest[j] = wire[(n + 1) + j - 1] /\ (n + 1) + j - 1 = j + n
      BY <1>3
    <3> QED
      BY <3>1
  <2> QED
    BY <1>2, <2>1, <2>2, <2>3
<1>6. /\ line_buf' \in Seq(Texts) /\ Len(line_buf') = Len(line_buf) + n
      /\ \A j \in 1 .. Len(line_buf) : line_buf'[j] = line_buf[j]
      /\ \A j \in 1 .. n : line_buf'[Len(line_buf) + j] = wire[j]
  BY <1>2, <1>3, <1>4
<1>7. Kinds'
  BY <1>2, <1>5, <1>6 DEF DriverInv, Kinds, TypeOK
<1>8. Cut(P, Q)'
  <2>1. \A j \in DOMAIN line_buf' : line_buf'[j] = Token(2 * P + j)
    <3> TAKE j \in DOMAIN line_buf'
    <3>1. j \in 1 .. (Len(line_buf) + n)
      BY <1>6
    <3>2. CASE j <= Len(line_buf)
      BY <1>1, <1>3, <1>6, <3>1, <3>2 DEF Cut
    <3>3. CASE j > Len(line_buf)
      <4>1. j - Len(line_buf) \in 1 .. n /\ Len(line_buf) + (j - Len(line_buf)) = j
            /\ 2 * P + Len(line_buf) + (j - Len(line_buf)) = 2 * P + j
        BY <1>3, <3>1, <3>3
      <4>2. line_buf'[j] = wire[j - Len(line_buf)]
        BY <1>6, <4>1
      <4>3. wire[j - Len(line_buf)] = Token(2 * P + Len(line_buf) + (j - Len(line_buf)))
        BY <1>1, <1>3, <4>1 DEF Cut
      <4> QED
        BY <4>1, <4>2, <4>3
    <3> QED
      BY <1>3, <3>1, <3>2, <3>3
  <2>2. \A j \in DOMAIN wire' : wire'[j] = Token(2 * P + Len(line_buf') + j)
    <3> TAKE j \in DOMAIN wire'
    <3>1. j \in 1 .. (Len(wire) - n) /\ j + n \in DOMAIN wire /\ wire'[j] = wire[j + n]
      BY <1>3, <1>5
    <3>2. wire[j + n] = Token(2 * P + Len(line_buf) + (j + n))
      BY <1>1, <3>1 DEF Cut
    <3>3. 2 * P + Len(line_buf) + (j + n) = 2 * P + Len(line_buf') + j
      BY <1>3, <1>6, <3>1
    <3> QED
      BY <3>1, <3>2, <3>3
  <2> QED
    <3>1. /\ 2 * P + Len(line_buf) + Len(wire) = 2 * Q
          /\ Q <= Len(sent) /\ (port => Q = Len(sent))
      BY <1>1 DEF Cut
    <3>2. 2 * P + Len(line_buf') + Len(wire') = 2 * Q
      BY <1>1, <1>3, <1>5, <1>6, <3>1
    <3> QED
      BY <1>2, <2>1, <2>2, <3>1, <3>2 DEF Cut
<1>9. Filled(P)' /\ Published(P)'
  BY <1>1, <1>2 DEF Filled, Published
<1> QED
  BY <1>7, <1>8, <1>9 DEF DriverInv

LEMMA ParseKeeps ==
  ASSUME DriverInv, ParseLine
  PROVE  DriverInv'
<1>1. Kinds
  BY DEF DriverInv
<1>2. PICK P \in Nat, Q \in Nat : Cut(P, Q) /\ Filled(P) /\ Published(P)
  BY DEF DriverInv
<1>3. alive /\ Newlines(line_buf) # {}
  BY DEF ParseLine
<1>4. /\ 2 \in Newlines(line_buf) /\ Len(line_buf) >= 2
      /\ \A q \in Newlines(line_buf) : q >= 2
      /\ line_buf[1] = <<P + 1, "text">>
      /\ P + 1 \in DOMAIN sent
  BY <1>1, <1>2, <1>3, FirstLine
<1> DEFINE k    == P + 1
           line == sent[k]
\* The line parsed is the next one, and nothing else is taken out.
<1>5. /\ line_buf' = SubSeq(line_buf, 3, Len(line_buf))
      /\ \/ /\ line.kind = "data"
            /\ Store(k, line)
            /\ UNCHANGED <<freq, scans, alive>>
         \/ /\ line.kind = "mark"
            /\ freq' = NewFreq(line)
            /\ PublishScan(k)
            /\ UNCHANGED ranges
         \/ /\ line.kind = "nonfinite"
            /\ alive' = FALSE
            /\ UNCHANGED <<ranges, freq, scans>>
         \/ /\ line.kind = "ignored"
            /\ UNCHANGED <<ranges, freq, scans, alive>>
      /\ UNCHANGED <<sent, sweep, wire, port>>
  <2> DEFINE p == CHOOSE q \in Newlines(line_buf) : \A r \in Newlines(line_buf) : q <= r
  <2>1. p \in Newlines(line_buf) /\ \A r \in Newlines(line_buf) : p <= r
    BY <1>4
  <2>2. Newlines(line_buf) \subseteq Nat
    BY <1>1 DEF Newlines, Kinds
  <2>3. /\ line_buf' = Rest(p)
        /\ \/ /\ p > 1 /\ sent[line_buf[1][1]].kind = "data"
              /\ Store(line_buf[1][1], sent[line_buf[1][1]])
              /\ UNCHANGED <<freq, scans, alive>>
           \/ /\ p > 1 /\ sent[line_buf[1][1]].kind = "mark"
              /\ freq' = NewFreq(sent[line_buf[1][1]])
              /\ PublishScan(line_buf[1][1])
              /\ UNCHANGED ranges
           \/ /\ p > 1 /\ sent[line_buf[1][1]].kind = "nonfinite"
              /\ alive' = FALSE
              /\ UNCHANGED <<ranges, freq, scans>>
           \/ /\ p = 1 \/ sent[line_buf[1][1]].kind = "ignored"
              /\ UNCHANGED <<ranges, freq, scans, alive>>
        /\ UNCHANGED <<sent, sweep, wire, port>>
    BY DEF ParseLine, sensorVars
  <2>4. line_buf[1][1] = k
    BY <1>4
  <2> HIDE DEF p
  <2>5. p = 2
    BY <1>4, <2>1, <2>2
  <2>6. Rest(p) = SubSeq(line_buf, 3, Len(line_buf))
    BY <2>5 DEF Rest
  <2> HIDE DEF k
  <2> QED
    BY <2>3, <2>4, <2>5, <2>6
<1>6. /\ sent \in Seq(Lines) /\ line \in Lines /\ k \in Nat \ {0} /\ k <= Len(sent) /\ Len(sent) \in Nat
      /\ DOMAIN sent = 1 .. Len(sent) /\ P \in Nat
  BY <1>1, <1>2, <1>4 DEF Kinds
<1>7. Cut(k, Q)' /\ line_buf' \in Seq(Texts)
  <2> DEFINE b == Len(line_buf)
             w == Len(wire)
  <2>1. 2 * P + b + w = 2 * Q /\ b \in Nat /\ b >= 2 /\ w \in Nat /\ P \in Nat /\ Q \in Nat
    BY <1>1, <1>2, <1>4, CutLengths
  <2>2. line_buf \in Seq(Texts) /\ DOMAIN line_buf = 1 .. b
    BY <1>1 DEF Kinds
  <2>3. /\ line_buf' \in Seq(Texts) /\ Len(line_buf') = b - 2
        /\ DOMAIN line_buf' = 1 .. (b - 2)
        /\ \A j \in 1 .. (b - 2) : line_buf'[j] = line_buf[j + 2]
    BY <1>5, <2>1, <2>2
  <2>4. \A j \in DOMAIN line_buf' : line_buf'[j] = Token(2 * k + j)
    <3> TAKE j \in DOMAIN line_buf'
    <3>1. j + 2 \in DOMAIN line_buf /\ line_buf'[j] = line_buf[j + 2]
      BY <2>1, <2>2, <2>3
    <3>2. line_buf[j + 2] = Token(2 * P + (j + 2))
      BY <1>2, <3>1 DEF Cut
    <3>3. j \in Int
      BY <2>3
    <3>4. 2 * P + (j + 2) = 2 * k + j
      BY <2>1, <3>3
    <3> QED
      BY <3>1, <3>2, <3>4
  <2>5. \A j \in DOMAIN wire : wire[j] = Token(2 * k + (b - 2) + j)
    <3> TAKE j \in DOMAIN wire
    <3>1. wire[j] = Token(2 * P + b + j)
      BY <1>2 DEF Cut
    <3>2. j \in Int
      BY <1>1 DEF Kinds
    <3> HIDE DEF b
    <3>3. 2 * P + b + j = 2 * k + (b - 2) + j
      BY <2>1, <3>2
    <3> QED
      BY <3>1, <3>3
  <2>6. 2 * k + (b - 2) + w = 2 * Q
    <3> HIDE DEF b, w
    <3> QED
      BY <2>1
  <2>7. Q <= Len(sent) /\ (port => Q = Len(sent))
    BY <1>2 DEF Cut
  <2> HIDE DEF k
  <2> QED
    BY <1>2, <1>5, <1>6, <2>3, <2>4, <2>5, <2>6, <2>7 DEF Cut
<1>8. \A i \in Slots :
        Newest(sent, k + 1, i,
               IF line.kind = "data" /\ line.angle = AngleOf(i)
                 THEN IF line.hit THEN k ELSE 0 ELSE ranges[i])
  <2> TAKE i \in Slots
  <2>1. Newest(sent, k, i, ranges[i])
    BY <1>2 DEF Filled
  <2> QED
    BY <1>6, <2>1, NewestOfNext
<1>9. ranges \in [Slots -> 0 .. Len(sent)]
  BY <1>1 DEF Kinds, TypeOK
<1>10. line.kind \in {"data", "mark", "ignored", "nonfinite"} /\ (line.kind = "data" => line.angle \in Angles)
       /\ line.freq \in {"positive", "zero", "none"}
  BY <1>6 DEF Lines, Samples, Sample, Mark, Ignored, NonFinite, Frequencies
<1> HIDE DEF line
\* The buffer.
<1>11. /\ ranges' \in [Slots -> 0 .. Len(sent)]
       /\ \A i \in Slots :
            ranges'[i] = IF line.kind = "data" /\ line.angle = AngleOf(i)
                           THEN IF line.hit THEN k ELSE 0 ELSE ranges[i]
  <2>1. CASE line.kind = "data"
    <3>1. ranges' = [ranges EXCEPT ![Slot(line.angle)] = IF line.hit THEN k ELSE 0]
      BY <1>5, <2>1 DEF Store
    <3>2. k \in 0 .. Len(sent) /\ 0 \in 0 .. Len(sent)
      BY <1>6
    <3>3. ranges' \in [Slots -> 0 .. Len(sent)]
      BY <1>9, <3>1, <3>2
    <3>4. \A i \in Slots : i = Slot(line.angle) <=> line.angle = AngleOf(i)
      BY <1>10, <2>1, SlotOfAngle
    <3>5. \A i \in Slots :
            ranges'[i] = IF i = Slot(line.angle) THEN IF line.hit THEN k ELSE 0 ELSE ranges[i]
      BY <1>9, <3>1
    <3> QED
      BY <2>1, <3>3, <3>4, <3>5
  <2>2. CASE line.kind # "data"
    BY <1>5, <1>9, <2>2
  <2> QED
    BY <2>1, <2>2
<1>12. Filled(k)'
  BY <1>5, <1>8, <1>11 DEF Filled
<1>13. \A m : MarksUpTo(sent', m) = MarksUpTo(sent, m)
  BY <1>5
<1>14. MarksUpTo(sent, P) \subseteq MarksUpTo(sent, k)
  BY <1>6 DEF MarksUpTo
<1>15. Cardinality(MarksUpTo(sent, k))
         = Cardinality(MarksUpTo(sent, P)) + (IF line.kind = "mark" THEN 1 ELSE 0)
  BY <1>4, <1>6, MarksOfNext DEF line
<1>16. Len(scans) = Cardinality(MarksUpTo(sent, P))
  BY <1>2, <1>3 DEF Published
<1>17. scans \in Seq(Scans) /\ Len(scans) \in Nat /\ DOMAIN scans = 1 .. Len(scans)
  BY <1>1 DEF Kinds
<1>18. ASSUME NEW n \in DOMAIN scans
       PROVE  /\ scans[n].mark \in MarksUpTo(sent, k)
              /\ scans[n].mark \in DOMAIN sent
              /\ Cardinality(MarksUpTo(sent, scans[n].mark)) = n
              /\ \A i \in Slots : Newest(sent, scans[n].mark, i, scans[n].ranges[i])
  BY <1>2, <1>14 DEF Published, MarksUpTo
\* A mark publishes what the lines before it say.
<1> DEFINE scan == [mark |-> k, ranges |-> ranges]
<1>19. CASE line.kind = "mark" /\ freq' # "zero"
  <2>1. scans' = Append(scans, scan) /\ alive' = alive /\ ranges' = ranges
        /\ freq' = NewFreq(line)
    BY <1>5, <1>19 DEF PublishScan
  <2>2. scan \in Scans
    BY <1>6, <1>9 DEF Scans
  <2>3. /\ k \in MarksUpTo(sent, k)
        /\ Cardinality(MarksUpTo(sent, k)) = Len(scans) + 1
    BY <1>4, <1>6, <1>15, <1>16, <1>17, <1>19 DEF MarksUpTo, line
  <2>4. \A i \in Slots : Newest(sent, k, i, ranges[i])
    BY <1>2 DEF Filled
  <2> HIDE DEF k
  <2>5. /\ scans' \in Seq(Scans) /\ Len(scans') = Len(scans) + 1
        /\ DOMAIN scans' = 1 .. (Len(scans) + 1)
        /\ \A n \in DOMAIN scans : scans'[n] = scans[n]
        /\ scans'[Len(scans) + 1].mark = k /\ scans'[Len(scans) + 1].ranges = ranges
    BY <1>17, <2>1, <2>2
  <2>6. \A n \in DOMAIN scans' : n \in DOMAIN scans \/ n = Len(scans) + 1
    BY <1>17, <2>5
  <2>7. Published(k)'
    BY <1>5, <1>18, <2>3, <2>4, <2>5, <2>6 DEF Published
  <2>8. Kinds'
    <3>1. \A n \in DOMAIN scans' : scans'[n].mark \in DOMAIN sent
      BY <1>18, <2>3, <2>5, <2>6 DEF MarksUpTo
    <3>2. freq' \in {"positive", "zero"}
      BY <1>1, <1>10, <2>1 DEF NewFreq, Kinds, TypeOK
    <3> QED
      BY <1>1, <1>5, <1>7, <1>11, <2>1, <2>5, <3>1, <3>2 DEF Kinds, TypeOK
  <2> QED
    BY <1>6, <1>7, <1>12, <2>7, <2>8 DEF DriverInv, k
\* Frequency 0 ends it all.
<1>20. CASE line.kind = "mark" /\ freq' = "zero"
  <2>1. scans' = scans /\ alive' = FALSE
    BY <1>5, <1>20 DEF PublishScan
  <2>2. Published(k)'
    BY <1>5, <1>18, <2>1 DEF Published
  <2>3. Kinds'
    BY <1>1, <1>5, <1>7, <1>11, <1>20, <2>1 DEF Kinds, TypeOK
  <2> QED
    BY <1>6, <1>7, <1>12, <2>2, <2>3 DEF DriverInv
<1>21. CASE line.kind \in {"data", "ignored"}
  <2>1. scans' = scans /\ alive' = alive /\ freq' = freq
    BY <1>5, <1>21
  <2>2. Cardinality(MarksUpTo(sent, k)) = Len(scans)
    BY <1>15, <1>16, <1>17, <1>21
  <2>3. Published(k)'
    BY <1>5, <1>18, <2>1, <2>2 DEF Published
  <2>4. Kinds'
    BY <1>1, <1>5, <1>7, <1>11, <2>1 DEF Kinds, TypeOK
  <2> QED
    BY <1>6, <1>7, <1>12, <2>3, <2>4 DEF DriverInv
\* So does an angle that is not finite.
<1>22. CASE line.kind = "nonfinite"
  <2>1. scans' = scans /\ alive' = FALSE /\ freq' = freq
    BY <1>5, <1>22
  <2>2. Published(k)'
    BY <1>5, <1>18, <2>1 DEF Published
  <2>3. Kinds'
    BY <1>1, <1>5, <1>7, <1>11, <2>1 DEF Kinds, TypeOK
  <2> QED
    BY <1>6, <1>7, <1>12, <2>2, <2>3 DEF DriverInv
<1> QED
  BY <1>10, <1>19, <1>20, <1>21, <1>22

-----------------------------------------------------------------------------
(* What holds throughout.                                                  *)

LEMMA Opened == Init => DriverInv
<1> SUFFICES ASSUME Init PROVE DriverInv
  OBVIOUS
<1>1. PICK Q \in {0, 1} :
        /\ sent \in Seq(Lines) /\ Len(sent) = Q
        /\ wire \in Seq(Texts) /\ Len(wire) = 2 * Q
        /\ \A j \in DOMAIN wire : wire[j] = Token(j)
  <2>1. CASE sent = <<>> /\ wire = <<>>
    <3> WITNESS 0 \in {0, 1}
    <3> QED
      BY <2>1
  <2>2. ASSUME NEW tail \in Lines, sent = <<tail>>, wire = TokensOf(1)
        PROVE  /\ sent \in Seq(Lines) /\ Len(sent) = 1
               /\ wire \in Seq(Texts) /\ Len(wire) = 2
               /\ \A j \in DOMAIN wire : wire[j] = Token(j)
    <3>1. wire = << Token(1), Token(2) >> /\ Token(1) \in Texts /\ Token(2) \in Texts
      <4>1. Token(2 * 0 + 1) = <<0 + 1, "text">> /\ Token(2 * 0 + 2) = <<0 + 1, "nl">>
            /\ Token(2 * 0 + 1) \in Texts /\ Token(2 * 0 + 2) \in Texts
        BY TokensOfLine
      <4> QED
        BY <2>2, <4>1 DEF TokensOf
    <3>2. ASSUME NEW x \in Texts, NEW y \in Texts
          PROVE  /\ <<x, y>> \in Seq(Texts) /\ Len(<<x, y>>) = 2
                 /\ DOMAIN <<x, y>> = 1 .. 2
                 /\ <<x, y>>[1] = x /\ <<x, y>>[2] = y
      OBVIOUS
    <3>3. /\ wire \in Seq(Texts) /\ Len(wire) = 2 /\ DOMAIN wire = 1 .. 2
          /\ wire[1] = Token(1) /\ wire[2] = Token(2)
      BY <3>1, <3>2
    <3>4. \A j \in 1 .. 2 : j = 1 \/ j = 2
      OBVIOUS
    <3>5. sent \in Seq(Lines) /\ Len(sent) = 1
      BY <2>2
    <3> QED
      BY <3>3, <3>4, <3>5
  <2>3. Samples \cup {Ignored} \subseteq Lines
    BY DEF Lines
  <2> QED
    BY <2>1, <2>2, <2>3 DEF Init
<1>2. Kinds
  <2>1. \A k \in DOMAIN sent : sent[k] \in Lines
    BY <1>1
  <2> QED
    BY <1>1, <2>1, HalfTurn DEF Init, Kinds, TypeOK, NoScan
<1>3. Cut(0, Q)
  BY <1>1 DEF Init, Cut
<1>4. Filled(0)
  BY DEF Init, Filled, NoScan, Newest, News
<1>5. Published(0)
  <2>1. MarksUpTo(sent, 0) = {}
    BY <1>1 DEF MarksUpTo
  <2> QED
    BY <2>1, FS_EmptySet DEF Init, Published
<1> QED
  BY <1>2, <1>3, <1>4, <1>5 DEF DriverInv

THEOREM Inductive == Spec => []DriverInv
<1>1. DriverInv /\ [Next]_vars => DriverInv'
  <2> SUFFICES ASSUME DriverInv, [Next]_vars PROVE DriverInv'
    OBVIOUS
  <2>1. ASSUME NEW line \in Lines, SendLine(line) PROVE DriverInv'
    BY <2>1, SendKeeps
  <2>2. CASE Unplug
    BY <2>2, UnplugKeeps
  <2>3. CASE ParseLine
    BY <2>3, ParseKeeps
  <2>4. ASSUME NEW n \in 1 .. Len(wire), ReadCallback(n) PROVE DriverInv'
    BY <2>4, ReadKeeps
  <2>5. CASE UNCHANGED vars
    BY <2>5 DEF vars, sensorVars, DriverInv, Kinds, TypeOK, Cut, Filled, Published
  <2> QED
    BY <2>1, <2>2, <2>3, <2>4, <2>5 DEF Next, NodeStep
<1> QED
  BY <1>1, Opened, PTL DEF Spec

\* ScansMatchStream: however the port cuts the stream, the scans published by
\* _publish_scan answer the marks one by one, each with the newest samples.
THEOREM ScansAnswerStream == Spec => []ScansMatchStream
<1>1. DriverInv => ScansMatchStream
  <2> SUFFICES ASSUME DriverInv PROVE ScansMatchStream
    OBVIOUS
  <2>1. TypeOK /\ scans \in Seq(Scans)
    BY DEF DriverInv, Kinds
  <2>2. PICK P \in Nat, Q \in Nat : Published(P)
    BY DEF DriverInv
  <2> SUFFICES ASSUME NEW n \in DOMAIN scans
               PROVE  /\ scans[n].mark \in Marks
                      /\ Cardinality({k \in Marks : k <= scans[n].mark}) = n
                      /\ \A i \in Slots : scans[n].ranges[i] = Reported(scans[n].mark, i)
    BY <2>1 DEF ScansMatchStream
  <2>3. /\ scans[n].mark \in MarksUpTo(sent, P)
        /\ Cardinality(MarksUpTo(sent, scans[n].mark)) = n
        /\ \A i \in Slots : Newest(sent, scans[n].mark, i, scans[n].ranges[i])
    BY <2>2 DEF Published
  <2>4. {k \in Marks : k <= scans[n].mark} = MarksUpTo(sent, scans[n].mark)
    BY DEF Marks, MarksUpTo
  <2>5. scans[n].mark \in Marks
    BY <2>3 DEF Marks, MarksUpTo
  <2>6. scans[n].mark \in Nat
    <3>1. scans[n] \in Scans
      BY <2>1
    <3> QED
      BY <3>1 DEF Scans
  <2> QED
    BY <2>3, <2>4, <2>5, <2>6, NewestIsReported
<1> QED
  BY <1>1, Inductive, PTL

\* Once the node has caught up with a port that works, every mark that was sent
\* has its scan: none is skipped in the cutting of lines or left in a buffer.
THEOREM CaughtUpAnswersAll ==
  Spec => [](alive /\ port /\ wire = <<>> /\ line_buf = <<>>
               => Len(scans) = Cardinality(Marks))
<1>1. DriverInv => (alive /\ port /\ wire = <<>> /\ line_buf = <<>>
                      => Len(scans) = Cardinality(Marks))
  <2> SUFFICES ASSUME DriverInv, alive, port, wire = <<>>, line_buf = <<>>
               PROVE  Len(scans) = Cardinality(Marks)
    OBVIOUS
  <2>1. PICK P \in Nat, Q \in Nat : Cut(P, Q) /\ Published(P)
    BY DEF DriverInv
  <2>2. P \in Nat /\ Q \in Nat /\ Q = Len(sent) /\ 2 * P + 0 + 0 = 2 * Q
    BY <2>1 DEF Cut
  <2>3. P = Len(sent)
    BY <2>2
  <2>4. DOMAIN sent = 1 .. Len(sent)
    BY DEF DriverInv, Kinds
  <2>5. MarksUpTo(sent, P) = Marks
    BY <2>2, <2>3, <2>4 DEF MarksUpTo, Marks
  <2> QED
    BY <2>1, <2>5 DEF Published
<1> QED
  BY <1>1, Inductive, PTL
=============================================================================
