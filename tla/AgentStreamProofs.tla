------------------------- MODULE AgentStreamProofs -------------------------
(***************************************************************************)
(* Theorems about AgentStream: the two ends of a stream agree for every    *)
(* size of the numbers, the window, the queues and the bitmap.             *)
(*                                                                         *)
(* Numbers come round, so Less says nothing of two numbers half a turn     *)
(* apart.  The proofs measure every number as a signed distance from the   *)
(* last handled one (its Place), and show that all that is compared is     *)
(* less than half a turn apart (Compared).  The invariant has therefore to *)
(* speak of the packets and acknacks on their way: none is about a number  *)
(* not yet pushed, none has been overtaken by half a turn, since the line  *)
(* loses packets but does not reorder them, and acknacks come in order.    *)
(***************************************************************************)
EXTENDS AgentStream, SequenceTheorems, FiniteSetTheorems, TLAPS

-----------------------------------------------------------------------------
(* Numbers on the circle.                                                  *)

LEMMA Constants ==
  /\ SEQ_MAX = 2 * Half /\ Half \in Nat /\ Half >= 2
  /\ RELIABLE_STREAM_DEPTH \in Nat \ {0} /\ MaxFragments \in Nat \ {0}
  /\ RELIABLE_STREAM_DEPTH + MaxFragments <= Half
  /\ DATA_MAX \in Nat \ {0} /\ ACKNACK_MAX \in Nat \ {0}
BY StreamAssumption DEF Half

LEMMA Circle ==
  ASSUME NEW x \in (-SEQ_MAX) .. (2 * SEQ_MAX - 1)
  PROVE  x % SEQ_MAX = IF x < 0 THEN x + SEQ_MAX
                       ELSE IF x >= SEQ_MAX THEN x - SEQ_MAX ELSE x
<1> SEQ_MAX \in Nat \ {0}
  BY Constants
<1> QED
  OBVIOUS

\* Sums and differences of numbers, without the remainder.
LEMMA Sums ==
  ASSUME NEW a \in Numbers, NEW i \in (-SEQ_MAX) .. SEQ_MAX
  PROVE  /\ Plus(a, i) \in Numbers
         /\ Plus(a, i) = IF a + i < 0 THEN a + i + SEQ_MAX
                         ELSE IF a + i >= SEQ_MAX THEN a + i - SEQ_MAX ELSE a + i
         /\ Minus(a, i) \in Numbers
         /\ Minus(a, i) = IF a - i < 0 THEN a - i + SEQ_MAX
                          ELSE IF a - i >= SEQ_MAX THEN a - i - SEQ_MAX ELSE a - i
<1> SEQ_MAX \in Nat \ {0}
  BY Constants
<1>1. /\ a + i \in (-SEQ_MAX) .. (2 * SEQ_MAX - 1)
      /\ a - i \in (-SEQ_MAX) .. (2 * SEQ_MAX - 1)
  BY DEF Numbers
<1> QED
  BY <1>1, Circle DEF Numbers, Plus, Minus

LEMMA Distances ==
  ASSUME NEW a \in Numbers, NEW b \in Numbers
  PROVE  /\ Distance(a, b) \in Numbers
         /\ Distance(a, b) = IF b < a THEN b - a + SEQ_MAX ELSE b - a
         /\ Less(a, b) <=> Distance(a, b) \in 1 .. (Half - 1)
<1> SEQ_MAX \in Nat \ {0}
  BY Constants
<1>1. b - a \in (-SEQ_MAX) .. (2 * SEQ_MAX - 1)
  BY DEF Numbers
<1> QED
  BY <1>1, Circle DEF Numbers, Distance, Less

\* How far n is from h, half a turn at most, back or forth.
Offset(h, n) == IF Distance(h, n) < Half THEN Distance(h, n)
                                         ELSE Distance(h, n) - SEQ_MAX

LEMMA OffsetOfNumber ==
  ASSUME NEW h \in Numbers, NEW n \in Numbers
  PROVE  Offset(h, n) \in (-Half) .. (Half - 1) /\ Plus(h, Offset(h, n)) = n
<1> DEFINE i == Offset(h, n)
<1>1. /\ Distance(h, n) \in Numbers
      /\ Distance(h, n) = IF n < h THEN n - h + SEQ_MAX ELSE n - h
  BY Distances
<1>2. i \in (-Half) .. (Half - 1) /\ i \in {n - h, n - h + SEQ_MAX, n - h - SEQ_MAX}
  BY <1>1, Constants DEF Offset, Numbers
<1> HIDE DEF i
<1>3. Plus(h, i) = IF h + i < 0 THEN h + i + SEQ_MAX
                   ELSE IF h + i >= SEQ_MAX THEN h + i - SEQ_MAX ELSE h + i
  <2>1. i \in (-SEQ_MAX) .. SEQ_MAX
    BY <1>2, Constants
  <2> QED
    BY <2>1, Sums
<1>4. Plus(h, i) = n
  BY <1>2, <1>3, Constants DEF Numbers
<1> QED
  BY <1>2, <1>4 DEF i

LEMMA NumberAtOffset ==
  ASSUME NEW h \in Numbers, NEW i \in (-Half) .. (Half - 1)
  PROVE  Plus(h, i) \in Numbers /\ Offset(h, Plus(h, i)) = i
<1> DEFINE n == Plus(h, i)
<1>1. /\ n \in Numbers
      /\ n = IF h + i < 0 THEN h + i + SEQ_MAX
             ELSE IF h + i >= SEQ_MAX THEN h + i - SEQ_MAX ELSE h + i
  <2>1. i \in (-SEQ_MAX) .. SEQ_MAX
    BY Constants
  <2> QED
    BY <2>1, Sums
<1> HIDE DEF n
<1>2. Distance(h, n) = IF n < h THEN n - h + SEQ_MAX ELSE n - h
  BY <1>1, Distances
<1>3. Offset(h, n) = i
  BY <1>1, <1>2, Constants DEF Offset, Numbers
<1> QED
  BY <1>1, <1>3 DEF n

LEMMA OffsetFromNext ==
  ASSUME NEW h \in Numbers, NEW n \in Numbers, Offset(h, n) > -Half
  PROVE  Offset(Plus(h, 1), n) = Offset(h, n) - 1
<1> DEFINE g == Plus(h, 1)
<1>1. g \in Numbers /\ g = IF h + 1 >= SEQ_MAX THEN h + 1 - SEQ_MAX ELSE h + 1
  <2>1. 1 \in (-SEQ_MAX) .. SEQ_MAX
    BY Constants
  <2> QED
    BY <2>1, Sums DEF Numbers
<1> HIDE DEF g
<1>2. /\ Distance(h, n) = IF n < h THEN n - h + SEQ_MAX ELSE n - h
      /\ Distance(g, n) = IF n < g THEN n - g + SEQ_MAX ELSE n - g
  BY <1>1, Distances
<1>3. Offset(g, n) = Offset(h, n) - 1
  BY <1>1, <1>2, Constants DEF Offset, Numbers
<1> QED
  BY <1>3 DEF g

\* Numbers less than half a turn apart compare as their offsets do.
LEMMA Compared ==
  ASSUME NEW h \in Numbers, NEW a \in Numbers, NEW b \in Numbers,
         Offset(h, b) - Offset(h, a) < Half, Offset(h, a) - Offset(h, b) <= Half
  PROVE  /\ Less(a, b) <=> Offset(h, a) < Offset(h, b)
         /\ Offset(h, a) <= Offset(h, b) => Distance(a, b) = Offset(h, b) - Offset(h, a)
<1> DEFINE x == Offset(h, a)
           y == Offset(h, b)
<1>1. /\ Distance(h, a) = IF a < h THEN a - h + SEQ_MAX ELSE a - h
      /\ Distance(h, b) = IF b < h THEN b - h + SEQ_MAX ELSE b - h
      /\ Distance(a, b) = IF b < a THEN b - a + SEQ_MAX ELSE b - a
      /\ Less(a, b) <=> Distance(a, b) \in 1 .. (Half - 1)
  BY Distances
<1>2. /\ x \in Int /\ x \in {a - h, a - h + SEQ_MAX, a - h - SEQ_MAX}
      /\ y \in Int /\ y \in {b - h, b - h + SEQ_MAX, b - h - SEQ_MAX}
  BY <1>1, Constants DEF Offset, Numbers
<1>3. y - x < Half /\ x - y <= Half
  OBVIOUS
<1> HIDE DEF x, y
<1>4. Distance(a, b) = IF x <= y THEN y - x ELSE SEQ_MAX - (x - y)
  BY <1>1, <1>2, <1>3, Constants DEF Numbers
<1>5. /\ Less(a, b) <=> x < y
      /\ x <= y => Distance(a, b) = y - x
  BY <1>1, <1>2, <1>3, <1>4, Constants
<1> QED
  BY <1>5 DEF x, y

LEMMA DistanceKept ==
  ASSUME NEW a \in Numbers, NEW b \in Numbers, NEW i \in 0 .. Half
  PROVE  Distance(Plus(a, i), Plus(b, i)) = Distance(a, b)
<1> DEFINE x == Plus(a, i)
           y == Plus(b, i)
<1>1. /\ x \in Numbers /\ x = IF a + i >= SEQ_MAX THEN a + i - SEQ_MAX ELSE a + i
      /\ y \in Numbers /\ y = IF b + i >= SEQ_MAX THEN b + i - SEQ_MAX ELSE b + i
  <2>1. i \in (-SEQ_MAX) .. SEQ_MAX
    BY Constants
  <2>2. a + i >= 0 /\ b + i >= 0
    BY Constants DEF Numbers
  <2>3. x \in Numbers /\ x = IF a + i < 0 THEN a + i + SEQ_MAX
                            ELSE IF a + i >= SEQ_MAX THEN a + i - SEQ_MAX ELSE a + i
    BY <2>1, Sums
  <2>4. y \in Numbers /\ y = IF b + i < 0 THEN b + i + SEQ_MAX
                            ELSE IF b + i >= SEQ_MAX THEN b + i - SEQ_MAX ELSE b + i
    BY <2>1, Sums
  <2> QED
    BY <2>2, <2>3, <2>4, Constants DEF Numbers
<1> HIDE DEF x, y
<1>2. /\ Distance(a, b) = IF b < a THEN b - a + SEQ_MAX ELSE b - a
      /\ Distance(x, y) = IF y < x THEN y - x + SEQ_MAX ELSE y - x
  BY <1>1, Distances
<1>3. Distance(x, y) = Distance(a, b)
  BY <1>1, <1>2, Constants DEF Numbers
<1> QED
  BY <1>3 DEF x, y

LEMMA SumOfSums ==
  ASSUME NEW h \in Numbers, NEW i \in (-Half) .. Half, NEW j \in (-Half) .. Half
  PROVE  Plus(Plus(h, i), j) = Plus(h, i + j)
<1> DEFINE x == Plus(h, i)
<1>1. /\ i \in (-SEQ_MAX) .. SEQ_MAX /\ j \in (-SEQ_MAX) .. SEQ_MAX
      /\ i + j \in (-SEQ_MAX) .. SEQ_MAX
  BY Constants
<1>2. x \in Numbers /\ x = IF h + i < 0 THEN h + i + SEQ_MAX
                          ELSE IF h + i >= SEQ_MAX THEN h + i - SEQ_MAX ELSE h + i
  BY <1>1, Sums
<1> HIDE DEF x
<1>3. Plus(x, j) = IF x + j < 0 THEN x + j + SEQ_MAX
                   ELSE IF x + j >= SEQ_MAX THEN x + j - SEQ_MAX ELSE x + j
  BY <1>1, <1>2, Sums
<1>4. Plus(h, i + j) = IF h + (i + j) < 0 THEN h + (i + j) + SEQ_MAX
                       ELSE IF h + (i + j) >= SEQ_MAX THEN h + (i + j) - SEQ_MAX ELSE h + (i + j)
  BY <1>1, Sums
<1>5. Plus(x, j) \in Numbers /\ Plus(h, i + j) \in Numbers
  BY <1>1, <1>2, Sums
<1>6. Plus(x, j) = Plus(h, i + j)
  BY <1>2, <1>3, <1>4, <1>5, Constants DEF Numbers
<1> QED
  BY <1>6 DEF x

LEMMA OffsetOfSum ==
  ASSUME NEW h \in Numbers, NEW n \in Numbers, NEW j \in (-Half) .. Half,
         Offset(h, n) + j \in (-Half) .. (Half - 1)
  PROVE  Plus(n, j) \in Numbers /\ Offset(h, Plus(n, j)) = Offset(h, n) + j
<1>1. Offset(h, n) \in (-Half) .. (Half - 1) /\ Plus(h, Offset(h, n)) = n
  BY OffsetOfNumber
<1>2. Offset(h, n) \in (-Half) .. Half
  BY <1>1, Constants
<1>3. Plus(Plus(h, Offset(h, n)), j) = Plus(h, Offset(h, n) + j)
  BY <1>2, SumOfSums
<1>4. Plus(n, j) = Plus(h, Offset(h, n) + j)
  BY <1>1, <1>3
<1> QED
  BY <1>4, NumberAtOffset

\* Ahead is where its distance says.
LEMMA DistanceOfSum ==
  ASSUME NEW a \in Numbers, NEW i \in 0 .. (Half - 1)
  PROVE  Plus(a, i) \in Numbers /\ Distance(a, Plus(a, i)) = i
<1>1. i \in (-Half) .. (Half - 1)
  BY Constants
<1>2. Plus(a, i) \in Numbers /\ Offset(a, Plus(a, i)) = i
  BY <1>1, NumberAtOffset
<1>3. Distance(a, Plus(a, i)) \in Numbers
  BY <1>2, Distances
<1> QED
  BY <1>2, <1>3, Constants DEF Offset, Numbers

LEMMA SumOfDistance ==
  ASSUME NEW a \in Numbers, NEW b \in Numbers, Distance(a, b) < Half
  PROVE  Plus(a, Distance(a, b)) = b /\ Offset(a, b) = Distance(a, b) /\ Distance(a, b) \in Nat
BY OffsetOfNumber, Distances, Constants DEF Offset, Numbers

-----------------------------------------------------------------------------
(* The invariant.                                                          *)

Parts       == {x \in [k : 1 .. MaxFragments, of : 1 .. MaxFragments] : x.k <= x.of}
DataPackets == [number : Numbers, part : Parts]
Heartbeats  == [first : Numbers, last : Numbers]
Packets     == DataPackets \cup Heartbeats
Acknacks    == [first : Numbers, nacked : SUBSET Numbers]

Kinds ==
  /\ StreamTypeOK
  /\ kept \in [DOMAIN kept -> Parts]
  /\ inbox \in [DOMAIN inbox -> Parts]
  /\ down \in Seq(Packets)
  /\ up \in Seq(Acknacks)

\* Where a number is, seen from the last handled one.
Place(n) == Offset(last_handled, n)

\* What the input stream has handled and the output stream not erased yet.
Acknowledged == Minus(first_unacked, 1)
Behind       == Distance(Acknowledged, last_handled)
Ahead        == Distance(last_handled, last_unacked)

\* The output stream keeps a window of less than half a turn around the last
\* handled number.
Window ==
  /\ Behind + Ahead < Half
  /\ DOMAIN kept = {n \in Numbers : 1 - Behind <= Place(n) /\ Place(n) <= Ahead}
  /\ Distance(Acknowledged, last_sent) <= Behind + Ahead

\* A packet on the line is about numbers of which none has been pushed since
\* and none is half a turn behind.
Lowest(packet) == IF IsData(packet) THEN packet.number ELSE packet.first

PacketFits(packet) ==
  /\ -Half < Place(Lowest(packet))
  /\ IF IsData(packet)
       THEN /\ Place(packet.number) <= Ahead
            /\ Place(packet.number) > 0 => packet.part = kept[packet.number]
       ELSE Place(packet.first) <= 1

\* What arrives before a packet does not leave it half a turn behind.
Reaches(packet, n) == Place(n) - Place(Lowest(packet)) < Half

Carries(queue) ==
  /\ \A p \in DOMAIN queue : PacketFits(queue[p])
  /\ \A p, q \in DOMAIN queue :
       q < p /\ IsData(queue[q]) => Reaches(queue[p], queue[q].number)
  /\ \A p \in DOMAIN queue, n \in DOMAIN inbox : Reaches(queue[p], n)

Line == Carries(down)

\* Acknacks are about handled numbers, and come in their order.
Answers(queue) ==
  /\ \A i \in DOMAIN queue : Distance(first_unacked, queue[i].first) <= Behind
  /\ \A i, j \in DOMAIN queue :
       i < j => Distance(first_unacked, queue[i].first)
                  <= Distance(first_unacked, queue[j].first)

\* The messages are whole submessages, but for the one being collected.
Follows(x, y) == IF x.k < x.of THEN y = [k |-> x.k + 1, of |-> x.of] ELSE y.k = 1

Fragments ==
  /\ \A i \in 1 .. (Ahead - 1) :
       Follows(kept[Plus(last_handled, i)], kept[Plus(last_handled, i + 1)])
  /\ Ahead > 0 => kept[last_unacked].k = kept[last_unacked].of
  /\ ~cut => IF Ahead = 0 THEN fragment_msg = <<>>
             ELSE fragment_msg = [k \in 1 .. (kept[Plus(last_handled, 1)].k - 1) |-> k]

StreamInv ==
  Kinds /\ Window /\ WaitingIsPushed /\ Line /\ Answers(up) /\ Fragments

-----------------------------------------------------------------------------

LEMMA Places ==
  ASSUME Kinds, Window
  PROVE  /\ last_handled \in Numbers /\ last_unacked \in Numbers
         /\ first_unacked \in Numbers /\ last_sent \in Numbers
         /\ Acknowledged \in Numbers /\ Plus(Acknowledged, 1) = first_unacked
         /\ Behind \in Nat /\ Ahead \in Nat
         /\ Place(Acknowledged) = -Behind
         /\ Place(first_unacked) = 1 - Behind
         /\ Place(last_handled) = 0
         /\ Place(last_unacked) = Ahead
<1>1. /\ last_handled \in Numbers /\ last_unacked \in Numbers
      /\ first_unacked \in Numbers /\ last_sent \in Numbers
  BY DEF Kinds, StreamTypeOK
<1>2. /\ Acknowledged \in Numbers
      /\ Acknowledged = IF first_unacked = 0 THEN SEQ_MAX - 1 ELSE first_unacked - 1
  <2>1. 1 \in (-SEQ_MAX) .. SEQ_MAX
    BY Constants
  <2>2. /\ Minus(first_unacked, 1) \in Numbers
        /\ Minus(first_unacked, 1) = IF first_unacked - 1 < 0 THEN first_unacked - 1 + SEQ_MAX
                          ELSE IF first_unacked - 1 >= SEQ_MAX THEN first_unacked - 1 - SEQ_MAX
                          ELSE first_unacked - 1
    BY <1>1, <2>1, Sums
  <2> QED
    BY <1>1, <2>2, Constants DEF Acknowledged, Numbers
<1>3. Plus(Acknowledged, 1) = first_unacked
  <2>1. 1 \in (-SEQ_MAX) .. SEQ_MAX
    BY Constants
  <2>2. Plus(Acknowledged, 1) = IF Acknowledged + 1 < 0 THEN Acknowledged + 1 + SEQ_MAX
                                ELSE IF Acknowledged + 1 >= SEQ_MAX THEN Acknowledged + 1 - SEQ_MAX
                                ELSE Acknowledged + 1
    BY <1>2, <2>1, Sums
  <2> HIDE DEF Acknowledged
  <2> QED
    BY <1>1, <1>2, <2>2, Constants DEF Numbers
<1>4. /\ Behind \in Numbers /\ Ahead \in Numbers
      /\ Behind = IF last_handled < Acknowledged THEN last_handled - Acknowledged + SEQ_MAX
                  ELSE last_handled - Acknowledged
      /\ Ahead = IF last_unacked < last_handled THEN last_unacked - last_handled + SEQ_MAX
                 ELSE last_unacked - last_handled
  BY <1>1, <1>2, Distances DEF Behind, Ahead
<1>5. Behind < Half /\ Ahead < Half
  BY <1>4, Constants DEF Window, Numbers
<1>6. /\ Place(last_unacked) = Ahead
      /\ Place(last_handled) = 0
  <2>1. Distance(last_handled, last_handled) = 0
    BY <1>1, Distances DEF Numbers
  <2> QED
    BY <1>5, <2>1, Constants DEF Place, Offset, Ahead
<1>7. Place(Acknowledged) = -Behind
  <2>1. Distance(last_handled, Acknowledged)
          = IF Acknowledged < last_handled THEN Acknowledged - last_handled + SEQ_MAX
            ELSE Acknowledged - last_handled
    BY <1>1, <1>2, Distances
  <2> QED
    BY <1>1, <1>2, <1>4, <1>5, <2>1, Constants DEF Place, Offset, Numbers
<1>8. Place(first_unacked) = 1 - Behind
  <2>1. Distance(last_handled, first_unacked)
          = IF first_unacked < last_handled THEN first_unacked - last_handled + SEQ_MAX
            ELSE first_unacked - last_handled
    BY <1>1, Distances
  <2> QED
    BY <1>1, <1>2, <1>4, <1>5, <2>1, Constants DEF Place, Offset, Numbers
<1> QED
  BY <1>1, <1>2, <1>3, <1>4, <1>6, <1>7, <1>8 DEF Numbers

LEMMA PlaceOfNumber ==
  ASSUME Kinds, NEW n \in Numbers
  PROVE  Place(n) \in (-Half) .. (Half - 1) /\ Plus(last_handled, Place(n)) = n
BY OffsetOfNumber DEF Place, Kinds, StreamTypeOK

\* The numbers the input stream has still to handle.
LEMMA NumbersBetween ==
  ASSUME NEW h \in Numbers, NEW u \in Numbers, Distance(h, u) < Half
  PROVE  {Plus(h, i) : i \in 1 .. Distance(h, u)}
           = {n \in Numbers : 1 <= Offset(h, n) /\ Offset(h, n) <= Distance(h, u)}
<1> DEFINE d == Distance(h, u)
<1>1. d \in Nat /\ d < Half
  BY SumOfDistance
<1> HIDE DEF d
<1>2. ASSUME NEW i \in 1 .. d
      PROVE  Plus(h, i) \in Numbers /\ Offset(h, Plus(h, i)) = i
  BY <1>1, Constants, NumberAtOffset
<1>3. ASSUME NEW n \in Numbers, 1 <= Offset(h, n), Offset(h, n) <= d
      PROVE  \E i \in 1 .. d : n = Plus(h, i)
  BY <1>1, <1>3, OffsetOfNumber
<1>4. {Plus(h, i) : i \in 1 .. d} = {n \in Numbers : 1 <= Offset(h, n) /\ Offset(h, n) <= d}
  BY <1>1, <1>2, <1>3
<1> QED
  BY <1>4 DEF d

LEMMA UnhandledPlaces ==
  ASSUME Kinds, Window
  PROVE  Unhandled = {n \in Numbers : 1 <= Place(n) /\ Place(n) <= Ahead}
<1>1. last_handled \in Numbers /\ last_unacked \in Numbers /\ Ahead < Half
  BY Places, Constants DEF Window
<1> QED
  BY <1>1, NumbersBetween DEF Unhandled, Ahead, Place

\* The invariant is what the two ends agree on.
LEMMA InvariantAgrees ==
  ASSUME StreamInv
  PROVE  StreamsAgree
<1> USE DEF StreamInv
<1>1. Unhandled \subseteq DOMAIN kept
  BY Places, PlaceOfNumber, UnhandledPlaces DEF Window
<1>2. Distance(first_unacked, Plus(last_unacked, 1)) < Half
  <2>1. /\ last_handled \in Numbers /\ Acknowledged \in Numbers /\ last_unacked \in Numbers
        /\ Behind \in Nat /\ Ahead \in Nat
        /\ Offset(last_handled, Acknowledged) = -Behind
        /\ Offset(last_handled, last_unacked) = Ahead
        /\ Plus(Acknowledged, 1) = first_unacked
    BY Places DEF Place
  <2>2. Behind + Ahead < Half
    BY DEF Window
  <2> HIDE DEF Behind, Ahead, Acknowledged
  <2>3. Distance(Acknowledged, last_unacked) = Ahead + Behind
    BY <2>1, <2>2, Compared, Constants
  <2>4. Distance(first_unacked, Plus(last_unacked, 1)) = Ahead + Behind
    BY <2>1, <2>3, DistanceKept, Constants
  <2> QED
    BY <2>1, <2>2, <2>4
<1> QED
  BY <1>1, <1>2 DEF StreamsAgree, NothingDropped, Kinds

-----------------------------------------------------------------------------
(* Queues.                                                                 *)

\* What is left of a queue is its end.
EndOf(part, queue) ==
  \E d \in Nat : \A i \in DOMAIN part : i + d \in DOMAIN queue /\ part[i] = queue[i + d]

LEMMA NewestOfQueue ==
  ASSUME NEW S, NEW queue \in Seq(S), NEW size \in Nat \ {0}
  PROVE  /\ Newest(queue, size) \in Seq(S) /\ Len(Newest(queue, size)) <= size
         /\ EndOf(Newest(queue, size), queue)
<1> DEFINE m == IF Len(queue) > size THEN Len(queue) - size + 1 ELSE 1
           newest == SubSeq(queue, m, Len(queue))
<1>1. Len(queue) \in Nat /\ m \in Nat /\ m >= 1 /\ m <= Len(queue) + 1
      /\ Len(queue) - m + 1 <= size
  OBVIOUS
<1> HIDE DEF m
<1>2. newest \in Seq(S) /\ Len(newest) = Len(queue) - m + 1
      /\ \A i \in 1 .. (Len(queue) - m + 1) : newest[i] = queue[m + i - 1]
  BY <1>1
<1> HIDE DEF newest
<1>3. DOMAIN newest = 1 .. (Len(queue) - m + 1) /\ DOMAIN queue = 1 .. Len(queue)
  BY <1>2
<1>4. \A i \in DOMAIN newest : i + (m - 1) \in DOMAIN queue /\ newest[i] = queue[i + (m - 1)]
  <2> TAKE i \in DOMAIN newest
  <2>1. i \in 1 .. (Len(queue) - m + 1) /\ newest[i] = queue[m + i - 1]
    BY <1>2, <1>3
  <2>2. m + i - 1 = i + (m - 1) /\ i + (m - 1) \in 1 .. Len(queue)
    BY <1>1, <2>1
  <2> QED
    BY <1>3, <2>1, <2>2
<1>5. EndOf(newest, queue)
  BY <1>1, <1>4 DEF EndOf
<1>6. Newest(queue, size) = newest
  BY DEF Newest, newest, m
<1> QED
  BY <1>1, <1>2, <1>5, <1>6

LEMMA TailOfQueue ==
  ASSUME NEW S, NEW queue \in Seq(S), queue # <<>>
  PROVE  /\ Head(queue) \in S /\ Head(queue) = queue[1] /\ 1 \in DOMAIN queue
         /\ Tail(queue) \in Seq(S) /\ Len(Tail(queue)) <= Len(queue)
         /\ \A i \in DOMAIN Tail(queue) :
              i \in Nat \ {0} /\ i + 1 \in DOMAIN queue /\ Tail(queue)[i] = queue[i + 1]
  OBVIOUS

\* What the line carries fits without the packets it has lost.
LEMMA EndCarried ==
  ASSUME NEW queue \in Seq(Packets), NEW part \in Seq(Packets),
         EndOf(part, queue), Carries(queue)
  PROVE  Carries(part)
<1>1. PICK d \in Nat :
        \A i \in DOMAIN part : i + d \in DOMAIN queue /\ part[i] = queue[i + d]
  BY DEF EndOf
<1>2. DOMAIN part \subseteq Nat
  OBVIOUS
<1>3. \A p \in DOMAIN part : PacketFits(part[p])
  BY <1>1 DEF Carries
<1>4. \A p, q \in DOMAIN part :
        q < p /\ IsData(part[q]) => Reaches(part[p], part[q].number)
  <2> SUFFICES ASSUME NEW p \in DOMAIN part, NEW q \in DOMAIN part,
                      q < p, IsData(part[q])
               PROVE  Reaches(part[p], part[q].number)
    OBVIOUS
  <2>1. p + d \in DOMAIN queue /\ part[p] = queue[p + d]
    BY <1>1
  <2>2. q + d \in DOMAIN queue /\ part[q] = queue[q + d]
    BY <1>1
  <2>3. q + d < p + d
    BY <1>2
  <2> QED
    BY <2>1, <2>2, <2>3 DEF Carries
<1>5. \A p \in DOMAIN part, n \in DOMAIN inbox : Reaches(part[p], n)
  BY <1>1 DEF Carries
<1> QED
  BY <1>3, <1>4, <1>5 DEF Carries

\* Packets about numbers that the output stream still keeps fit behind it.
LEMMA MoreCarried ==
  ASSUME Kinds, Window, WaitingIsPushed, Line,
         NEW packets \in Seq(Packets),
         \A p \in DOMAIN packets :
           PacketFits(packets[p]) /\ 1 - Behind <= Place(Lowest(packets[p]))
  PROVE  Carries(down \o packets)
<1> DEFINE queue == down \o packets
<1>1. down \in Seq(Packets) /\ DOMAIN inbox \subseteq Numbers
  BY DEF Kinds, StreamTypeOK
<1>2. \A p \in DOMAIN queue :
        \/ p \in DOMAIN down /\ queue[p] = down[p]
        \/ p \in Nat /\ p > Len(down) /\ p - Len(down) \in DOMAIN packets
             /\ queue[p] = packets[p - Len(down)]
  BY <1>1
<1>3. \A p \in DOMAIN queue : p \in Nat /\ queue[p] \in Packets
  BY <1>1
<1>4. DOMAIN down = 1 .. Len(down) /\ Len(down) \in Nat
  BY <1>1
<1> HIDE DEF queue
<1>5. \A p \in DOMAIN queue : PacketFits(queue[p])
  BY <1>2 DEF Carries, Line
<1>6. /\ Behind \in Nat /\ Ahead \in Nat /\ Behind + Ahead < Half
      /\ Half \in Nat
  BY Places, Constants DEF Window
<1>7. \A p \in DOMAIN queue : Lowest(queue[p]) \in Numbers
  BY <1>3 DEF Lowest, IsData, Packets, DataPackets, Heartbeats
<1>8. ASSUME NEW p \in DOMAIN queue, p > Len(down), NEW n \in Numbers, Place(n) <= Ahead
      PROVE  Reaches(queue[p], n)
  <2>1. p - Len(down) \in DOMAIN packets /\ queue[p] = packets[p - Len(down)]
    BY <1>2, <1>3, <1>4, <1>8
  <2>2. 1 - Behind <= Place(Lowest(queue[p]))
    BY <2>1
  <2>3. Place(n) \in Int /\ Place(Lowest(queue[p])) \in Int
    BY <1>7, PlaceOfNumber
  <2> QED
    BY <1>6, <1>8, <2>2, <2>3 DEF Reaches
<1>9. ASSUME NEW p \in DOMAIN queue, NEW q \in DOMAIN queue, q < p, IsData(queue[q])
      PROVE  Reaches(queue[p], queue[q].number)
  <2>1. CASE p \in DOMAIN down /\ queue[p] = down[p]
    <3>1. q \in DOMAIN down /\ queue[q] = down[q]
      BY <1>2, <1>3, <1>4, <1>9, <2>1
    <3> QED
      BY <1>9, <2>1, <3>1 DEF Carries, Line
  <2>2. CASE p > Len(down)
    <3>1. queue[q].number \in Numbers /\ Place(queue[q].number) <= Ahead
      BY <1>3, <1>5, <1>9 DEF PacketFits, IsData, Packets, DataPackets, Heartbeats
    <3> QED
      BY <1>8, <2>2, <3>1
  <2> QED
    BY <1>2, <2>1, <2>2
<1>10. ASSUME NEW p \in DOMAIN queue, NEW n \in DOMAIN inbox
       PROVE  Reaches(queue[p], n)
  <2>1. CASE p \in DOMAIN down /\ queue[p] = down[p]
    BY <2>1 DEF Carries, Line
  <2>2. CASE p > Len(down)
    <3>1. n \in Numbers /\ Place(n) <= Ahead
      BY UnhandledPlaces DEF WaitingIsPushed
    <3> QED
      BY <1>8, <2>2, <3>1
  <2> QED
    BY <1>2, <2>1, <2>2
<1> QED
  BY <1>5, <1>9, <1>10 DEF Carries, queue

\* So what a sender leaves on the line is in order.
LEMMA DownCarries ==
  ASSUME Kinds, Window, WaitingIsPushed, Line,
         NEW packets \in Seq(Packets), NEW arrive \in BOOLEAN,
         \A p \in DOMAIN packets :
           PacketFits(packets[p]) /\ 1 - Behind <= Place(Lowest(packets[p]))
  PROVE  /\ Down(packets, arrive) \in Seq(Packets)
         /\ Len(Down(packets, arrive)) <= DATA_MAX
         /\ Carries(Down(packets, arrive))
<1>1. CASE arrive
  <2>1. down \o packets \in Seq(Packets)
    BY DEF Kinds
  <2>2. Carries(down \o packets)
    BY MoreCarried
  <2>3. Down(packets, arrive) = Newest(down \o packets, DATA_MAX)
    BY <1>1 DEF Down
  <2> QED
    BY <2>1, <2>2, <2>3, NewestOfQueue, EndCarried, Constants
<1>2. CASE ~arrive
  BY <1>2 DEF Down, Kinds, StreamTypeOK, Line
<1> QED
  BY <1>1, <1>2

LEMMA UpAnswers ==
  ASSUME Kinds, Window, Answers(up), NEW packet \in Acknacks, NEW arrives \in BOOLEAN,
         Distance(first_unacked, packet.first) = Behind
  PROVE  /\ Up(packet, arrives) \in Seq(Acknacks)
         /\ Len(Up(packet, arrives)) <= ACKNACK_MAX
         /\ Answers(Up(packet, arrives))
<1>1. CASE arrives
  <2> DEFINE queue == Append(up, packet)
             part  == Up(packet, arrives)
  <2>1. up \in Seq(Acknacks)
    BY DEF Kinds
  <2>2. queue \in Seq(Acknacks)
    BY <2>1
  <2>3. part = Newest(queue, ACKNACK_MAX)
    BY <1>1 DEF Up
  <2>4. part \in Seq(Acknacks) /\ Len(part) <= ACKNACK_MAX /\ EndOf(part, queue)
    BY <2>2, <2>3, NewestOfQueue, Constants
  <2>5. \A i \in DOMAIN queue :
          \/ i \in DOMAIN up /\ queue[i] = up[i]
          \/ i = Len(up) + 1 /\ queue[i] = packet
    BY <2>1
  <2>6. DOMAIN up = 1 .. Len(up) /\ Len(up) \in Nat /\ DOMAIN queue = 1 .. (Len(up) + 1)
    BY <2>1
  <2> HIDE DEF queue, part
  <2>7. Behind \in Int /\ \A i \in DOMAIN queue : Distance(first_unacked, queue[i].first) \in Int
    <3>1. Behind \in Nat /\ first_unacked \in Numbers
      BY Places
    <3>2. \A i \in DOMAIN queue : queue[i].first \in Numbers
      <4>1. \A i \in DOMAIN queue : queue[i] \in Acknacks
        BY <2>2
      <4> QED
        BY <4>1 DEF Acknacks
    <3>3. \A i \in DOMAIN queue : Distance(first_unacked, queue[i].first) \in Numbers
      BY <3>1, <3>2, Distances
    <3> QED
      BY <3>1, <3>3, Constants DEF Numbers
  <2>8. \A i \in DOMAIN queue : Distance(first_unacked, queue[i].first) <= Behind
    BY <2>5, <2>7 DEF Answers
  <2>9. \A i, j \in DOMAIN queue : i < j =>
          Distance(first_unacked, queue[i].first) <= Distance(first_unacked, queue[j].first)
    BY <2>5, <2>6, <2>7, <2>8 DEF Answers
  <2>10. PICK d \in Nat :
           \A i \in DOMAIN part : i + d \in DOMAIN queue /\ part[i] = queue[i + d]
    BY <2>4 DEF EndOf
  <2>11. DOMAIN part \subseteq Nat
    BY <2>4
  <2>12. \A i, j \in DOMAIN part : i < j => i + d < j + d
    BY <2>11
  <2>13. Answers(part)
    BY <2>8, <2>9, <2>10, <2>12 DEF Answers
  <2> QED
    BY <2>4, <2>13 DEF part
<1>2. CASE ~arrives
  BY <1>2 DEF Up, Kinds, StreamTypeOK
<1> QED
  BY <1>1, <1>2

-----------------------------------------------------------------------------
(* The output stream's steps.                                              *)

\* The messages still to be handled stay what they are.
SameMessages ==
  /\ last_handled' = last_handled /\ Ahead' = Ahead
  /\ \A i \in 1 .. Ahead : kept'[Plus(last_handled, i)] = kept[Plus(last_handled, i)]

\* More messages come after them.
MoreMessages ==
  /\ last_handled' = last_handled
  /\ Ahead' \in Nat /\ Ahead < Ahead'
  /\ \A i \in 1 .. Ahead : kept'[Plus(last_handled, i)] = kept[Plus(last_handled, i)]

LEMMA WindowLength ==
  ASSUME Kinds, Window
  PROVE  Distance(Acknowledged, last_unacked) = Behind + Ahead
<1>1. /\ last_handled \in Numbers /\ Acknowledged \in Numbers /\ last_unacked \in Numbers
      /\ Behind \in Nat /\ Ahead \in Nat
      /\ Offset(last_handled, Acknowledged) = -Behind
      /\ Offset(last_handled, last_unacked) = Ahead
  BY Places DEF Place
<1>2. Behind + Ahead < Half
  BY DEF Window
<1> QED
  BY <1>1, <1>2, Compared, Constants

LEMMA PlaceInWindow ==
  ASSUME Kinds, Window, NEW n \in Numbers, Distance(Acknowledged, n) <= Behind + Ahead
  PROVE  Place(n) = Distance(Acknowledged, n) - Behind
<1> DEFINE d == Distance(Acknowledged, n)
<1>1. /\ last_handled \in Numbers /\ Acknowledged \in Numbers
      /\ Behind \in Nat /\ Ahead \in Nat
      /\ Offset(last_handled, Acknowledged) = -Behind
  BY Places DEF Place
<1>2. Behind + Ahead < Half
  BY DEF Window
<1>3. d \in Nat /\ Plus(Acknowledged, d) = n
  BY <1>1, <1>2, SumOfDistance, Distances, Constants DEF Numbers
<1>4. d \in (-Half) .. Half /\ -Behind + d \in (-Half) .. (Half - 1)
  BY <1>1, <1>2, <1>3, Constants
<1> HIDE DEF d
<1>5. Offset(last_handled, Plus(Acknowledged, d)) = -Behind + d
  BY <1>1, <1>4, OffsetOfSum
<1>6. Place(n) = d - Behind
  BY <1>1, <1>3, <1>5 DEF Place
<1> QED
  BY <1>6 DEF d

LEMMA PushKeeps ==
  ASSUME StreamInv, NEW fragments \in 1 .. MaxFragments, PushSubmessage(fragments)
  PROVE  StreamInv' /\ MoreMessages
<1> DEFINE number(k) == Plus(last_unacked, k)
           h == last_handled
<1>1. Kinds /\ Window /\ WaitingIsPushed /\ Line /\ Answers(up) /\ Fragments
  BY DEF StreamInv
<1>2. /\ h \in Numbers /\ last_unacked \in Numbers /\ Acknowledged \in Numbers
      /\ first_unacked \in Numbers
      /\ Behind \in Nat /\ Ahead \in Nat /\ Behind + Ahead < Half
      /\ Place(first_unacked) = 1 - Behind /\ Place(last_unacked) = Ahead
      /\ Plus(Acknowledged, 1) = first_unacked
  BY <1>1, Places DEF Window
<1>3. /\ fragments \in Nat \ {0} /\ fragments <= MaxFragments /\ MaxFragments \in Nat
      /\ Half \in Nat /\ Half >= 2 /\ SEQ_MAX = 2 * Half
      /\ RELIABLE_STREAM_DEPTH \in Nat \ {0}
      /\ RELIABLE_STREAM_DEPTH + MaxFragments <= Half
  BY Constants
<1>4. /\ Room
      /\ kept' = [n \in DOMAIN kept \cup {number(k) : k \in 1 .. fragments} |->
                   IF n \in DOMAIN kept THEN kept[n]
                   ELSE [k |-> Distance(last_unacked, n), of |-> fragments]]
      /\ last_unacked' = number(fragments)
      /\ last_sent' = last_sent /\ first_unacked' = first_unacked
      /\ last_handled' = h /\ last_announced' = last_announced
      /\ inbox' = inbox /\ fragment_msg' = fragment_msg /\ cut' = cut
      /\ session' = session
      /\ down' = down /\ up' = up
  BY DEF PushSubmessage, inputVars
\* The window has room for another submessage.
<1>5. Behind + Ahead + 1 <= RELIABLE_STREAM_DEPTH
  <2> DEFINE end == Plus(first_unacked, RELIABLE_STREAM_DEPTH - 1)
             D   == RELIABLE_STREAM_DEPTH
  <2>1. end = Plus(Acknowledged, D)
    <3>1. 1 \in (-Half) .. Half /\ D - 1 \in (-Half) .. Half /\ 1 + (D - 1) = D
      BY <1>3
    <3>2. Plus(Plus(Acknowledged, 1), D - 1) = Plus(Acknowledged, 1 + (D - 1))
      BY <1>2, <3>1, SumOfSums
    <3> QED
      BY <1>2, <3>1, <3>2
  <2>2. D \in (-Half) .. (Half - 1)
    BY <1>3
  <2>3. end \in Numbers /\ Offset(Acknowledged, end) = D
    BY <1>2, <2>1, <2>2, NumberAtOffset
  <2>4. Offset(Acknowledged, last_unacked) = Behind + Ahead
    <3>1. Distance(Acknowledged, last_unacked) = Behind + Ahead
      BY <1>1, WindowLength
    <3> QED
      BY <1>2, <3>1, SumOfDistance
  <2>5. Less(last_unacked, end)
    BY <1>4 DEF Room
  <2> HIDE DEF end
  <2>6. Behind + Ahead < D
    <3>1. D - (Behind + Ahead) < Half /\ (Behind + Ahead) - D <= Half
      BY <1>2, <1>3
    <3> QED
      BY <1>2, <2>3, <2>4, <2>5, <3>1, Compared
  <2> QED
    BY <1>2, <1>3, <2>6
<1>6. ASSUME NEW k \in 1 .. fragments
      PROVE  /\ number(k) \in Numbers /\ Place(number(k)) = Ahead + k
             /\ Distance(last_unacked, number(k)) = k
             /\ number(k) = Plus(h, Ahead + k)
  <2>1. k \in 0 .. (Half - 1) /\ k \in (-Half) .. Half
        /\ Ahead \in (-Half) .. Half
        /\ Ahead + k \in (-Half) .. (Half - 1)
    BY <1>2, <1>3, <1>5
  <2>2. number(k) \in Numbers /\ Distance(last_unacked, number(k)) = k
    BY <1>2, <2>1, DistanceOfSum
  <2>3. Place(number(k)) = Ahead + k
    BY <1>2, <2>1, OffsetOfSum DEF Place
  <2>4. number(k) = Plus(h, Ahead + k)
    BY <1>1, <2>2, <2>3, PlaceOfNumber
  <2> QED
    BY <2>2, <2>3, <2>4
<1>7. \A n \in Numbers : Place(n) \in Int /\ Plus(h, Place(n)) = n
  BY <1>1, PlaceOfNumber
<1>8. DOMAIN kept = {n \in Numbers : 1 - Behind <= Place(n) /\ Place(n) <= Ahead}
  BY <1>1 DEF Window
<1>9. /\ last_unacked' \in Numbers
      /\ \A n \in Numbers : Place(n)' = Place(n)
      /\ Acknowledged' = Acknowledged
      /\ Behind' = Behind
  BY <1>3, <1>4, <1>6 DEF Place, Acknowledged, Behind
<1>10. Ahead' = Ahead + fragments
  <2>1. fragments \in 1 .. fragments
    BY <1>3
  <2>2. last_unacked' \in Numbers /\ Place(last_unacked') = Ahead + fragments
    BY <1>4, <1>6, <2>1
  <2>3. Distance(h, last_unacked') \in Numbers
    BY <1>2, <2>2, Distances
  <2>4. Distance(h, last_unacked') = Ahead + fragments
    BY <1>2, <1>3, <2>2, <2>3 DEF Place, Offset, Numbers
  <2> QED
    BY <1>4, <2>4 DEF Ahead
\* The messages pushed are the fragments of the submessage.
<1>11. ASSUME NEW i \in (Ahead + 1) .. (Ahead + fragments)
       PROVE  /\ Plus(h, i) \in DOMAIN kept'
              /\ kept'[Plus(h, i)] = [k |-> i - Ahead, of |-> fragments]
  <2>1. i - Ahead \in 1 .. fragments /\ Ahead + (i - Ahead) = i
    BY <1>2, <1>3
  <2>2. /\ number(i - Ahead) \in Numbers /\ Place(number(i - Ahead)) = i
        /\ Distance(last_unacked, number(i - Ahead)) = i - Ahead
        /\ number(i - Ahead) = Plus(h, i)
    BY <1>6, <2>1
  <2>3. number(i - Ahead) \notin DOMAIN kept
    BY <1>2, <1>8, <2>2
  <2> HIDE DEF number
  <2> QED
    BY <1>4, <2>1, <2>2, <2>3
<1>12. \A n \in DOMAIN kept : n \in DOMAIN kept' /\ kept'[n] = kept[n]
  BY <1>4
<1>13. DOMAIN kept' = {n \in Numbers : 1 - Behind <= Place(n) /\ Place(n) <= Ahead + fragments}
  <2>1. ASSUME NEW n \in DOMAIN kept'
        PROVE  n \in Numbers /\ 1 - Behind <= Place(n) /\ Place(n) <= Ahead + fragments
    BY <1>2, <1>3, <1>4, <1>6, <1>7, <1>8, <2>1
  <2>2. ASSUME NEW n \in Numbers, 1 - Behind <= Place(n), Place(n) <= Ahead + fragments
        PROVE  n \in DOMAIN kept'
    <3>1. CASE Place(n) <= Ahead
      BY <1>8, <1>12, <2>2, <3>1
    <3>2. CASE Place(n) > Ahead
      <4>1. Place(n) \in (Ahead + 1) .. (Ahead + fragments) /\ Plus(h, Place(n)) = n
        BY <1>2, <1>3, <1>7, <2>2, <3>2
      <4> QED
        BY <1>11, <4>1
    <3> QED
      BY <1>2, <1>7, <3>1, <3>2
  <2> HIDE DEF number
  <2> QED
    BY <2>1, <2>2
<1>14. Window'
  <2>1. Distance(Acknowledged', last_sent') <= Behind' + Ahead'
    <3>1. Distance(Acknowledged, last_sent) <= Behind + Ahead
      BY <1>1 DEF Window
    <3>2. Distance(Acknowledged, last_sent) \in Int
      BY <1>1, Places, Distances, <1>3 DEF Numbers
    <3> QED
      BY <1>2, <1>3, <1>4, <1>9, <1>10, <3>1, <3>2
  <2>2. Behind' + Ahead' < Half
    BY <1>2, <1>3, <1>5, <1>9, <1>10
  <2>3. DOMAIN kept' = {n \in Numbers : 1 - Behind' <= Place(n)' /\ Place(n)' <= Ahead'}
    BY <1>9, <1>10, <1>13
  <2> QED
    BY <2>1, <2>2, <2>3 DEF Window
<1>15. Kinds'
  <2>1. kept' \in [DOMAIN kept' -> Parts]
    <3>1. \A n \in DOMAIN kept' : kept'[n] \in Parts
      <4> TAKE n \in DOMAIN kept'
      <4>1. CASE n \in DOMAIN kept
        BY <1>1, <1>12, <4>1 DEF Kinds
      <4>2. CASE n \notin DOMAIN kept
        <5>1. Place(n) \in (Ahead + 1) .. (Ahead + fragments) /\ Plus(h, Place(n)) = n
          BY <1>2, <1>3, <1>7, <1>8, <1>13, <4>2
        <5>2. kept'[n] = [k |-> Place(n) - Ahead, of |-> fragments]
          BY <1>11, <5>1
        <5> QED
          BY <1>2, <1>3, <5>1, <5>2 DEF Parts
      <4> QED
        BY <4>1, <4>2
    <3> QED
      BY <1>4, <3>1
  <2>2. DOMAIN kept' \subseteq Numbers
    BY <1>13
  <2>3. last_unacked' \in Numbers
    BY <1>9
  <2> QED
    BY <1>1, <1>4, <2>1, <2>2, <2>3 DEF Kinds, StreamTypeOK
<1>16. WaitingIsPushed'
  <2>1. Unhandled' = {n \in Numbers : 1 <= Place(n)' /\ Place(n)' <= Ahead'}
    <3>1. h \in Numbers /\ last_unacked' \in Numbers /\ Distance(h, last_unacked') < Half
      BY <1>2, <1>3, <1>4, <1>5, <1>9, <1>10 DEF Ahead
    <3> QED
      BY <1>4, <3>1, NumbersBetween DEF Unhandled, Ahead, Place
  <2>2. Unhandled = {n \in Numbers : 1 <= Place(n) /\ Place(n) <= Ahead}
    BY <1>1, UnhandledPlaces
  <2> QED
    BY <1>1, <1>2, <1>3, <1>4, <1>7, <1>8, <1>9, <1>10, <1>12, <2>1, <2>2 DEF WaitingIsPushed
<1>17. Line'
  <2>1. \A packet \in Packets : PacketFits(packet) => PacketFits(packet)'
    <3> SUFFICES ASSUME NEW packet \in Packets, PacketFits(packet)
                 PROVE  PacketFits(packet)'
      OBVIOUS
    <3>1. Lowest(packet)' = Lowest(packet) /\ Lowest(packet) \in Numbers
      BY DEF Lowest, IsData, Packets, DataPackets, Heartbeats
    <3>2. CASE IsData(packet)
      <4>1. packet.number \in Numbers
        BY <3>2 DEF IsData, Packets, DataPackets, Heartbeats
      <4>2. /\ -Half < Place(packet.number) /\ Place(packet.number) <= Ahead
            /\ Place(packet.number) > 0 => packet.part = kept[packet.number]
        BY <3>2 DEF PacketFits, Lowest
      <4>3. Place(packet.number) > 0 => packet.number \in DOMAIN kept
        BY <1>2, <1>7, <1>8, <4>1, <4>2
      <4> QED
        BY <1>2, <1>3, <1>7, <1>9, <1>10, <1>12, <3>2, <4>1, <4>2, <4>3 DEF PacketFits, Lowest
    <3>3. CASE ~IsData(packet)
      BY <1>9, <3>1, <3>3 DEF PacketFits, Lowest
    <3> QED
      BY <3>2, <3>3
  <2>2. \A packet \in Packets, n \in Numbers : Reaches(packet, n)' <=> Reaches(packet, n)
    BY <1>9 DEF Reaches, Lowest, IsData, Packets, DataPackets, Heartbeats
  <2>3. \A p \in DOMAIN down : down[p] \in Packets
    BY <1>1 DEF Kinds
  <2>4. \A p \in DOMAIN down : IsData(down[p]) => down[p].number \in Numbers
    BY <2>3 DEF IsData, Packets, DataPackets, Heartbeats
  <2>5. DOMAIN inbox \subseteq Numbers
    BY <1>1 DEF Kinds, StreamTypeOK
  <2> QED
    BY <1>1, <1>4, <2>1, <2>2, <2>3, <2>4, <2>5 DEF Line, Carries
<1>18. Answers(up)'
  BY <1>1, <1>4, <1>9 DEF Answers
<1>19. Fragments'
  <2>1. ASSUME NEW i \in 1 .. (Ahead + fragments - 1)
        PROVE  Follows(kept'[Plus(h, i)], kept'[Plus(h, i + 1)])
    <3>1. CASE i < Ahead
      <4>1. /\ i \in 1 .. (Ahead - 1)
            /\ i \in (-Half) .. (Half - 1) /\ i + 1 \in (-Half) .. (Half - 1)
        BY <1>2, <1>3, <3>1
      <4>2. Plus(h, i) \in DOMAIN kept /\ Plus(h, i + 1) \in DOMAIN kept
        BY <1>2, <1>8, <4>1, NumberAtOffset DEF Place
      <4> QED
        BY <1>1, <1>12, <4>1, <4>2 DEF Fragments
    <3>2. CASE i = Ahead
      <4>1. kept'[Plus(h, i + 1)].k = 1
        <5> DEFINE j == i + 1
        <5>1. j \in (Ahead + 1) .. (Ahead + fragments) /\ j - Ahead = 1
          BY <1>2, <1>3, <3>2
        <5> HIDE DEF j
        <5>2. kept'[Plus(h, j)] = [k |-> j - Ahead, of |-> fragments]
          BY <1>11, <5>1
        <5>3. kept'[Plus(h, j)].k = 1
          BY <5>1, <5>2
        <5> QED
          BY <5>3 DEF j
      <4>2. Plus(h, i) = last_unacked /\ last_unacked \in DOMAIN kept
        BY <1>2, <1>7, <1>8, <3>2
      <4>3. kept'[Plus(h, i)].k = kept'[Plus(h, i)].of
        BY <1>1, <1>12, <2>1, <3>2, <4>2 DEF Fragments
      <4>4. kept[last_unacked] \in Parts
        BY <1>1, <4>2 DEF Kinds
      <4>5. ~(kept'[Plus(h, i)].k < kept'[Plus(h, i)].of)
        BY <1>12, <4>2, <4>3, <4>4 DEF Parts
      <4> QED
        BY <4>1, <4>5 DEF Follows
    <3>3. CASE i > Ahead
      <4>1. i \in (Ahead + 1) .. (Ahead + fragments) /\ i + 1 \in (Ahead + 1) .. (Ahead + fragments)
        BY <1>2, <1>3, <3>3
      <4>2. kept'[Plus(h, i)] = [k |-> i - Ahead, of |-> fragments]
        BY <1>11, <4>1
      <4> DEFINE j == i + 1
      <4>3. j \in (Ahead + 1) .. (Ahead + fragments)
        BY <4>1
      <4>4. j - Ahead = (i - Ahead) + 1 /\ i - Ahead < fragments
        BY <1>2, <1>3, <4>1
      <4> HIDE DEF j
      <4>5. kept'[Plus(h, j)] = [k |-> j - Ahead, of |-> fragments]
        BY <1>11, <4>3
      <4>6. Follows(kept'[Plus(h, i)], kept'[Plus(h, j)])
        BY <4>2, <4>4, <4>5 DEF Follows
      <4> QED
        BY <4>6 DEF j
    <3> QED
      BY <1>2, <1>3, <3>1, <3>2, <3>3
  <2>2. kept'[last_unacked'].k = kept'[last_unacked'].of
    <3>1. fragments \in 1 .. fragments /\ Ahead + fragments \in (Ahead + 1) .. (Ahead + fragments)
      BY <1>2, <1>3
    <3>2. last_unacked' = Plus(h, Ahead + fragments)
      BY <1>4, <1>6, <3>1
    <3> DEFINE i == Ahead + fragments
    <3>3. kept'[last_unacked'] = [k |-> i - Ahead, of |-> fragments]
      BY <1>11, <3>1, <3>2
    <3>4. i - Ahead = fragments
      BY <1>2, <1>3
    <3> QED
      BY <3>3, <3>4
  <2>3. ASSUME Ahead = 0 PROVE kept'[Plus(h, 1)].k = 1
    <3>1. 1 \in (Ahead + 1) .. (Ahead + fragments) /\ 1 - Ahead = 1
      BY <1>2, <1>3, <2>3
    <3>2. kept'[Plus(h, 1)] = [k |-> 1 - Ahead, of |-> fragments]
      BY <1>11, <3>1
    <3> QED
      BY <3>1, <3>2
  <2>4. Ahead > 0 => kept'[Plus(h, 1)] = kept[Plus(h, 1)]
    <3>1. ASSUME Ahead > 0 PROVE Plus(h, 1) \in DOMAIN kept
      <4>1. 1 \in (-Half) .. (Half - 1)
        BY <1>3
      <4> QED
        BY <1>2, <1>8, <3>1, <4>1, NumberAtOffset DEF Place
    <3> QED
      BY <3>1, <1>12
  <2>5. ~cut => fragment_msg = [k \in 1 .. (kept'[Plus(h, 1)].k - 1) |-> k]
    <3>1. CASE Ahead = 0
      <4>1. ~cut => fragment_msg = <<>>
        BY <1>1, <3>1 DEF Fragments
      <4>2. [k \in 1 .. (kept'[Plus(h, 1)].k - 1) |-> k] = <<>>
        BY <2>3, <3>1
      <4> QED
        BY <4>1, <4>2
    <3>2. CASE Ahead > 0
      BY <1>1, <2>4, <3>2 DEF Fragments
    <3> QED
      BY <1>2, <3>1, <3>2
  <2>6. \A i \in 1 .. (Ahead' - 1) :
          Follows(kept'[Plus(last_handled', i)], kept'[Plus(last_handled', i + 1)])
    <3> TAKE i \in 1 .. (Ahead' - 1)
    <3>1. i \in 1 .. (Ahead + fragments - 1)
      BY <1>2, <1>3, <1>10
    <3>2. Follows(kept'[Plus(h, i)], kept'[Plus(h, i + 1)])
      BY <2>1, <3>1
    <3> QED
      BY <1>4, <3>2
  <2>7. Ahead' > 0
    BY <1>2, <1>3, <1>10
  <2>8. ~cut' => fragment_msg' = [k \in 1 .. (kept'[Plus(last_handled', 1)].k - 1) |-> k]
    BY <1>4, <2>5
  <2> QED
    BY <2>2, <2>6, <2>7, <2>8 DEF Fragments
<1>20. MoreMessages
  <2>1. \A i \in 1 .. Ahead : Plus(h, i) \in DOMAIN kept
    <3> TAKE i \in 1 .. Ahead
    <3>1. i \in (-Half) .. (Half - 1) /\ 1 - Behind <= i
      BY <1>2, <1>3
    <3> QED
      BY <1>2, <1>8, <3>1, NumberAtOffset DEF Place
  <2> QED
    BY <1>2, <1>3, <1>4, <1>10, <1>12, <2>1 DEF MoreMessages
<1> QED
  BY <1>14, <1>15, <1>16, <1>17, <1>18, <1>19, <1>20 DEF StreamInv

\* A step that only leaves packets on the line.
LEMMA SentKeeps ==
  ASSUME StreamInv, NEW packets \in Seq(Packets), NEW arrive \in BOOLEAN,
         \A p \in DOMAIN packets :
           PacketFits(packets[p]) /\ 1 - Behind <= Place(Lowest(packets[p])),
         down' = Down(packets, arrive), last_sent' \in Numbers,
         Distance(Acknowledged, last_sent') <= Behind + Ahead,
         UNCHANGED <<last_unacked, first_unacked, kept, inputVars, up, session>>
  PROVE  StreamInv'
<1>1. Kinds /\ Window /\ WaitingIsPushed /\ Line /\ Answers(up) /\ Fragments
  BY DEF StreamInv
<1>2. /\ last_unacked' = last_unacked /\ first_unacked' = first_unacked
      /\ kept' = kept /\ up' = up
      /\ last_handled' = last_handled /\ last_announced' = last_announced
      /\ inbox' = inbox /\ fragment_msg' = fragment_msg /\ cut' = cut
      /\ session' = session
  BY DEF inputVars
<1>3. /\ down' \in Seq(Packets) /\ Len(down') <= DATA_MAX
      /\ Carries(down')
  BY <1>1, DownCarries
<1>4. Kinds'
  BY <1>1, <1>2, <1>3 DEF Kinds, StreamTypeOK
<1>5. Acknowledged' = Acknowledged /\ Behind' = Behind /\ Ahead' = Ahead
      /\ \A n : Place(n)' = Place(n)
  BY <1>2 DEF Behind, Ahead, Place, Acknowledged
<1>6. Window'
  BY <1>1, <1>2, <1>5 DEF Window
<1>7. WaitingIsPushed'
  BY <1>1, <1>2 DEF WaitingIsPushed, Unhandled
<1>8. Line'
  BY <1>2, <1>3, <1>5 DEF Line, Carries, PacketFits, Reaches, Lowest
<1>9. Answers(up)'
  BY <1>1, <1>2, <1>5 DEF Answers
<1>10. Fragments'
  BY <1>1, <1>2, <1>5 DEF Fragments
<1> QED
  BY <1>4, <1>6, <1>7, <1>8, <1>9, <1>10 DEF StreamInv

\* A kept message's packet fits.
LEMMA DataFits ==
  ASSUME Kinds, Window, NEW n \in DOMAIN kept
  PROVE  /\ Data(n) \in Packets /\ PacketFits(Data(n))
         /\ Lowest(Data(n)) = n /\ n \in Numbers /\ 1 - Behind <= Place(n)
<1>1. /\ n \in Numbers /\ 1 - Behind <= Place(n) /\ Place(n) <= Ahead
      /\ Place(n) \in Int /\ Behind \in Nat /\ Behind < Half /\ Half \in Nat
  BY Places, PlaceOfNumber, Constants DEF Window
<1>2. kept[n] \in Parts
  BY DEF Kinds
<1>3. IsData(Data(n)) /\ Data(n).number = n /\ Data(n).part = kept[n]
  BY DEF Data, IsData
<1> QED
  BY <1>1, <1>2, <1>3 DEF Data, Packets, DataPackets, PacketFits, Lowest

\* What get_next_message asks for is there.
LEMMA NextIsKept ==
  ASSUME StreamInv, Less(last_sent, last_unacked)
  PROVE  LET next == Plus(last_sent, 1)
         IN  next \in DOMAIN kept /\ Distance(Acknowledged, next) <= Behind + Ahead
<1> DEFINE s    == Distance(Acknowledged, last_sent)
           next == Plus(last_sent, 1)
<1>1. Kinds /\ Window
  BY DEF StreamInv
<1>2. /\ Acknowledged \in Numbers /\ last_sent \in Numbers /\ last_unacked \in Numbers
      /\ Behind \in Nat /\ Ahead \in Nat /\ Behind + Ahead < Half
  BY <1>1, Places DEF Window
<1>3. s \in Nat /\ s <= Behind + Ahead /\ Offset(Acknowledged, last_sent) = s
  <2>1. s <= Behind + Ahead
    BY <1>1 DEF Window
  <2>2. s \in Numbers
    BY <1>2, Distances
  <2> HIDE DEF s
  <2>3. s < Half
    BY <1>2, <2>1, <2>2, Constants DEF Numbers
  <2> USE DEF s
  <2> QED
    BY <1>2, <2>1, <2>3, SumOfDistance
<1>4. Offset(Acknowledged, last_unacked) = Behind + Ahead
  BY <1>1, <1>2, WindowLength, SumOfDistance
<1> HIDE DEF s
<1>5. s < Behind + Ahead
  <2>1. (Behind + Ahead) - s < Half /\ s - (Behind + Ahead) <= Half
    BY <1>2, <1>3, Constants
  <2> QED
    BY <1>2, <1>3, <1>4, <2>1, Compared
<1>6. next \in Numbers /\ Distance(Acknowledged, next) = s + 1
  <2>1. 1 \in (-Half) .. Half /\ s + 1 \in (-Half) .. (Half - 1)
    BY <1>2, <1>3, <1>5, Constants
  <2>2. next \in Numbers /\ Offset(Acknowledged, next) = s + 1
    BY <1>2, <1>3, <2>1, OffsetOfSum
  <2>3. Distance(Acknowledged, next) \in Numbers
    BY <1>2, <2>2, Distances
  <2> QED
    BY <1>3, <2>2, <2>3, Constants DEF Offset, Numbers
<1> HIDE DEF next
<1>7. Distance(Acknowledged, next) <= Behind + Ahead
  BY <1>2, <1>3, <1>5, <1>6
<1>8. next \in DOMAIN kept
  <2>1. Place(next) = s + 1 - Behind
    <3>1. Place(next) = Distance(Acknowledged, next) - Behind
      BY <1>1, <1>6, <1>7, PlaceInWindow
    <3> QED
      BY <1>2, <1>3, <1>6, <3>1
  <2>2. 1 - Behind <= Place(next) /\ Place(next) <= Ahead
    BY <1>2, <1>3, <1>5, <2>1
  <2> QED
    BY <1>1, <1>6, <2>2 DEF Window
<1> QED
  BY <1>7, <1>8 DEF next

LEMMA SendNextKeeps ==
  ASSUME StreamInv, NEW arrives \in BOOLEAN, SendNext(arrives)
  PROVE  StreamInv'
<1>1. Kinds /\ Window
  BY DEF StreamInv
<1>2. /\ Less(last_sent, last_unacked)
      /\ last_sent' = Plus(last_sent, 1)
      /\ down' = Down(<<Data(last_sent')>>, arrives)
      /\ UNCHANGED <<last_unacked, first_unacked, kept, inputVars, up, session>>
  BY DEF SendNext
<1>3. last_sent' \in DOMAIN kept /\ Distance(Acknowledged, last_sent') <= Behind + Ahead
  BY <1>2, NextIsKept
<1> DEFINE packets == <<Data(last_sent')>>
<1>4. /\ packets \in Seq(Packets)
      /\ \A p \in DOMAIN packets :
           PacketFits(packets[p]) /\ 1 - Behind <= Place(Lowest(packets[p]))
  BY <1>1, <1>3, DataFits
<1> HIDE DEF packets
<1>5. down' = Down(packets, arrives)
  BY <1>2 DEF packets
<1>6. last_sent' \in Numbers
  BY <1>1, <1>3, DataFits
<1> QED
  BY <1>2, <1>3, <1>4, <1>5, <1>6, SentKeeps

LEMMA SendHeartbeatKeeps ==
  ASSUME StreamInv, NEW arrives \in BOOLEAN, SendHeartbeat(arrives)
  PROVE  StreamInv'
<1> DEFINE heartbeat == [first |-> first_unacked, last |-> last_unacked]
           packets   == <<heartbeat>>
<1>1. Kinds /\ Window
  BY DEF StreamInv
<1>2. /\ first_unacked \in Numbers /\ last_unacked \in Numbers /\ last_sent \in Numbers
      /\ Behind \in Nat /\ Ahead \in Nat /\ Behind + Ahead < Half
      /\ Place(first_unacked) = 1 - Behind
      /\ Distance(Acknowledged, last_sent) <= Behind + Ahead
  BY <1>1, Places DEF Window
<1>3. heartbeat \in Packets /\ ~IsData(heartbeat) /\ Lowest(heartbeat) = first_unacked
  BY <1>2 DEF Packets, Heartbeats, IsData, Lowest
<1>4. PacketFits(heartbeat)
  BY <1>2, <1>3, Constants DEF PacketFits
<1>5. /\ packets \in Seq(Packets)
      /\ \A p \in DOMAIN packets :
           PacketFits(packets[p]) /\ 1 - Behind <= Place(Lowest(packets[p]))
  BY <1>2, <1>3, <1>4
<1>6. /\ down' = Down(packets, arrives) /\ last_sent' = last_sent
      /\ UNCHANGED <<last_unacked, first_unacked, kept, inputVars, up, session>>
  BY DEF SendHeartbeat, outputVars
<1> HIDE DEF packets
<1> QED
  BY <1>2, <1>5, <1>6, SentKeeps

LEMMA NacksAreFinite == IsFiniteSet(Nacks)
<1>1. 0 \in Int /\ NACKS - 1 \in Int
  BY StreamAssumption
<1> QED
  BY <1>1, FS_Interval DEF Nacks

\* What is sent again are messages still kept.
LEMMA SentAgainCarries ==
  ASSUME StreamInv, NEW arriving \in SUBSET Nacks, ReceiveAcknack(arriving)
  PROVE  down' \in Seq(Packets) /\ Len(down') <= DATA_MAX /\ Carries(down')
<1> DEFINE ack   == Head(up)
           asked == {i \in arriving : Plus(ack.first, i) \in ack.nacked \cap DOMAIN kept}
<1>1. Kinds /\ Window /\ WaitingIsPushed /\ Line
  BY DEF StreamInv
<1>2. PICK missing \in [1 .. Cardinality(asked) -> asked] :
        down' = Down([i \in DOMAIN missing |-> Data(Plus(ack.first, missing[i]))], TRUE)
  BY DEF ReceiveAcknack
<1>3. Cardinality(asked) \in Nat
  <2>1. IsFiniteSet(asked)
    BY NacksAreFinite, FS_Subset
  <2> QED
    BY <2>1, FS_CardinalityType
<1> DEFINE packets == [i \in 1 .. Cardinality(asked) |-> Data(Plus(ack.first, missing[i]))]
<1>4. \A i \in 1 .. Cardinality(asked) : Plus(ack.first, missing[i]) \in DOMAIN kept
  OBVIOUS
<1>5. down' = Down(packets, TRUE)
  BY <1>2
<1> HIDE DEF asked
<1>6. packets \in Seq(Packets)
  BY <1>1, <1>3, <1>4, DataFits
<1>7. \A p \in DOMAIN packets :
        PacketFits(packets[p]) /\ 1 - Behind <= Place(Lowest(packets[p]))
  BY <1>1, <1>3, <1>4, DataFits
<1> HIDE DEF packets
<1> QED
  BY <1>1, <1>5, <1>6, <1>7, DownCarries

LEMMA AcknackKeeps ==
  ASSUME StreamInv, NEW arriving \in SUBSET Nacks, ReceiveAcknack(arriving)
  PROVE  StreamInv' /\ SameMessages
<1> DEFINE ack   == Head(up)
           first == ack.first
           t     == Distance(first_unacked, first)
<1>1. Kinds /\ Window /\ WaitingIsPushed /\ Line /\ Answers(up) /\ Fragments
  BY DEF StreamInv
<1>2. /\ up # <<>> /\ up' = Tail(up)
      /\ IF AtMost(first, Plus(last_sent, 1)) /\ Less(first_unacked, first)
           THEN /\ kept' = Without(kept, Acked(first))
                /\ first_unacked' = first
           ELSE UNCHANGED <<kept, first_unacked>>
      /\ UNCHANGED <<last_unacked, last_sent, inputVars, session>>
  BY DEF ReceiveAcknack
<1>3. /\ last_unacked' = last_unacked /\ last_sent' = last_sent
      /\ last_handled' = last_handled /\ last_announced' = last_announced
      /\ inbox' = inbox /\ fragment_msg' = fragment_msg /\ cut' = cut
      /\ session' = session
      /\ \A n : Place(n)' = Place(n)
      /\ Ahead' = Ahead
  BY <1>2 DEF inputVars, Place, Ahead
<1>4. /\ last_handled \in Numbers /\ last_unacked \in Numbers /\ first_unacked \in Numbers
      /\ last_sent \in Numbers /\ Acknowledged \in Numbers
      /\ Plus(Acknowledged, 1) = first_unacked
      /\ Behind \in Nat /\ Ahead \in Nat /\ Behind + Ahead < Half
      /\ Offset(last_handled, Acknowledged) = -Behind
      /\ Place(first_unacked) = 1 - Behind
  BY <1>1, Places DEF Window, Place
<1>5. Half \in Nat /\ Half >= 2 /\ SEQ_MAX = 2 * Half
  BY Constants
<1>6. up \in Seq(Acknacks)
  BY <1>1 DEF Kinds
<1>7. ack = up[1] /\ 1 \in DOMAIN up /\ ack \in Acknacks /\ first \in Numbers
  <2>1. ack = up[1] /\ 1 \in DOMAIN up /\ ack \in Acknacks
    BY <1>2, <1>6, TailOfQueue
  <2> QED
    BY <2>1 DEF Acknacks
<1>8. t \in Nat /\ t <= Behind /\ Plus(first_unacked, t) = first /\ t \in Numbers
  <2>1. t <= Behind
    BY <1>1, <1>7 DEF Answers
  <2>2. t \in Numbers
    BY <1>4, <1>7, Distances
  <2> HIDE DEF t
  <2>3. t < Half
    BY <1>4, <1>5, <2>1, <2>2 DEF Numbers
  <2>4. t \in Nat
    BY <2>2 DEF Numbers
  <2> USE DEF t
  <2> QED
    BY <1>4, <1>7, <2>1, <2>2, <2>3, <2>4, SumOfDistance
<1> HIDE DEF t
<1> DEFINE Erased ==
             /\ first_unacked' \in Numbers
             /\ Behind' \in Nat /\ Behind' <= Behind
             /\ DOMAIN kept' = {n \in Numbers : 1 - Behind' <= Place(n)' /\ Place(n)' <= Ahead'}
             /\ \A n \in DOMAIN kept' : n \in DOMAIN kept /\ kept'[n] = kept[n]
             /\ Distance(Acknowledged', last_sent') <= Behind' + Ahead'
             /\ Answers(up)'
             /\ kept' = [n \in DOMAIN kept' |-> kept'[n]]
\* What the acknack acknowledges is erased.
<1>9. ASSUME AtMost(first, Plus(last_sent, 1)), Less(first_unacked, first)
      PROVE  Erased
  <2>1. /\ first_unacked' = first
        /\ kept' = Without(kept, Acked(first))
    BY <1>2, <1>9
  <2>2. t \in 1 .. Behind
    <3>1. t >= 1
      BY <1>4, <1>7, <1>9, Distances DEF t
    <3> QED
      BY <1>4, <1>8, <3>1
  <2>3. Place(first) = 1 - Behind + t
    <3>1. t \in (-Half) .. Half
          /\ Offset(last_handled, first_unacked) + t \in (-Half) .. (Half - 1)
      BY <1>4, <1>5, <1>8, <2>2 DEF Place
    <3>2. Offset(last_handled, Plus(first_unacked, t)) = Offset(last_handled, first_unacked) + t
      BY <1>4, <3>1, OffsetOfSum
    <3> QED
      BY <1>4, <1>8, <3>2 DEF Place
  <2> DEFINE a == Plus(Acknowledged, t)
  <2>4. /\ a \in Numbers /\ Offset(last_handled, a) = t - Behind
        /\ Offset(Acknowledged, a) = t /\ Plus(a, 1) = first
    <3>1. t \in (-Half) .. Half /\ 1 \in (-Half) .. Half /\ t \in (-Half) .. (Half - 1)
          /\ -Behind + t \in (-Half) .. (Half - 1) /\ 1 + t = t + 1
      BY <1>4, <1>5, <1>8, <2>2
    <3>2. a \in Numbers /\ Offset(last_handled, a) = -Behind + t
      BY <1>4, <3>1, OffsetOfSum
    <3>3. Offset(Acknowledged, a) = t
      BY <1>4, <3>1, NumberAtOffset
    <3>4. Plus(Plus(Acknowledged, t), 1) = Plus(Acknowledged, t + 1)
      BY <1>4, <3>1, SumOfSums
    <3>5. Plus(Plus(Acknowledged, 1), t) = Plus(Acknowledged, 1 + t)
      BY <1>4, <3>1, SumOfSums
    <3>6. Plus(a, 1) = first
      BY <1>4, <1>8, <3>1, <3>4, <3>5
    <3> HIDE DEF a
    <3> QED
      BY <1>4, <1>8, <3>2, <3>3, <3>6
  <2> HIDE DEF a
  <2>5. Acknowledged' = a
    <3>1. 1 \in (-SEQ_MAX) .. SEQ_MAX
      BY <1>5
    <3>2. Plus(a, 1) = IF a + 1 < 0 THEN a + 1 + SEQ_MAX
                       ELSE IF a + 1 >= SEQ_MAX THEN a + 1 - SEQ_MAX ELSE a + 1
      BY <2>4, <3>1, Sums
    <3>3. Minus(first, 1) = IF first - 1 < 0 THEN first - 1 + SEQ_MAX
                            ELSE IF first - 1 >= SEQ_MAX THEN first - 1 - SEQ_MAX ELSE first - 1
      BY <1>7, <3>1, Sums
    <3>4. Minus(first, 1) = a
      BY <1>5, <1>7, <2>4, <3>2, <3>3 DEF Numbers
    <3> QED
      BY <2>1, <3>4 DEF Acknowledged
  <2>6. Behind' = Behind - t
    <3>1. Offset(last_handled, last_handled) = 0
      BY <1>1, Places DEF Place
    <3>2. Distance(a, last_handled) = 0 - (t - Behind)
      <4>1. 0 - (t - Behind) < Half /\ (t - Behind) - 0 <= Half /\ t - Behind <= 0
        BY <1>4, <1>5, <2>2
      <4> QED
        BY <1>4, <2>4, <3>1, <4>1, Compared
    <3> QED
      BY <1>3, <1>4, <1>8, <2>5, <3>2 DEF Behind
  <2>7. \A n \in DOMAIN kept : Less(n, first) <=> Place(n) < 1 - Behind + t
    <3> TAKE n \in DOMAIN kept
    <3>1. n \in Numbers /\ 1 - Behind <= Place(n) /\ Place(n) <= Ahead /\ Place(n) \in Int
      BY <1>1, PlaceOfNumber DEF Window
    <3>2. Place(first) - Place(n) < Half /\ Place(n) - Place(first) <= Half
      BY <1>4, <1>5, <2>2, <2>3, <3>1
    <3> QED
      BY <1>4, <1>7, <2>3, <3>1, <3>2, Compared DEF Place
  <2>8. DOMAIN kept' = {n \in Numbers : 1 - Behind' <= Place(n)' /\ Place(n)' <= Ahead'}
    <3>1. DOMAIN kept' = {n \in DOMAIN kept : ~(Place(n) < 1 - Behind + t)}
      BY <2>1, <2>7 DEF Without, Acked
    <3>2. DOMAIN kept = {n \in Numbers : 1 - Behind <= Place(n) /\ Place(n) <= Ahead}
      BY <1>1 DEF Window
    <3>3. \A n \in Numbers : Place(n) \in Int
      BY <1>1, PlaceOfNumber
    <3>4. 1 - Behind' = 1 - Behind + t
      BY <1>4, <1>8, <2>6
    <3>5. {n \in Numbers : 1 - Behind' <= Place(n)' /\ Place(n)' <= Ahead'}
            = {n \in Numbers : 1 - Behind + t <= Place(n) /\ Place(n) <= Ahead}
      BY <1>3, <3>4
    <3>6. \A n \in Numbers :
            /\ ~(Place(n) < 1 - Behind + t) <=> 1 - Behind + t <= Place(n)
            /\ 1 - Behind + t <= Place(n) => 1 - Behind <= Place(n)
      BY <1>4, <1>8, <3>3
    <3> QED
      BY <3>1, <3>2, <3>5, <3>6
  <2>9. \A n \in DOMAIN kept' : n \in DOMAIN kept /\ kept'[n] = kept[n]
    BY <2>1 DEF Without
  \* The guard: no further than what has been sent.
  <2>10. Distance(Acknowledged', last_sent') <= Behind' + Ahead'
    <3> DEFINE s == Distance(Acknowledged, last_sent)
    <3>1. s \in Nat /\ s <= Behind + Ahead /\ Offset(Acknowledged, last_sent) = s
      <4>1. s <= Behind + Ahead
        BY <1>1 DEF Window
      <4>2. s \in Numbers
        BY <1>4, Distances
      <4> HIDE DEF s
      <4>3. s < Half
        BY <1>4, <1>5, <4>1, <4>2 DEF Numbers
      <4> USE DEF s
      <4> QED
        BY <1>4, <4>1, <4>3, SumOfDistance
    <3> HIDE DEF s
    <3>2. ~Less(last_sent, a)
      <4>1. Less(Plus(last_sent, 1), Plus(a, 1)) <=> Less(last_sent, a)
        <5>1. Plus(last_sent, 1) \in Numbers /\ 1 \in 0 .. Half
          <6>1. 1 \in (-SEQ_MAX) .. SEQ_MAX
            BY <1>5
          <6> QED
            BY <1>4, <1>5, <6>1, Sums
        <5>2. Distance(Plus(last_sent, 1), Plus(a, 1)) = Distance(last_sent, a)
          BY <1>4, <2>4, <5>1, DistanceKept
        <5> QED
          BY <5>2 DEF Less, Distance
      <4> QED
        BY <1>9, <2>4, <4>1 DEF AtMost
    <3>3. t - s < Half /\ s - t <= Half /\ s - t < Half
      BY <1>4, <1>5, <1>8, <3>1
    <3>4. s >= t
      <4>1. Less(last_sent, a) <=> s < t
        BY <1>4, <2>4, <3>1, <3>3, Compared
      <4> QED
        BY <1>8, <3>1, <3>2, <4>1
    <3>5. Distance(a, last_sent) = s - t
      BY <1>4, <1>5, <1>8, <2>4, <3>1, <3>3, <3>4, Compared
    <3> QED
      BY <1>3, <1>4, <1>8, <2>5, <2>6, <3>1, <3>5
  <2>11. \A x \in Numbers : t <= Distance(first_unacked, x) /\ Distance(first_unacked, x) <= Behind
           => Distance(first, x) = Distance(first_unacked, x) - t
    <3> SUFFICES ASSUME NEW x \in Numbers, t <= Distance(first_unacked, x),
                        Distance(first_unacked, x) <= Behind
                 PROVE  Distance(first, x) = Distance(first_unacked, x) - t
      OBVIOUS
    <3> DEFINE y == Distance(first_unacked, x)
    <3>1. y \in Nat /\ Offset(first_unacked, x) = y
      <4>1. y \in Numbers
        BY <1>4, Distances
      <4>2. y < Half
        BY <1>4, <1>5, <4>1 DEF Numbers
      <4> QED
        BY <1>4, <4>2, SumOfDistance
    <3>2. Offset(first_unacked, first) = t
      <4>1. t \in (-Half) .. (Half - 1)
        BY <1>4, <1>5, <1>8
      <4> QED
        BY <1>4, <1>8, <4>1, NumberAtOffset
    <3>3. t <= y /\ y <= Behind
      OBVIOUS
    <3> HIDE DEF y
    <3>4. y - t < Half /\ t - y <= Half
      BY <1>4, <1>5, <1>8, <3>1, <3>3
    <3>5. Distance(first, x) = y - t
      BY <1>4, <1>7, <3>1, <3>2, <3>3, <3>4, Compared
    <3> QED
      BY <3>5 DEF y
  <2>12. Answers(up)'
    <3>1. \A i \in DOMAIN up' :
            /\ i + 1 \in DOMAIN up /\ up'[i] = up[i + 1] /\ i \in Nat /\ 1 < i + 1
      BY <1>2, <1>6, TailOfQueue
    <3>2. \A i \in DOMAIN up : up[i].first \in Numbers
      <4>1. \A i \in DOMAIN up : up[i] \in Acknacks
        BY <1>6
      <4> QED
        BY <4>1 DEF Acknacks
    <3>3. \A i \in DOMAIN up :
            /\ Distance(first_unacked, up[i].first) <= Behind
            /\ Distance(first_unacked, up[i].first) \in Int
      <4>1. \A i \in DOMAIN up : Distance(first_unacked, up[i].first) \in Numbers
        BY <1>4, <3>2, Distances
      <4> QED
        BY <1>1, <1>5, <4>1 DEF Answers, Numbers
    <3>4. \A i \in DOMAIN up : 1 < i => t <= Distance(first_unacked, up[i].first)
      BY <1>1, <1>7 DEF Answers, t
    <3>5. \A i \in DOMAIN up : 1 < i =>
            Distance(first, up[i].first) = Distance(first_unacked, up[i].first) - t
      BY <2>11, <3>2, <3>3, <3>4
    <3>6. \A i \in DOMAIN up' : Distance(first_unacked', up'[i].first) <= Behind'
      BY <1>4, <1>8, <2>1, <2>6, <3>1, <3>3, <3>5
    <3>7. \A i, j \in DOMAIN up' : i < j =>
            Distance(first_unacked', up'[i].first) <= Distance(first_unacked', up'[j].first)
      <4> SUFFICES ASSUME NEW i \in DOMAIN up', NEW j \in DOMAIN up', i < j
                   PROVE  Distance(first, up'[i].first) <= Distance(first, up'[j].first)
        BY <2>1
      <4>1. i + 1 < j + 1
        BY <3>1
      <4>2. Distance(first_unacked, up[i + 1].first) <= Distance(first_unacked, up[j + 1].first)
        BY <1>1, <3>1, <4>1 DEF Answers
      <4> QED
        BY <1>8, <3>1, <3>3, <3>5, <4>2
    <3> QED
      BY <3>6, <3>7 DEF Answers
  <2>13. Behind' \in Nat /\ Behind' <= Behind
    BY <1>4, <1>8, <2>6
  <2>14. kept' = [n \in DOMAIN kept' |-> kept'[n]]
    BY <2>1 DEF Without
  <2> QED
    BY <1>7, <2>1, <2>8, <2>9, <2>10, <2>12, <2>13, <2>14
\* Or it is about nothing new.
<1>10. ASSUME ~(AtMost(first, Plus(last_sent, 1)) /\ Less(first_unacked, first))
       PROVE  Erased
  <2>1. first_unacked' = first_unacked /\ kept' = kept
    BY <1>2, <1>10
  <2>2. Acknowledged' = Acknowledged /\ Behind' = Behind
    BY <1>3, <2>1 DEF Acknowledged, Behind
  <2>3. Answers(up)'
    <3>1. \A i \in DOMAIN up' :
            /\ i + 1 \in DOMAIN up /\ up'[i] = up[i + 1] /\ i \in Nat
      BY <1>2, <1>6, TailOfQueue
    <3>2. \A i, j \in DOMAIN up' : i < j => i + 1 < j + 1
      BY <3>1
    <3> QED
      BY <1>1, <2>1, <2>2, <3>1, <3>2 DEF Answers
  <2>4. /\ DOMAIN kept = {n \in Numbers : 1 - Behind <= Place(n) /\ Place(n) <= Ahead}
        /\ Distance(Acknowledged, last_sent) <= Behind + Ahead
    BY <1>1 DEF Window
  <2>5. kept = [n \in DOMAIN kept |-> kept[n]]
    BY <1>1 DEF Kinds
  <2> QED
    BY <1>3, <1>4, <2>1, <2>2, <2>3, <2>4, <2>5
<1>11. Erased
  BY <1>9, <1>10
<1>12. /\ first_unacked' \in Numbers
       /\ Behind' \in Nat /\ Behind' <= Behind
       /\ DOMAIN kept' = {n \in Numbers : 1 - Behind' <= Place(n)' /\ Place(n)' <= Ahead'}
       /\ \A n \in DOMAIN kept' : n \in DOMAIN kept /\ kept'[n] = kept[n]
       /\ Distance(Acknowledged', last_sent') <= Behind' + Ahead'
       /\ Answers(up)'
       /\ kept' = [n \in DOMAIN kept' |-> kept'[n]]
  BY <1>11
<1> HIDE DEF Erased
<1>13. Behind' + Ahead' < Half
  BY <1>3, <1>4, <1>5, <1>12
<1>14. Window'
  BY <1>12, <1>13 DEF Window
<1>15. Kinds'
  <2>1. kept' \in [DOMAIN kept' -> Parts]
    BY <1>1, <1>12 DEF Kinds
  <2>2. DOMAIN kept' \subseteq Numbers
    BY <1>12
  <2>3. up' \in Seq(Acknacks) /\ Len(up') <= Len(up) /\ Len(up) \in Nat
    BY <1>2, <1>6, TailOfQueue
  <2>4. Len(up') <= ACKNACK_MAX
    BY <1>1, <2>3, Constants DEF Kinds, StreamTypeOK
  <2>5. down' \in Seq(Packets) /\ Len(down') <= DATA_MAX
    BY SentAgainCarries
  <2> QED
    BY <1>1, <1>3, <1>12, <2>1, <2>2, <2>3, <2>4, <2>5 DEF Kinds, StreamTypeOK
\* The numbers still to be handled are kept as they were.
<1>16. \A n \in Numbers : 1 <= Place(n) /\ Place(n) <= Ahead =>
         n \in DOMAIN kept' /\ kept'[n] = kept[n]
  BY <1>1, <1>3, <1>4, <1>12, PlaceOfNumber
<1>17. WaitingIsPushed'
  <2>1. Unhandled' = Unhandled
    BY <1>3 DEF Unhandled
  <2>2. Unhandled = {n \in Numbers : 1 <= Place(n) /\ Place(n) <= Ahead}
    BY <1>1, UnhandledPlaces
  <2> QED
    BY <1>1, <1>3, <1>16, <2>1, <2>2 DEF WaitingIsPushed
<1>18. Line'
  <2>1. \A packet \in Packets : PacketFits(packet) => PacketFits(packet)'
    <3> SUFFICES ASSUME NEW packet \in Packets, PacketFits(packet)
                 PROVE  PacketFits(packet)'
      OBVIOUS
    <3>1. CASE IsData(packet)
      <4>1. packet.number \in Numbers
        BY <3>1 DEF IsData, Packets, DataPackets, Heartbeats
      <4>2. /\ -Half < Place(packet.number) /\ Place(packet.number) <= Ahead
            /\ Place(packet.number) > 0 => packet.part = kept[packet.number]
            /\ Place(packet.number) \in Int
        BY <1>1, <3>1, <4>1, PlaceOfNumber DEF PacketFits, Lowest
      <4>3. Place(packet.number) > 0 => packet.part = kept'[packet.number]
        BY <1>16, <4>1, <4>2
      <4> QED
        BY <1>3, <3>1, <4>2, <4>3 DEF PacketFits, Lowest
    <3>2. CASE ~IsData(packet)
      BY <1>3, <3>2 DEF PacketFits, Lowest
    <3> QED
      BY <3>1, <3>2
  <2>2. \A packet, n : Reaches(packet, n)' <=> Reaches(packet, n)
    BY <1>3 DEF Reaches, Lowest
  <2>3. down' \in Seq(Packets) /\ Carries(down')
    BY SentAgainCarries
  <2>4. \A p \in DOMAIN down' : down'[p] \in Packets
    BY <2>3
  <2> QED
    BY <1>3, <2>1, <2>2, <2>3, <2>4 DEF Line, Carries
<1>19. \A i \in 1 .. Ahead : kept'[Plus(last_handled, i)] = kept[Plus(last_handled, i)]
  <2> TAKE i \in 1 .. Ahead
  <2>1. i \in (-Half) .. (Half - 1)
    BY <1>4, <1>5
  <2>2. Plus(last_handled, i) \in Numbers /\ Place(Plus(last_handled, i)) = i
    BY <1>4, <2>1, NumberAtOffset DEF Place
  <2> QED
    BY <1>4, <1>16, <2>2
<1>20. Fragments'
  <2>2. Ahead > 0 => kept'[last_unacked] = kept[last_unacked]
    <3>1. Place(last_unacked) = Ahead
      BY <1>1, Places
    <3> QED
      BY <1>4, <1>16, <3>1
  <2>3. ASSUME NEW i \in 1 .. (Ahead - 1)
        PROVE  Follows(kept'[Plus(last_handled, i)], kept'[Plus(last_handled, i + 1)])
    <3> DEFINE j == i + 1
    <3>1. i \in 1 .. Ahead /\ j \in 1 .. Ahead
      BY <1>4
    <3>2. Follows(kept[Plus(last_handled, i)], kept[Plus(last_handled, j)])
      BY <1>1 DEF Fragments
    <3> HIDE DEF j
    <3>3. Follows(kept'[Plus(last_handled, i)], kept'[Plus(last_handled, j)])
      BY <1>19, <3>1, <3>2
    <3> QED
      BY <3>3 DEF j
  <2>4. Ahead > 0 => kept'[Plus(last_handled, 1)] = kept[Plus(last_handled, 1)]
    BY <1>4, <1>19
  <2> QED
    BY <1>1, <1>3, <1>4, <2>2, <2>3, <2>4 DEF Fragments
<1> QED
  BY <1>3, <1>12, <1>14, <1>15, <1>17, <1>18, <1>19, <1>20 DEF StreamInv, SameMessages

-----------------------------------------------------------------------------
(* The input stream's steps.                                               *)

LEMMA ReceiveKeeps ==
  ASSUME StreamInv, ReceiveData
  PROVE  StreamInv'
<1> DEFINE packet == Head(down)
           n      == packet.number
<1>1. Kinds /\ Window /\ WaitingIsPushed /\ Line /\ Answers(up) /\ Fragments
  BY DEF StreamInv
<1>2. /\ down # <<>> /\ IsData(packet) /\ down' = Tail(down)
      /\ IF Accepted(n) /\ n \notin DOMAIN inbox
           THEN /\ inbox' = [m \in DOMAIN inbox \cup {n} |->
                              IF m = n THEN packet.part ELSE inbox[m]]
                /\ last_announced' = IF Less(last_announced, n) THEN n ELSE last_announced
           ELSE UNCHANGED <<inbox, last_announced>>
      /\ last_unacked' = last_unacked /\ last_sent' = last_sent
      /\ first_unacked' = first_unacked /\ kept' = kept
      /\ last_handled' = last_handled /\ fragment_msg' = fragment_msg /\ cut' = cut
      /\ session' = session
      /\ up' = up
  BY DEF ReceiveData, outputVars
<1>3. down \in Seq(Packets)
  BY <1>1 DEF Kinds
<1>4. /\ packet = down[1] /\ 1 \in DOMAIN down /\ packet \in Packets
      /\ down' \in Seq(Packets) /\ Len(down') <= Len(down)
      /\ \A i \in DOMAIN down' :
           i \in Nat \ {0} /\ i + 1 \in DOMAIN down /\ down'[i] = down[i + 1]
  BY <1>2, <1>3, TailOfQueue
<1>5. n \in Numbers /\ packet.part \in Parts
  BY <1>2, <1>4 DEF IsData, Packets, DataPackets, Heartbeats
<1>6. /\ -Half < Place(n) /\ Place(n) <= Ahead /\ Place(n) \in Int
      /\ Place(n) > 0 => packet.part = kept[n]
  BY <1>1, <1>2, <1>4, <1>5, PlaceOfNumber DEF Line, Carries, PacketFits, Lowest
<1>7. Acknowledged' = Acknowledged /\ Behind' = Behind /\ Ahead' = Ahead
      /\ (\A m : Place(m)' = Place(m)) /\ Unhandled' = Unhandled
  BY <1>2 DEF Behind, Ahead, Place, Acknowledged, Unhandled
\* What comes into the inbox is what was pushed.
<1>8. /\ DOMAIN inbox' \subseteq DOMAIN inbox \cup {n}
      /\ inbox' = [m \in DOMAIN inbox' |-> inbox'[m]]
      /\ \A m \in DOMAIN inbox' :
           \/ m \in DOMAIN inbox /\ inbox'[m] = inbox[m]
           \/ m = n /\ Accepted(n) /\ inbox'[m] = packet.part
      /\ last_announced' \in {last_announced, n}
  <2> HIDE DEF n
  <2>1. CASE Accepted(n) /\ n \notin DOMAIN inbox
    <3>1. inbox' = [m \in DOMAIN inbox \cup {n} |->
                     IF m = n THEN packet.part ELSE inbox[m]]
          /\ last_announced' \in {last_announced, n}
      BY <1>2, <2>1 DEF n
    <3> HIDE DEF packet
    <3> QED
      BY <2>1, <3>1
  <2>2. CASE ~(Accepted(n) /\ n \notin DOMAIN inbox)
    <3>1. inbox = [m \in DOMAIN inbox |-> inbox[m]]
      BY <1>1 DEF Kinds
    <3>2. inbox' = inbox /\ last_announced' = last_announced
      BY <1>2, <2>2 DEF n
    <3> QED
      BY <3>1, <3>2
  <2> QED
    BY <2>1, <2>2
<1>9. Accepted(n) => Place(n) > 0
  <2>1. Less(last_handled, n) => Distance(last_handled, n) \in 1 .. (Half - 1)
    BY <1>1, <1>5, Distances DEF Kinds, StreamTypeOK
  <2> QED
    BY <1>1, <2>1, Constants DEF Accepted, Place, Offset
<1> HIDE DEF n
<1>10. Kinds'
  <2>1. inbox' \in [DOMAIN inbox' -> Parts]
    <3>1. \A m \in DOMAIN inbox' : inbox'[m] \in Parts
      BY <1>1, <1>5, <1>8 DEF Kinds
    <3> QED
      BY <1>8, <3>1
  <2>2. DOMAIN inbox' \subseteq Numbers /\ last_announced' \in Numbers
    BY <1>1, <1>5, <1>8 DEF Kinds, StreamTypeOK
  <2>3. Len(down') <= DATA_MAX
    BY <1>1, <1>3, <1>4, Constants DEF Kinds, StreamTypeOK
  <2> QED
    BY <1>1, <1>2, <1>4, <2>1, <2>2, <2>3 DEF Kinds, StreamTypeOK
<1>11. Window'
  BY <1>1, <1>2, <1>7 DEF Window
<1>12. WaitingIsPushed'
  <2>1. Accepted(n) => n \in Unhandled /\ packet.part = kept[n]
    <3>1. Unhandled = {m \in Numbers : 1 <= Place(m) /\ Place(m) <= Ahead}
      BY <1>1, UnhandledPlaces
    <3> QED
      BY <1>5, <1>6, <1>9, <3>1
  <2> QED
    BY <1>1, <1>2, <1>7, <1>8, <2>1 DEF WaitingIsPushed
<1>13. Line'
  <2>1. \A p \in DOMAIN down' : PacketFits(down'[p])
    BY <1>1, <1>4 DEF Line, Carries
  <2>2. \A p, q \in DOMAIN down' :
          q < p /\ IsData(down'[q]) => Reaches(down'[p], down'[q].number)
    <3> SUFFICES ASSUME NEW p \in DOMAIN down', NEW q \in DOMAIN down', q < p, IsData(down'[q])
                 PROVE  Reaches(down'[p], down'[q].number)
      OBVIOUS
    <3>1. q + 1 < p + 1 /\ p + 1 \in DOMAIN down /\ q + 1 \in DOMAIN down
          /\ down'[p] = down[p + 1] /\ down'[q] = down[q + 1]
      BY <1>4
    <3> QED
      BY <1>1, <3>1 DEF Line, Carries
  <2>3. \A p \in DOMAIN down' : Reaches(down'[p], n)
    <3> TAKE p \in DOMAIN down'
    <3>1. 1 < p + 1 /\ p + 1 \in DOMAIN down /\ down'[p] = down[p + 1]
      BY <1>4
    <3>2. IsData(down[1]) /\ n = down[1].number
      BY <1>2, <1>4 DEF n
    <3>3. Reaches(down[p + 1], down[1].number)
      BY <1>1, <1>4, <3>1, <3>2 DEF Line, Carries
    <3> QED
      BY <3>1, <3>2, <3>3
  <2>4. \A p \in DOMAIN down', m \in DOMAIN inbox : Reaches(down'[p], m)
    BY <1>1, <1>4 DEF Line, Carries
  <2>5. \A p \in DOMAIN down', m \in DOMAIN inbox' : Reaches(down'[p], m)
    BY <1>8, <2>3, <2>4
  <2>6. \A x, m : (PacketFits(x)' <=> PacketFits(x)) /\ (Reaches(x, m)' <=> Reaches(x, m))
    BY <1>2, <1>7 DEF PacketFits, Reaches, Lowest
  <2> QED
    BY <2>1, <2>2, <2>5, <2>6 DEF Line, Carries
<1>14. Answers(up)'
  BY <1>1, <1>2, <1>7 DEF Answers
<1>15. Fragments'
  BY <1>1, <1>2, <1>7 DEF Fragments
<1> QED
  BY <1>10, <1>11, <1>12, <1>13, <1>14, <1>15 DEF StreamInv

LEMMA RemainderIsNumber ==
  ASSUME NEW x \in Int
  PROVE  x % SEQ_MAX \in Numbers
<1>1. SEQ_MAX \in Nat \ {0}
  BY Constants
<1> QED
  BY <1>1 DEF Numbers

LEMMA AnswerKeeps ==
  ASSUME StreamInv, NEW arrives \in BOOLEAN, AnswerHeartbeat(arrives)
  PROVE  StreamInv' /\ SameMessages
<1> DEFINE heartbeat == Head(down)
           next      == Plus(last_handled, 1)
<1>1. Kinds /\ Window /\ WaitingIsPushed /\ Line /\ Answers(up) /\ Fragments
  BY DEF StreamInv
<1>2. /\ down # <<>> /\ ~IsData(heartbeat) /\ down' = Tail(down)
      /\ last_handled' = HandledUpTo(heartbeat)
      /\ last_announced' = Announced(heartbeat)
      /\ up' = Up(Acknack, arrives)
      /\ last_unacked' = last_unacked /\ last_sent' = last_sent
      /\ first_unacked' = first_unacked /\ kept' = kept
      /\ inbox' = inbox /\ fragment_msg' = fragment_msg /\ cut' = cut
      /\ session' = session
  BY DEF AnswerHeartbeat, outputVars
<1>3. down \in Seq(Packets)
  BY <1>1 DEF Kinds
<1>4. /\ heartbeat = down[1] /\ 1 \in DOMAIN down /\ heartbeat \in Packets
      /\ down' \in Seq(Packets) /\ Len(down') <= Len(down)
      /\ \A i \in DOMAIN down' :
           i \in Nat \ {0} /\ i + 1 \in DOMAIN down /\ down'[i] = down[i + 1]
  BY <1>2, <1>3, TailOfQueue
<1>5. heartbeat.first \in Numbers /\ heartbeat.last \in Numbers
  BY <1>2, <1>4 DEF IsData, Packets, DataPackets, Heartbeats
<1>6. /\ last_handled \in Numbers /\ Acknowledged \in Numbers /\ first_unacked \in Numbers
      /\ Plus(Acknowledged, 1) = first_unacked
  BY <1>1, Places
<1>7. next \in Numbers /\ Offset(last_handled, next) = 1
  <2>1. 1 \in (-Half) .. (Half - 1)
    BY Constants
  <2> QED
    BY <1>6, <2>1, NumberAtOffset
\* A heartbeat skips nothing.
<1>8. last_handled' = last_handled
  <2> DEFINE first == heartbeat.first
  <2>1. -Half < Place(first) /\ Place(first) <= 1 /\ Place(first) \in Int
    BY <1>1, <1>2, <1>4, <1>5, PlaceOfNumber DEF Line, Carries, PacketFits, Lowest
  <2>2. Offset(last_handled, first) - 1 < Half /\ 1 - Offset(last_handled, first) <= Half
    BY <2>1, Constants DEF Place
  <2>3. Less(next, first) <=> 1 < Offset(last_handled, first)
    BY <1>5, <1>6, <1>7, <2>2, Compared
  <2>4. ~Less(next, first)
    BY <2>1, <2>3 DEF Place
  <2> QED
    BY <1>2, <2>4 DEF HandledUpTo
<1>9. Acknowledged' = Acknowledged /\ Behind' = Behind /\ Ahead' = Ahead
      /\ (\A m : Place(m)' = Place(m)) /\ Unhandled' = Unhandled
  BY <1>2, <1>8 DEF Behind, Ahead, Place, Acknowledged, Unhandled
<1>10. /\ up' \in Seq(Acknacks) /\ Len(up') <= ACKNACK_MAX /\ Answers(up')
  <2>1. Acknack.first = next
    BY <1>8 DEF Acknack
  <2>2. Acknack \in Acknacks
    <3>1. \A i \in Nacks : Plus(last_handled', i + 1) \in Numbers
      <4> TAKE i \in Nacks
      <4>1. last_handled' + (i + 1) \in Int
        BY <1>6, <1>8, Constants, StreamAssumption DEF Nacks, Numbers
      <4> QED
        BY <4>1, RemainderIsNumber DEF Plus
    <3> QED
      BY <1>7, <1>8, <3>1 DEF Acknack, Acknacks
  <2>3. Distance(first_unacked, next) = Behind
    <3>1. 1 \in 0 .. Half
      BY Constants
    <3>2. Distance(Plus(Acknowledged, 1), Plus(last_handled, 1)) = Distance(Acknowledged, last_handled)
      BY <1>6, <3>1, DistanceKept
    <3> QED
      BY <1>6, <3>2 DEF Behind
  <2> QED
    BY <1>1, <1>2, <2>1, <2>2, <2>3, UpAnswers
<1>11. Kinds'
  <2>1. last_announced' \in Numbers
    BY <1>1, <1>2, <1>5 DEF Announced, Kinds, StreamTypeOK
  <2>2. Len(down') <= DATA_MAX
    BY <1>1, <1>3, <1>4, Constants DEF Kinds, StreamTypeOK
  <2> QED
    BY <1>1, <1>2, <1>4, <1>8, <1>10, <2>1, <2>2 DEF Kinds, StreamTypeOK
<1>12. Window'
  BY <1>1, <1>2, <1>9 DEF Window
<1>13. WaitingIsPushed'
  BY <1>1, <1>2, <1>9 DEF WaitingIsPushed
<1>14. Line'
  <2>1. \A p \in DOMAIN down' : PacketFits(down'[p])
    BY <1>1, <1>4 DEF Line, Carries
  <2>2. \A p, q \in DOMAIN down' :
          q < p /\ IsData(down'[q]) => Reaches(down'[p], down'[q].number)
    <3> SUFFICES ASSUME NEW p \in DOMAIN down', NEW q \in DOMAIN down', q < p, IsData(down'[q])
                 PROVE  Reaches(down'[p], down'[q].number)
      OBVIOUS
    <3>1. q + 1 < p + 1 /\ p + 1 \in DOMAIN down /\ q + 1 \in DOMAIN down
          /\ down'[p] = down[p + 1] /\ down'[q] = down[q + 1]
      BY <1>4
    <3> QED
      BY <1>1, <3>1 DEF Line, Carries
  <2>3. \A p \in DOMAIN down', m \in DOMAIN inbox : Reaches(down'[p], m)
    BY <1>1, <1>4 DEF Line, Carries
  <2>4. \A x, m : (PacketFits(x)' <=> PacketFits(x)) /\ (Reaches(x, m)' <=> Reaches(x, m))
    BY <1>2, <1>9 DEF PacketFits, Reaches, Lowest
  <2> QED
    BY <1>2, <2>1, <2>2, <2>3, <2>4 DEF Line, Carries
<1>15. Answers(up)'
  BY <1>2, <1>9, <1>10 DEF Answers
<1>16. Fragments'
  BY <1>1, <1>2, <1>8, <1>9 DEF Fragments
<1> QED
  BY <1>2, <1>8, <1>9, <1>11, <1>12, <1>13, <1>14, <1>15, <1>16 DEF StreamInv, SameMessages

\* What pop_message takes out, seen from where it goes on.
LEMMA Popped ==
  ASSUME StreamInv, PopMessage
  PROVE  /\ last_handled' = Plus(last_handled, 1) /\ last_handled' \in Numbers
         /\ last_handled' \in DOMAIN inbox /\ last_handled' \in DOMAIN kept
         /\ inbox[last_handled'] = kept[last_handled']
         /\ Place(last_handled') = 1 /\ Ahead >= 1
         /\ \A n \in Numbers : Place(n) > -Half => Place(n)' = Place(n) - 1
         /\ \A n \in Numbers : Place(n) = -Half => Place(n)' = Half - 1
         /\ Ahead' = Ahead - 1 /\ Behind' = Behind + 1 /\ Acknowledged' = Acknowledged
<1> DEFINE next == Plus(last_handled, 1)
<1>1. Kinds /\ Window /\ WaitingIsPushed
  BY DEF StreamInv
<1>2. /\ next \in DOMAIN inbox /\ last_handled' = next
      /\ last_unacked' = last_unacked /\ first_unacked' = first_unacked
  BY DEF PopMessage, outputVars
<1>3. /\ last_handled \in Numbers /\ last_unacked \in Numbers /\ Acknowledged \in Numbers
      /\ Behind \in Nat /\ Ahead \in Nat /\ Behind + Ahead < Half
      /\ Half \in Nat /\ Half >= 2 /\ SEQ_MAX = 2 * Half
      /\ Place(Acknowledged) = -Behind /\ Place(last_unacked) = Ahead
  BY <1>1, Places, Constants DEF Window
<1>4. next \in Numbers /\ Place(next) = 1
  <2>1. 1 \in (-Half) .. (Half - 1)
    BY <1>3
  <2> QED
    BY <1>3, <2>1, NumberAtOffset DEF Place
<1> HIDE DEF next
<1>5. Unhandled = {n \in Numbers : 1 <= Place(n) /\ Place(n) <= Ahead}
  BY <1>1, UnhandledPlaces
<1>6. Ahead >= 1 /\ next \in DOMAIN kept /\ inbox[next] = kept[next]
  BY <1>1, <1>2, <1>3, <1>4, <1>5 DEF WaitingIsPushed, Window
<1>7. \A n \in Numbers : Place(n) > -Half => Place(n)' = Place(n) - 1
  BY <1>2, <1>3, OffsetFromNext DEF Place, next
<1>8. \A n \in Numbers : Place(n) = -Half => Place(n)' = Half - 1
  <2> SUFFICES ASSUME NEW n \in Numbers, Place(n) = -Half
               PROVE  Place(n)' = Half - 1
    OBVIOUS
  <2>1. /\ -Half \in (-Half) .. Half /\ 1 \in (-Half) .. Half
        /\ Half - 1 \in (-Half) .. (Half - 1) /\ Half - 1 \in (-Half) .. Half
        /\ -Half \in (-SEQ_MAX) .. SEQ_MAX /\ Half \in (-SEQ_MAX) .. SEQ_MAX
        /\ 1 + (Half - 1) = Half
    BY <1>3
  <2>2. n = Plus(last_handled, -Half)
    BY <1>1, PlaceOfNumber
  <2>3. Plus(last_handled, Half) = Plus(last_handled, -Half)
    <3>1. Plus(last_handled, Half) = IF last_handled + Half < 0 THEN last_handled + Half + SEQ_MAX
            ELSE IF last_handled + Half >= SEQ_MAX THEN last_handled + Half - SEQ_MAX
            ELSE last_handled + Half
      BY <1>3, <2>1, Sums
    <3>2. Plus(last_handled, -Half) = IF last_handled + -Half < 0 THEN last_handled + -Half + SEQ_MAX
            ELSE IF last_handled + -Half >= SEQ_MAX THEN last_handled + -Half - SEQ_MAX
            ELSE last_handled + -Half
      BY <1>3, <2>1, Sums
    <3> QED
      BY <1>3, <3>1, <3>2 DEF Numbers
  <2>4. Plus(next, Half - 1) = Plus(last_handled, 1 + (Half - 1))
    BY <1>3, <2>1, SumOfSums DEF next
  <2>5. Plus(next, Half - 1) = n
    BY <2>1, <2>2, <2>3, <2>4
  <2> QED
    BY <1>2, <1>4, <2>1, <2>5, NumberAtOffset DEF Place
<1>9. Ahead' = Ahead - 1
  <2>1. Place(last_unacked)' = Ahead - 1
    BY <1>2, <1>3, <1>7
  <2>2. Distance(next, last_unacked) \in Numbers
    BY <1>3, <1>4, Distances
  <2> QED
    BY <1>2, <1>3, <1>6, <2>1, <2>2 DEF Place, Offset, Ahead, Numbers
<1>10. Acknowledged' = Acknowledged
  BY <1>2 DEF Acknowledged
<1>11. Behind' = Behind + 1
  <2>1. Distance(Acknowledged, last_handled) = Behind
    BY DEF Behind
  <2>2. Behind \in (-Half) .. Half /\ 1 \in (-Half) .. Half
        /\ Behind + 1 \in 0 .. (Half - 1)
    BY <1>3, <1>6
  <2>3. Plus(Acknowledged, Behind) = last_handled
    BY <1>3, <2>1, SumOfDistance
  <2>4. Plus(Plus(Acknowledged, Behind), 1) = Plus(Acknowledged, Behind + 1)
    BY <1>3, <2>2, SumOfSums
  <2>5. next = Plus(Acknowledged, Behind + 1)
    BY <2>3, <2>4 DEF next
  <2>6. Distance(Acknowledged, next) = Behind + 1
    BY <1>3, <2>2, <2>5, DistanceOfSum
  <2> QED
    BY <1>2, <1>10, <2>6 DEF Behind
<1> QED
  BY <1>2, <1>4, <1>6, <1>7, <1>8, <1>9, <1>10, <1>11 DEF next

LEMMA PopKeeps ==
  ASSUME StreamInv, PopMessage
  PROVE  StreamInv'
<1> DEFINE h    == last_handled
           next == last_handled'
           part == inbox[next]
<1>1. Kinds /\ Window /\ WaitingIsPushed /\ Line /\ Answers(up) /\ Fragments
  BY DEF StreamInv
<1>2. /\ inbox' = Without(inbox, {next})
      /\ \/ part.of = 1 /\ UNCHANGED <<fragment_msg, cut>>
         \/ part.of > 1 /\ PushFragment(part)
      /\ last_announced' = last_announced
      /\ last_unacked' = last_unacked /\ last_sent' = last_sent
      /\ first_unacked' = first_unacked /\ kept' = kept
      /\ down' = down /\ up' = up /\ session' = session
  BY DEF PopMessage, outputVars
<1>3. /\ next = Plus(h, 1) /\ next \in Numbers
      /\ next \in DOMAIN inbox /\ next \in DOMAIN kept
      /\ part = kept[next]
      /\ Place(next) = 1 /\ Ahead >= 1
      /\ \A n \in Numbers : Place(n) > -Half => Place(n)' = Place(n) - 1
      /\ \A n \in Numbers : Place(n) = -Half => Place(n)' = Half - 1
      /\ Ahead' = Ahead - 1 /\ Behind' = Behind + 1 /\ Acknowledged' = Acknowledged
  BY Popped
<1>4. /\ h \in Numbers /\ last_unacked \in Numbers /\ first_unacked \in Numbers
      /\ Behind \in Nat /\ Ahead \in Nat /\ Behind + Ahead < Half
      /\ Half \in Nat /\ Half >= 2 /\ SEQ_MAX = 2 * Half
      /\ Place(last_unacked) = Ahead
  BY <1>1, Places, Constants DEF Window
<1>5. \A n \in Numbers : Place(n) \in (-Half) .. (Half - 1) /\ Plus(h, Place(n)) = n
  BY <1>1, PlaceOfNumber
<1>6. part \in Parts
  BY <1>1, <1>3 DEF Kinds
<1> HIDE DEF part
<1>7. /\ DOMAIN inbox' = DOMAIN inbox \ {next}
      /\ \A n \in DOMAIN inbox' : inbox'[n] = inbox[n]
      /\ inbox' = [n \in DOMAIN inbox' |-> inbox[n]]
  BY <1>2 DEF Without
<1>8. Kinds'
  <2>1. inbox' \in [DOMAIN inbox' -> Parts]
    <3>1. \A n \in DOMAIN inbox' : inbox[n] \in Parts
      BY <1>1, <1>7 DEF Kinds
    <3>2. [n \in DOMAIN inbox \ {next} |-> inbox[n]] \in [DOMAIN inbox \ {next} -> Parts]
      BY <1>7, <3>1
    <3>3. inbox' = [n \in DOMAIN inbox \ {next} |-> inbox[n]]
      BY <1>2 DEF Without
    <3> HIDE DEF next
    <3> QED
      BY <1>7, <3>2, <3>3
  <2>2. fragment_msg' \in Seq(1 .. MaxFragments) /\ cut' \in BOOLEAN
    <3>1. fragment_msg \in Seq(1 .. MaxFragments) /\ cut \in BOOLEAN /\ part.k \in 1 .. MaxFragments
      BY <1>1, <1>6 DEF Kinds, StreamTypeOK, Parts
    <3>2. CASE UNCHANGED <<fragment_msg, cut>>
      BY <3>1, <3>2
    <3>3. CASE PushFragment(part)
      <4>1. Append(fragment_msg, part.k) \in Seq(1 .. MaxFragments)
        BY <3>1
      <4>2. << >> \in Seq(1 .. MaxFragments)
        OBVIOUS
      <4>3. fragment_msg' \in {Append(fragment_msg, part.k), << >>} /\ cut' \in {cut, FALSE}
        BY <3>3 DEF PushFragment, Rest
      <4> QED
        BY <3>1, <4>1, <4>2, <4>3
    <3> QED
      BY <1>2, <3>2, <3>3
  <2>3. DOMAIN inbox' \subseteq Numbers
    BY <1>1, <1>7 DEF Kinds, StreamTypeOK
  <2> QED
    BY <1>1, <1>2, <1>3, <2>1, <2>2, <2>3 DEF Kinds, StreamTypeOK
<1>9. Window'
  <2>1. DOMAIN kept = {n \in Numbers : 1 - Behind <= Place(n) /\ Place(n) <= Ahead}
        /\ Distance(Acknowledged, last_sent) <= Behind + Ahead
    BY <1>1 DEF Window
  <2>2. ASSUME NEW n \in Numbers
        PROVE  1 - Behind <= Place(n) /\ Place(n) <= Ahead
                 <=> 1 - Behind' <= Place(n)' /\ Place(n)' <= Ahead'
    <3>1. CASE Place(n) > -Half
      BY <1>3, <1>4, <1>5, <3>1
    <3>2. CASE Place(n) = -Half
      BY <1>3, <1>4, <1>5, <3>2
    <3> QED
      BY <1>4, <1>5, <3>1, <3>2
  <2>3. DOMAIN kept' = {n \in Numbers : 1 - Behind' <= Place(n)' /\ Place(n)' <= Ahead'}
    BY <1>2, <2>1, <2>2
  <2>4. Behind' + Ahead' = Behind + Ahead
    BY <1>3, <1>4
  <2> QED
    BY <1>2, <1>3, <1>4, <2>1, <2>3, <2>4 DEF Window
\* Only the number popped has been handled.
<1>10. \A n \in Numbers : 1 <= Place(n) /\ n # next => 1 <= Place(n)' /\ Place(n)' = Place(n) - 1
  <2> SUFFICES ASSUME NEW n \in Numbers, 1 <= Place(n), n # next
               PROVE  1 <= Place(n)' /\ Place(n)' = Place(n) - 1
    OBVIOUS
  <2>1. Place(n) # 1
    BY <1>3, <1>5
  <2> QED
    BY <1>3, <1>4, <1>5, <2>1
<1>11. WaitingIsPushed'
  <2>1. Unhandled = {n \in Numbers : 1 <= Place(n) /\ Place(n) <= Ahead}
    BY <1>1, UnhandledPlaces
  <2>2. Unhandled' = {n \in Numbers : 1 <= Place(n)' /\ Place(n)' <= Ahead'}
    <3>1. Distance(next, last_unacked) < Half
      BY <1>2, <1>3, <1>4 DEF Ahead
    <3> QED
      BY <1>2, <1>3, <1>4, <3>1, NumbersBetween DEF Unhandled, Ahead, Place
  <2>3. \A n \in DOMAIN inbox' : n \in Unhandled'
    <3> TAKE n \in DOMAIN inbox'
    <3>1. n \in DOMAIN inbox /\ n # next
      BY <1>7
    <3>2. n \in Numbers /\ 1 <= Place(n) /\ Place(n) <= Ahead
      BY <1>1, <2>1, <3>1 DEF WaitingIsPushed
    <3>3. 1 <= Place(n)' /\ Place(n)' <= Ahead'
      BY <1>3, <1>4, <1>5, <1>10, <3>1, <3>2
    <3> QED
      BY <2>2, <3>2, <3>3
  <2> QED
    BY <1>1, <1>2, <1>7, <2>3 DEF WaitingIsPushed
\* Nothing on the line is left half a turn behind.
<1>12. ASSUME NEW p \in DOMAIN down
       PROVE  /\ down[p] \in Packets /\ Lowest(down[p]) \in Numbers
              /\ Place(Lowest(down[p])) > 1 - Half
              /\ PacketFits(down[p])
              /\ IsData(down[p]) => down[p].number \in Numbers
              /\ Lowest(down[p])' = Lowest(down[p])
  <2>1. down[p] \in Packets /\ PacketFits(down[p])
    BY <1>1 DEF Kinds, Line, Carries
  <2>2. Lowest(down[p]) \in Numbers /\ (IsData(down[p]) => down[p].number \in Numbers)
    BY <2>1 DEF Lowest, IsData, Packets, DataPackets, Heartbeats
  <2>3. Place(next) - Place(Lowest(down[p])) < Half
    BY <1>1, <1>3 DEF Line, Carries, Reaches
  <2>4. Place(Lowest(down[p])) > 1 - Half
    BY <1>3, <1>4, <1>5, <2>2, <2>3
  <2> QED
    BY <1>2, <2>1, <2>2, <2>4 DEF Lowest
<1>13. Line'
  <2>1. ASSUME NEW p \in DOMAIN down
        PROVE  PacketFits(down[p])'
    <3> DEFINE packet == down[p]
    <3>1. Lowest(packet) \in Numbers /\ Place(Lowest(packet)) > 1 - Half
          /\ Place(Lowest(packet))' = Place(Lowest(packet)) - 1
      BY <1>3, <1>4, <1>5, <1>12
    <3>2. PacketFits(packet) /\ down' = down /\ kept' = kept
      BY <1>2, <1>12
    <3>3. CASE IsData(packet)
      <4>1. Lowest(packet) = packet.number
        BY <3>3 DEF Lowest
      <4>2. /\ Place(packet.number) <= Ahead
            /\ Place(packet.number) > 0 => packet.part = kept[packet.number]
        BY <3>2, <3>3 DEF PacketFits
      <4>3. Place(packet.number)' = Place(packet.number) - 1 /\ Place(packet.number) \in Int
            /\ Place(packet.number) > 1 - Half
        BY <1>5, <3>1, <3>2, <4>1
      <4>4. /\ -Half < Place(packet.number)' /\ Place(packet.number)' <= Ahead'
            /\ Place(packet.number)' > 0 => packet.part = kept[packet.number]
        BY <1>3, <1>4, <4>2, <4>3
      <4> QED
        BY <3>2, <3>3, <4>1, <4>4 DEF PacketFits, Lowest
    <3>4. CASE ~IsData(packet)
      <4>1. Lowest(packet) = packet.first
        BY <3>4 DEF Lowest
      <4>2. Place(packet.first) <= 1
        BY <3>2, <3>4 DEF PacketFits
      <4>3. -Half < Place(packet.first)' /\ Place(packet.first)' <= 1
        BY <1>4, <1>5, <3>1, <3>2, <4>1, <4>2
      <4> QED
        BY <3>2, <3>4, <4>1, <4>3 DEF PacketFits, Lowest
    <3> QED
      BY <3>3, <3>4
  <2>2. ASSUME NEW p \in DOMAIN down, NEW n \in Numbers, Place(n) > -Half,
               Reaches(down[p], n)
        PROVE  Reaches(down[p], n)'
    <3>1. Place(n)' = Place(n) - 1
          /\ Place(Lowest(down[p]))' = Place(Lowest(down[p])) - 1
          /\ Place(n) \in Int /\ Place(Lowest(down[p])) \in Int
      BY <1>3, <1>4, <1>5, <1>12, <2>2
    <3>2. Place(n) - Place(Lowest(down[p])) < Half
      BY <2>2 DEF Reaches
    <3>3. Place(n)' - Place(Lowest(down[p]))' < Half
      BY <1>4, <3>1, <3>2
    <3> QED
      BY <1>2, <1>12, <3>3 DEF Reaches
  <2>3. ASSUME NEW p \in DOMAIN down, NEW q \in DOMAIN down, q < p, IsData(down[q])
        PROVE  Reaches(down[p], down[q].number)'
    <3>1. Reaches(down[p], down[q].number)
      BY <1>1, <2>3 DEF Line, Carries
    <3>2. down[q].number \in Numbers /\ Place(down[q].number) > -Half
      BY <1>4, <1>12, <2>3 DEF PacketFits, Lowest
    <3> QED
      BY <1>2, <2>2, <3>1, <3>2
  <2>4. ASSUME NEW p \in DOMAIN down, NEW n \in DOMAIN inbox'
        PROVE  Reaches(down[p], n)'
    <3>1. n \in DOMAIN inbox
      BY <1>7
    <3>2. Reaches(down[p], n)
      BY <1>1, <3>1 DEF Line, Carries
    <3>3. n \in Numbers /\ Place(n) > -Half
      <4>1. n \in Unhandled
        BY <1>1, <3>1 DEF WaitingIsPushed
      <4>2. n \in Numbers /\ 1 <= Place(n)
        BY <1>1, <4>1, UnhandledPlaces
      <4> QED
        BY <1>4, <1>5, <4>2
    <3> QED
      BY <2>2, <3>2, <3>3
  <2> QED
    BY <1>2, <2>1, <2>3, <2>4 DEF Line, Carries
<1>14. Answers(up)'
  <2>1. \A i \in DOMAIN up : Distance(first_unacked, up[i].first) <= Behind'
    <3> TAKE i \in DOMAIN up
    <3>1. up[i].first \in Numbers
      <4>1. up[i] \in Acknacks
        BY <1>1 DEF Kinds
      <4> QED
        BY <4>1 DEF Acknacks
    <3>2. Distance(first_unacked, up[i].first) \in Numbers
      BY <1>4, <3>1, Distances
    <3> QED
      BY <1>1, <1>3, <1>4, <3>2 DEF Answers, Numbers
  <2> QED
    BY <1>1, <1>2, <2>1 DEF Answers
<1>15. Fragments'
  <2>1. \A i \in 1 .. Ahead' : Plus(next, i) = Plus(h, i + 1) /\ i + 1 \in 1 .. Ahead
    <3> TAKE i \in 1 .. Ahead'
    <3>1. i \in (-Half) .. Half /\ 1 \in (-Half) .. Half /\ 1 + i = i + 1 /\ i + 1 \in 1 .. Ahead
      BY <1>3, <1>4
    <3>2. Plus(Plus(h, 1), i) = Plus(h, 1 + i)
      BY <1>4, <3>1, SumOfSums
    <3> QED
      BY <1>3, <3>1, <3>2
  <2>2. ASSUME NEW i \in 1 .. (Ahead' - 1)
        PROVE  Follows(kept'[Plus(next, i)], kept'[Plus(next, i + 1)])
    <3> DEFINE j == i + 1
    <3>1. i \in 1 .. Ahead' /\ j \in 1 .. Ahead' /\ j \in 1 .. (Ahead - 1)
      BY <1>3, <1>4
    <3> HIDE DEF j
    <3>2. Plus(next, i) = Plus(h, i + 1)
      BY <2>1, <3>1
    <3>3. Plus(next, j) = Plus(h, j + 1)
      BY <2>1, <3>1
    <3>4. Follows(kept[Plus(h, j)], kept[Plus(h, j + 1)])
      BY <1>1, <3>1 DEF Fragments
    <3> QED
      BY <1>2, <3>2, <3>3, <3>4 DEF j
  <2>3. Ahead' > 0 => kept'[last_unacked'].k = kept'[last_unacked'].of
    BY <1>1, <1>2, <1>3, <1>4 DEF Fragments
  \* The next message starts a submessage exactly when this one ended one.
  <2>4. ASSUME Ahead' > 0 PROVE Follows(part, kept[Plus(next, 1)])
    <3> DEFINE j == 1 + 1
    <3>1. 1 \in 1 .. Ahead' /\ 1 \in 1 .. (Ahead - 1)
      BY <1>3, <1>4, <2>4
    <3>2. Plus(next, 1) = Plus(h, 1 + 1)
      BY <2>1, <3>1
    <3>3. Follows(kept[Plus(h, 1)], kept[Plus(h, 1 + 1)])
      BY <1>1, <3>1 DEF Fragments
    <3> QED
      BY <1>3, <3>2, <3>3
  <2>5. ASSUME Ahead' = 0 PROVE part.k = part.of
    <3>1. next = last_unacked
      <4>1. Ahead = 1 /\ Place(last_unacked) = 1
        BY <1>3, <1>4, <2>5
      <4> QED
        BY <1>3, <1>4, <1>5, <4>1
    <3> QED
      BY <1>1, <1>3, <1>4, <3>1 DEF Fragments
  <2>6. part.k \in Nat /\ part.of \in Nat /\ 1 <= part.k /\ part.k <= part.of
    BY <1>6 DEF Parts
  <2>7. ~cut => fragment_msg = [k \in 1 .. (part.k - 1) |-> k]
    BY <1>1, <1>3, <1>4 DEF Fragments
  \* What has been collected, and where it goes on.
  <2>8. ~cut' => IF part.k = part.of THEN fragment_msg' = <<>>
                 ELSE fragment_msg' = [k \in 1 .. part.k |-> k]
    <3>1. CASE part.of = 1 /\ UNCHANGED <<fragment_msg, cut>>
      <4>1. part.k = 1 /\ 1 .. (part.k - 1) = {}
        BY <2>6, <3>1
      <4>2. ~cut => fragment_msg = <<>>
        BY <2>7, <4>1
      <4> QED
        BY <3>1, <4>1, <4>2
    <3>2. CASE part.of > 1 /\ PushFragment(part)
      <4>1. CASE part.k = part.of
        BY <3>2, <4>1 DEF PushFragment, Rest
      <4>2. CASE part.k # part.of
        <5>1. fragment_msg' = Append(fragment_msg, part.k) /\ cut' = cut
          BY <3>2, <4>2 DEF PushFragment
        <5>2. Append([k \in 1 .. (part.k - 1) |-> k], part.k) = [k \in 1 .. part.k |-> k]
          BY <2>6
        <5> QED
          BY <2>7, <4>2, <5>1, <5>2
      <4> QED
        BY <4>1, <4>2
    <3> QED
      BY <1>2, <3>1, <3>2
  <2>9. ~cut' => IF Ahead' = 0 THEN fragment_msg' = <<>>
                 ELSE fragment_msg' = [k \in 1 .. (kept'[Plus(next, 1)].k - 1) |-> k]
    <3>1. CASE Ahead' = 0
      BY <2>5, <2>8, <3>1
    <3>2. CASE Ahead' > 0 /\ part.k = part.of
      <4>1. kept[Plus(next, 1)].k = 1
        BY <2>4, <2>6, <3>2 DEF Follows
      <4>2. [k \in 1 .. (kept[Plus(next, 1)].k - 1) |-> k] = <<>>
        BY <4>1
      <4> QED
        BY <1>2, <1>3, <1>4, <2>8, <3>2, <4>2
    <3>3. CASE Ahead' > 0 /\ part.k # part.of
      <4>1. kept[Plus(next, 1)].k = part.k + 1
        BY <2>4, <2>6, <3>3 DEF Follows
      <4>2. kept[Plus(next, 1)].k - 1 = part.k
        BY <2>6, <4>1
      <4> QED
        BY <1>2, <1>3, <1>4, <2>8, <3>3, <4>2
    <3> QED
      BY <1>3, <1>4, <3>1, <3>2, <3>3
  <2> QED
    BY <2>2, <2>3, <2>9 DEF Fragments
<1> QED
  BY <1>8, <1>9, <1>11, <1>13, <1>14, <1>15 DEF StreamInv

-----------------------------------------------------------------------------
(* What holds throughout.                                                  *)

\* The beginning of a session.
Fresh ==
  /\ last_unacked = SEQ_MAX - 1 /\ last_sent = SEQ_MAX - 1 /\ first_unacked = 0
  /\ last_handled = SEQ_MAX - 1 /\ last_announced = SEQ_MAX - 1
  /\ kept = Nothing /\ inbox = Nothing
  /\ down = <<>> /\ up = <<>>
  /\ fragment_msg \in Seq(1 .. MaxFragments) /\ cut \in BOOLEAN /\ session \in {0, 1}
  /\ ~cut => fragment_msg = <<>>

LEMMA FreshKeeps == Fresh => StreamInv
<1> SUFFICES ASSUME Fresh PROVE StreamInv
  OBVIOUS
<1> USE DEF Fresh
<1>1. /\ Half \in Nat /\ Half >= 2 /\ SEQ_MAX = 2 * Half
      /\ SEQ_MAX - 1 \in Numbers /\ 0 \in Numbers
  BY Constants DEF Numbers
<1>2. Distance(SEQ_MAX - 1, SEQ_MAX - 1) = 0
  BY <1>1, Distances
<1>3. Ahead = 0
  BY <1>2 DEF Ahead
<1>4. Acknowledged = SEQ_MAX - 1
  <2>1. 1 \in (-SEQ_MAX) .. SEQ_MAX
    BY <1>1
  <2>2. Minus(0, 1) = IF 0 - 1 < 0 THEN 0 - 1 + SEQ_MAX
                      ELSE IF 0 - 1 >= SEQ_MAX THEN 0 - 1 - SEQ_MAX ELSE 0 - 1
    BY <1>1, <2>1, Sums
  <2> QED
    BY <1>1, <2>2 DEF Acknowledged
<1>5. Behind = 0
  BY <1>2, <1>4 DEF Behind
<1>6. DOMAIN kept = {} /\ DOMAIN inbox = {}
  BY DEF Nothing
<1>7. Kinds
  <2>1. kept \in [DOMAIN kept -> Parts] /\ inbox \in [DOMAIN inbox -> Parts]
    BY DEF Nothing
  <2>2. down \in Seq(Packets) /\ up \in Seq(Acknacks) /\ Len(down) = 0 /\ Len(up) = 0
    OBVIOUS
  <2> QED
    BY <1>1, <1>6, <2>1, <2>2, Constants DEF Kinds, StreamTypeOK
<1>8. Window
  <2>1. \A n \in Numbers : Place(n) \in Int
    BY <1>7, PlaceOfNumber
  <2> QED
    BY <1>1, <1>2, <1>3, <1>4, <1>5, <1>6, <2>1 DEF Window
<1>9. WaitingIsPushed
  BY <1>6 DEF WaitingIsPushed
<1>10. Line
  BY DEF Line, Carries
<1>11. Answers(up)
  BY DEF Answers
<1>12. Fragments
  BY <1>3 DEF Fragments
<1> QED
  BY <1>7, <1>8, <1>9, <1>10, <1>11, <1>12 DEF StreamInv

\* The invariant holds throughout.
THEOREM Inductive == Spec => []StreamInv
<1>1. Init => Fresh
  <2>1. << >> \in Seq(1 .. MaxFragments)
    OBVIOUS
  <2> QED
    BY <2>1 DEF Init, Fresh
<1>2. StreamInv /\ [Next]_vars => StreamInv' \/ Fresh'
  <2> SUFFICES ASSUME StreamInv, [Next]_vars
               PROVE  StreamInv' \/ Fresh'
    OBVIOUS
  <2>1. ASSUME NEW fragments \in 1 .. MaxFragments, PushSubmessage(fragments)
        PROVE  StreamInv'
    BY <2>1, PushKeeps
  <2>2. ASSUME NEW arrives \in BOOLEAN, SendNext(arrives)
        PROVE  StreamInv'
    BY <2>2, SendNextKeeps
  <2>3. ASSUME NEW arrives \in BOOLEAN, SendHeartbeat(arrives)
        PROVE  StreamInv'
    BY <2>3, SendHeartbeatKeeps
  <2>4. ASSUME NEW arrives \in BOOLEAN, AnswerHeartbeat(arrives)
        PROVE  StreamInv'
    BY <2>4, AnswerKeeps
  <2>5. ASSUME NEW arriving \in SUBSET Nacks, ReceiveAcknack(arriving)
        PROVE  StreamInv'
    BY <2>5, AcknackKeeps
  <2>6. CASE ReceiveData
    BY <2>6, ReceiveKeeps
  <2>7. CASE PopMessage
    BY <2>7, PopKeeps
  <2>8. CASE Reset
    <3>1. fragment_msg \in Seq(1 .. MaxFragments) /\ session \in {0, 1}
      BY DEF StreamInv, Kinds, StreamTypeOK
    <3>2. session' \in {0, 1}
      BY <2>8, <3>1 DEF Reset
    <3> QED
      BY <2>8, <3>1, <3>2 DEF Reset, Fresh
  <2>9. CASE UNCHANGED vars
    BY <2>9 DEF vars, outputVars, inputVars, StreamInv, Kinds, StreamTypeOK, Window, WaitingIsPushed,
                Unhandled, Line, Carries, PacketFits, Reaches, Lowest, Answers, Fragments,
                Acknowledged, Behind, Ahead, Place
  <2> QED
    BY <2>1, <2>2, <2>3, <2>4, <2>5, <2>6, <2>7, <2>8, <2>9 DEF Next
<1> QED
  BY <1>1, <1>2, FreshKeeps, PTL DEF Spec

\* StreamsAgree: whatever is lost or repeated, the output stream keeps what the
\* input stream has not handled, and what waits there is what was pushed.
THEOREM StreamsStayInAgreement == Spec => []StreamsAgree
<1>1. StreamInv => StreamsAgree
  BY InvariantAgrees
<1> QED
  BY <1>1, Inductive, PTL

-----------------------------------------------------------------------------
(* The promise.                                                            *)

\* What the refinement maps pending to, and what that is.
Pending ==
  [i \in 1 .. Distance(last_handled, last_unacked) |->
    LET n == Plus(last_handled, i)
    IN  IF n \in DOMAIN kept THEN <<kept[n]>> ELSE <<>>]

Messages == [i \in 1 .. Ahead |-> <<kept[Plus(last_handled, i)]>>]

LEMMA PendingIsKept == StreamInv => Pending = Messages
<1> SUFFICES ASSUME StreamInv PROVE Pending = Messages
  OBVIOUS
<1>1. /\ last_handled \in Numbers /\ Ahead \in Nat /\ Ahead < Half /\ Behind \in Nat
      /\ DOMAIN kept = {n \in Numbers : 1 - Behind <= Place(n) /\ Place(n) <= Ahead}
  BY Places, Constants DEF StreamInv, Window
<1>2. \A i \in 1 .. Ahead : Plus(last_handled, i) \in DOMAIN kept
  <2> TAKE i \in 1 .. Ahead
  <2>1. i \in (-Half) .. (Half - 1) /\ 1 - Behind <= i
    BY <1>1, Constants
  <2> QED
    BY <1>1, <2>1, NumberAtOffset DEF Place
<1> QED
  BY <1>2 DEF Pending, Messages, Ahead

LEMMA MessagesAreSequence ==
  ASSUME StreamInv
  PROVE  Ahead \in Nat /\ \E S : Messages \in Seq(S)
<1>1. Ahead \in Nat
  BY Places DEF StreamInv
<1>2. Messages \in Seq({<<kept[Plus(last_handled, i)]>> : i \in 1 .. Ahead})
  BY <1>1 DEF Messages
<1> QED
  BY <1>1, <1>2

LEMMA PushedAfter ==
  ASSUME StreamInv, MoreMessages
  PROVE  Promise!IsStrictPrefix(Messages, Messages')
<1>1. /\ Ahead \in Nat /\ Ahead' \in Nat /\ Ahead < Ahead'
      /\ last_handled' = last_handled
      /\ \A i \in 1 .. Ahead : kept'[Plus(last_handled, i)] = kept[Plus(last_handled, i)]
  BY MessagesAreSequence DEF MoreMessages
<1> DEFINE m  == [i \in 1 .. Ahead |-> <<kept[Plus(last_handled, i)]>>]
           m1 == [i \in 1 .. Ahead' |-> <<kept'[Plus(last_handled, i)]>>]
           S  == {<<kept[Plus(last_handled, i)]>> : i \in 1 .. Ahead}
           T  == {<<kept'[Plus(last_handled, i)]>> : i \in 1 .. Ahead'}
<1>2. Messages = m /\ Messages' = m1
  BY <1>1 DEF Messages
<1>3. m \in Seq(S) /\ Len(m) = Ahead /\ m1 \in Seq(T) /\ Len(m1) = Ahead'
  <2> DEFINE l == Ahead'
             f(i) == <<kept'[Plus(last_handled, i)]>>
  <2>1. m \in Seq(S) /\ Len(m) = Ahead
    BY <1>1
  <2>2. l \in Nat
    BY <1>1
  <2> HIDE DEF l, f
  <2>3. [i \in 1 .. l |-> f(i)] \in Seq({f(i) : i \in 1 .. l}) /\ Len([i \in 1 .. l |-> f(i)]) = l
    BY <2>2
  <2> QED
    BY <2>1, <2>3 DEF l, f
<1>4. \A i \in 1 .. Ahead : m[i] = m1[i]
  BY <1>1
<1> HIDE DEF m, m1, S, T
<1>5. SubSeq(m, 1, Len(m)) = SubSeq(m1, 1, Len(m))
  <2>1. /\ SubSeq(m, 1, Len(m)) \in Seq(S) /\ Len(SubSeq(m, 1, Len(m))) = Ahead
        /\ \A i \in 1 .. Ahead : SubSeq(m, 1, Len(m))[i] = m[i]
    BY <1>1, <1>3
  <2>2. /\ SubSeq(m1, 1, Len(m)) \in Seq(T) /\ Len(SubSeq(m1, 1, Len(m))) = Ahead
        /\ \A i \in 1 .. Ahead : SubSeq(m1, 1, Len(m))[i] = m1[i]
    BY <1>1, <1>3
  <2> DEFINE x == SubSeq(m, 1, Len(m))
             y == SubSeq(m1, 1, Len(m))
  <2>3. DOMAIN x = 1 .. Ahead /\ DOMAIN y = 1 .. Ahead
    BY <2>1, <2>2
  <2>4. x = [i \in DOMAIN x |-> x[i]] /\ y = [i \in DOMAIN y |-> y[i]]
    BY <2>1, <2>2
  <2> QED
    BY <1>4, <2>1, <2>2, <2>3, <2>4
<1>6. Len(m) <= Len(m1) /\ m # m1
  BY <1>1, <1>3
<1>7. Promise!IsPrefix(m, m1)
  BY <1>5, <1>6 DEF Promise!IsPrefix
<1> QED
  BY <1>2, <1>6, <1>7 DEF Promise!IsStrictPrefix

LEMMA PoppedFirst ==
  ASSUME StreamInv, PopMessage
  PROVE  Messages # <<>> /\ Messages' = Tail(Messages)
<1>1. /\ Ahead \in Nat /\ Ahead >= 1 /\ Ahead' = Ahead - 1
      /\ last_handled' = Plus(last_handled, 1) /\ kept' = kept
      /\ last_handled \in Numbers /\ Ahead < Half /\ Behind \in Nat
  BY MessagesAreSequence, Popped, Places, Constants DEF PopMessage, outputVars, StreamInv, Window
<1>2. \A i \in 1 .. (Ahead - 1) : Plus(last_handled', i) = Plus(last_handled, i + 1)
  <2> TAKE i \in 1 .. (Ahead - 1)
  <2>1. 1 \in (-Half) .. Half /\ i \in (-Half) .. Half /\ 1 + i = i + 1
    BY <1>1, Constants
  <2>2. Plus(Plus(last_handled, 1), i) = Plus(last_handled, 1 + i)
    BY <1>1, <2>1, SumOfSums
  <2> QED
    BY <1>1, <2>1, <2>2
<1> DEFINE f(i) == <<kept[Plus(last_handled, i)]>>
           m == [i \in 1 .. Ahead |-> f(i)]
<1>3. Messages = m
  BY DEF Messages
<1>4. Messages' = [i \in 1 .. (Ahead - 1) |-> f(i + 1)]
  BY <1>1, <1>2 DEF Messages
<1> HIDE DEF f
<1>5. m \in Seq({f(i) : i \in 1 .. Ahead}) /\ Len(m) = Ahead /\ m # <<>>
  BY <1>1
<1>6. Tail(m) = [i \in 1 .. (Ahead - 1) |-> f(i + 1)]
  BY <1>1
<1> QED
  BY <1>3, <1>4, <1>5, <1>6

LEMMA SameMessagesStay == SameMessages => Messages' = Messages
<1> SUFFICES ASSUME SameMessages PROVE Messages' = Messages
  OBVIOUS
<1> QED
  BY DEF SameMessages, Messages

LEMMA PromiseStep ==
  StreamInv /\ [Next]_vars /\ Pending = Messages /\ (Pending = Messages)'
    => [Promise!Next]_<<Pending, session>>
<1> SUFFICES ASSUME StreamInv, [Next]_vars, Pending = Messages, (Pending = Messages)'
             PROVE  Promise!Next \/ UNCHANGED <<Pending, session>>
  BY DEF Promise!Next
<1>1. ASSUME NEW fragments \in 1 .. MaxFragments, PushSubmessage(fragments)
      PROVE  Promise!Push
  <2>1. Promise!IsStrictPrefix(Pending, Pending')
    BY <1>1, PushKeeps, PushedAfter
  <2>2. session' = session
    BY <1>1 DEF PushSubmessage
  <2> QED
    BY <2>1, <2>2 DEF Promise!Push, Pending
<1>2. ASSUME NEW arrives \in BOOLEAN, SendNext(arrives) \/ SendHeartbeat(arrives)
      PROVE  UNCHANGED <<Pending, session>>
  BY <1>2 DEF SendNext, SendHeartbeat, outputVars, inputVars, Pending
<1>3. ASSUME NEW arrives \in BOOLEAN, AnswerHeartbeat(arrives)
      PROVE  UNCHANGED <<Pending, session>>
  BY <1>3, AnswerKeeps, SameMessagesStay DEF AnswerHeartbeat
<1>4. ASSUME NEW arriving \in SUBSET Nacks, ReceiveAcknack(arriving)
      PROVE  UNCHANGED <<Pending, session>>
  BY <1>4, AcknackKeeps, SameMessagesStay DEF ReceiveAcknack
<1>5. CASE ReceiveData
  BY <1>5 DEF ReceiveData, outputVars, Pending
<1>6. CASE PopMessage
  <2>1. Pending # <<>> /\ Pending' = Tail(Pending)
    BY <1>6, PoppedFirst
  <2>2. session' = session
    BY <1>6 DEF PopMessage
  <2> QED
    BY <2>1, <2>2 DEF Promise!Next, Promise!Pop, Pending
<1>7. CASE Reset
  <2>1. Distance(SEQ_MAX - 1, SEQ_MAX - 1) = 0
    <3>1. SEQ_MAX - 1 \in Numbers
      BY Constants DEF Numbers
    <3> QED
      BY <3>1, Distances DEF Numbers
  <2>2. Pending' = <<>> /\ session' = 1 - session
    BY <1>7, <2>1 DEF Reset, Pending
  <2> QED
    BY <2>2 DEF Promise!Next, Promise!Reset, Pending
<1>8. CASE UNCHANGED vars
  BY <1>8 DEF vars, outputVars, inputVars, Pending
<1> QED
  BY <1>1, <1>2, <1>3, <1>4, <1>5, <1>6, <1>7, <1>8 DEF Next, Promise!Next

\* ImplementsReliableStream: messages leave the stream one by one in the order in
\* which they were pushed, and only a new session drops any.
THEOREM StreamKeepsItsPromise == Spec => ImplementsReliableStream
<1>1. Init => Promise!Init
  <2>1. ASSUME Init PROVE Pending = <<>> /\ session = 0
    <3>1. SEQ_MAX - 1 \in Numbers
      BY Constants DEF Numbers
    <3>2. Distance(SEQ_MAX - 1, SEQ_MAX - 1) = 0
      BY <3>1, Distances DEF Numbers
    <3> QED
      BY <2>1, <3>2 DEF Init, Pending
  <2> QED
    BY <2>1 DEF Promise!Init, Pending
<1> QED
  BY <1>1, PromiseStep, PendingIsKept, Inductive, PTL
     DEF Spec, ImplementsReliableStream, Promise!Spec, Promise!vars, Pending

\* WholeButByReset: fragments put together are all of one submessage.
THEOREM SubmessagesAreWhole == Spec => WholeButByReset
<1>1. StreamInv /\ [Next]_vars =>
        [ PopMessage /\ ~cut =>
            LET part == inbox[last_handled']
            IN  part.k = part.of /\ part.of > 1 =>
                  Append(fragment_msg, part.k) = [k \in 1 .. part.of |-> k] ]_vars
  <2> SUFFICES ASSUME StreamInv, PopMessage, ~cut,
                      NEW part, part = inbox[last_handled'], part.k = part.of, part.of > 1
               PROVE  Append(fragment_msg, part.k) = [k \in 1 .. part.of |-> k]
    OBVIOUS
  <2>1. /\ last_handled' = Plus(last_handled, 1) /\ Ahead >= 1 /\ Ahead \in Nat
        /\ last_handled' \in DOMAIN inbox /\ part = kept[Plus(last_handled, 1)]
    BY Popped, MessagesAreSequence
  <2>2. fragment_msg = [k \in 1 .. (part.k - 1) |-> k]
    BY <2>1 DEF StreamInv, Fragments
  <2>3. part \in Parts
    BY <2>1 DEF StreamInv, Kinds
  <2>4. part.k \in Nat \ {0}
    BY <2>3 DEF Parts
  <2>5. Append([k \in 1 .. (part.k - 1) |-> k], part.k) = [k \in 1 .. part.k |-> k]
    BY <2>4
  <2> QED
    BY <2>2, <2>5
<1> QED
  BY <1>1, Inductive, PTL DEF Spec, WholeButByReset

\* get_next_message asks its messages at() only for one that is there, so it
\* never throws, and its step waits for nothing but a message to be sent.
THEOREM NothingThrows ==
  Spec => [](Less(last_sent, last_unacked) => Plus(last_sent, 1) \in DOMAIN kept)
<1>1. StreamInv => (Less(last_sent, last_unacked) => Plus(last_sent, 1) \in DOMAIN kept)
  BY NextIsKept
<1> QED
  BY <1>1, Inductive, PTL
=============================================================================
