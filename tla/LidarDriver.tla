---------------------------- MODULE LidarDriver ----------------------------
(***************************************************************************)
(* The LiDAR driver node (lds02rr_driver/lds02rr_node.py): a timer reads   *)
(* whatever the serial port holds, cuts the bytes into lines, stores each  *)
(* sample in the slot of its angle and publishes the buffer at each end-   *)
(* of-scan mark.                                                           *)
(*                                                                         *)
(* Bytes.  Line k is sent as two tokens, its text <<k, "text">> and its    *)
(* newline <<k, "nl">>; a read may end between them.  A measured distance  *)
(* is the number of the line that reported it, 0 is the code's inf.        *)
(***************************************************************************)
EXTENDS Integers, Sequences, FiniteSets

CONSTANTS
  TOTAL_SAMPLES,  \* slots of a scan, one per angle; half of them are 180 degrees
  MaxLines        \* bound: lines the LiDAR sends

ASSUME SampleAssumption ==
  /\ TOTAL_SAMPLES \in Nat \ {0}
  /\ MaxLines \in Nat

VARIABLES
  sent,      \* lines the LiDAR's microcontroller has sent, in order
  sweep,     \* samples of the current rotation already sent
  wire,      \* tokens in the port's receive buffer
  port,      \* does the serial port still work?
  line_buf,  \* self._line_buf
  ranges,    \* self.ranges
  freq,      \* self.scan_freq_hz
  scans,     \* published scans: the mark that closed it and its ranges
  alive      \* FALSE once an exception has left the node's callback

sensorVars == <<sent, sweep>>
vars == <<sensorVars, wire, port, line_buf, ranges, freq, scans, alive>>

Slots  == 0 .. (TOTAL_SAMPLES - 1)
Angles == Slots

\* A sample whose distance is inside [range_min, range_max] or not, an
\* end-of-scan mark with its frequency, anything the parser ignores, and a
\* sample whose angle float() takes for nan or inf.  A line is what its text
\* parses as: garbled ones are of the last two kinds.
Sample(angle, hit) == [kind |-> "data", angle |-> angle, hit |-> hit, freq |-> "none"]
Mark(f)            == [kind |-> "mark", angle |-> 0, hit |-> FALSE, freq |-> f]
Ignored            == [kind |-> "ignored", angle |-> 0, hit |-> FALSE, freq |-> "none"]
NonFinite          == [kind |-> "nonfinite", angle |-> 0, hit |-> FALSE, freq |-> "none"]

\* The frequency a mark carries: a number other than 0, 0, or no number.
Frequencies == {"positive", "zero", "none"}

Samples == {Sample(a, h) : a \in Angles, h \in BOOLEAN}
Lines   == Samples \cup {Mark(f) : f \in Frequencies} \cup {Ignored, NonFinite}

TokensOf(k) == << <<k, "text">>, <<k, "nl">> >>

NoScan == [i \in Slots |-> 0]

\* The port is opened anywhere in a rotation, between two lines or within
\* one.  The tail of a sample may parse as one of another angle, that of a
\* mark is ignored.
Init ==
  /\ sweep \in 0 .. TOTAL_SAMPLES
  /\ \/ sent = <<>> /\ wire = <<>>
     \/ \E tail \in Samples \cup {Ignored} :
          /\ tail \in Samples => sweep > 0
          /\ sent = <<tail>>
          /\ wire = TokensOf(1)
  /\ port = TRUE
  /\ line_buf = <<>>
  /\ ranges = NoScan
  /\ freq = "positive"
  /\ scans = <<>>
  /\ alive = TRUE

-----------------------------------------------------------------------------
(* The LiDAR and the port.                                                 *)

\* One line per sample in the order of the rotation, then the mark; any line
\* may arrive garbled.
SendLine(line) ==
  /\ Len(sent) < MaxLines
  /\ \/ /\ sweep < TOTAL_SAMPLES
        /\ line \in {Sample(sweep, TRUE), Sample(sweep, FALSE), Ignored, NonFinite}
        /\ sweep' = sweep + 1
     \/ /\ sweep = TOTAL_SAMPLES
        /\ line \in {Mark(f) : f \in Frequencies} \cup {Ignored}
        /\ sweep' = 0
  /\ sent' = Append(sent, line)
  /\ wire' = IF port THEN wire \o TokensOf(Len(sent) + 1) ELSE wire
  /\ UNCHANGED <<port, line_buf, ranges, freq, scans, alive>>

\* The device is unplugged: every later access raises SerialException, and
\* the node never opens the port again.
Unplug ==
  /\ port
  /\ port' = FALSE
  /\ UNCHANGED <<sensorVars, wire, line_buf, ranges, freq, scans, alive>>

-----------------------------------------------------------------------------
(* The node.                                                               *)

Newlines(buf) == {p \in DOMAIN buf : buf[p][2] = "nl"}

\* _read_cb, between two timer callbacks: appends the n tokens the port
\* holds (more may arrive while they are read).
ReadCallback(n) ==
  /\ alive
  /\ port
  /\ Newlines(line_buf) = {}
  /\ n \in 1 .. Len(wire)
  /\ line_buf' = line_buf \o SubSeq(wire, 1, n)
  /\ wire' = SubSeq(wire, n + 1, Len(wire))
  /\ UNCHANGED <<sensorVars, port, ranges, freq, scans, alive>>

\* line_buf.split(b'\n', 1).  Variant: the bytes after the line are dropped.
RestDropped(p) == <<>>
Rest(p)        == SubSeq(line_buf, p + 1, Len(line_buf))

\* round(180.0 - angle_deg) % 360.  Variant: turned, but not mirrored.
SlotUnmirrored(angle) == ((TOTAL_SAMPLES \div 2) + angle) % TOTAL_SAMPLES
Slot(angle)           == ((TOTAL_SAMPLES \div 2) - angle) % TOTAL_SAMPLES

\* Variant: a sample outside the range limits leaves its slot as it was.
StoreHitsOnly(k, line) ==
  ranges' = IF line.hit THEN [ranges EXCEPT ![Slot(line.angle)] = k] ELSE ranges
Store(k, line) ==
  ranges' = [ranges EXCEPT ![Slot(line.angle)] = IF line.hit THEN k ELSE 0]

\* The frequency a mark sets; float() failing is ignored.
NewFreq(line) == IF line.freq = "none" THEN freq ELSE line.freq

\* _publish_scan: 1.0 / scan_freq_hz raises at frequency 0, which nothing
\* catches; otherwise a copy of the buffer is published.
PublishScan(k) ==
  IF freq' = "zero"
    THEN alive' = FALSE /\ scans' = scans
    ELSE alive' = alive /\ scans' = Append(scans, [mark |-> k, ranges |-> ranges])

\* One turn of the loop in _process_lines, with _parse_line of line k.  No
\* slot can be computed of an angle that is not finite: int(round(...))
\* raises, outside of the try that catches float()'s errors.
ParseLine ==
  /\ alive
  /\ Newlines(line_buf) # {}
  /\ LET p == CHOOSE q \in Newlines(line_buf) : \A r \in Newlines(line_buf) : q <= r
         k == line_buf[1][1]
         line == sent[k]
     IN  /\ line_buf' = Rest(p)
         /\ \/ /\ p > 1 /\ line.kind = "data"
               /\ Store(k, line)
               /\ UNCHANGED <<freq, scans, alive>>
            \/ /\ p > 1 /\ line.kind = "mark"
               /\ freq' = NewFreq(line)
               /\ PublishScan(k)
               /\ UNCHANGED ranges
            \/ /\ p > 1 /\ line.kind = "nonfinite"
               /\ alive' = FALSE
               /\ UNCHANGED <<ranges, freq, scans>>
            \/ /\ p = 1 \/ line.kind = "ignored"
               /\ UNCHANGED <<ranges, freq, scans, alive>>
  /\ UNCHANGED <<sensorVars, wire, port>>

NodeStep == ParseLine \/ \E n \in 1 .. Len(wire) : ReadCallback(n)

Next ==
  \/ \E line \in Lines : SendLine(line)
  \/ Unplug
  \/ NodeStep

Spec == Init /\ [][Next]_vars

\* The timer fires every millisecond and the executor runs nothing else.
FairSpec == Spec /\ WF_vars(NodeStep)

-----------------------------------------------------------------------------

TypeOK ==
  /\ \A k \in DOMAIN sent : sent[k] \in Lines
  /\ sweep \in 0 .. TOTAL_SAMPLES
  /\ port \in BOOLEAN /\ alive \in BOOLEAN
  /\ freq \in {"positive", "zero"}
  /\ ranges \in [Slots -> 0 .. Len(sent)]
  /\ \A n \in DOMAIN scans : scans[n].mark \in DOMAIN sent

Marks == {k \in DOMAIN sent : sent[k].kind = "mark"}

\* What the stream says about slot i before line k: the newest sample of
\* the angle i stands for, if it was in range.
Reported(k, i) ==
  LET angle == ((TOTAL_SAMPLES \div 2) + TOTAL_SAMPLES - i) % TOTAL_SAMPLES
      news  == {j \in 1 .. (k - 1) : sent[j].kind = "data" /\ sent[j].angle = angle}
      last  == CHOOSE j \in news : \A m \in news : m <= j
  IN  IF news # {} /\ sent[last].hit THEN last ELSE 0

\* The variables hold values of their kind (TypeOK).  However the port cuts
\* the stream, the published scans answer the marks one by one, in order and
\* without a gap, and each holds the newest sample of every angle that was
\* sent before its mark: no line is lost, split, merged or applied to a scan
\* it came after.
ScansMatchStream ==
  TypeOK /\ \A n \in DOMAIN scans :
    /\ scans[n].mark \in Marks
    /\ Cardinality({k \in Marks : k <= scans[n].mark}) = n
    /\ \A i \in Slots : scans[n].ranges[i] = Reported(scans[n].mark, i)

\* While the port works and nothing the LiDAR sent has raised in the node (a
\* mark of frequency 0, an angle that is not finite), every mark is answered
\* by a scan.
MarksAnswered ==
  \A k \in 1 .. MaxLines :
    (k \in Marks) ~> (\/ \E n \in DOMAIN scans : scans[n].mark = k
                      \/ ~port \/ ~alive)

\* lds02rr_node.py:39 "Scan buffer -- filled rotation by rotation": a scan
\* holds samples of the rotation its mark closes, and of no earlier one.
ScanIsOneRotation ==
  \A n \in DOMAIN scans : \A i \in Slots :
    LET j == scans[n].ranges[i]
    IN  j # 0 => \A k \in Marks : ~(j < k /\ k < scans[n].mark)

=============================================================================
