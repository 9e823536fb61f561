---------------------------- MODULE AgentStream ----------------------------
(***************************************************************************)
(* A reliable stream of the micro-ROS session between the firmware and the *)
(* agent, as the agent's headers implement its two ends                    *)
(* (client/session/stream/OutputStream.hpp and InputStream.hpp): numbered  *)
(* messages, fragments, heartbeats and negative acknowledgements over      *)
(* queues and a serial line that lose packets but never reorder them.      *)
(* The agent has one end of every stream; the other end is the client      *)
(* library's in the firmware, which follows the same protocol.             *)
(*                                                                         *)
(* Data.  A message's content is the place of its fragment, [k, of], in    *)
(* the submessage it is cut from; most submessages are a single fragment.  *)
(***************************************************************************)
EXTENDS Integers, Sequences, FiniteSets

CONSTANTS
  SEQ_MAX,                \* SeqNum::MAX, 2^16
  RELIABLE_STREAM_DEPTH,
  NACKS,                  \* bits of an ACKNACK's bitmap
  DATA_MAX, ACKNACK_MAX,  \* packets on their way in either direction
  MaxFragments,           \* of one submessage
  MaxRemains              \* bound: parts of earlier sessions in fragment_msg

Half    == SEQ_MAX \div 2  \* SeqNum::ADD_RANGE[1] + 1
Numbers == 0 .. (SEQ_MAX - 1)
Nacks   == 0 .. (NACKS - 1)

ASSUME StreamAssumption ==
  /\ SEQ_MAX \in Nat /\ SEQ_MAX % 2 = 0
  /\ RELIABLE_STREAM_DEPTH \in Nat \ {0}
  /\ NACKS \in Nat \ {0} /\ DATA_MAX \in Nat \ {0} /\ ACKNACK_MAX \in Nat \ {0}
  /\ MaxFragments \in Nat \ {0} /\ MaxRemains \in Nat
  /\ RELIABLE_STREAM_DEPTH + MaxFragments <= Half

VARIABLES
  last_unacked, last_sent, first_unacked,  \* of the ReliableOutputStream
  kept,            \* its messages_
  last_handled, last_announced,            \* of the ReliableInputStream
  inbox,           \* its messages_
  fragment_msg,    \* its fragment_msg_
  down,            \* packets on their way to the input stream
  up,              \* acknacks on their way to the output stream
  cut,             \* history: fragment_msg starts with another session's part
  session          \* history: the parity of the number of sessions so far

outputVars == <<last_unacked, last_sent, first_unacked, kept>>
inputVars  == <<last_handled, last_announced, inbox, fragment_msg, cut>>
vars == <<outputVars, inputVars, down, up, session>>

Nothing == [n \in {} |-> {}]

Init ==
  /\ last_unacked = SEQ_MAX - 1 /\ last_sent = SEQ_MAX - 1 /\ first_unacked = 0
  /\ last_handled = SEQ_MAX - 1 /\ last_announced = SEQ_MAX - 1
  /\ kept = Nothing /\ inbox = Nothing
  /\ fragment_msg = <<>>
  /\ down = <<>> /\ up = <<>>
  /\ cut = FALSE /\ session = 0

-----------------------------------------------------------------------------

\* The operators of SeqNum, for summands below Half.
Plus(a, i)  == (a + i) % SEQ_MAX
Minus(a, i) == (a - i) % SEQ_MAX

Less(a, b)   == (b - a) % SEQ_MAX \in 1 .. (Half - 1)
AtMost(a, b) == ~Less(b, a)

Distance(a, b) == (b - a) % SEQ_MAX

\* PacketScheduler::push drops the oldest packets of a full queue; a packet
\* that the line loses is not pushed.  The packets of a stream all have its
\* priority, among which the queue is first come, first served.
Newest(queue, size) ==
  SubSeq(queue, IF Len(queue) > size THEN Len(queue) - size + 1 ELSE 1, Len(queue))
Down(packets, arrive) == IF arrive THEN Newest(down \o packets, DATA_MAX) ELSE down
Up(packet, arrives)   == IF arrives THEN Newest(Append(up, packet), ACKNACK_MAX) ELSE up

Without(messages, numbers) ==
  [n \in DOMAIN messages \ numbers |-> messages[n]]

Data(n) == [number |-> n, part |-> kept[n]]

-----------------------------------------------------------------------------

\* push_submessage waits for this.
Room == Less(last_unacked, Plus(first_unacked, RELIABLE_STREAM_DEPTH - 1))

\* push_submessage: a submessage larger than the MTU is cut into messages.
\* Submessages are below 64 KiB, as uint16 lengths require.  Appending to a
\* message cannot fail: its buffer is made for what is appended.
PushSubmessage(fragments) ==
  /\ Room
  /\ LET number(k) == Plus(last_unacked, k)
     IN  /\ kept' = [n \in DOMAIN kept \cup {number(k) : k \in 1 .. fragments} |->
                      IF n \in DOMAIN kept THEN kept[n]
                      ELSE [k |-> Distance(last_unacked, n), of |-> fragments]]
         /\ last_unacked' = number(fragments)
  /\ UNCHANGED <<last_sent, first_unacked, inputVars, down, up, session>>

\* get_next_message, and the packet's way to the other end.
SendNext(arrives) ==
  /\ Less(last_sent, last_unacked)
  /\ last_sent' = Plus(last_sent, 1)
  /\ last_sent' \in DOMAIN kept
  /\ down' = Down(<<Data(last_sent')>>, arrives)
  /\ UNCHANGED <<last_unacked, first_unacked, kept, inputVars, up, session>>

\* fill_heartbeat, every HEARTBEAT_PERIOD.
SendHeartbeat(arrives) ==
  /\ kept # Nothing
  /\ down' = Down(<<[first |-> first_unacked, last |-> last_unacked]>>, arrives)
  /\ UNCHANGED <<outputVars, inputVars, up, session>>

\* What update_from_acknack erases.  Variant: the first unacknowledged too.
AckedAndNext(first) == {n \in DOMAIN kept : AtMost(n, first)}
Acked(first)        == {n \in DOMAIN kept : Less(n, first)}

\* An acknack: what it misses is sent again in order, as far as it arrives,
\* and then comes update_from_acknack.
ReceiveAcknack(arriving) ==
  /\ up # <<>>
  /\ LET ack   == Head(up)
         asked == {i \in arriving : Plus(ack.first, i) \in ack.nacked \cap DOMAIN kept}
     IN  /\ \E missing \in [1 .. Cardinality(asked) -> asked] :
              /\ \A i, j \in DOMAIN missing : i < j => missing[i] < missing[j]
              /\ down' = Down([i \in DOMAIN missing |-> Data(Plus(ack.first, missing[i]))], TRUE)
         /\ IF AtMost(ack.first, Plus(last_sent, 1)) /\ Less(first_unacked, ack.first)
              THEN /\ kept' = Without(kept, Acked(ack.first))
                   /\ first_unacked' = ack.first
              ELSE UNCHANGED <<kept, first_unacked>>
  /\ up' = Tail(up)
  /\ UNCHANGED <<last_unacked, last_sent, inputVars, session>>

-----------------------------------------------------------------------------

IsData(packet) == "number" \in DOMAIN packet

\* What push_message lets in.
Accepted(n) ==
  Less(last_handled, n) /\ AtMost(n, Plus(last_handled, RELIABLE_STREAM_DEPTH))

\* push_message
ReceiveData ==
  /\ down # <<>> /\ IsData(Head(down))
  /\ LET n == Head(down).number
     IN  IF Accepted(n) /\ n \notin DOMAIN inbox
           THEN /\ inbox' = [m \in DOMAIN inbox \cup {n} |->
                              IF m = n THEN Head(down).part ELSE inbox[m]]
                /\ last_announced' = IF Less(last_announced, n) THEN n ELSE last_announced
           ELSE UNCHANGED <<inbox, last_announced>>
  /\ down' = Tail(down)
  /\ UNCHANGED <<outputVars, last_handled, fragment_msg, cut, up, session>>

\* A fragment's bytes stay until the last one.  Variant: they are not cleared.
RestKept(fragments) == fragments
Rest(fragments)     == <<>>

\* push_fragment and, after the last one, pop_fragment_message.
PushFragment(part) ==
  LET fragments == Append(fragment_msg, part.k)
  IN  IF part.k = part.of
        THEN fragment_msg' = Rest(fragments) /\ cut' = FALSE
        ELSE fragment_msg' = fragments /\ UNCHANGED cut

\* pop_message: a whole submessage is handed up, a fragment is collected.
PopMessage ==
  LET next == Plus(last_handled, 1)
  IN  /\ next \in DOMAIN inbox
      /\ last_handled' = next
      /\ inbox' = Without(inbox, {next})
      /\ \/ inbox[next].of = 1 /\ UNCHANGED <<fragment_msg, cut>>
         \/ inbox[next].of > 1 /\ PushFragment(inbox[next])
      /\ UNCHANGED <<last_announced, outputVars, down, up, session>>

\* fill_acknack, after update_from_heartbeat.
Acknack ==
  [first  |-> Plus(last_handled', 1),
   nacked |-> {n \in {Plus(last_handled', i + 1) : i \in Nacks} :
                 Less(Minus(n, 1), last_announced') /\ n \notin DOMAIN inbox}]

\* Where update_from_heartbeat goes on.  Variant: after what was announced.
HandledUpToLast(heartbeat) ==
  IF Less(Plus(last_handled, 1), heartbeat.last) THEN Minus(heartbeat.last, 1)
                                                 ELSE last_handled
HandledUpTo(heartbeat) ==
  IF Less(Plus(last_handled, 1), heartbeat.first) THEN Minus(heartbeat.first, 1)
                                                  ELSE last_handled

\* Variant: only the data announce.
AnnouncedByData(heartbeat) == last_announced
Announced(heartbeat)       ==
  IF Less(last_announced, heartbeat.last) THEN heartbeat.last ELSE last_announced

AnswerHeartbeat(arrives) ==
  /\ down # <<>> /\ ~IsData(Head(down))
  /\ LET heartbeat == Head(down)
     IN  /\ last_handled' = HandledUpTo(heartbeat)
         /\ last_announced' = Announced(heartbeat)
  /\ up' = Up(Acknack, arrives)
  /\ down' = Tail(down)
  /\ UNCHANGED <<outputVars, inbox, fragment_msg, cut, session>>

\* A new session: reset() at both ends, after a handshake behind everything
\* on the line.  The fragments received so far are not reset.
Reset ==
  /\ Len(fragment_msg) <= MaxRemains
  /\ last_unacked' = SEQ_MAX - 1 /\ last_sent' = SEQ_MAX - 1 /\ first_unacked' = 0
  /\ last_handled' = SEQ_MAX - 1 /\ last_announced' = SEQ_MAX - 1
  /\ kept' = Nothing /\ inbox' = Nothing
  /\ down' = <<>> /\ up' = <<>>
  /\ cut' = (fragment_msg # <<>>) /\ session' = 1 - session
  /\ UNCHANGED fragment_msg

Next ==
  \/ \E fragments \in 1 .. MaxFragments : PushSubmessage(fragments)
  \/ \E arrives \in BOOLEAN :
       \/ SendNext(arrives)
       \/ SendHeartbeat(arrives)
       \/ AnswerHeartbeat(arrives)
  \/ \E arriving \in SUBSET Nacks : ReceiveAcknack(arriving)
  \/ ReceiveData
  \/ PopMessage
  \/ Reset

Spec == Init /\ [][Next]_vars

\* Both ends keep working, and what is sent again and again arrives at last.
FairSpec ==
  /\ Spec
  /\ WF_vars(\E arrives \in BOOLEAN : SendNext(arrives))
  /\ WF_vars(PopMessage)
  /\ SF_vars(SendHeartbeat(TRUE))
  /\ SF_vars(AnswerHeartbeat(TRUE))
  /\ SF_vars(ReceiveAcknack(Nacks))
  /\ SF_vars(ReceiveData)

-----------------------------------------------------------------------------

\* Every variable holds a value of its kind, and the queues their size.
StreamTypeOK ==
  /\ {last_unacked, last_sent, first_unacked, last_handled, last_announced} \subseteq Numbers
  /\ DOMAIN kept \subseteq Numbers /\ DOMAIN inbox \subseteq Numbers
  /\ fragment_msg \in Seq(1 .. MaxFragments)
  /\ cut \in BOOLEAN /\ session \in {0, 1}
  /\ Len(down) <= DATA_MAX /\ Len(up) <= ACKNACK_MAX

\* The numbers the input stream has not handled yet.
Unhandled == {Plus(last_handled, i) : i \in 1 .. Distance(last_handled, last_unacked)}

\* The output stream drops nothing that the input stream may still ask for,
\* so get_next_message's at() never throws and no message is lost for good;
\* and it keeps few enough messages for the comparison of numbers to be right.
NothingDropped ==
  /\ Unhandled \subseteq DOMAIN kept
  /\ Distance(first_unacked, Plus(last_unacked, 1)) < Half

\* What waits at the input stream is what was pushed under its number, and
\* has not been handed up before.
WaitingIsPushed == \A n \in DOMAIN inbox : n \in Unhandled /\ inbox[n] = kept[n]

\* The two ends agree on what is on its way, whatever is lost or repeated in
\* between and however often the numbers have come round.
StreamsAgree == StreamTypeOK /\ NothingDropped /\ WaitingIsPushed

\* The stream implements ReliableStream: no heartbeat skips a message, no
\* retransmission hands one up again, and nothing but a new session drops any.
Promise == INSTANCE ReliableStream WITH
  pending <- [i \in 1 .. Distance(last_handled, last_unacked) |->
               LET n == Plus(last_handled, i)
               IN  IF n \in DOMAIN kept THEN <<kept[n]>> ELSE <<>>]

ImplementsReliableStream == Promise!Spec

\* A submessage put together from fragments has all of its own and no other,
\* but for the first one after a session that ended in the middle of one:
\* reset() leaves that session's fragments in front of it.
WholeButByReset ==
  [][ PopMessage /\ ~cut =>
        LET part == inbox[last_handled']
        IN  part.k = part.of /\ part.of > 1 =>
              Append(fragment_msg, part.k) = [k \in 1 .. part.of |-> k] ]_vars

\* However many packets are lost, the streams never get stuck: time and again
\* everything is acknowledged or another message is popped.
NeverStuck == []<>(kept = Nothing) \/ []<><<PopMessage>>_vars

=============================================================================
