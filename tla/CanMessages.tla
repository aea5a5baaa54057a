----------------------------- MODULE CanMessages -----------------------------
(***************************************************************************)
(* ERTMS messages over CAN frames (the subject's libraries): a message is  *)
(* cut into a head frame, with its length and checksum, and slices of      *)
(* eight bytes.  SendThroughCAN (APIUniRail.c) sends the messages of the   *)
(* on-board program; FormatAndSend_RF_PacketToRPIviaCAN (xbee.c) relays    *)
(* those that come by radio, and MESCAN_reconstructMessage                 *)
(* (MESCAN1_Utilitaire.c) puts them together again.                        *)
(*                                                                         *)
(* The bytes of message m all have the value Value(m).                     *)
(***************************************************************************)
EXTENDS Integers, Sequences, FiniteSets, FiniteSetsExt, SequencesExt

CONSTANTS
    Sizes,        \* how many bytes messages have, at least 1
    Relayed,      \* bound: messages that come by radio
    FifoSize,     \* frames a file takes: TailleFIFO - 1
    MaxLost       \* bound: frames lost between the file and the program

ASSUME MessageAssumption == Sizes \subseteq 1 .. 255 /\ FifoSize \in Nat \ { 0 }

VARIABLES
    \* SendThroughCAN
    sending,      \* the size of the message that is sent, or 0
    compteEnvois, \* static in MESCAN_sliceArray
    slice,        \* the frame canLinux_transmit is given: its first byte and its dlc
    heads,        \* heads in the file of high priority of the sender
    waiting,      \* slices in that of medium priority
    crossed,      \* history: the bytes of the message that were accepted, in order
    \* relay and reconstruction
    relayed,      \* messages so far
    relay,        \* frames the relay has still to enqueue
    fifo,         \* CAN1_FIFO_forSendMesCAN
    lost,
    messageLength, receivedChecksum, checksum, flagReceptions, \* static in reconstructMessage
    destination,  \* destinationArray: whose byte each one is
    result,       \* what MESCAN_reconstructMessage has returned last
    row,          \* history: the last head received, and how many of its slices followed
                  \* in a row, or -1
    fresh         \* history: the places of destinationArray written since that head

sender == << sending, compteEnvois, slice, heads, waiting, crossed >>
static == << messageLength, receivedChecksum, checksum, flagReceptions >>
rebuilt == << static, destination, result, row, fresh >>
messages == << sender, relayed, relay, fifo, lost, rebuilt >>

NoSlice == << 0, 0 >>
Largest == Max(Sizes)
Value(m) == (100 * m) % 256
Slices(n) == (n + 7) \div 8

MessagesInit ==
    /\ sending = 0 /\ compteEnvois = 1 /\ slice = NoSlice /\ crossed = << >>
    /\ heads = 0 /\ waiting = 0
    /\ relayed = 0 /\ relay = << >> /\ fifo = << >> /\ lost = 0
    /\ messageLength = 0 /\ receivedChecksum = 0 /\ checksum = 0 /\ flagReceptions = {}
    /\ destination = [i \in 0 .. Largest - 1 |-> 0]
    /\ result = 0
    /\ row = [m |-> 0, k |-> 0, size |-> 0] /\ fresh = {}

-----------------------------------------------------------------------------
(* SendThroughCAN                                                          *)

reception == << relayed, relay, fifo, lost, rebuilt >>

\* Mutant of Finished: the last slice is only known by its end.
Finished_ByEnd(finish, n, next) == finish > n

\* MESCAN_sliceArray: the slice is the last one.
Finished(finish, n, next) == finish > n \/ next = Slices(n) + 1

\* MESCAN_sliceArray fills the next frame: its slice, or what is left.
sliceArray(n) ==
    LET start == (compteEnvois - 1) * 8
        last  == Finished(start + 8, n, compteEnvois + 1)
    IN  /\ slice' = << start, IF last THEN n - start ELSE 8 >>
        /\ compteEnvois' = IF last THEN 1 ELSE compteEnvois + 1

\* The head frame has room, and the first slice is made.  The length in the head
\* is l_message, one less than what is cut: 0xFF ends the message.
SendHead(n) ==
    /\ sending = 0 /\ heads < FifoSize
    /\ sending' = n /\ heads' = heads + 1 /\ crossed' = << >>
    /\ sliceArray(n)
    /\ UNCHANGED << waiting, reception >>

\* A slice has room; until it has, it is given to canLinux_transmit every millisecond.
SendSlice ==
    /\ sending # 0 /\ waiting < FifoSize
    /\ waiting' = waiting + 1
    /\ crossed' = crossed \o [i \in 1 .. slice[2] |-> slice[1] + i - 1]
    /\ IF compteEnvois = 1
       THEN sending' = 0 /\ slice' = NoSlice /\ UNCHANGED compteEnvois
       ELSE sliceArray(sending) /\ UNCHANGED sending
    /\ UNCHANGED << heads, reception >>

\* A head goes first, before the slices of the last message that still wait too.
SenderBus ==
    /\ \/ heads > 0 /\ heads' = heads - 1 /\ UNCHANGED waiting
       \/ heads = 0 /\ waiting > 0 /\ waiting' = waiting - 1 /\ UNCHANGED heads
    /\ UNCHANGED << sending, compteEnvois, slice, crossed, reception >>

-----------------------------------------------------------------------------
(* The relay                                                               *)

Frame(m, n, k, dlc) == [m |-> m, size |-> n, k |-> k, dlc |-> dlc]

\* FormatAndSend_RF_PacketToRPIviaCAN: the head frame, whose length is that of
\* all the data, and the slices.
FormatAndSend(m, n) ==
    << Frame(m, n, 0, 8) >> \o [k \in 1 .. Slices(n) |->
                                   Frame(m, n, k, IF 8 * k <= n THEN 8 ELSE n - 8 * (k - 1))]

RadioMessage(n) ==
    /\ relay = << >> /\ relayed < Relayed
    /\ relayed' = relayed + 1
    /\ relay' = FormatAndSend(relayed + 1, n)
    /\ UNCHANGED << sender, fifo, lost, rebuilt >>

\* MESCAN_enfiler; nobody looks at what it returns.
RelayEnqueues ==
    /\ relay # << >>
    /\ relay' = Tail(relay)
    /\ fifo' = IF Len(fifo) < FifoSize THEN Append(fifo, Head(relay)) ELSE fifo
    /\ UNCHANGED << sender, relayed, lost, rebuilt >>

FrameLost ==
    /\ fifo # << >> /\ lost < MaxLost
    /\ lost' = lost + 1
    /\ fifo' = Tail(fifo)
    /\ UNCHANGED << sender, relayed, relay, rebuilt >>

-----------------------------------------------------------------------------
(* MESCAN_reconstructMessage                                               *)

\* data2 to data7 of the head: the address and the strength, taken as the value once.
cks(m, n) == ((n + 1) * Value(m)) % 256

Returns(r) == result' = r

\* Mutant of HeadFrame: the flags of a message that was not finished are kept.
HeadFrame_KeepsFlags(f) ==
    /\ checksum' = Value(f.m) /\ UNCHANGED flagReceptions
    /\ messageLength' = f.size /\ receivedChecksum' = cks(f.m, f.size)
    /\ UNCHANGED destination
    /\ Returns(IF f.size = 0 THEN 1 ELSE 0)

HeadFrame(f) ==
    /\ checksum' = Value(f.m) /\ flagReceptions' = {}
    /\ messageLength' = f.size /\ receivedChecksum' = cks(f.m, f.size)
    /\ UNCHANGED destination
    /\ Returns(IF f.size = 0 THEN 1 ELSE 0)

\* Mutant of Verdict: the checksum is not compared.
Verdict_Trusting(sum) == 1

\* All the slices are there: 1, or -4 when the checksum is another one.
Verdict(sum) == IF sum % 256 = receivedChecksum THEN 1 ELSE -4

\* flagReceptions and maskAllReceived have 16 bits: the slices after that leave none.
Bits16(slices) == slices \cap 1 .. 16

\* The places of destinationArray that slice f is for.
PlacesOf(f) == 8 * (f.k - 1) .. 8 * (f.k - 1) + f.dlc - 1

SliceFrame(f) ==
    LET flags == flagReceptions \cup Bits16({ f.k })
        sum   == checksum + f.dlc * Value(f.m)
    IN  /\ destination' = [i \in DOMAIN destination |->
                             IF i \in PlacesOf(f) THEN f.m ELSE destination[i]]
        /\ checksum' = sum
        /\ UNCHANGED receivedChecksum
        /\ IF Bits16(1 .. Slices(messageLength)) \subseteq flags
           THEN messageLength' = 0 /\ flagReceptions' = {} /\ Returns(Verdict(sum))
           ELSE flagReceptions' = flags /\ UNCHANGED messageLength /\ Returns(0)

Refuses(f) ==
    LET r == IF f.k > Slices(messageLength) THEN -1              \* of another stream
             ELSE IF (f.k - 1) * 8 + f.dlc > messageLength THEN -2   \* too long
             ELSE IF f.k \in flagReceptions THEN -3              \* already received
             ELSE 0
    IN  IF f.k = 0 THEN 0 ELSE r

\* The program receives a frame.
reconstructMessage ==
    /\ fifo # << >>
    /\ fifo' = Tail(fifo)
    /\ LET f == Head(fifo)
       IN  /\ IF Refuses(f) # 0 THEN Returns(Refuses(f)) /\ UNCHANGED << static, destination >>
              ELSE IF f.k = 0 THEN HeadFrame(f) ELSE SliceFrame(f)
           /\ row' = IF f.k = 0 THEN [m |-> f.m, k |-> 0, size |-> f.size]
                     ELSE [row EXCEPT !.k = IF row.m = f.m /\ f.k = @ + 1 THEN f.k ELSE -1]
           /\ fresh' = IF f.k = 0 THEN {}
                       ELSE IF Refuses(f) = 0 THEN fresh \cup PlacesOf(f) ELSE fresh
    /\ UNCHANGED << sender, relayed, relay, lost >>

-----------------------------------------------------------------------------
SenderNext == SendSlice \/ SenderBus \/ \E n \in Sizes : SendHead(n)
RelayNext == RelayEnqueues \/ FrameLost \/ reconstructMessage \/ \E n \in Sizes : RadioMessage(n)

MessagesNext == SenderNext \/ RelayNext

MessagesSpec == MessagesInit /\ [][MessagesNext]_messages

-----------------------------------------------------------------------------
(* Properties                                                              *)

\* The slices of a message are its bytes, each one once and in order, one to eight
\* of them in a frame, whatever its length is modulo 8 and however often a slice
\* is refused.
CutInOrder ==
    [][ /\ sending' # 0 => slice'[2] \in 1 .. 8
        /\ sending # 0 /\ sending' = 0 => crossed' = [i \in 1 .. sending |-> i - 1] ]_messages

\* The sum of the first n bytes of b.
SumOfBytes(b, n) ==
    LET upTo[k \in 0 .. 255] == IF k = 0 THEN 0 ELSE upTo[k - 1] + b[k - 1] IN upTo[n]

\* What has been received since the head: 0 for a byte that has not.
Received == [i \in 0 .. 254 |-> IF i \in fresh THEN Value(destination[i]) ELSE 0]

\* A message that reconstructMessage calls complete has had each of its slices since
\* its head, and what was received since then adds up to the checksum of that head:
\* frames that are lost, and the full file of the relay, make it mix messages, or
\* keep old bytes where a shorter slice of another one came, only when no sum of
\* eight bits can tell.
CompleteAddsUp ==
    result = 1 =>
        /\ \A k \in 1 .. Slices(row.size) : 8 * (k - 1) \in fresh
        /\ (Value(row.m) + SumOfBytes(Received, row.size)) % 256 = cks(row.m, row.size)

\* Whatever was lost before it, a message whose frames all come, one after the
\* other, is complete with the last of them.
WholeIsComplete == row.m # 0 /\ row.k = Slices(row.size) => result = 1
=============================================================================
