-------------------------- MODULE CanMessagesProofs --------------------------
(***************************************************************************)
(* The ERTMS messages over CAN frames, for any number of them: the sender  *)
(* cuts every message of up to 255 bytes into its bytes, and the receiver  *)
(* completes every message of up to 128 bytes whose frames all come,       *)
(* whatever was lost before it, and no other one but by a sum of eight     *)
(* bits that happens to be right.                                          *)
(***************************************************************************)
EXTENDS CanMessages, WellFoundedInduction, TLAPS

-----------------------------------------------------------------------------
(* The sender                                                              *)

LEMMA SlicesOf ==
    ASSUME NEW n \in 1 .. 255
    PROVE  /\ Slices(n) \in Nat /\ Slices(n) >= 1
           /\ 8 * (Slices(n) - 1) < n /\ n <= 8 * Slices(n)
BY DEF Slices

\* The first x bytes of a message.
Bytes(x) == [i \in 1 .. x |-> i - 1]

\* The slice that MESCAN_sliceArray has made begins where the accepted bytes end,
\* and is the last one when compteEnvois is 1 again.
SenderInv ==
    /\ sending \in Sizes \cup { 0 }
    /\ sending = 0 => compteEnvois = 1
    /\ sending # 0 =>
        /\ slice \in Nat \X (1 .. 8)
        /\ crossed = Bytes(slice[1])
        /\ IF compteEnvois = 1 THEN slice[1] + slice[2] = sending
           ELSE /\ compteEnvois \in 2 .. Slices(sending)
                /\ slice = << 8 * (compteEnvois - 2), 8 >>

\* MESCAN_sliceArray makes one slice from the place of the one before.
LEMMA SliceMade ==
    ASSUME NEW n \in 1 .. 255, compteEnvois \in 1 .. Slices(n), sliceArray(n)
    PROVE  /\ slice' \in Nat \X (1 .. 8)
           /\ slice'[1] = 8 * (compteEnvois - 1)
           /\ IF compteEnvois' = 1 THEN slice'[1] + slice'[2] = n
              ELSE /\ compteEnvois' \in 2 .. Slices(n)
                   /\ slice' = << 8 * (compteEnvois' - 2), 8 >>
<1> DEFINE c == compteEnvois
           last == Finished((c - 1) * 8 + 8, n, c + 1)
<1>1. /\ slice' = << (c - 1) * 8, IF last THEN n - (c - 1) * 8 ELSE 8 >>
      /\ compteEnvois' = IF last THEN 1 ELSE c + 1
  BY DEF sliceArray
<1>2. /\ Slices(n) \in Nat /\ c \in 1 .. Slices(n)
      /\ 8 * (Slices(n) - 1) < n /\ n <= 8 * Slices(n)
  BY SlicesOf
<1>3. last <=> 8 * c > n \/ c = Slices(n)
  BY <1>2 DEF Finished
<1> HIDE DEF last, c
<1>4. CASE last
  <2>1. c = Slices(n)
    BY <1>2, <1>3, <1>4
  <2>2. n - (c - 1) * 8 \in 1 .. 8 /\ (c - 1) * 8 \in Nat
    BY <1>2, <2>1
  <2> QED
    BY <1>1, <1>2, <1>4, <2>2 DEF c
<1>5. CASE ~last
  <2>1. c + 1 \in 2 .. Slices(n) /\ (c - 1) * 8 \in Nat /\ (c - 1) * 8 = 8 * ((c + 1) - 2)
    BY <1>2, <1>3, <1>5
  <2> QED
    BY <1>1, <1>2, <1>5, <2>1 DEF c
<1> QED
  BY <1>4, <1>5

\* The bytes of a slice go behind those before it.
LEMMA BytesJoin ==
    ASSUME NEW x \in Nat, NEW y \in Nat
    PROVE  Bytes(x) \o [i \in 1 .. y |-> x + i - 1] = Bytes(x + y)
BY DEF Bytes

LEMMA SizesBound == \A n \in Sizes : n \in 1 .. 255 /\ n # 0 /\ 1 \in 1 .. Slices(n)
<1> SUFFICES ASSUME NEW n \in Sizes PROVE n \in 1 .. 255 /\ n # 0 /\ 1 \in 1 .. Slices(n)
  OBVIOUS
<1>1. n \in 1 .. 255
  BY MessageAssumption
<1> QED
  BY <1>1, SlicesOf

LEMMA InitSender == MessagesInit => SenderInv
BY DEF MessagesInit, SenderInv

\* One slice accepted: the message is over, or the next slice is made.
LEMMA SendSliceFacts ==
    ASSUME SenderInv, SendSlice
    PROVE  /\ SenderInv'
           /\ sending' # 0 => slice'[2] \in 1 .. 8
           /\ sending' = 0 => crossed' = Bytes(sending)
<1>1. /\ sending \in Sizes /\ sending # 0 /\ slice \in Nat \X (1 .. 8)
      /\ sending \in 1 .. 255
  BY SizesBound DEF SendSlice, SenderInv
<1>2. crossed' = Bytes(slice[1] + slice[2])
  <2>1. crossed' = Bytes(slice[1]) \o [i \in 1 .. slice[2] |-> slice[1] + i - 1]
    BY <1>1 DEF SendSlice, SenderInv
  <2>2. slice[1] \in Nat /\ slice[2] \in Nat
    BY <1>1
  <2> QED
    BY <2>1, <2>2, BytesJoin
<1>3. CASE compteEnvois = 1
  BY <1>1, <1>2, <1>3 DEF SendSlice, SenderInv
<1>4. CASE compteEnvois # 1
  <2>1. sliceArray(sending) /\ sending' = sending
    BY <1>4 DEF SendSlice
  <2>2. compteEnvois \in 2 .. Slices(sending) /\ slice = << 8 * (compteEnvois - 2), 8 >>
    BY <1>1, <1>4 DEF SenderInv
  <2>3. Slices(sending) \in Nat
    BY <1>1, SlicesOf
  <2>4. compteEnvois \in 1 .. Slices(sending)
    BY <2>2, <2>3
  <2>5. /\ slice' \in Nat \X (1 .. 8)
        /\ slice'[1] = 8 * (compteEnvois - 1)
        /\ IF compteEnvois' = 1 THEN slice'[1] + slice'[2] = sending
           ELSE /\ compteEnvois' \in 2 .. Slices(sending)
                /\ slice' = << 8 * (compteEnvois' - 2), 8 >>
    BY <1>1, <2>1, <2>4, SliceMade
  <2>6. slice[1] + slice[2] = slice'[1]
    BY <2>2, <2>3, <2>5
  <2> QED
    BY <1>1, <1>2, <2>1, <2>5, <2>6 DEF SenderInv
<1> QED
  BY <1>3, <1>4

LEMMA SenderStep ==
    SenderInv /\ [MessagesNext]_messages =>
        /\ SenderInv'
        /\ sending' # 0 => slice'[2] \in 1 .. 8
        /\ sending # 0 /\ sending' = 0 => crossed' = Bytes(sending)
<1> SUFFICES ASSUME SenderInv, [MessagesNext]_messages
             PROVE  /\ SenderInv'
                    /\ sending' # 0 => slice'[2] \in 1 .. 8
                    /\ sending # 0 /\ sending' = 0 => crossed' = Bytes(sending)
  OBVIOUS
<1>1. ASSUME NEW n \in Sizes, SendHead(n)
      PROVE  SenderInv' /\ sending' # 0 /\ slice'[2] \in 1 .. 8
  <2>1. sending = 0 /\ sending' = n /\ crossed' = << >> /\ sliceArray(n) /\ compteEnvois = 1
    BY <1>1 DEF SendHead, SenderInv
  <2>2. n \in 1 .. 255 /\ n # 0 /\ compteEnvois \in 1 .. Slices(n)
    BY <2>1, SizesBound
  <2>3. /\ slice' \in Nat \X (1 .. 8)
        /\ slice'[1] = 8 * (compteEnvois - 1)
        /\ IF compteEnvois' = 1 THEN slice'[1] + slice'[2] = n
           ELSE /\ compteEnvois' \in 2 .. Slices(n)
                /\ slice' = << 8 * (compteEnvois' - 2), 8 >>
    BY <2>1, <2>2, SliceMade
  <2>4. Bytes(0) = << >> /\ slice'[1] = 0
    BY <2>1, <2>3 DEF Bytes
  <2> QED
    BY <2>1, <2>2, <2>3, <2>4 DEF SenderInv
<1>2. CASE SendSlice
  BY <1>2, SendSliceFacts
<1>3. CASE UNCHANGED << sending, compteEnvois, slice, crossed >>
  BY <1>3 DEF SenderInv
<1>4. \/ SendSlice \/ UNCHANGED << sending, compteEnvois, slice, crossed >>
      \/ \E n \in Sizes : SendHead(n)
  BY DEF MessagesNext, SenderNext, RelayNext, SenderBus, RadioMessage, RelayEnqueues, FrameLost,
         reconstructMessage, sender, messages
<1> QED
  BY <1>1, <1>2, <1>3, <1>4

\* SendThroughCAN sends the bytes of every message once each and in order, one
\* to eight in a frame, whatever its length is modulo 8 and however often a
\* frame is refused.
THEOREM EveryByteOnce == MessagesSpec => CutInOrder
<1> DEFINE Cut == /\ sending' # 0 => slice'[2] \in 1 .. 8
                  /\ sending # 0 /\ sending' = 0 => crossed' = [i \in 1 .. sending |-> i - 1]
<1>1. SenderInv /\ [MessagesNext]_messages => SenderInv' /\ [Cut]_messages
  BY SenderStep DEF Bytes
<1> QED
  BY InitSender, <1>1, PTL DEF MessagesSpec, CutInOrder

-----------------------------------------------------------------------------
(* The receiver                                                            *)

\* flagReceptions has a bit for each slice.
ShortMessages == Sizes \subseteq 1 .. 128

LEMMA AllHaveBits ==
    ASSUME ShortMessages, NEW n \in Sizes
    PROVE  Slices(n) \in 1 .. 16 /\ Bits16(1 .. Slices(n)) = 1 .. Slices(n)
<1>1. n \in 1 .. 128
  BY DEF ShortMessages
<1>2. Slices(n) \in 1 .. 16
  BY <1>1 DEF Slices
<1> QED
  BY <1>2 DEF Bits16

FrameType == [m : Nat, size : Nat, k : Nat, dlc : Nat]

\* The frames FormatAndSend_RF_PacketToRPIviaCAN makes.
WellMade(f) ==
    /\ f.m \in 1 .. relayed /\ f.size \in Sizes /\ f.k \in 0 .. Slices(f.size)
    /\ f.k # 0 => f.dlc = IF 8 * f.k <= f.size THEN 8 ELSE f.size - 8 * (f.k - 1)

Within(s) == { s[i] : i \in 1 .. Len(s) }
Travelling == Within(fifo) \cup Within(relay)

FramesInv ==
    /\ relayed \in Nat /\ fifo \in Seq(FrameType) /\ relay \in Seq(FrameType)
    /\ \A f \in Travelling : WellMade(f)

\* The frames of a message all give its size, and so does the last head.
SameSize ==
    /\ \A f, g \in Travelling : f.m = g.m => f.size = g.size
    /\ \A f \in Travelling : f.m = row.m => f.size = row.size

\* While slices follow their head in a row, the statics of reconstructMessage
\* are those of this message and of the slices so far.
InRow ==
    /\ row.m \in 0 .. relayed
    /\ row.m # 0 => row.size \in Sizes
    /\ row.m # 0 /\ row.k \in 0 .. Slices(row.size) - 1 =>
        /\ flagReceptions = 1 .. row.k
        /\ messageLength = row.size
        /\ receivedChecksum = cks(row.m, row.size)
        /\ checksum = (1 + 8 * row.k) * Value(row.m)
    /\ row.m # 0 => row.k \in -1 .. Slices(row.size)
    /\ row \in [m : Nat, k : Int, size : Nat]

ReceiverInv == FramesInv /\ SameSize /\ InRow /\ WholeIsComplete

LEMMA InitReceiver == MessagesInit => ReceiverInv
<1> SUFFICES ASSUME MessagesInit PROVE ReceiverInv
  OBVIOUS
<1>1. Travelling = {}
  BY DEF MessagesInit, Travelling, Within
<1> QED
  BY <1>1
  DEF MessagesInit, ReceiverInv, FramesInv, SameSize, InRow, WholeIsComplete, FrameType

\* What the ends of a sequence hold.
LEMMA Ends ==
    ASSUME NEW S, NEW s \in Seq(S), s # << >>
    PROVE  /\ Head(s) \in Within(s) /\ Head(s) \in S
           /\ Tail(s) \in Seq(S) /\ Within(Tail(s)) \subseteq Within(s)
<1>1. Len(s) \in Nat \ { 0 } /\ Head(s) = s[1] /\ Tail(s) \in Seq(S) /\ Len(Tail(s)) = Len(s) - 1
  OBVIOUS
<1>2. \A i \in 1 .. Len(s) - 1 : Tail(s)[i] = s[i + 1] /\ i + 1 \in 1 .. Len(s)
  BY <1>1
<1>3. 1 \in 1 .. Len(s) /\ s[1] \in S
  BY <1>1
<1> QED
  BY <1>1, <1>2, <1>3 DEF Within

LEMMA Longer ==
    ASSUME NEW S, NEW s \in Seq(S), NEW x \in S
    PROVE  Append(s, x) \in Seq(S) /\ Within(Append(s, x)) = Within(s) \cup { x }
<1>1. /\ Append(s, x) \in Seq(S) /\ Len(Append(s, x)) = Len(s) + 1 /\ Len(s) \in Nat
      /\ Append(s, x)[Len(s) + 1] = x
      /\ \A i \in 1 .. Len(s) : Append(s, x)[i] = s[i]
  OBVIOUS
<1>2. \A i \in 1 .. Len(s) + 1 : i \in 1 .. Len(s) \/ i = Len(s) + 1
  BY <1>1
<1>3. (1 .. Len(s)) \cup { Len(s) + 1 } = 1 .. Len(s) + 1
  BY <1>1
<1> QED
  BY <1>1, <1>2, <1>3 DEF Within

LEMMA FirstThen ==
    ASSUME NEW S, NEW x \in S, NEW s \in Seq(S)
    PROVE  /\ << x >> \o s \in Seq(S) /\ Len(<< x >> \o s) = Len(s) + 1
           /\ (<< x >> \o s)[1] = x
           /\ \A i \in 2 .. Len(s) + 1 : (<< x >> \o s)[i] = s[i - 1]
<1>1. << x >> \in Seq(S) /\ Len(<< x >>) = 1 /\ Len(s) \in Nat
  OBVIOUS
<1> QED
  BY <1>1

\* The head and the slices of one message.
LEMMA Formatted ==
    ASSUME NEW n \in Sizes, NEW m \in Nat
    PROVE  /\ FormatAndSend(m, n) \in Seq(FrameType)
           /\ \A f \in Within(FormatAndSend(m, n)) :
                 /\ f.m = m /\ f.size = n /\ f.k \in 0 .. Slices(n)
                 /\ f.k # 0 => f.dlc = IF 8 * f.k <= n THEN 8 ELSE n - 8 * (f.k - 1)
<1> DEFINE dlc(k) == IF 8 * k <= n THEN 8 ELSE n - 8 * (k - 1)
           cut == [k \in 1 .. Slices(n) |-> Frame(m, n, k, dlc(k))]
           head == Frame(m, n, 0, 8)
<1>1. /\ n \in 1 .. 255 /\ Slices(n) \in Nat /\ Slices(n) >= 1
      /\ 8 * (Slices(n) - 1) < n /\ n <= 8 * Slices(n)
  BY SizesBound, SlicesOf
<1>2. FormatAndSend(m, n) = << head >> \o cut
  BY DEF FormatAndSend
<1>3. \A k \in 1 .. Slices(n) : dlc(k) \in Nat
  BY <1>1
<1> HIDE DEF dlc
<1>4. \A k \in 1 .. Slices(n) : cut[k] = Frame(m, n, k, dlc(k)) /\ cut[k] \in FrameType
  BY <1>1, <1>3 DEF Frame, FrameType
<1>5. cut \in Seq(FrameType) /\ Len(cut) = Slices(n)
  BY <1>1, <1>4
<1>6. head \in FrameType
  BY <1>1 DEF Frame, FrameType
<1> HIDE DEF cut, head
<1> DEFINE all == << head >> \o cut
<1>7. /\ all \in Seq(FrameType) /\ Len(all) = Len(cut) + 1 /\ all[1] = head
      /\ \A i \in 2 .. Len(cut) + 1 : all[i] = cut[i - 1]
  BY <1>5, <1>6, FirstThen
<1> HIDE DEF all
<1>8. /\ Len(all) = Slices(n) + 1
      /\ \A i \in 2 .. Slices(n) + 1 : all[i] = cut[i - 1]
  BY <1>5, <1>7
<1>9. \A i \in 1 .. Slices(n) + 1 :
         \/ all[i] = head
         \/ \E k \in 1 .. Slices(n) : all[i] = Frame(m, n, k, dlc(k))
  <2> TAKE i \in 1 .. Slices(n) + 1
  <2>1. CASE i = 1
    BY <1>7, <2>1
  <2>2. CASE i # 1
    <3>1. i \in 2 .. Slices(n) + 1 /\ i - 1 \in 1 .. Slices(n)
      BY <1>1, <2>2
    <3> QED
      BY <1>4, <1>8, <3>1
  <2> QED
    BY <2>1, <2>2
<1>10. \A f \in Within(all) :
          \/ f = head
          \/ \E k \in 1 .. Slices(n) : f = Frame(m, n, k, dlc(k))
  BY <1>8, <1>9 DEF Within
<1>11. \A f \in Within(all) :
          /\ f.m = m /\ f.size = n /\ f.k \in 0 .. Slices(n)
          /\ f.k # 0 => f.dlc = dlc(f.k)
  BY <1>1, <1>10 DEF Frame, head
<1> QED
  BY <1>2, <1>7, <1>11 DEF dlc, all

LEMMA RadioStep ==
    ASSUME ReceiverInv, NEW n \in Sizes, RadioMessage(n)
    PROVE  ReceiverInv'
<1>0. FramesInv /\ SameSize /\ InRow /\ WholeIsComplete
  BY DEF ReceiverInv
<1>1. /\ relayed' = relayed + 1 /\ relay' = FormatAndSend(relayed + 1, n) /\ relay = << >>
      /\ UNCHANGED << fifo, messageLength, receivedChecksum, checksum, flagReceptions, result, row >>
      /\ relayed \in Nat
  BY <1>0 DEF RadioMessage, rebuilt, static, FramesInv
<1>2. /\ relay' \in Seq(FrameType)
      /\ \A f \in Within(relay)' : f.m = relayed + 1 /\ f.size = n /\ WellMade(f)'
  BY <1>1, Formatted DEF Within, WellMade
<1>3. \A f \in Within(fifo) : f.m \in 1 .. relayed /\ WellMade(f)'
  BY <1>0, <1>1 DEF FramesInv, Travelling, WellMade
<1>4. Travelling' = Within(fifo) \cup Within(relay)'
  BY <1>1 DEF Travelling, Within
<1>5. FramesInv'
  BY <1>0, <1>1, <1>2, <1>3, <1>4 DEF FramesInv
<1>6. SameSize'
  <2>1. \A f \in Within(fifo) : f.m # relayed + 1
    BY <1>1, <1>3
  <2>2. row.m # relayed + 1
    BY <1>0, <1>1 DEF InRow
  <2>3. \A f, g \in Within(fifo) : f.m = g.m => f.size = g.size
    BY <1>0 DEF SameSize, Travelling
  <2>4. \A f \in Within(fifo) : f.m = row.m => f.size = row.size
    BY <1>0 DEF SameSize, Travelling
  <2>5. \A f, g \in Travelling' : f.m = g.m => f.size = g.size
    BY <1>2, <1>4, <2>1, <2>3
  <2>6. \A f \in Travelling' : f.m = row'.m => f.size = row'.size
    BY <1>1, <1>2, <1>4, <2>2, <2>4
  <2> QED
    BY <2>5, <2>6 DEF SameSize
<1>7. InRow' /\ WholeIsComplete'
  BY <1>0, <1>1 DEF InRow, WholeIsComplete, cks
<1> QED
  BY <1>5, <1>6, <1>7 DEF ReceiverInv

\* A step that only moves or loses frames.
LEMMA MoveStep ==
    ASSUME ReceiverInv, fifo' \in Seq(FrameType), relay' \in Seq(FrameType),
           Travelling' \subseteq Travelling,
           UNCHANGED << relayed, messageLength, receivedChecksum, checksum, flagReceptions, result, row >>
    PROVE  ReceiverInv'
<1>1. FramesInv'
  BY DEF ReceiverInv, FramesInv, WellMade
<1>2. SameSize'
  BY DEF ReceiverInv, SameSize
<1> QED
  BY <1>1, <1>2 DEF ReceiverInv, InRow, WholeIsComplete, cks

-----------------------------------------------------------------------------
(* MESCAN_reconstructMessage                                               *)

\* The sums of the receiver, in multiples of one byte.
LEMMA SumOf ==
    ASSUME NEW v \in Nat, NEW a \in Nat, NEW b \in Nat
    PROVE  /\ (1 + a) * v + b * v = (1 + a + b) * v
           /\ (1 + a + b) * v = ((a + b) + 1) * v
OBVIOUS

\* A head frame starts its message anew.
LEMMA HeadStep ==
    ASSUME ReceiverInv, reconstructMessage, Head(fifo).k = 0, WellMade(Head(fifo))
    PROVE  /\ row' = [m |-> Head(fifo).m, k |-> 0, size |-> Head(fifo).size]
           /\ InRow' /\ WholeIsComplete'
<1> DEFINE f == Head(fifo)
<1>1. /\ row' = [m |-> f.m, k |-> 0, size |-> f.size]
      /\ HeadFrame(f) /\ relayed' = relayed
  BY DEF reconstructMessage, Refuses
<1>2. f.size \in 1 .. 255 /\ f.size \in Sizes /\ f.m \in 1 .. relayed /\ relayed \in Nat
  BY SizesBound DEF WellMade, ReceiverInv, FramesInv
<1> HIDE DEF f
<1>3. Value(f.m) \in Nat /\ Slices(f.size) \in Nat /\ Slices(f.size) >= 1
  BY <1>2, SlicesOf DEF Value
<1>4. (1 + 8 * 0) * Value(f.m) = Value(f.m) /\ 1 .. 0 = {}
  BY <1>3
<1>5. row' \in [m : Nat, k : Int, size : Nat]
  BY <1>1, <1>2
<1>6. InRow'
  BY <1>1, <1>2, <1>3, <1>4, <1>5 DEF InRow, HeadFrame, cks, Value
<1>7. WholeIsComplete'
  BY <1>1, <1>3 DEF WholeIsComplete
<1> QED
  BY <1>1, <1>6, <1>7 DEF f

\* All slices but the last have eight bytes, and the last one ends the message.
LEMMA SliceEnd ==
    ASSUME NEW n \in 1 .. 255, NEW s \in Nat, 8 * (s - 1) < n, n <= 8 * s,
           NEW k \in 1 .. s, NEW d, d = IF 8 * k <= n THEN 8 ELSE n - 8 * (k - 1)
    PROVE  /\ d \in 1 .. 8
           /\ k = s => 8 * (k - 1) + d = n
           /\ k # s => d = 8
           /\ (k - 1) * 8 + d <= n
           /\ k - 1 \in 0 .. s - 1 /\ k \notin 1 .. k - 1 /\ ~(k > s)
OBVIOUS

\* A slice that follows in a row is taken, and the last one completes the message.
LEMMA NextSlice ==
    ASSUME ShortMessages, ReceiverInv, reconstructMessage, Head(fifo).k # 0, WellMade(Head(fifo)),
           row.m = Head(fifo).m, row.size = Head(fifo).size, Head(fifo).k = row.k + 1
    PROVE  row' = [row EXCEPT !.k = Head(fifo).k] /\ InRow' /\ WholeIsComplete'
<1> DEFINE f == Head(fifo)
           v == Value(f.m)
<1>0. InRow /\ relayed \in Nat
  BY DEF ReceiverInv, FramesInv
<1>1. /\ row' = [row EXCEPT !.k = f.k] /\ relayed' = relayed
      /\ IF Refuses(f) # 0 THEN Returns(Refuses(f)) /\ UNCHANGED << static, destination >>
         ELSE SliceFrame(f)
  BY DEF reconstructMessage
<1>2. /\ f.size \in 1 .. 255 /\ f.size \in Sizes /\ f.m \in 1 .. relayed
      /\ f.k \in 1 .. Slices(f.size) /\ f.k # 0 /\ Slices(f.size) \in Nat
      /\ 8 * (Slices(f.size) - 1) < f.size /\ f.size <= 8 * Slices(f.size)
      /\ f.dlc = IF 8 * f.k <= f.size THEN 8 ELSE f.size - 8 * (f.k - 1)
  BY SizesBound, SlicesOf DEF WellMade
<1>3. row.m = f.m /\ row.size = f.size /\ row.m # 0 /\ row.k = f.k - 1
  <2>1. row.m = f.m /\ row.size = f.size /\ f.k = row.k + 1
    OBVIOUS
  <2>2. row.k \in Int
    BY <1>0 DEF InRow
  <2> HIDE DEF f
  <2>3. f.m # 0
    BY <1>0, <1>2
  <2> QED
    BY <2>1, <2>2, <2>3
<1> HIDE DEF f
<1>4. /\ f.dlc \in 1 .. 8
      /\ f.k = Slices(f.size) => 8 * (f.k - 1) + f.dlc = f.size
      /\ f.k # Slices(f.size) => f.dlc = 8
      /\ (f.k - 1) * 8 + f.dlc <= f.size
      /\ f.k - 1 \in 0 .. Slices(f.size) - 1 /\ f.k \notin 1 .. f.k - 1 /\ ~(f.k > Slices(f.size))
  <2> DEFINE n == f.size
             s == Slices(f.size)
             k == f.k
             d == f.dlc
  <2>1. /\ n \in 1 .. 255 /\ s \in Nat /\ 8 * (s - 1) < n /\ n <= 8 * s
        /\ k \in 1 .. s /\ d = IF 8 * k <= n THEN 8 ELSE n - 8 * (k - 1)
    BY <1>2
  <2> HIDE DEF n, s, k, d
  <2>2. /\ d \in 1 .. 8
        /\ k = s => 8 * (k - 1) + d = n
        /\ k # s => d = 8
        /\ (k - 1) * 8 + d <= n
        /\ k - 1 \in 0 .. s - 1 /\ k \notin 1 .. k - 1 /\ ~(k > s)
    BY <2>1, SliceEnd
  <2> QED
    BY <2>2 DEF n, s, k, d
<1>5. /\ flagReceptions = 1 .. f.k - 1 /\ messageLength = f.size
      /\ receivedChecksum = cks(f.m, f.size)
      /\ checksum = (1 + 8 * (f.k - 1)) * v
  BY <1>0, <1>3, <1>4 DEF InRow
<1>6. Refuses(f) = 0
  <2>1. ~((f.k - 1) * 8 + f.dlc > f.size)
    BY <1>2, <1>4
  <2> QED
    BY <1>2, <1>4, <1>5, <2>1 DEF Refuses
<1>7. v \in Nat
  BY <1>2 DEF Value
<1> DEFINE sum == checksum + f.dlc * v
           flags == flagReceptions \cup Bits16({ f.k })
<1>8. flags = 1 .. f.k
  <2>1. Slices(f.size) \in 1 .. 16
    BY <1>2, AllHaveBits
  <2>2. f.k \in 1 .. 16
    BY <1>2, <2>1
  <2>3. Bits16({ f.k }) = { f.k }
    BY <2>2 DEF Bits16
  <2>4. (1 .. f.k - 1) \cup { f.k } = 1 .. f.k
    BY <2>2
  <2> QED
    BY <1>5, <2>3, <2>4
<1>9. /\ checksum' = sum /\ receivedChecksum' = receivedChecksum
      /\ IF Bits16(1 .. Slices(messageLength)) \subseteq flags
         THEN messageLength' = 0 /\ flagReceptions' = {} /\ result' = Verdict(sum)
         ELSE flagReceptions' = flags /\ messageLength' = messageLength /\ result' = 0
  BY <1>1, <1>6 DEF SliceFrame, Returns
<1>14. Bits16(1 .. Slices(messageLength)) = 1 .. Slices(f.size)
  BY <1>2, <1>5, AllHaveBits
<1> HIDE DEF v, flags
<1>10. sum = (1 + 8 * (f.k - 1) + f.dlc) * v
  <2>1. f.k \in Nat /\ f.k >= 1
    BY <1>2
  <2>2. 8 * (f.k - 1) \in Nat /\ f.dlc \in Nat
    BY <1>4, <2>1
  <2> QED
    BY <1>5, <1>7, <2>2, SumOf
<1> HIDE DEF sum
<1>11. row'.m = f.m /\ row'.size = f.size /\ row'.k = f.k /\ row' \in [m : Nat, k : Int, size : Nat]
  <2>1. row \in [m : Nat, k : Int, size : Nat] /\ f.k \in Int
    BY <1>0, <1>2 DEF InRow
  <2> QED
    BY <1>1, <1>3, <2>1
<1>12. CASE f.k = Slices(f.size)
  <2>1. Bits16(1 .. Slices(messageLength)) \subseteq flags
    BY <1>8, <1>12, <1>14
  <2>2. sum = (f.size + 1) * v
    <3>1. 1 + 8 * (f.k - 1) + f.dlc = f.size + 1
      BY <1>2, <1>4, <1>12
    <3> QED
      BY <1>10, <3>1
  <2>3. Verdict(sum) = 1
    BY <1>5, <2>2 DEF Verdict, cks, v
  <2>4. WholeIsComplete'
    BY <1>9, <2>1, <2>3 DEF WholeIsComplete
  <2>5. ~(row'.k \in 0 .. Slices(row'.size) - 1) /\ row'.k \in -1 .. Slices(row'.size)
    BY <1>2, <1>11, <1>12
  <2>6. row'.m \in 0 .. relayed' /\ row'.size \in Sizes
    BY <1>0, <1>1, <1>2, <1>11
  <2>7. InRow'
    BY <1>11, <2>5, <2>6 DEF InRow
  <2> QED
    BY <1>1, <2>4, <2>7 DEF f
<1>13. CASE f.k # Slices(f.size)
  <2>1. ~(Bits16(1 .. Slices(messageLength)) \subseteq flags)
    <3>1. Slices(f.size) \in 1 .. Slices(f.size) /\ Slices(f.size) \notin 1 .. f.k
      BY <1>2, <1>13
    <3> QED
      BY <1>8, <1>14, <3>1
  <2>2. checksum' = (1 + 8 * f.k) * v
    <3>1. 1 + 8 * (f.k - 1) + f.dlc = 1 + 8 * f.k
      BY <1>2, <1>4, <1>13
    <3> QED
      BY <1>9, <1>10, <3>1
  <2>3. flagReceptions' = 1 .. f.k /\ messageLength' = f.size /\ receivedChecksum' = cks(f.m, f.size)
    BY <1>5, <1>8, <1>9, <2>1
  <2>4. row'.k \in -1 .. Slices(row'.size) /\ row'.k # Slices(row'.size)
    BY <1>2, <1>11, <1>13
  <2>5. WholeIsComplete'
    BY <2>4 DEF WholeIsComplete
  <2>6. row'.m \in 0 .. relayed' /\ row'.size \in Sizes
    BY <1>0, <1>1, <1>2, <1>11
  <2>7. InRow'
    BY <1>11, <2>2, <2>3, <2>4, <2>6 DEF InRow, cks, v, Value
  <2> QED
    BY <1>1, <2>5, <2>7 DEF f
<1> QED
  BY <1>12, <1>13

\* Another frame ends the row.
LEMMA RowEnds ==
    ASSUME ReceiverInv, reconstructMessage, Head(fifo).k # 0, WellMade(Head(fifo)),
           row.m # Head(fifo).m \/ Head(fifo).k # row.k + 1
    PROVE  row' = [row EXCEPT !.k = -1] /\ InRow' /\ WholeIsComplete'
<1>1. row' = [row EXCEPT !.k = -1] /\ relayed' = relayed
  BY DEF reconstructMessage
<1>2. /\ row \in [m : Nat, k : Int, size : Nat] /\ InRow
  BY DEF ReceiverInv, InRow
<1>3. /\ row'.m = row.m /\ row'.size = row.size /\ row'.k = -1
      /\ row' \in [m : Nat, k : Int, size : Nat]
  BY <1>1, <1>2
<1>4. row.m # 0 => Slices(row.size) \in Nat
  BY <1>2, SizesBound, SlicesOf DEF InRow
<1>5. InRow'
  BY <1>1, <1>2, <1>3, <1>4 DEF InRow
<1>6. WholeIsComplete'
  BY <1>3, <1>4 DEF WholeIsComplete
<1> QED
  BY <1>1, <1>5, <1>6

LEMMA ReconstructStep ==
    ASSUME ShortMessages, ReceiverInv, reconstructMessage
    PROVE  ReceiverInv'
<1> DEFINE f == Head(fifo)
<1>0. FramesInv /\ SameSize /\ InRow
  BY DEF ReceiverInv
<1>1. /\ fifo \in Seq(FrameType) /\ fifo # << >> /\ fifo' = Tail(fifo)
      /\ UNCHANGED << relayed, relay >>
  BY <1>0 DEF reconstructMessage, FramesInv
<1>2. /\ f \in Within(fifo) /\ fifo' \in Seq(FrameType) /\ Within(fifo') \subseteq Within(fifo)
  BY <1>1, Ends
<1>3. f \in Travelling /\ WellMade(f) /\ Travelling' \subseteq Travelling
  BY <1>0, <1>1, <1>2 DEF FramesInv, Travelling, Within
<1>4. FramesInv'
  BY <1>0, <1>1, <1>2, <1>3 DEF FramesInv, WellMade
<1>5. row.m = f.m => row.size = f.size
  BY <1>0, <1>3 DEF SameSize
<1>6. \A g, h \in Travelling' : g.m = h.m => g.size = h.size
  BY <1>0, <1>3 DEF SameSize
<1>7. row \in [m : Nat, k : Int, size : Nat]
  BY <1>0 DEF InRow
<1>8. CASE f.k = 0
  <2>1. row' = [m |-> f.m, k |-> 0, size |-> f.size] /\ InRow' /\ WholeIsComplete'
    BY <1>3, <1>8, HeadStep
  <2>2. row'.m = f.m /\ row'.size = f.size
    BY <2>1
  <2>3. SameSize'
    BY <1>0, <1>3, <1>6, <2>2 DEF SameSize
  <2> QED
    BY <1>4, <2>1, <2>3 DEF ReceiverInv
<1>9. CASE f.k # 0
  <2>1. InRow' /\ WholeIsComplete' /\ \E k \in Int : row' = [row EXCEPT !.k = k]
    <3>1. CASE row.m = f.m /\ f.k = row.k + 1
      BY <1>3, <1>5, <1>7, <1>9, <3>1, NextSlice
    <3>2. CASE ~(row.m = f.m /\ f.k = row.k + 1)
      BY <1>3, <1>9, <3>2, RowEnds
    <3> QED
      BY <3>1, <3>2
  <2>2. row'.m = row.m /\ row'.size = row.size
    BY <1>7, <2>1
  <2>3. SameSize'
    BY <1>0, <1>3, <1>6, <2>2 DEF SameSize
  <2> QED
    BY <1>4, <2>1, <2>3 DEF ReceiverInv
<1> QED
  BY <1>8, <1>9

LEMMA ReceiverStep == ShortMessages /\ ReceiverInv /\ [MessagesNext]_messages => ReceiverInv'
<1> SUFFICES ASSUME ShortMessages, ReceiverInv, [MessagesNext]_messages PROVE ReceiverInv'
  OBVIOUS
<1>0. fifo \in Seq(FrameType) /\ relay \in Seq(FrameType)
  BY DEF ReceiverInv, FramesInv
<1>1. CASE RelayEnqueues
  <2>1. /\ relay # << >> /\ relay' = Tail(relay)
        /\ fifo' \in { Append(fifo, Head(relay)), fifo }
        /\ UNCHANGED << relayed, messageLength, receivedChecksum, checksum, flagReceptions, result, row >>
    BY <1>1 DEF RelayEnqueues, rebuilt, static
  <2>2. /\ Head(relay) \in Within(relay) /\ Head(relay) \in FrameType
        /\ relay' \in Seq(FrameType) /\ Within(relay') \subseteq Within(relay)
    BY <1>0, <2>1, Ends
  <2>3. fifo' \in Seq(FrameType) /\ Within(fifo') \subseteq Within(fifo) \cup Within(relay)
    <3>1. /\ Append(fifo, Head(relay)) \in Seq(FrameType)
          /\ Within(Append(fifo, Head(relay))) = Within(fifo) \cup { Head(relay) }
      BY <1>0, <2>2, Longer
    <3> QED
      BY <1>0, <2>1, <2>2, <3>1
  <2>4. Travelling' \subseteq Travelling
    BY <2>2, <2>3 DEF Travelling, Within
  <2> QED
    BY <2>1, <2>2, <2>3, <2>4, MoveStep
<1>2. CASE FrameLost
  <2>1. /\ fifo # << >> /\ fifo' = Tail(fifo) /\ relay' = relay
        /\ UNCHANGED << relayed, messageLength, receivedChecksum, checksum, flagReceptions, result, row >>
    BY <1>2 DEF FrameLost, rebuilt, static
  <2>2. fifo' \in Seq(FrameType) /\ Within(fifo') \subseteq Within(fifo)
    BY <1>0, <2>1, Ends
  <2>3. Travelling' \subseteq Travelling
    BY <2>1, <2>2 DEF Travelling, Within
  <2> QED
    BY <1>0, <2>1, <2>2, <2>3, MoveStep
<1>3. ASSUME SenderNext \/ UNCHANGED messages PROVE ReceiverInv'
  <2>1. UNCHANGED << fifo, relay, relayed, messageLength, receivedChecksum, checksum,
                     flagReceptions, result, row >>
    BY <1>3 DEF SenderNext, SendSlice, SenderBus, SendHead, reception, rebuilt, static, messages
  <2>2. Travelling' = Travelling
    BY <2>1 DEF Travelling, Within
  <2> QED
    BY <1>0, <2>1, <2>2, MoveStep
<1> QED
  BY <1>1, <1>2, <1>3, RadioStep, ReconstructStep DEF MessagesNext, RelayNext

\* A message of up to 128 bytes, whose slices all have a bit of flagReceptions, is
\* complete with the last of its frames if they all reach MESCAN_reconstructMessage
\* one after the other, whatever its length, whatever was lost of the messages
\* before it and whatever state they left in the statics.
THEOREM WholeCompletes ==
    ASSUME ShortMessages
    PROVE  MessagesSpec => []WholeIsComplete
<1>1. ReceiverInv => WholeIsComplete
  BY DEF ReceiverInv
<1>2. ReceiverInv /\ [MessagesNext]_messages => ReceiverInv'
  BY ReceiverStep
<1> QED
  BY InitReceiver, <1>1, <1>2, PTL DEF MessagesSpec

-----------------------------------------------------------------------------
(* Sums of bytes                                                           *)

\* Every set of natural numbers has a smallest one.
LEMMA LeastNumber ==
    ASSUME NEW T, T \subseteq Nat, T # {}
    PROVE  \E n \in T : \A m \in T : n <= m
<1> DEFINE Less == OpToRel(<, Nat)
<1>1. IsWellFoundedOn(Less, Nat)
  BY NatLessThanWellFounded
<1> HIDE DEF Less
<1>2. PICK n \in T : \A m \in T : ~(<< m, n >> \in Less)
  BY <1>1, WFMin
<1>3. ASSUME NEW m \in T PROVE n <= m
  <2>1. ~(<< m, n >> \in Less) /\ m \in Nat /\ n \in Nat
    BY <1>2
  <2>2. m < n => << m, n >> \in Less
    BY <2>1 DEF Less, OpToRel
  <2> QED
    BY <2>1, <2>2
<1> QED
  BY <1>2, <1>3

\* The longest message is one of them, and none is longer.
LEMMA LargestIs ==
    ASSUME NEW n \in Sizes
    PROVE  Largest \in Sizes /\ n <= Largest
<1> DEFINE U == { u \in Nat : \A m \in Sizes : m <= u }
<1>1. Sizes \subseteq Nat /\ \A m \in Sizes : m <= 255
  BY MessageAssumption
<1>2. 255 \in U
  BY <1>1
<1>3. PICK u \in U : \A w \in U : u <= w
  <2>1. U \subseteq Nat
    OBVIOUS
  <2> QED
    BY <1>2, <2>1, LeastNumber
<1>4. u \in Sizes
  <2> SUFFICES ASSUME u \notin Sizes PROVE FALSE
    OBVIOUS
  <2>1. \A m \in Sizes : m <= u - 1
    BY <1>1, <1>3
  <2>2. n \in Nat /\ n <= u - 1 /\ u \in Nat
    BY <1>1, <1>3, <2>1
  <2>3. u - 1 \in U /\ ~(u <= u - 1)
    BY <2>1, <2>2
  <2> QED
    BY <1>3, <2>3
<1>5. \E x \in Sizes : \A m \in Sizes : x >= m
  BY <1>1, <1>3, <1>4
<1>6. Largest \in Sizes /\ \A m \in Sizes : Largest >= m
  BY <1>5 DEF Largest, Max
<1> QED
  BY <1>1, <1>6

\* Adds(f, b, n): f adds up the bytes of b, up to n of them.
Adds(f, b, n) == f = [k \in 0 .. n |-> IF k = 0 THEN 0 ELSE f[k - 1] + b[k - 1]]

\* What the recursive definition in SumOfBytes defines exists: the least number of
\* bytes up to which it did not would have a sum one before.
LEMMA AddsExist ==
    ASSUME NEW b, NEW n \in 0 .. 255
    PROVE  \E f : Adds(f, b, n)
<1> DEFINE T == { k \in 0 .. 255 : ~ \E f : Adds(f, b, k) }
<1> SUFFICES ASSUME T # {} PROVE FALSE
  OBVIOUS
<1>1. T \subseteq Nat
  OBVIOUS
<1>2. PICK k \in T : \A m \in T : k <= m
  BY <1>1, LeastNumber
<1>3. k \in 0 .. 255 /\ ~ \E f : Adds(f, b, k)
  BY <1>2
<1>4. CASE k = 0
  <2> DEFINE g == [i \in 0 .. 0 |-> 0]
  <2>1. g = [i \in 0 .. 0 |-> IF i = 0 THEN 0 ELSE g[i - 1] + b[i - 1]]
    OBVIOUS
  <2> HIDE DEF g
  <2>2. Adds(g, b, k)
    BY <2>1, <1>4 DEF Adds
  <2> QED
    BY <2>2, <1>3
<1>5. CASE k # 0
  <2>1. k - 1 \in 0 .. 255 /\ k - 1 < k /\ k \in Nat
    BY <1>3, <1>5
  <2>2. k - 1 \notin T
    BY <2>1, <1>2
  <2>3. PICK f : Adds(f, b, k - 1)
    BY <2>1, <2>2
  <2> DEFINE g == [i \in 0 .. k |-> IF i = k THEN f[k - 1] + b[k - 1] ELSE f[i]]
  <2>4. \A i \in 0 .. k : i # k => g[i] = f[i]
    OBVIOUS
  <2>5. g[k] = f[k - 1] + b[k - 1]
    BY <2>1
  <2>6. \A i \in 0 .. k - 1 : f[i] = IF i = 0 THEN 0 ELSE f[i - 1] + b[i - 1]
    BY <2>3 DEF Adds
  <2>7. ASSUME NEW i \in 0 .. k
        PROVE  g[i] = IF i = 0 THEN 0 ELSE g[i - 1] + b[i - 1]
    <3>1. CASE i = k
      <4>1. k - 1 \in 0 .. k /\ k - 1 # k
        BY <2>1
      <4>2. g[k - 1] = f[k - 1]
        BY <2>4, <4>1
      <4> QED
        BY <2>5, <4>2, <3>1, <1>5
    <3>2. CASE i # k
      <4>1. i \in 0 .. k - 1
        BY <3>2, <2>1
      <4>2. i # 0 => i - 1 \in 0 .. k /\ i - 1 # k
        BY <4>1, <2>1
      <4>3. i # 0 => g[i - 1] = f[i - 1]
        BY <4>2, <2>4
      <4>4. g[i] = f[i]
        BY <3>2, <2>4
      <4> HIDE DEF g
      <4> QED
        BY <4>1, <4>3, <4>4, <2>6
    <3> QED
      BY <3>1, <3>2
  <2>8. g = [i \in 0 .. k |-> g[i]]
    OBVIOUS
  <2> HIDE DEF g
  <2>9. [i \in 0 .. k |-> g[i]] = [i \in 0 .. k |-> IF i = 0 THEN 0 ELSE g[i - 1] + b[i - 1]]
    BY <2>7
  <2>10. Adds(g, b, k)
    BY <2>8, <2>9 DEF Adds
  <2> QED
    BY <2>10, <1>3
<1> QED
  BY <1>4, <1>5

\* The sum grows by one byte after the other.
LEMMA SumGrows ==
    ASSUME NEW b
    PROVE  /\ SumOfBytes(b, 0) = 0
           /\ \A k \in 1 .. 255 : SumOfBytes(b, k) = SumOfBytes(b, k - 1) + b[k - 1]
<1> DEFINE upTo[k \in 0 .. 255] == IF k = 0 THEN 0 ELSE upTo[k - 1] + b[k - 1]
<1>1. PICK f : Adds(f, b, 255)
  BY AddsExist
<1>2. f = [k \in 0 .. 255 |-> IF k = 0 THEN 0 ELSE f[k - 1] + b[k - 1]]
  BY <1>1 DEF Adds
<1>3. upTo = [k \in 0 .. 255 |-> IF k = 0 THEN 0 ELSE upTo[k - 1] + b[k - 1]]
  BY <1>2, Zenon
<1>4. \A k : SumOfBytes(b, k) = upTo[k]
  BY Zenon DEF SumOfBytes
<1> HIDE DEF upTo
<1>5. \A k \in 0 .. 255 : upTo[k] = IF k = 0 THEN 0 ELSE upTo[k - 1] + b[k - 1]
  BY <1>3, Zenon
<1>6. 0 \in 0 .. 255 /\ \A k \in 1 .. 255 : k \in 0 .. 255 /\ k # 0
  OBVIOUS
<1> QED
  BY <1>4, <1>5, <1>6

IsBytes(b) == b \in [0 .. 254 -> Nat]

LEMMA SumIsNat ==
    ASSUME NEW b, IsBytes(b), NEW n \in 0 .. 255
    PROVE  SumOfBytes(b, n) \in Nat
<1> DEFINE T == { k \in 0 .. 255 : SumOfBytes(b, k) \notin Nat }
<1> SUFFICES ASSUME T # {} PROVE FALSE
  OBVIOUS
<1>1. T \subseteq Nat
  OBVIOUS
<1> HIDE DEF T
<1>2. PICK k \in T : \A m \in T : k <= m
  BY <1>1, LeastNumber
<1>3. k \in 0 .. 255 /\ SumOfBytes(b, k) \notin Nat
  BY DEF T
<1>4. k # 0
  BY <1>3, SumGrows
<1>5. k \in 1 .. 255 /\ k - 1 \in 0 .. 255 /\ ~(k <= k - 1) /\ k - 1 \in 0 .. 254
  BY <1>3, <1>4
<1>6. k - 1 \notin T
  BY <1>2, <1>5
<1>7. SumOfBytes(b, k - 1) \in Nat
  BY <1>5, <1>6 DEF T
<1>8. b[k - 1] \in Nat
  BY <1>5 DEF IsBytes
<1>9. SumOfBytes(b, k) = SumOfBytes(b, k - 1) + b[k - 1]
  BY <1>5, SumGrows
<1> QED
  BY <1>3, <1>7, <1>8, <1>9

\* How many of the d places from start on lie below k.
Below(start, d, k) == IF k <= start THEN 0 ELSE IF k >= start + d THEN d ELSE k - start

LEMMA BelowGrows ==
    ASSUME NEW start \in Nat, NEW d \in Nat, NEW k \in Nat, k # 0
    PROVE  /\ Below(start, d, 0) = 0
           /\ Below(start, d, k - 1) \in Nat
           /\ k - 1 \in start .. start + d - 1 => Below(start, d, k) = Below(start, d, k - 1) + 1
           /\ k - 1 \notin start .. start + d - 1 => Below(start, d, k) = Below(start, d, k - 1)
           /\ start + d <= k => Below(start, d, k) = d
BY DEF Below

LEMMA OneMore ==
    ASSUME NEW x \in Nat, NEW v \in Nat
    PROVE  (x + 1) * v = x * v + v /\ x * v \in Nat /\ 0 * v = 0
OBVIOUS

\* c is b with d bytes of value v from start on, where there were none.
Patched(c, b, v, start, d) ==
    \A i \in 0 .. 254 :
        IF i \in start .. start + d - 1 THEN c[i] = v /\ b[i] = 0 ELSE c[i] = b[i]

\* d bytes of value v put where there were none add d * v to every sum that reaches
\* over them.
LEMMA SumWithMore ==
    ASSUME NEW b, IsBytes(b), NEW c, NEW v \in Nat, NEW start \in Nat, NEW d \in Nat,
           Patched(c, b, v, start, d),
           NEW n \in Nat, n # 0, n <= 255, start + d <= n
    PROVE  SumOfBytes(c, n) = SumOfBytes(b, n) + d * v
<1> DEFINE G(k) == SumOfBytes(c, k) = SumOfBytes(b, k) + Below(start, d, k) * v
           T == { k \in 0 .. 255 : ~G(k) }
<1>1. T \subseteq Nat
  OBVIOUS
<1>2. ASSUME NEW k \in T, \A m \in T : k <= m
      PROVE  FALSE
  <2>1. k \in 0 .. 255 /\ ~G(k)
    OBVIOUS
  <2> DEFINE sc == SumOfBytes(c, k)
             sb == SumOfBytes(b, k)
             sc1 == SumOfBytes(c, k - 1)
             sb1 == SumOfBytes(b, k - 1)
             x == Below(start, d, k - 1)
             y == Below(start, d, k)
  <2>2. k # 0
    <3>1. SumOfBytes(c, 0) = 0 /\ SumOfBytes(b, 0) = 0
      BY SumGrows
    <3>2. 1 \in Nat /\ 1 # 0
      OBVIOUS
    <3>3. Below(start, d, 0) = 0
      BY <3>2, BelowGrows
    <3>4. 0 * v = 0
      BY OneMore
    <3>5. G(0)
      BY <3>1, <3>3, <3>4
    <3> HIDE DEF G
    <3> QED
      BY <2>1, <3>5
  <2> HIDE DEF T, G
  <2>3. k \in 1 .. 255 /\ k \in Nat /\ k - 1 \in 0 .. 255 /\ ~(k <= k - 1) /\ k - 1 \in 0 .. 254
    BY <2>1, <2>2
  <2>4. k - 1 \notin T
    BY <1>2, <2>3
  <2>5. G(k - 1)
    BY <2>3, <2>4 DEF T
  <2>6. sc1 = sb1 + x * v /\ sc # sb + y * v
    BY <2>1, <2>5 DEF G
  <2>7. sc = sc1 + c[k - 1] /\ sb = sb1 + b[k - 1]
    BY <2>3, SumGrows
  <2>8. /\ x \in Nat
        /\ k - 1 \in start .. start + d - 1 => y = x + 1
        /\ k - 1 \notin start .. start + d - 1 => y = x
    BY <2>2, <2>3, BelowGrows
  <2>9. sb1 \in Nat /\ b[k - 1] \in Nat
    BY <2>3, SumIsNat DEF IsBytes
  <2> HIDE DEF sc, sb, sc1, sb1, x, y
  <2>10. (x + 1) * v = x * v + v /\ x * v \in Nat
    BY <2>8, OneMore
  <2>11. CASE k - 1 \in start .. start + d - 1
    <3>1. c[k - 1] = v /\ b[k - 1] = 0
      BY <2>3, <2>11 DEF Patched
    <3>2. y * v = x * v + v
      BY <2>8, <2>10, <2>11
    <3> DEFINE xv == x * v
               yv == y * v
    <3>3. xv \in Nat /\ yv = xv + v /\ sc1 = sb1 + xv /\ sc # sb + yv
      BY <2>6, <2>10, <3>2
    <3> HIDE DEF xv, yv
    <3> QED
      BY <2>7, <2>9, <3>1, <3>3
  <2>12. CASE k - 1 \notin start .. start + d - 1
    <3>1. c[k - 1] = b[k - 1]
      BY <2>3, <2>12 DEF Patched
    <3>2. y * v = x * v
      BY <2>8, <2>12
    <3> DEFINE xv == x * v
               yv == y * v
    <3>3. xv \in Nat /\ yv = xv /\ sc1 = sb1 + xv /\ sc # sb + yv
      BY <2>6, <2>10, <3>2
    <3> HIDE DEF xv, yv
    <3> QED
      BY <2>7, <2>9, <3>1, <3>3
  <2> QED
    BY <2>11, <2>12
<1> HIDE DEF T, G
<1>3. T = {}
  BY <1>1, <1>2, LeastNumber
<1>4. n \in 0 .. 255 /\ n \in Nat /\ n # 0
  OBVIOUS
<1>5. SumOfBytes(c, n) = SumOfBytes(b, n) + Below(start, d, n) * v
  BY <1>3, <1>4 DEF T, G
<1>6. Below(start, d, n) = d
  BY <1>4, BelowGrows
<1> QED
  BY <1>5, <1>6

\* With no byte received the sum is 0.
LEMMA SumOfNothing ==
    ASSUME NEW b, \A i \in 0 .. 254 : b[i] = 0, NEW n \in 0 .. 255
    PROVE  SumOfBytes(b, n) = 0
<1> DEFINE T == { k \in 0 .. 255 : SumOfBytes(b, k) # 0 }
<1> SUFFICES ASSUME T # {} PROVE FALSE
  OBVIOUS
<1>1. T \subseteq Nat
  OBVIOUS
<1>2. PICK k \in T : \A m \in T : k <= m
  BY <1>1, LeastNumber
<1>3. k # 0
  BY SumGrows
<1>4. k \in 1 .. 255 /\ k - 1 \in 0 .. 255 /\ ~(k <= k - 1) /\ k - 1 \in 0 .. 254
  BY <1>2, <1>3
<1>5. k - 1 \notin T
  BY <1>2, <1>4
<1>6. SumOfBytes(b, k - 1) = 0 /\ b[k - 1] = 0
  BY <1>4, <1>5
<1>7. SumOfBytes(b, k) = SumOfBytes(b, k - 1) + b[k - 1]
  BY <1>4, SumGrows
<1> QED
  BY <1>2, <1>6, <1>7

-----------------------------------------------------------------------------
(* What a complete message is made of                                      *)

\* Since the last head the bytes written are those of the slices that are flagged,
\* and checksum is what they add up to, until the message is judged.
SumInv ==
    /\ destination \in [0 .. Largest - 1 -> Nat]
    /\ fresh \subseteq (0 .. 254) \cap (0 .. Largest - 1)
    /\ messageLength \in Nat
    /\ messageLength # 0 =>
        /\ row.m # 0 /\ row.size \in Sizes /\ messageLength = row.size
        /\ receivedChecksum = cks(row.m, row.size)
        /\ checksum = Value(row.m) + SumOfBytes(Received, row.size)
        /\ flagReceptions \subseteq 1 .. 16
        /\ \A i \in fresh : \E k \in flagReceptions : i \in 8 * (k - 1) .. 8 * (k - 1) + 7
        /\ \A k \in flagReceptions : 8 * (k - 1) \in fresh
    /\ CompleteAddsUp

LEMMA ReceivedAt ==
    /\ \A i \in 0 .. 254 : Received[i] = IF i \in fresh THEN Value(destination[i]) ELSE 0
    /\ \A i \in 0 .. 254 : Received'[i] = IF i \in fresh' THEN Value(destination'[i]) ELSE 0
BY DEF Received

LEMMA InitSum == MessagesInit => SumInv
BY DEF MessagesInit, SumInv, CompleteAddsUp

\* A step that receives nothing.
LEMMA SumKept ==
    ASSUME SumInv,
           UNCHANGED << messageLength, receivedChecksum, checksum, flagReceptions,
                        destination, fresh, result, row >>
    PROVE  SumInv'
<1>1. Received' = Received
  BY DEF Received
<1>2. CompleteAddsUp'
  BY <1>1 DEF SumInv, CompleteAddsUp, cks, Value
<1>3. messageLength' # 0 =>
        /\ receivedChecksum' = cks(row'.m, row'.size)
        /\ checksum' = Value(row'.m) + SumOfBytes(Received', row'.size)
  BY <1>1 DEF SumInv
<1> QED
  BY <1>2, <1>3 DEF SumInv, Value, cks, Largest

LEMMA SumHead ==
    ASSUME ReceiverInv, SumInv, reconstructMessage, Head(fifo).k = 0, WellMade(Head(fifo))
    PROVE  SumInv'
<1> DEFINE f == Head(fifo)
<1>1. /\ row' = [m |-> f.m, k |-> 0, size |-> f.size]
      /\ fresh' = {} /\ HeadFrame(f)
  BY DEF reconstructMessage, Refuses
<1>2. f.size \in 1 .. 255 /\ f.size \in Sizes /\ f.m # 0 /\ f.m \in Nat
  BY SizesBound DEF WellMade, ReceiverInv, FramesInv
<1> HIDE DEF f
<1>3. /\ checksum' = Value(f.m) /\ flagReceptions' = {} /\ messageLength' = f.size
      /\ receivedChecksum' = cks(f.m, f.size) /\ destination' = destination /\ result' = 0
  BY <1>1, <1>2 DEF HeadFrame, Returns
<1>4. SumOfBytes(Received', f.size) = 0
  <2>1. \A i \in 0 .. 254 : Received'[i] = 0
    BY <1>1, ReceivedAt
  <2>2. f.size \in 0 .. 255
    BY <1>2
  <2> HIDE DEF Received
  <2> QED
    BY <2>1, <2>2, SumOfNothing
<1>5. checksum' = Value(f.m) + SumOfBytes(Received', f.size)
  <2>1. Value(f.m) \in Nat
    BY <1>2 DEF Value
  <2> QED
    BY <1>3, <1>4, <2>1
<1>6. row'.m = f.m /\ row'.size = f.size
  BY <1>1
<1>7. CompleteAddsUp'
  BY <1>3 DEF CompleteAddsUp
<1>8. destination' \in [0 .. Largest - 1 -> Nat] /\ fresh' = {} /\ messageLength' \in Nat
  <2>1. f.size \in Nat
    BY <1>2
  <2>2. destination \in [0 .. Largest - 1 -> Nat]
    BY DEF SumInv
  <2> QED
    BY <1>1, <1>3, <2>1, <2>2
<1>9. /\ row'.m # 0 /\ row'.size \in Sizes /\ messageLength' = row'.size
      /\ receivedChecksum' = cks(row'.m, row'.size)
      /\ checksum' = Value(row'.m) + SumOfBytes(Received', row'.size)
  BY <1>2, <1>3, <1>5, <1>6
<1> QED
  BY <1>1, <1>3, <1>7, <1>8, <1>9 DEF SumInv, cks, Value, Largest

\* A slice that is refused leaves everything but the result.
LEMMA SumRefused ==
    ASSUME ReceiverInv, SumInv, reconstructMessage, Head(fifo).k # 0, Refuses(Head(fifo)) # 0
    PROVE  SumInv'
<1> DEFINE f == Head(fifo)
<1>1. /\ UNCHANGED << messageLength, receivedChecksum, checksum, flagReceptions, destination, fresh >>
      /\ result' = Refuses(f) /\ \E k : row' = [row EXCEPT !.k = k]
  BY DEF reconstructMessage, Returns, static
<1>2. row'.m = row.m /\ row'.size = row.size
  BY <1>1 DEF ReceiverInv, InRow
<1>3. result' # 1
  BY <1>1 DEF Refuses
<1>4. Received' = Received
  BY <1>1 DEF Received
<1>5. CompleteAddsUp'
  BY <1>3 DEF CompleteAddsUp
<1>6. messageLength' # 0 =>
        /\ receivedChecksum' = cks(row'.m, row'.size)
        /\ checksum' = Value(row'.m) + SumOfBytes(Received', row'.size)
  BY <1>1, <1>2, <1>4 DEF SumInv
<1> QED
  BY <1>1, <1>2, <1>5, <1>6 DEF SumInv, Value, cks, Largest

\* A slice that is taken was not flagged, and lies in the message: its bytes are
\* written where there were none since the head.
LEMMA SliceIsNew ==
    ASSUME ShortMessages, ReceiverInv, SumInv, Head(fifo).k # 0, WellMade(Head(fifo)),
           Refuses(Head(fifo)) = 0
    PROVE  /\ messageLength # 0
           /\ Head(fifo).k \in 1 .. Slices(row.size) /\ Head(fifo).k \in 1 .. 16
           /\ Head(fifo).dlc \in 1 .. 8
           /\ 8 * (Head(fifo).k - 1) + Head(fifo).dlc <= row.size
           /\ row.size \in 1 .. 255 /\ row.size <= Largest
           /\ PlacesOf(Head(fifo)) \cap fresh = {}
<1> DEFINE f == Head(fifo)
<1>1. /\ f.size \in 1 .. 255 /\ f.k \in 1 .. Slices(f.size) /\ Slices(f.size) \in Nat
      /\ 8 * (Slices(f.size) - 1) < f.size /\ f.size <= 8 * Slices(f.size)
      /\ f.dlc = IF 8 * f.k <= f.size THEN 8 ELSE f.size - 8 * (f.k - 1)
  BY SizesBound, SlicesOf DEF WellMade
<1>2. /\ ~(f.k > Slices(messageLength))
      /\ ~((f.k - 1) * 8 + f.dlc > messageLength)
      /\ f.k \notin flagReceptions
  BY DEF Refuses
<1> HIDE DEF f
<1>3. f.dlc \in 1 .. 8 /\ f.k \in Nat /\ f.k >= 1
  BY <1>1
<1>4. messageLength # 0
  <2>1. Slices(0) = 0
    BY DEF Slices
  <2> QED
    BY <1>2, <1>3, <2>1
<1>5. row.size \in Sizes /\ messageLength = row.size /\ flagReceptions \subseteq 1 .. 16
  BY <1>4 DEF SumInv
<1>6. /\ row.size \in 1 .. 255 /\ row.size <= Largest
      /\ Slices(row.size) \in 1 .. 16
  BY <1>5, SizesBound, LargestIs, AllHaveBits
<1>7. f.k \in 1 .. Slices(row.size) /\ f.k \in 1 .. 16
  BY <1>2, <1>3, <1>5, <1>6
<1>8. 8 * (f.k - 1) + f.dlc <= row.size
  <2>1. ~((f.k - 1) * 8 + f.dlc > row.size)
    BY <1>2, <1>5
  <2>2. f.k \in Nat /\ f.dlc \in Nat /\ row.size \in Nat
    BY <1>3, <1>6
  <2> QED
    BY <2>1, <2>2
<1>9. ASSUME NEW i \in PlacesOf(f), i \in fresh
      PROVE  FALSE
  <2>1. PICK k \in flagReceptions : i \in 8 * (k - 1) .. 8 * (k - 1) + 7
    BY <1>4, <1>9 DEF SumInv
  <2>2. k \in 1 .. 16 /\ i \in 8 * (f.k - 1) .. 8 * (f.k - 1) + f.dlc - 1
    BY <1>5, <2>1 DEF PlacesOf
  <2>3. k = f.k
    BY <1>3, <2>1, <2>2
  <2> QED
    BY <1>2, <2>1, <2>3
<1> QED
  BY <1>3, <1>4, <1>6, <1>7, <1>8, <1>9 DEF f

LEMMA SumSlice ==
    ASSUME ShortMessages, ReceiverInv, SumInv, reconstructMessage, Head(fifo).k # 0,
           WellMade(Head(fifo)), Refuses(Head(fifo)) = 0
    PROVE  SumInv'
<1> DEFINE f == Head(fifo)
           v == Value(f.m)
           start == 8 * (f.k - 1)
           sum == checksum + f.dlc * v
           flags == flagReceptions \cup Bits16({ f.k })
<1>1. /\ messageLength # 0
      /\ f.k \in 1 .. Slices(row.size) /\ f.k \in 1 .. 16 /\ f.dlc \in 1 .. 8
      /\ start + f.dlc <= row.size /\ row.size \in 1 .. 255 /\ row.size <= Largest
      /\ PlacesOf(f) \cap fresh = {}
  BY SliceIsNew
<1>2. /\ row.size \in Sizes /\ messageLength = row.size /\ row.m # 0
      /\ receivedChecksum = cks(row.m, row.size)
      /\ checksum = Value(row.m) + SumOfBytes(Received, row.size)
      /\ flagReceptions \subseteq 1 .. 16 /\ fresh \subseteq (0 .. 254) \cap (0 .. Largest - 1)
      /\ \A i \in fresh : \E k \in flagReceptions : i \in 8 * (k - 1) .. 8 * (k - 1) + 7
      /\ \A k \in flagReceptions : 8 * (k - 1) \in fresh
      /\ destination \in [0 .. Largest - 1 -> Nat]
  BY <1>1 DEF SumInv
<1>3. /\ fresh' = fresh \cup PlacesOf(f) /\ SliceFrame(f)
      /\ \E k : row' = [row EXCEPT !.k = k]
  BY DEF reconstructMessage
<1>4. row'.m = row.m /\ row'.size = row.size
  BY <1>3 DEF ReceiverInv, InRow
<1>5. /\ destination' = [i \in 0 .. Largest - 1 |-> IF i \in PlacesOf(f) THEN f.m ELSE destination[i]]
      /\ checksum' = sum /\ receivedChecksum' = receivedChecksum
      /\ IF Bits16(1 .. Slices(messageLength)) \subseteq flags
         THEN messageLength' = 0 /\ flagReceptions' = {} /\ result' = Verdict(sum)
         ELSE flagReceptions' = flags /\ messageLength' = messageLength /\ result' = 0
  BY <1>2, <1>3 DEF SliceFrame, Returns
<1>6. f.m \in Nat /\ v \in Nat /\ Value(row.m) \in Nat
  <2>1. f.m \in Nat
    BY DEF WellMade, ReceiverInv, FramesInv
  <2>2. row.m \in Nat
    BY DEF ReceiverInv, InRow
  <2> QED
    BY <2>1, <2>2 DEF Value
<1>7. PlacesOf(f) = start .. start + f.dlc - 1
  BY DEF PlacesOf
<1>8. flags = flagReceptions \cup { f.k } /\ Bits16(1 .. Slices(messageLength)) = 1 .. Slices(row.size)
  <2>1. Bits16({ f.k }) = { f.k }
    BY <1>1 DEF Bits16
  <2> QED
    BY <1>2, <2>1, AllHaveBits
<1> HIDE DEF f, v, start, flags, sum
<1>9. start \in Nat /\ start = 8 * (f.k - 1) /\ f.k \in Nat /\ f.dlc \in 1 .. 8
  <2>1. f.k \in 1 .. 16 /\ f.dlc \in 1 .. 8
    BY <1>1
  <2> QED
    BY <2>1 DEF start
<1>10. start \in PlacesOf(f) /\ PlacesOf(f) \subseteq 0 .. 254 /\ PlacesOf(f) \subseteq 0 .. Largest - 1
       /\ PlacesOf(f) \subseteq start .. start + 7
  <2>1. Largest \in Sizes
    BY <1>2, LargestIs
  <2>2. Largest \in Nat
    BY <2>1, SizesBound
  <2>3. start + f.dlc <= row.size /\ row.size \in 1 .. 255 /\ row.size <= Largest
    BY <1>1
  <2> DEFINE n == row.size
             d == f.dlc
  <2>4. d \in 1 .. 8 /\ start \in Nat /\ start + d <= n /\ n \in 1 .. 255 /\ n <= Largest
    BY <1>9, <2>3
  <2> HIDE DEF n, d
  <2>5. /\ start \in start .. start + d - 1 /\ start .. start + d - 1 \subseteq 0 .. 254
        /\ start .. start + d - 1 \subseteq 0 .. Largest - 1
        /\ start .. start + d - 1 \subseteq start .. start + 7
    BY <2>2, <2>4
  <2> QED
    BY <1>7, <2>5 DEF d
<1>11. SumOfBytes(Received', row.size) = SumOfBytes(Received, row.size) + f.dlc * v
  <2>1. IsBytes(Received)
    <3>1. \A i \in fresh : Value(destination[i]) \in Nat
      BY <1>2 DEF Value
    <3> QED
      BY <3>1 DEF IsBytes, Received
  <2>2. Patched(Received', Received, v, start, f.dlc)
    <3> SUFFICES ASSUME NEW i \in 0 .. 254
                 PROVE  IF i \in start .. start + f.dlc - 1
                        THEN Received'[i] = v /\ Received[i] = 0 ELSE Received'[i] = Received[i]
      BY DEF Patched
    <3>1. CASE i \in PlacesOf(f)
      <4>1. i \in fresh' /\ i \notin fresh /\ i \in 0 .. Largest - 1
        BY <1>1, <1>3, <1>10, <3>1
      <4>2. destination'[i] = f.m
        BY <1>5, <3>1, <4>1
      <4> QED
        BY <1>7, <3>1, <4>1, <4>2, ReceivedAt DEF v
    <3>2. CASE i \notin PlacesOf(f)
      <4>1. i \in fresh' <=> i \in fresh
        BY <1>3, <3>2
      <4>2. i \in 0 .. Largest - 1 => destination'[i] = destination[i]
        BY <1>5, <3>2
      <4>3. i \in fresh => i \in 0 .. Largest - 1
        BY <1>2
      <4>4. Received'[i] = Received[i]
        BY <4>1, <4>2, <4>3, ReceivedAt
      <4> QED
        BY <1>7, <3>2, <4>4
    <3> QED
      BY <3>1, <3>2
  <2>3. start \in Nat /\ f.dlc \in Nat /\ row.size \in 1 .. 255 /\ start + f.dlc <= row.size
    BY <1>1, <1>9
  <2> DEFINE b == Received
             c == Received'
             n == row.size
             d == f.dlc
  <2>4. /\ IsBytes(b) /\ Patched(c, b, v, start, d) /\ v \in Nat
        /\ start \in Nat /\ d \in Nat /\ n \in Nat /\ n # 0 /\ n <= 255 /\ start + d <= n
    BY <1>6, <2>1, <2>2, <2>3
  <2> HIDE DEF b, c, n, d
  <2>5. SumOfBytes(c, n) = SumOfBytes(b, n) + d * v
    BY <2>4, SumWithMore
  <2> QED
    BY <2>5 DEF b, c, n, d
<1>12. sum = Value(row.m) + SumOfBytes(Received', row.size)
  <2> DEFINE before == SumOfBytes(Received, row.size)
             after == SumOfBytes(Received', row.size)
             byte == f.dlc * v
  <2>1. before \in Nat
    <3>1. IsBytes(Received)
      <4>1. \A i \in fresh : Value(destination[i]) \in Nat
        BY <1>2 DEF Value
      <4> QED
        BY <4>1 DEF IsBytes, Received
    <3> QED
      BY <1>1, <3>1, SumIsNat
  <2>2. byte \in Nat
    <3>1. f.dlc \in Nat
      BY <1>9
    <3> QED
      BY <1>6, <3>1
  <2>3. checksum = Value(row.m) + before /\ after = before + byte /\ sum = checksum + byte
    BY <1>2, <1>11 DEF sum
  <2> HIDE DEF before, after, byte
  <2>4. sum = Value(row.m) + after
    BY <1>6, <2>1, <2>2, <2>3
  <2> QED
    BY <2>4 DEF after
<1>13. /\ flags \subseteq 1 .. 16
       /\ \A i \in fresh' : \E k \in flags : i \in 8 * (k - 1) .. 8 * (k - 1) + 7
       /\ \A k \in flags : 8 * (k - 1) \in fresh'
  <2>1. \A i \in PlacesOf(f) : i \in 8 * (f.k - 1) .. 8 * (f.k - 1) + 7
    BY <1>9, <1>10
  <2>2. f.k \in flags
    BY <1>8
  <2>3. flags \subseteq 1 .. 16
    <3>1. f.k \in 1 .. 16 /\ flagReceptions \subseteq 1 .. 16
      BY <1>1, <1>2
    <3> QED
      BY <1>8, <3>1
  <2>4. ASSUME NEW i \in fresh' PROVE \E k \in flags : i \in 8 * (k - 1) .. 8 * (k - 1) + 7
    <3>1. CASE i \in fresh
      BY <1>2, <1>8, <3>1
    <3>2. CASE i \notin fresh
      BY <1>3, <2>1, <2>2, <3>2
    <3> QED
      BY <3>1, <3>2
  <2>5. ASSUME NEW k \in flags PROVE 8 * (k - 1) \in fresh'
    <3>1. CASE k \in flagReceptions
      BY <1>2, <1>3, <3>1
    <3>2. CASE k = f.k
      BY <1>3, <1>9, <1>10, <3>2
    <3> QED
      BY <1>8, <3>1, <3>2
  <2> QED
    BY <2>3, <2>4, <2>5
<1>14. /\ destination' \in [0 .. Largest - 1 -> Nat]
       /\ fresh' \subseteq (0 .. 254) \cap (0 .. Largest - 1)
  BY <1>2, <1>3, <1>5, <1>6, <1>10
<1>15. CASE Bits16(1 .. Slices(messageLength)) \subseteq flags
  <2>1. messageLength' = 0 /\ result' = Verdict(sum)
    BY <1>5, <1>15
  <2>2. \A k \in 1 .. Slices(row'.size) : 8 * (k - 1) \in fresh'
    BY <1>4, <1>8, <1>13, <1>15
  <2>3. result' = 1 => (Value(row'.m) + SumOfBytes(Received', row'.size)) % 256 = cks(row'.m, row'.size)
    BY <1>2, <1>4, <1>12, <2>1 DEF Verdict
  <2>4. CompleteAddsUp'
    BY <2>2, <2>3 DEF CompleteAddsUp, cks, Value, Slices
  <2> QED
    BY <1>14, <2>1, <2>4 DEF SumInv, Largest
<1>16. CASE ~(Bits16(1 .. Slices(messageLength)) \subseteq flags)
  <2>1. messageLength' = row'.size /\ flagReceptions' = flags /\ result' = 0
    BY <1>2, <1>4, <1>5, <1>16
  <2>2. CompleteAddsUp'
    BY <2>1 DEF CompleteAddsUp
  <2>3. /\ row'.m # 0 /\ row'.size \in Sizes
        /\ receivedChecksum' = cks(row'.m, row'.size)
        /\ checksum' = Value(row'.m) + SumOfBytes(Received', row'.size)
    BY <1>2, <1>4, <1>5, <1>12
  <2>4. messageLength' \in Nat
    BY <1>1, <1>4, <2>1
  <2> QED
    BY <1>13, <1>14, <2>1, <2>2, <2>3, <2>4 DEF SumInv, Largest, cks, Value
<1> QED
  BY <1>15, <1>16

LEMMA SumStep ==
    ShortMessages /\ ReceiverInv /\ SumInv /\ [MessagesNext]_messages => SumInv'
<1> SUFFICES ASSUME ShortMessages, ReceiverInv, SumInv, [MessagesNext]_messages PROVE SumInv'
  OBVIOUS
<1>1. CASE reconstructMessage
  <2>1. WellMade(Head(fifo))
    <3>1. fifo \in Seq(FrameType) /\ fifo # << >>
      BY <1>1 DEF reconstructMessage, ReceiverInv, FramesInv
    <3>2. Head(fifo) \in Within(fifo)
      BY <3>1, Ends
    <3> QED
      BY <3>2 DEF ReceiverInv, FramesInv, Travelling
  <2> QED
    BY <1>1, <2>1, SumHead, SumRefused, SumSlice
<1>2. CASE ~reconstructMessage
  <2>1. UNCHANGED << messageLength, receivedChecksum, checksum, flagReceptions,
                     destination, fresh, result, row >>
    BY <1>2 DEF MessagesNext, SenderNext, RelayNext, SendHead, SendSlice, SenderBus, RadioMessage,
                RelayEnqueues, FrameLost, reception, rebuilt, static, messages
  <2> QED
    BY <2>1, SumKept
<1> QED
  BY <1>1, <1>2

\* A message of up to 128 bytes that MESCAN_reconstructMessage calls complete has had
\* each of its slices since its head, and the bytes received since that head, of
\* this message or of others whose frames it took for its own, add up to the
\* checksum in it: neither slices twice nor slices of before the head count.
THEOREM CompletesWhatAddsUp ==
    ASSUME ShortMessages
    PROVE  MessagesSpec => []CompleteAddsUp
<1> DEFINE Inv == ReceiverInv /\ SumInv
<1>1. MessagesInit => Inv
  BY InitReceiver, InitSum
<1>2. Inv /\ [MessagesNext]_messages => Inv'
  BY ReceiverStep, SumStep
<1>3. Inv => CompleteAddsUp
  BY DEF SumInv
<1> QED
  BY <1>1, <1>2, <1>3, PTL DEF MessagesSpec
==============================================================================
