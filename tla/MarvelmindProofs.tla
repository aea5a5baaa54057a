--------------------------- MODULE MarvelmindProofs ---------------------------
(***************************************************************************)
(* The two threads of the positioning library, for buffers of any size and *)
(* any number of beacons: no position is printed twice though the printing *)
(* loop walks through the buffer without lock_, and no sample is printed   *)
(* half written.                                                           *)
(***************************************************************************)
EXTENDS Marvelmind, TLAPS

-----------------------------------------------------------------------------
(* Positions                                                               *)

Position == [address : Hedgehogs \cup { Garbage }, ready : BOOLEAN, processed : BOOLEAN,
             printed : Nat]

\* What has been printed is processed, until another position is written over it.
Fresh(x) == x.printed <= 1 /\ (x.printed = 1 => x.processed = TRUE)

\* The thread that writes a position has the address of a mobile beacon.
BufferInv ==
    /\ positionBuffer \in [Slot -> Position]
    /\ \A i \in Slot : Fresh(positionBuffer[i])

\* printed, which is counted up to 2, after the first time.
LEMMA CountsOne == Min({ 2, 0 + 1 }) = 1
<1>1. \E x \in { 2, 1 } : \A y \in { 2, 1 } : x <= y
  OBVIOUS
<1>2. Min({ 2, 1 }) \in { 2, 1 } /\ \A y \in { 2, 1 } : Min({ 2, 1 }) <= y
  BY <1>1 DEF Min
<1> QED
  BY <1>2

LEMMA InitBuffer == HedgeInit => BufferInv
BY DEF HedgeInit, BufferInv, Position, Fresh, Garbage

\* markPositionReady writes a new position over the oldest.
LEMMA ReadyStep ==
    ASSUME BufferInv, markPositionReady
    PROVE  BufferInv'
<1>1. positionBuffer' = [positionBuffer EXCEPT ![lastValues_next] =
                           [@ EXCEPT !.ready = TRUE, !.processed = FALSE, !.printed = 0]]
  BY DEF markPositionReady
<1>2. ASSUME NEW i \in Slot
      PROVE  positionBuffer'[i] \in Position /\ Fresh(positionBuffer'[i])
  <2>1. positionBuffer[i] \in Position /\ Fresh(positionBuffer[i])
    BY DEF BufferInv
  <2>2. positionBuffer'[i] \in
          { positionBuffer[i],
            [positionBuffer[i] EXCEPT !.ready = TRUE, !.processed = FALSE, !.printed = 0] }
    BY <1>1 DEF BufferInv
  <2>3. CASE positionBuffer'[i] # positionBuffer[i]
    <3> DEFINE x == positionBuffer[i]
               y == positionBuffer'[i]
    <3>1. y = [x EXCEPT !.ready = TRUE, !.processed = FALSE, !.printed = 0]
      BY <2>2, <2>3
    <3> HIDE DEF x, y
    <3>2. x \in Position
      BY <2>1 DEF x
    <3>3. y \in Position /\ y.printed = 0
      BY <3>1, <3>2 DEF Position
    <3> QED
      BY <3>3 DEF y, Fresh
  <2> QED
    BY <2>1, <2>3
<1>3. positionBuffer' = [i \in Slot |-> positionBuffer'[i]]
  BY <1>1 DEF BufferInv
<1> QED
  BY <1>2, <1>3 DEF BufferInv

\* getPosition averages positions that are not processed, and marks them.
LEMMA AverageStep ==
    ASSUME BufferInv, getPosition
    PROVE  BufferInv'
<1>1. positionBuffer' = [i \in Slot |-> IF i \in Found(scan.asked) THEN Averaged(i)
                                        ELSE positionBuffer[i]]
  BY DEF getPosition
<1>2. ASSUME NEW i \in Slot
      PROVE  positionBuffer'[i] \in Position /\ Fresh(positionBuffer'[i])
  <2>1. positionBuffer[i] \in Position /\ Fresh(positionBuffer[i])
    BY DEF BufferInv
  <2>2. CASE i \in Found(scan.asked)
    <3>1. ~positionBuffer[i].processed
      BY <2>2 DEF Found, New
    <3>2. positionBuffer[i].printed = 0
      BY <2>1, <3>1 DEF Position, Fresh
    <3>3. positionBuffer'[i] = [positionBuffer[i] EXCEPT !.processed = TRUE, !.printed = 1]
      BY <1>1, <2>2, <3>2, CountsOne DEF Averaged
    <3> DEFINE x == positionBuffer[i]
               y == positionBuffer'[i]
    <3> HIDE DEF x, y
    <3>4. x \in Position /\ y = [x EXCEPT !.processed = TRUE, !.printed = 1]
      BY <2>1, <3>3 DEF x, y
    <3>5. y \in Position /\ y.printed = 1 /\ y.processed = TRUE
      BY <3>4 DEF Position
    <3> QED
      BY <3>5 DEF y, Fresh
  <2>3. CASE i \notin Found(scan.asked)
    BY <1>1, <2>1, <2>3
  <2> QED
    BY <2>2, <2>3
<1> QED
  BY <1>1, <1>2 DEF BufferInv

\* A step that writes only addresses.
LEMMA AddressStep ==
    ASSUME BufferInv,
           \/ startMarvelmindHedge
           \/ \E d \in Datagram : process_first(d)
    PROVE  BufferInv'
<1>1. CASE startMarvelmindHedge
  <2>1. PICK a \in Hedgehogs \cup { Garbage } :
          positionBuffer' = [i \in Slot |-> [positionBuffer[i] EXCEPT !.address = a]]
    BY <1>1 DEF startMarvelmindHedge
  <2> QED
    BY <2>1 DEF BufferInv, Position, Fresh
<1>2. ASSUME NEW d \in Datagram, process_first(d)
      PROVE  BufferInv'
  <2>1. CASE d[1] = "position"
    <3>1. d[2] \in Hedgehogs
      BY <2>1 DEF Datagram
    <3>2. positionBuffer' = [positionBuffer EXCEPT ![lastValues_next].address = d[2]]
      BY <1>2, <2>1 DEF process_first
    <3> QED
      BY <3>1, <3>2 DEF BufferInv, Position, Fresh
  <2>2. CASE d[1] # "position"
    <3>1. positionBuffer' = positionBuffer
      BY <1>2, <2>2 DEF process_first
    <3> QED
      BY <3>1 DEF BufferInv
  <2> QED
    BY <2>1, <2>2
<1> QED
  BY <1>1, <1>2

LEMMA BufferStep == BufferInv /\ [HedgeNext]_hedge => BufferInv'
<1> SUFFICES ASSUME BufferInv, [HedgeNext]_hedge PROVE BufferInv'
  OBVIOUS
<1>1. CASE process_rest
  <2>1. markPositionReady \/ positionBuffer' = positionBuffer
    BY <1>1 DEF process_rest
  <2> QED
    BY <2>1, ReadyStep DEF BufferInv
<1>2. CASE positionBuffer' = positionBuffer
  BY <1>2 DEF BufferInv
<1>3. \/ process_rest \/ getPosition \/ startMarvelmindHedge
      \/ \E d \in Datagram : process_first(d)
      \/ positionBuffer' = positionBuffer
  BY DEF HedgeNext, ReaderStep, MainStep, OpenSerialPort, Callback, ReaderEnds, SemOpen, Wait,
         ScanSlot, ClearNew, CopyBeacons, PrintBeacons, CopySample, PrintSample,
         stopMarvelmindHedge, destroyMarvelmindHedge, CtrlHandler, shared, hedge
<1> QED
  BY <1>1, <1>2, <1>3, AverageStep, AddressStep

\* No position is printed twice, whatever addresses come while printPosition of
\* example.c walks through the buffer without lock_: getPosition, which has it,
\* takes only positions it has not marked.
THEOREM NeverPrintedTwice == HedgeSpec => []PrintedOnce
<1>1. BufferInv => PrintedOnce
  BY DEF BufferInv, Fresh, PrintedOnce
<1> QED
  BY InitBuffer, BufferStep, <1>1, PTL DEF HedgeSpec

-----------------------------------------------------------------------------
(* Samples                                                                 *)

\* A sample is whole unless the reader is between its two fields, with lock_.
SampleInv ==
    /\ main = "created" => reader = "off"
    /\ reader = "writes" => lock_ = "reader"
    /\ reader = "writes" /\ datagram[1] = "sample" => sample.first = datagram[2]
    /\ ~(reader = "writes" /\ datagram[1] = "sample") => sample.first = sample.second
    /\ NotTorn
    /\ sample \in [first : { 0, 1 }, second : { 0, 1 }, updated : BOOLEAN]

LEMMA InitSample == HedgeInit => SampleInv
BY DEF HedgeInit, SampleInv, NotTorn

\* The first field of a datagram says which it is.
LEMMA PairFields ==
    ASSUME NEW a, NEW S, NEW d \in { a } \X S
    PROVE  d[1] = a /\ d[2] \in S
OBVIOUS

LEMMA SampleFields ==
    ASSUME NEW d \in Datagram, d[1] = "sample"
    PROVE  d[2] \in { 0, 1 }
<1> DEFINE B == { << a, b >> : a, b \in Beacons }
<1>1. CASE d \in { "position" } \X Hedgehogs
  <2>1. d[1] = "position"
    BY <1>1, PairFields, Zenon
  <2> QED
    BY <2>1
<1>2. CASE d \in { "beacons" } \X B
  <2> HIDE DEF B
  <2>1. d[1] = "beacons"
    BY <1>2, PairFields, Zenon
  <2> QED
    BY <2>1
<1>3. CASE d = << "other" >>
  <2>1. << "other" >>[1] = "other"
    OBVIOUS
  <2>2. d[1] = "other"
    BY <1>3, <2>1, Zenon
  <2> QED
    BY <2>2
<1>4. CASE d \in { "sample" } \X { 0, 1 }
  BY <1>4, PairFields, Zenon
<1> HIDE DEF B
<1>5. Datagram = ({ "position" } \X Hedgehogs) \cup ({ "sample" } \X { 0, 1 })
                 \cup ({ "beacons" } \X B) \cup { << "other" >> }
  BY DEF Datagram, B
<1>6. \A P, S, Q, o : d \in P \cup S \cup Q \cup { o } => d \in P \/ d \in S \/ d \in Q \/ d = o
  OBVIOUS
<1>7. \/ d \in { "position" } \X Hedgehogs
      \/ d \in { "sample" } \X { 0, 1 }
      \/ d \in { "beacons" } \X B
      \/ d = << "other" >>
  BY <1>5, <1>6, Zenon
<1> QED
  BY <1>1, <1>2, <1>3, <1>4, <1>7, Zenon

LEMMA SampleStep == SampleInv /\ [HedgeNext]_hedge => SampleInv'
<1> SUFFICES ASSUME SampleInv, [HedgeNext]_hedge PROVE SampleInv'
  OBVIOUS
<1> USE DEF SampleInv, NotTorn
<1>1. ASSUME NEW d \in Datagram, process_first(d) PROVE SampleInv'
  <2>1. /\ reader # "writes" /\ reader' = "writes" /\ lock_' = "reader" /\ datagram' = d
        /\ UNCHANGED << main, seen >> /\ main # "created"
    BY <1>1 DEF process_first
  <2>2. CASE d[1] = "sample"
    <3>1. d[2] \in { 0, 1 }
      BY <1>1, <2>2, SampleFields
    <3>2. sample' = [sample EXCEPT !.first = d[2]]
      BY <1>1, <2>2 DEF process_first
    <3> QED
      BY <2>1, <2>2, <3>1, <3>2
  <2>3. CASE d[1] # "sample"
    <3>1. sample' = sample
      BY <1>1, <2>3 DEF process_first
    <3> QED
      BY <2>1, <2>3, <3>1
  <2> QED
    BY <2>2, <2>3
<1>2. CASE process_rest
  <2>1. /\ reader = "writes" /\ reader' = "calls" /\ UNCHANGED << main, seen >>
        /\ sample' = IF datagram[1] = "sample"
                     THEN [sample EXCEPT !.second = datagram[2], !.updated = TRUE] ELSE sample
    BY <1>2 DEF process_rest
  <2> QED
    BY <2>1
<1>3. CASE CopySample
  BY <1>3 DEF CopySample, shared
<1>4. CASE PrintSample
  BY <1>4 DEF PrintSample
<1>5. ASSUME \/ OpenSerialPort \/ Callback \/ ReaderEnds \/ startMarvelmindHedge \/ SemOpen
             \/ Wait \/ ScanSlot \/ getPosition \/ ClearNew \/ CopyBeacons \/ PrintBeacons
             \/ stopMarvelmindHedge \/ destroyMarvelmindHedge \/ CtrlHandler \/ UNCHANGED hedge
      PROVE SampleInv'
  <2>1. /\ UNCHANGED << sample, datagram >>
        /\ main' = "created" => main = "created" /\ reader' = reader
        /\ reader' = "writes" <=> reader = "writes"
        /\ reader = "writes" => lock_' = lock_
        /\ main' = "prints samples" => main = "prints samples" /\ seen' = seen
    BY <1>5
    DEF OpenSerialPort, Callback, ReaderEnds, startMarvelmindHedge, SemOpen, Wait, ScanSlot,
        getPosition, ClearNew, CopyBeacons, PrintBeacons, stopMarvelmindHedge,
        destroyMarvelmindHedge, CtrlHandler, shared, hedge
  <2> QED
    BY <2>1
<1> QED
  BY <1>1, <1>2, <1>3, <1>4, <1>5 DEF HedgeNext, ReaderStep, MainStep

\* What example.c prints is one datagram: it copies under lock_, which the reader
\* holds from the first field it writes to the last.
THEOREM NeverHalfWritten == HedgeSpec => []NotTorn
<1>1. SampleInv => NotTorn
  BY DEF SampleInv
<1> QED
  BY InitSample, SampleStep, <1>1, PTL DEF HedgeSpec
===============================================================================
