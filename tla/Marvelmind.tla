------------------------------ MODULE Marvelmind ------------------------------
(***************************************************************************)
(* The library that reads the indoor positioning system of the subject     *)
(* (doc/subject/Annexes/Marvelmind/src, marvelmind.c) and the program that *)
(* shows how to use it (example.c): the thread that reads datagrams from   *)
(* the serial port, the main loop that prints what is new, and the         *)
(* structure MarvelmindHedge they share under lock_, or without it.  How   *)
(* bytes become datagrams is in MarvelmindParser.                          *)
(***************************************************************************)
EXTENDS Integers, Sequences, FiniteSets, FiniteSetsExt, Functions

CONSTANTS
    MAX_BUFFERED_POSITIONS,
    MAX_STATIONARY_BEACONS,
    Hedgehogs,     \* addresses of mobile beacons, not 0
    Beacons        \* addresses of stationary beacons

ASSUME HedgeAssumption ==
    /\ MAX_BUFFERED_POSITIONS \in Nat \ {0} /\ MAX_STATIONARY_BEACONS \in Nat \ {0}
    /\ 0 \notin Hedgehogs

VARIABLES
    main,              \* where example.c is
    reader,            \* where Marvelmind_Thread_ is
    lock_,             \* the owner of lock_
    positionBuffer,    \* with, as a history, how often each value was printed
    lastValues_next, lastValuesCount_, haveNewValues_,
    beacons,           \* positionsBeacons: the addresses, and updated
    sample,            \* rawIMU, fusionIMU, rawDistances, telemetry or quality: all are
                       \* written and printed alike; two fields stand for theirs
    datagram,          \* what the reader is writing
    seen,              \* the copy main prints from
    scan,              \* printPosition: its index, the addresses done and the one asked
    sem,               \* sem_open has been called
    terminateProgram, terminationRequired

shared == << positionBuffer, lastValues_next, lastValuesCount_, haveNewValues_, beacons, sample >>
ends   == << sem, terminateProgram, terminationRequired >>
hedge  == << main, reader, lock_, shared, datagram, seen, scan, ends >>

Slot == 0 .. MAX_BUFFERED_POSITIONS - 1
Garbage == 0            \* what an address holds before anyone writes it
NoDatagram == << "none" >>
NotScanning == [i |-> 0, addresses |-> {}, asked |-> Garbage]
NothingSeen == [first |-> 0, second |-> 0, updated |-> FALSE]

HedgeInit ==
    /\ main = "created" /\ reader = "off"
    /\ lock_ = "free"
    /\ positionBuffer = [i \in Slot |-> [address |-> Garbage, ready |-> FALSE,
                                         processed |-> FALSE, printed |-> 0]]
    /\ lastValues_next = 0 /\ lastValuesCount_ = 0 /\ haveNewValues_ = FALSE
    /\ beacons = [table |-> << >>, updated |-> FALSE]
    /\ sample = [first |-> 0, second |-> 0, updated |-> FALSE]
    /\ datagram = NoDatagram
    /\ seen = NothingSeen
    /\ scan = NotScanning
    /\ sem = FALSE /\ terminateProgram = FALSE /\ terminationRequired = FALSE

-----------------------------------------------------------------------------
(* Marvelmind_Thread_                                                      *)

\* The serial port is opened, or the thread ends and the program with it.
OpenSerialPort ==
    /\ reader = "opens"
    /\ \/ reader' = "reads" /\ UNCHANGED terminationRequired
       \/ reader' = "done" /\ terminationRequired' = TRUE
    /\ UNCHANGED << main, lock_, shared, datagram, seen, scan, sem, terminateProgram >>

\* A datagram of each kind; waypoints, and beacons of a wrong size, change nothing.
Datagram == ({ "position" } \X Hedgehogs) \cup ({ "sample" } \X { 0, 1 })
            \cup ({ "beacons" } \X { << a, b >> : a, b \in Beacons }) \cup { << "other" >> }

\* A datagram has come: lock_ is taken and the first fields are written.
process_first(d) ==
    /\ reader = "reads" /\ ~terminationRequired
    /\ lock_ = "free"
    /\ lock_' = "reader" /\ reader' = "writes" /\ datagram' = d
    /\ positionBuffer' = IF d[1] = "position"
                         THEN [positionBuffer EXCEPT ![lastValues_next].address = d[2]]
                         ELSE positionBuffer
    /\ sample' = IF d[1] = "sample" THEN [sample EXCEPT !.first = d[2]] ELSE sample
    /\ UNCHANGED << main, lastValues_next, lastValuesCount_, haveNewValues_, beacons, seen,
                    scan, ends >>

\* Mutant of markPositionReady: the buffer counts as new only while it fills.
markPositionReady_Filling ==
    /\ positionBuffer' = [positionBuffer EXCEPT ![lastValues_next] =
                            [@ EXCEPT !.ready = TRUE, !.processed = FALSE, !.printed = 0]]
    /\ lastValues_next' = (lastValues_next + 1) % MAX_BUFFERED_POSITIONS
    /\ lastValuesCount_' = Min({ lastValuesCount_ + 1, MAX_BUFFERED_POSITIONS })
    /\ haveNewValues_' = (haveNewValues_ \/ lastValuesCount_ < MAX_BUFFERED_POSITIONS)

\* The position is in the buffer, over the oldest one.
markPositionReady ==
    /\ positionBuffer' = [positionBuffer EXCEPT ![lastValues_next] =
                            [@ EXCEPT !.ready = TRUE, !.processed = FALSE, !.printed = 0]]
    /\ lastValues_next' = (lastValues_next + 1) % MAX_BUFFERED_POSITIONS
    /\ lastValuesCount_' = Min({ lastValuesCount_ + 1, MAX_BUFFERED_POSITIONS })
    /\ haveNewValues_' = TRUE

\* The place of a beacon: its own, or a new one unless the table is full.
getOrAllocBeacon(table, address) ==
    IF \/ \E i \in 1 .. Len(table) : table[i] = address
       \/ Len(table) >= MAX_STATIONARY_BEACONS - 1
    THEN table ELSE Append(table, address)

process_beacons(list) ==
    LET table == getOrAllocBeacon(getOrAllocBeacon(beacons.table, list[1]), list[2])
    IN  beacons' = [table |-> table,
                    updated |-> beacons.updated \/ Range(list) \cap Range(table) # {}]

\* The rest of the datagram is written and lock_ released.
process_rest ==
    /\ reader = "writes"
    /\ reader' = "calls" /\ lock_' = "free" /\ datagram' = NoDatagram
    /\ IF datagram[1] = "position" THEN markPositionReady
       ELSE UNCHANGED << positionBuffer, lastValues_next, lastValuesCount_, haveNewValues_ >>
    /\ IF datagram[1] = "beacons" THEN process_beacons(datagram[2]) ELSE UNCHANGED beacons
    /\ sample' = IF datagram[1] = "sample"
                 THEN [sample EXCEPT !.second = datagram[2], !.updated = TRUE] ELSE sample
    /\ UNCHANGED << main, seen, scan, ends >>

\* anyInputPacketCallback, which posts the semaphore of example.c: main opens it
\* after it has started this thread, and posting none is a crash.
Callback ==
    /\ reader = "calls"
    /\ reader' = IF sem THEN "reads" ELSE "done"
    /\ main' = IF sem THEN main ELSE "crashed"
    /\ UNCHANGED << lock_, shared, datagram, seen, scan, ends >>

\* The loop tests terminationRequired at least once per second.
ReaderEnds ==
    /\ reader = "reads" /\ terminationRequired
    /\ reader' = "done"
    /\ UNCHANGED << main, lock_, shared, datagram, seen, scan, ends >>

-----------------------------------------------------------------------------
(* main of example.c                                                       *)

\* startMarvelmindHedge: malloc leaves any address in the buffer.
startMarvelmindHedge ==
    /\ main = "created"
    /\ \E a \in Hedgehogs \cup { Garbage } :
         positionBuffer' = [i \in Slot |-> [positionBuffer[i] EXCEPT !.address = a]]
    /\ main' = "started" /\ reader' = "opens"
    /\ UNCHANGED << lock_, lastValues_next, lastValuesCount_, haveNewValues_, beacons, sample,
                    datagram, seen, scan, ends >>

SemOpen ==
    /\ main = "started"
    /\ sem' = TRUE
    /\ main' = "waits"
    /\ UNCHANGED << reader, lock_, shared, datagram, seen, scan, terminateProgram,
                    terminationRequired >>

\* The test of the main loop; sem_timedwait ends by a post or after 2 s.
Wait ==
    /\ main = "waits"
    /\ main' = IF terminateProgram \/ terminationRequired THEN "stops"
               ELSE IF haveNewValues_ THEN "scans" ELSE "beacons"
    /\ UNCHANGED << reader, lock_, shared, datagram, seen, scan, ends >>

\* printPosition reads the address of a slot, without lock_, and asks for the
\* positions of that address if it has not yet.
ScanSlot ==
    /\ main = "scans"
    /\ IF scan.i > MAX_BUFFERED_POSITIONS - 1
       THEN main' = "beacons" /\ scan' = NotScanning
       ELSE LET a == positionBuffer[scan.i].address
            IN  IF a \in scan.addresses
                THEN scan' = [scan EXCEPT !.i = @ + 1] /\ UNCHANGED main
                ELSE /\ scan' = [scan EXCEPT !.addresses = @ \cup { a }, !.asked = a]
                     /\ main' = "averages"
    /\ UNCHANGED << reader, lock_, shared, datagram, seen, ends >>

\* What getPosition averages: positions of one address, the first it finds when
\* it is asked for address 0.
New == { i \in Slot : /\ i < lastValuesCount_
                      /\ positionBuffer[i].ready /\ ~positionBuffer[i].processed }
Found(address) ==
    LET wanted == IF address = 0 /\ New # {} THEN positionBuffer[Min(New)].address ELSE address
    IN  { i \in New : positionBuffer[i].address = wanted }

\* Mutant of Averaged: what has been printed is not marked as processed.
Averaged_Unmarked(i) == [positionBuffer[i] EXCEPT !.printed = Min({ 2, @ + 1 })]
Averaged(i) == [positionBuffer[i] EXCEPT !.processed = TRUE, !.printed = Min({ 2, @ + 1 })]

getPosition ==
    /\ main = "averages"
    /\ lock_ = "free"
    /\ positionBuffer' = [i \in Slot |-> IF i \in Found(scan.asked) THEN Averaged(i)
                                         ELSE positionBuffer[i]]
    /\ main' = "clears"
    /\ UNCHANGED << reader, lock_, lastValues_next, lastValuesCount_, haveNewValues_, beacons,
                    sample, datagram, seen, scan, ends >>

\* haveNewValues_ is cleared without lock_.
ClearNew ==
    /\ main = "clears"
    /\ haveNewValues_' = FALSE
    /\ scan' = [scan EXCEPT !.i = @ + 1]
    /\ main' = "scans"
    /\ UNCHANGED << reader, lock_, positionBuffer, lastValues_next, lastValuesCount_, beacons,
                    sample, datagram, seen, ends >>

\* printStationaryBeacons: a copy under lock_, and updated is cleared without it.
CopyBeacons ==
    /\ main = "beacons"
    /\ lock_ = "free"
    /\ seen' = [seen EXCEPT !.updated = beacons.updated]
    /\ main' = "prints beacons"
    /\ UNCHANGED << reader, lock_, shared, datagram, scan, ends >>

PrintBeacons ==
    /\ main = "prints beacons"
    /\ beacons' = [beacons EXCEPT !.updated = @ /\ ~seen.updated]
    /\ seen' = NothingSeen
    /\ main' = "samples"
    /\ UNCHANGED << reader, lock_, positionBuffer, lastValues_next, lastValuesCount_,
                    haveNewValues_, sample, datagram, scan, ends >>

\* Mutant of CopySample: without lock_.
CopySample_NoLock ==
    /\ main = "samples"
    /\ seen' = sample
    /\ main' = "prints samples"
    /\ UNCHANGED << reader, lock_, shared, datagram, scan, ends >>

\* The same for the others: getRawDistances ... and printRawDistances ...
CopySample ==
    /\ main = "samples"
    /\ lock_ = "free"
    /\ seen' = sample
    /\ main' = "prints samples"
    /\ UNCHANGED << reader, lock_, shared, datagram, scan, ends >>

PrintSample ==
    /\ main = "prints samples"
    /\ sample' = [sample EXCEPT !.updated = @ /\ ~seen.updated]
    /\ seen' = NothingSeen
    /\ main' = "waits"
    /\ UNCHANGED << reader, lock_, positionBuffer, lastValues_next, lastValuesCount_,
                    haveNewValues_, beacons, datagram, scan, ends >>

\* Ctrl-C, once its handler is set.
CtrlHandler ==
    /\ main \notin { "created", "started", "freed", "crashed" }
    /\ ~terminateProgram
    /\ terminateProgram' = TRUE
    /\ UNCHANGED << main, reader, lock_, shared, datagram, seen, scan, sem, terminationRequired >>

\* Mutant of stopMarvelmindHedge: the thread is not told to end.
stopMarvelmindHedge_Untold ==
    /\ main = "stops"
    /\ main' = "joins"
    /\ UNCHANGED << reader, lock_, shared, datagram, seen, scan, ends >>

stopMarvelmindHedge ==
    /\ main = "stops"
    /\ terminationRequired' = TRUE
    /\ main' = "joins"
    /\ UNCHANGED << reader, lock_, shared, datagram, seen, scan, sem, terminateProgram >>

\* pthread_join, and the structure is freed.
destroyMarvelmindHedge ==
    /\ main = "joins" /\ reader = "done"
    /\ main' = "freed"
    /\ UNCHANGED << reader, lock_, shared, datagram, seen, scan, ends >>

-----------------------------------------------------------------------------
ReaderStep == OpenSerialPort \/ process_rest \/ Callback \/ ReaderEnds
MainStep == \/ startMarvelmindHedge \/ SemOpen \/ Wait
            \/ ScanSlot \/ getPosition \/ ClearNew
            \/ CopyBeacons \/ PrintBeacons \/ CopySample \/ PrintSample
            \/ stopMarvelmindHedge \/ destroyMarvelmindHedge

\* A crash ends both threads.
HedgeNext ==
    /\ main # "crashed"
    /\ \/ ReaderStep \/ MainStep \/ CtrlHandler
       \/ \E d \in Datagram : process_first(d)

\* Both threads run; a thread that wants lock_ gets it some
\* time.
HedgeFairness ==
    /\ WF_hedge(main # "crashed" /\ ReaderStep)
    /\ SF_hedge(main # "crashed" /\ MainStep)

HedgeSpec == HedgeInit /\ [][HedgeNext]_hedge /\ HedgeFairness

-----------------------------------------------------------------------------
(* Properties                                                              *)

\* No position is printed twice, whatever positions come, and over which ones,
\* while main goes through the buffer with and without lock_.
PrintedOnce == \A i \in Slot : positionBuffer[i].printed <= 1

\* What main prints is one datagram, not the first half of one and the second
\* half of another.
NotTorn == main = "prints samples" => seen.first = seen.second

\* As long as positions come, positions are printed: clearing haveNewValues_
\* without lock_ may hide one position, not all those that follow.
KeepsPrinting ==
    []<><<process_rest /\ datagram[1] = "position">>_hedge
        => []<><<getPosition /\ Found(scan.asked) # {}>>_hedge

\* After Ctrl-C the program ends.
EndsOnCtrlC == terminateProgram ~> main \in { "freed", "crashed" }
=============================================================================
