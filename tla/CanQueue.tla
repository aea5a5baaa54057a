------------------------------- MODULE CanQueue -------------------------------
(***************************************************************************)
(* How a train of the subject's example sends CAN frames                   *)
(* (Code_exemple_avance_train_UniRAIL): canLinux_transmit puts a frame in  *)
(* the file of its priority (MESCAN1_Utilitaire.c), the thread task_send   *)
(* writes the frames to the socket (canLinux.c), and the program           *)
(* avance_train.c sends speeds until its train has gone far enough.        *)
(*                                                                         *)
(* A frame is its priority and its number in that priority.                *)
(***************************************************************************)
EXTENDS Integers, Sequences, FiniteSets, FiniteSetsExt, SequencesExt

CONSTANTS
    TailleFIFO,
    Measures      \* bound: the measures that take the train to DISTANCE_PARCOURS

ASSUME QueueAssumption == TailleFIFO \in Nat \ { 0, 1 } /\ Measures \in Nat

High == 3
Medium == 2
Priority == 0 .. 3

VARIABLES
    train,         \* where avance_train.c is
    task,          \* where task_send is
    fifo_can_lock,
    running,
    files,         \* fileHigh, fileMedium, fileLow and fileNone
    frameT, resend,
    count,         \* the NbTransaction that MESCAN_defiler has read, of which priority
    call,          \* the canLinux_transmit under way: frame and NbTransaction as it was read
    left,          \* measures until the train has gone far enough
    accepted, written,   \* history: frames of each priority that transmit took, and that
                         \* the socket took
    stolen         \* history: transmit has unlocked a lock that task_send held

writing == << frameT, resend, count >>
history == << accepted, written, stolen >>
queue == << train, task, fifo_can_lock, running, files, writing, call, left, history >>

NoFrame == << 0, 0 >>
NoCall == [priority |-> 0, frame |-> NoFrame, nb |-> 0]
MESCAN_InitFIFO == [value |-> [i \in 0 .. TailleFIFO - 1 |-> NoFrame],
                    tete |-> 0, queue |-> 0, nb |-> 0]

QueueInit ==
    /\ train = "created" /\ task = "off"
    /\ fifo_can_lock = "free" /\ running = FALSE
    /\ files = [p \in Priority |-> MESCAN_InitFIFO]
    /\ frameT = NoFrame /\ resend = FALSE /\ count = NoFrame
    /\ call = NoCall
    /\ left = Measures
    /\ accepted = [p \in Priority |-> 0] /\ written = [p \in Priority |-> 0]
    /\ stolen = FALSE

-----------------------------------------------------------------------------
(* The files                                                               *)

MESCAN_isFileVide(f) == f.tete = f.queue
Empty == \A p \in Priority : MESCAN_isFileVide(files[p])

\* Mutant of Room: the condition the comment of MESCAN_enfiler says was replaced.
Room_Ambiguous(f) == f.nb <= TailleFIFO - 1

\* MESCAN_enfiler refuses a frame one place before the array is full.
Room(f) == f.nb < TailleFIFO - 1

Next_(i) == IF i = TailleFIFO - 1 THEN 0 ELSE i + 1

-----------------------------------------------------------------------------
(* task_send                                                               *)

task_Lock ==
    /\ task = "waits" /\ fifo_can_lock = "free"
    /\ fifo_can_lock' = "held" /\ task' = "holds"
    /\ UNCHANGED << train, running, files, writing, call, left, history >>

\* MESCAN_defiler takes the frame and moves tete; the count has been read, not
\* yet written.  If the count is 0 the file is left as it is, and what was sent
\* before is sent again.
Take ==
    /\ task = "holds" /\ ~resend /\ ~Empty
    /\ LET p == Max({ q \in Priority : ~MESCAN_isFileVide(files[q]) })
           f == files[p]
       IN  IF f.nb # 0
           THEN /\ frameT' = f.value[f.tete]
                /\ files' = [files EXCEPT ![p].tete = Next_(f.tete)]
                /\ task' = "counts" /\ count' = << p, f.nb >>
           ELSE UNCHANGED << frameT, files, count >> /\ task' = "writes"
    /\ UNCHANGED << train, fifo_can_lock, running, resend, call, left, history >>

Counts ==
    /\ task = "counts"
    /\ files' = [files EXCEPT ![count[1]].nb = count[2] - 1]
    /\ task' = "writes"
    /\ UNCHANGED << train, fifo_can_lock, running, writing, call, left, history >>

Pass ==
    /\ task = "holds" /\ ~resend /\ Empty
    /\ task' = "unlocks"
    /\ UNCHANGED << train, fifo_can_lock, running, files, writing, call, left, history >>

Transferred == written' = IF frameT = NoFrame THEN written
                          ELSE [written EXCEPT ![frameT[1]] = frameT[2]]

\* Mutant of Write: a frame the socket did not take is given up.
Write_GivesUp(taken) ==
    /\ task = "writes" \/ (task = "holds" /\ resend)
    /\ IF taken THEN Transferred ELSE UNCHANGED written
    /\ UNCHANGED resend
    /\ task' = "unlocks"
    /\ UNCHANGED << train, fifo_can_lock, running, files, frameT, count, call, left, accepted, stolen >>

\* The socket takes the frame, or it is to be written again.
Write(taken) ==
    /\ task = "writes" \/ (task = "holds" /\ resend)
    /\ IF taken THEN Transferred /\ resend' = FALSE
       ELSE UNCHANGED written /\ resend' = TRUE
    /\ task' = "unlocks"
    /\ UNCHANGED << train, fifo_can_lock, running, files, frameT, count, call, left, accepted, stolen >>

task_Unlock ==
    /\ task = "unlocks"
    /\ fifo_can_lock' = "free" /\ task' = "waits"
    /\ UNCHANGED << train, running, files, writing, call, left, history >>

-----------------------------------------------------------------------------
(* avance_train.c                                                          *)

\* canLinux_init_prio, then the limit speed is sent.
canLinux_init_prio ==
    /\ train = "created"
    /\ running' = TRUE /\ task' = "waits"
    /\ files' = [p \in Priority |-> MESCAN_InitFIFO]
    /\ train' = "limits"
    /\ UNCHANGED << fifo_can_lock, writing, call, left, history >>

\* What the program sends at each place, with what priority, and what it does
\* next; it does not look at what canLinux_transmit returns.
Sends == [limits |-> << High, "loops" >>,        \* WriteVitesseLimite
          status |-> << Medium, "speeds" >>,     \* WriteTrameStatusRUNRP1
          speeds |-> << High, "loops" >>,        \* WriteVitesseConsigne
          stops  |-> << High, "closes" >>]       \* WriteVitesseConsigne(0, 1)

\* The lock was free: a file with room gets the frame.
canLinux_transmit ==
    /\ train \in DOMAIN Sends /\ call = NoCall
    /\ fifo_can_lock = "free"
    /\ LET p == Sends[train][1]
       IN  IF running /\ Room(files[p])
           THEN /\ fifo_can_lock' = "held"
                /\ call' = [priority |-> p, frame |-> << p, accepted[p] + 1 >>, nb |-> files[p].nb]
                /\ files' = [files EXCEPT ![p].value[files[p].queue] = << p, accepted[p] + 1 >>,
                                          ![p].queue = Next_(@)]
                /\ UNCHANGED train
           ELSE train' = Sends[train][2] /\ UNCHANGED << fifo_can_lock, call, files >>
    /\ UNCHANGED << task, running, writing, left, history >>

\* The count is written, the lock released, and the caller told so.
transmit_Returns ==
    /\ call # NoCall
    /\ files' = [files EXCEPT ![call.priority].nb = call.nb + 1]
    /\ accepted' = [accepted EXCEPT ![call.priority] = @ + 1]
    /\ fifo_can_lock' = "free" /\ call' = NoCall
    /\ train' = Sends[train][2]
    /\ UNCHANGED << task, running, writing, left, written, stolen >>

\* The lock was not free: nothing is sent, and the lock is released all the same.
transmit_Refused ==
    /\ train \in DOMAIN Sends /\ call = NoCall
    /\ fifo_can_lock = "held"
    /\ fifo_can_lock' = "free" /\ stolen' = TRUE
    /\ train' = Sends[train][2]
    /\ UNCHANGED << task, running, files, writing, call, left, accepted, written >>

\* A measure is received, and perhaps the turn of the status frame with it.
TraitementDonnee(turn) ==
    /\ train = "loops" /\ left > 0
    /\ left' = left - 1
    /\ train' = IF turn THEN "status" ELSE "speeds"
    /\ UNCHANGED << task, fifo_can_lock, running, files, writing, call, history >>

LeavesLoop ==
    /\ train = "loops" /\ left = 0
    /\ train' = "stops"
    /\ UNCHANGED << task, fifo_can_lock, running, files, writing, call, left, history >>

\* Mutant of canLinux_close: the lock is not released while it waits.
canLinux_close_Holds ==
    /\ train = "closes" /\ fifo_can_lock = "free"
    /\ running' = FALSE
    /\ fifo_can_lock' = "held"
    /\ train' = IF Empty THEN "ended" ELSE train
    /\ UNCHANGED << task, files, writing, call, left, history >>

\* canLinux_close, from lock to unlock: the program ends when the four files are
\* empty, whatever task_send still has to write again.
canLinux_close ==
    /\ train = "closes" /\ fifo_can_lock = "free"
    /\ running' = FALSE
    /\ train' = IF Empty THEN "ended" ELSE train
    /\ UNCHANGED << task, fifo_can_lock, files, writing, call, left, history >>

-----------------------------------------------------------------------------
TaskStep == task_Lock \/ Take \/ Counts \/ Pass \/ task_Unlock
TrainStep == \/ canLinux_init_prio \/ canLinux_transmit \/ transmit_Returns \/ transmit_Refused
             \/ LeavesLoop \/ canLinux_close

QueueNext ==
    /\ train # "ended"
    /\ \/ TaskStep \/ TrainStep
       \/ \E taken \in BOOLEAN : Write(taken)
       \/ \E turn \in BOOLEAN : TraitementDonnee(turn)

\* Both threads run, the one that waits for the lock gets it some time, measures
\* come, and the bus takes at last a frame that is written again and again.
QueueFairness ==
    /\ SF_queue(train # "ended" /\ TaskStep)
    /\ SF_queue(train # "ended" /\ Write(TRUE))
    /\ SF_queue(train # "ended"
                /\ (TrainStep \/ \E turn \in BOOLEAN : TraitementDonnee(turn)))

QueueSpec == QueueInit /\ [][QueueNext]_queue /\ QueueFairness

-----------------------------------------------------------------------------
(* Properties: they hold as long as no canLinux_transmit has met task_send  *)
(* with the lock, for the lock excludes nobody from then on.                *)

\* The frames of one priority are written in the order they were accepted in,
\* each one, across the turns of the array and the writes the socket refuses.
InOrder == [][ \A p \in Priority : \/ stolen'
                                   \/ written'[p] \in { written[p], written[p] + 1 } ]_queue

\* When canLinux_close has ended, every frame that was accepted has been written,
\* but for one at most, which task_send had to write again.
NothingLost ==
    train = "ended" /\ ~stolen =>
        \A p \in Priority : \/ written[p] = accepted[p]
                            \/ resend /\ frameT = << p, accepted[p] >> /\ written[p] = accepted[p] - 1

\* canLinux_close ends: the files are emptied while it waits for them.
Closes == train = "closes" ~> (train = "ended" \/ stolen)
=============================================================================
