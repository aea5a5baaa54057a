---------------------------- MODULE CanQueueProofs ----------------------------
(***************************************************************************)
(* The send files of the subject's example, of any size and for any number *)
(* of measures: as long as canLinux_transmit has not released the lock of  *)
(* task_send, the frames of one priority go in the order they were         *)
(* accepted in and none is lost, for each file is a circular array whose   *)
(* count says how many frames lie between tete and queue.                  *)
(***************************************************************************)
EXTENDS CanQueue, TLAPS

-----------------------------------------------------------------------------
(* The circular array                                                      *)

Place == 0 .. TailleFIFO - 1

\* How many frames lie from place t up to place q, and the place of the k-th.
Between(t, q) == IF t <= q THEN q - t ELSE q - t + TailleFIFO
Index(t, k) == IF t + k < TailleFIFO THEN t + k ELSE t + k - TailleFIFO

\* A frame put in a file that has room goes behind the others, over none of them.
LEMMA PutBehind ==
    ASSUME NEW t \in Place, NEW q \in Place, Between(t, q) < TailleFIFO - 1
    PROVE  /\ Next_(q) \in Place
           /\ Between(t, Next_(q)) = Between(t, q) + 1
           /\ Index(t, Between(t, q)) = q
           /\ \A k \in 0 .. Between(t, q) - 1 : Index(t, k) # q /\ Index(t, k) \in Place
BY QueueAssumption DEF Place, Between, Index, Next_

\* A frame taken from a file that has one is the first, and the others move up.
LEMMA TakeFirst ==
    ASSUME NEW t \in Place, NEW q \in Place, t # q
    PROVE  /\ Next_(t) \in Place
           /\ Between(t, q) > 0
           /\ Between(Next_(t), q) = Between(t, q) - 1
           /\ Index(t, 0) = t
           /\ \A k \in 0 .. Between(t, q) - 2 : Index(Next_(t), k) = Index(t, k + 1)
BY QueueAssumption DEF Place, Between, Index, Next_

LEMMA BetweenNat ==
    ASSUME NEW t \in Place, NEW q \in Place
    PROVE  Between(t, q) \in Nat /\ (Between(t, q) = 0 <=> t = q)
BY QueueAssumption DEF Place, Between

\* MESCAN_defiler takes from a file that is not empty.
LEMMA HighestFile ==
    ASSUME NEW S, S \subseteq Priority, S # {}
    PROVE  Max(S) \in S
<1>1. \E x \in S : \A y \in S : x >= y
  <2>1. CASE 3 \in S
    BY <2>1 DEF Priority
  <2>2. CASE 3 \notin S /\ 2 \in S
    BY <2>2 DEF Priority
  <2>3. CASE 3 \notin S /\ 2 \notin S /\ 1 \in S
    BY <2>3 DEF Priority
  <2>4. CASE 3 \notin S /\ 2 \notin S /\ 1 \notin S
    <3>1. \A x \in S : x = 0
      BY <2>4 DEF Priority
    <3> QED
      BY <3>1
  <2> QED
    BY <2>1, <2>2, <2>3, <2>4
<1> QED
  BY <1>1 DEF Max

LEMMA SendsFacts ==
    ASSUME NEW t \in DOMAIN Sends
    PROVE  /\ Sends[t][1] \in { Medium, High } /\ Sends[t][1] \in Priority
           /\ Sends[t][2] \in { "loops", "speeds", "closes" }
BY DEF Sends, Medium, High, Priority

-----------------------------------------------------------------------------
(* The inductive invariant                                                 *)

Holding == { "holds", "counts", "writes", "unlocks" }

QueueTypeOK ==
    /\ files \in [Priority -> [value : [Place -> Int \X Int], tete : Place, queue : Place,
                               nb : Int]]
    /\ accepted \in [Priority -> Nat] /\ written \in [Priority -> Nat]
    /\ task \in { "off", "waits" } \cup Holding
    /\ fifo_can_lock \in { "free", "held" }
    /\ resend \in BOOLEAN

\* Nothing is there before canLinux_init_prio.
NotStarted ==
    train = "created" =>
        /\ task = "off" /\ call = NoCall /\ ~resend
        /\ files = [p \in Priority |-> MESCAN_InitFIFO]

\* The lock has one owner: task_send, or the canLinux_transmit under way.
OneOwner ==
    /\ fifo_can_lock = "held" <=> task \in Holding \/ call # NoCall
    /\ ~(task \in Holding /\ call # NoCall)
    /\ call # NoCall =>
        /\ train \in DOMAIN Sends
        /\ call.priority = Sends[train][1]
        /\ call.nb = files[call.priority].nb

\* How many frames were put in the file of priority p, lie in it, and left it.
Calling(p) == IF call # NoCall /\ call.priority = p THEN 1 ELSE 0
Put(p)     == accepted[p] + Calling(p)
Held(p)    == Between(files[p].tete, files[p].queue)
Taken(p)   == Put(p) - Held(p)

\* The count of a file says what it holds, but while it is being changed.
Lagging(p) == IF task = "counts" /\ count[1] = p THEN 1 ELSE 0
Counted ==
    /\ task = "counts" => count[1] \in Priority /\ count[2] = files[count[1]].nb
    /\ \A p \in Priority : files[p].nb = Held(p) + Lagging(p) - Calling(p)

\* The frames of a file follow those that left it, without a gap.
Ordered ==
    \A p \in Priority : \A k \in 0 .. Held(p) - 1 :
        files[p].value[Index(files[p].tete, k)] = << p, Taken(p) + 1 + k >>

\* What left the files is written, but for the frame task_send has in hand.
InHand == task \in { "counts", "writes" } \/ resend
Sent(p) == IF InHand /\ frameT[1] = p THEN Taken(p) - 1 ELSE Taken(p)
Carried ==
    /\ InHand => frameT[1] \in Priority /\ frameT = << frameT[1], Taken(frameT[1]) >>
    /\ task \in { "counts", "writes" } => ~resend
    /\ \A p \in Priority : written[p] = Sent(p)

Over == train = "ended" => Empty /\ fifo_can_lock = "free"

FilesInv ==
    /\ QueueTypeOK /\ NotStarted /\ OneOwner /\ Counted /\ Ordered /\ Carried /\ Over

QueueInv == ~stolen => FilesInv

LEMMA InitQueue == QueueInit => QueueInv
<1> SUFFICES ASSUME QueueInit PROVE FilesInv
  BY DEF QueueInv
<1> USE DEF QueueInit
<1>1. /\ 0 \in Place /\ Place \subseteq Int
      /\ \A p \in Priority : files[p].tete = 0 /\ files[p].queue = 0 /\ files[p].nb = 0
  BY QueueAssumption DEF Place, MESCAN_InitFIFO
<1>2. QueueTypeOK
  <2>1. MESCAN_InitFIFO \in [value : [Place -> Int \X Int], tete : Place, queue : Place, nb : Int]
    BY <1>1 DEF MESCAN_InitFIFO, Place, NoFrame
  <2> QED
    BY <2>1 DEF QueueTypeOK
<1>3. \A p \in Priority : Held(p) = 0 /\ Calling(p) = 0 /\ Lagging(p) = 0
  BY <1>1 DEF Held, Between, Calling, Lagging
<1>4. NotStarted /\ OneOwner /\ Over
  BY DEF NotStarted, OneOwner, Over, Holding
<1>5. Counted /\ Ordered
  BY <1>1, <1>3 DEF Counted, Ordered
<1>6. Carried
  BY <1>3 DEF Carried, InHand, Sent, Taken, Put
<1> QED
  BY <1>2, <1>4, <1>5, <1>6 DEF FilesInv

-----------------------------------------------------------------------------
(* The steps                                                               *)

\* What a step keeps that moves no frame and is not between two writes to a file.
LEMMA NoFrameMoves ==
    ASSUME QueueTypeOK, Counted, Ordered, Carried,
           UNCHANGED << files, frameT, resend, count, call, accepted, written >>,
           \/ task' = task
           \/ task \notin { "counts", "writes" } /\ task' \notin { "counts", "writes" },
           task' \in { "off", "waits" } \cup Holding, fifo_can_lock' \in { "free", "held" }
    PROVE  QueueTypeOK' /\ Counted' /\ Ordered' /\ Carried'
<1>1. QueueTypeOK'
  BY DEF QueueTypeOK
<1>2. \A p : /\ Held(p)' = Held(p) /\ Calling(p)' = Calling(p) /\ Taken(p)' = Taken(p)
             /\ Lagging(p)' = Lagging(p) /\ Sent(p)' = Sent(p)
  BY DEF Held, Calling, Taken, Put, Lagging, Sent, InHand
<1>3. InHand' <=> InHand
  BY DEF InHand
<1> QED
  BY <1>1, <1>2, <1>3 DEF Counted, Ordered, Carried

\* MESCAN_defiler.
LEMMA TakeStep ==
    ASSUME ~stolen, FilesInv, Take
    PROVE  FilesInv'
<1>0. QueueTypeOK /\ OneOwner /\ Counted /\ Ordered /\ Carried
  BY DEF FilesInv
<1>2. /\ task = "holds" /\ call = NoCall /\ ~resend /\ fifo_can_lock = "held"
      /\ UNCHANGED << train, fifo_can_lock, running, resend, call, left, accepted, written, stolen >>
  BY <1>0 DEF Take, OneOwner, Holding, history
<1>1. PICK p \in Priority :
        /\ files[p].tete # files[p].queue
        /\ IF files[p].nb # 0
           THEN /\ frameT' = files[p].value[files[p].tete]
                /\ files' = [files EXCEPT ![p].tete = Next_(files[p].tete)]
                /\ task' = "counts" /\ count' = << p, files[p].nb >>
           ELSE UNCHANGED << frameT, files, count >> /\ task' = "writes"
  <2> DEFINE S == { q \in Priority : ~MESCAN_isFileVide(files[q]) }
  <2>1. S # {} /\ S \subseteq Priority
    BY DEF Take, Empty
  <2>2. Max(S) \in S
    BY <2>1, HighestFile
  <2> QED
    BY <2>2 DEF MESCAN_isFileVide, Take
<1> DEFINE f == files[p]
<1>3. f \in [value : [Place -> Int \X Int], tete : Place, queue : Place, nb : Int]
  BY <1>0, <1>1 DEF QueueTypeOK
<1>4. f.nb = Held(p) /\ Held(p) > 0
  <2>1. Held(p) > 0
    BY <1>1, <1>3, TakeFirst DEF Held
  <2>2. Held(p) \in Int
    BY <1>3, BetweenNat DEF Held
  <2>3. Lagging(p) = 0 /\ Calling(p) = 0
    BY <1>2 DEF Lagging, Calling
  <2> QED
    BY <1>0, <2>1, <2>2, <2>3 DEF Counted
<1>5. /\ frameT' = f.value[f.tete]
      /\ files' = [files EXCEPT ![p].tete = Next_(f.tete)]
      /\ task' = "counts" /\ count' = << p, f.nb >>
  BY <1>1, <1>4
<1>6. Next_(f.tete) \in Place
  BY <1>1, <1>3, TakeFirst
<1>7. QueueTypeOK'
  BY <1>0, <1>1, <1>2, <1>5, <1>6 DEF QueueTypeOK, Holding
<1>8. /\ files'[p].tete = Next_(f.tete) /\ files'[p].queue = f.queue /\ files'[p].nb = f.nb
      /\ files'[p].value = f.value
      /\ \A q \in Priority : q # p => files'[q] = files[q]
  BY <1>0, <1>1, <1>5 DEF QueueTypeOK
<1>9. /\ Held(p)' = Held(p) - 1
      /\ \A q \in Priority : q # p => Held(q)' = Held(q)
      /\ \A q \in Priority : Held(q) \in Nat /\ Put(q)' = Put(q) /\ Put(q) \in Nat /\ Calling(q)' = 0
      /\ \A q \in Priority : Calling(q) = 0
  <2>1. Held(p)' = Held(p) - 1
    BY <1>1, <1>3, <1>8, TakeFirst DEF Held
  <2>2. \A q \in Priority : q # p => Held(q)' = Held(q)
    BY <1>8 DEF Held
  <2>3. \A q \in Priority : Held(q) \in Nat
    BY <1>0, BetweenNat DEF Held, QueueTypeOK
  <2>4. \A q \in Priority : Calling(q) = 0 /\ Calling(q)' = 0
    BY <1>2 DEF Calling
  <2>5. \A q \in Priority : Put(q) = accepted[q] /\ Put(q)' = accepted'[q] /\ accepted[q] \in Nat
    BY <1>0, <1>2, <2>4 DEF Put, QueueTypeOK
  <2> QED
    BY <1>2, <2>1, <2>2, <2>3, <2>4, <2>5
<1>10. /\ Taken(p)' = Taken(p) + 1 /\ Taken(p) \in Int
       /\ \A q \in Priority : q # p => Taken(q)' = Taken(q)
  BY <1>1, <1>9 DEF Taken
<1>11. Counted'
  <2>1. \A q \in Priority : Lagging(q) = 0 /\ Lagging(q)' = IF q = p THEN 1 ELSE 0
    BY <1>2, <1>5 DEF Lagging
  <2>2. \A q \in Priority : files'[q].nb = files[q].nb
    BY <1>8
  <2>3. \A q \in Priority : files'[q].nb = Held(q)' + Lagging(q)' - Calling(q)'
    BY <1>0, <1>1, <1>9, <2>1, <2>2 DEF Counted
  <2> QED
    BY <1>1, <1>5, <1>8, <2>3 DEF Counted
<1>12. Ordered'
  <2>1. ASSUME NEW k \in 0 .. Held(p)' - 1
        PROVE  files'[p].value[Index(files'[p].tete, k)] = << p, Taken(p)' + 1 + k >>
    <3>1. k + 1 \in 0 .. Held(p) - 1 /\ k \in 0 .. Held(p) - 2
      BY <1>1, <1>9, <2>1
    <3>2. Index(Next_(f.tete), k) = Index(f.tete, k + 1)
      BY <1>1, <1>3, <3>1, TakeFirst DEF Held
    <3>3. f.value[Index(f.tete, k + 1)] = << p, Taken(p) + 1 + (k + 1) >>
      BY <1>0, <1>1, <3>1 DEF Ordered
    <3>4. Taken(p) + 1 + (k + 1) = Taken(p)' + 1 + k
      BY <1>10, <3>1
    <3> QED
      BY <1>8, <3>2, <3>3, <3>4
  <2>2. ASSUME NEW q \in Priority, q # p, NEW k \in 0 .. Held(q)' - 1
        PROVE  files'[q].value[Index(files'[q].tete, k)] = << q, Taken(q)' + 1 + k >>
    BY <1>0, <1>8, <1>9, <1>10, <2>2 DEF Ordered
  <2> QED
    BY <2>1, <2>2 DEF Ordered
<1>13. Carried'
  <2>1. frameT' = << p, Taken(p)' >>
    <3>1. Index(f.tete, 0) = f.tete /\ 0 \in 0 .. Held(p) - 1
      BY <1>1, <1>3, <1>4, TakeFirst
    <3>2. f.value[f.tete] = << p, Taken(p) + 1 + 0 >>
      BY <1>0, <1>1, <3>1 DEF Ordered
    <3> QED
      BY <1>5, <1>10, <3>2
  <2>2. ~InHand /\ InHand'
    BY <1>2, <1>5 DEF InHand
  <2>3. \A q \in Priority : written[q] = Taken(q)
    BY <1>0, <2>2 DEF Carried, Sent
  <2>4. \A q \in Priority : Sent(q)' = IF q = p THEN Taken(q)' - 1 ELSE Taken(q)'
    BY <2>1, <2>2 DEF Sent
  <2>5. \A q \in Priority : written'[q] = Sent(q)'
    BY <1>2, <1>10, <2>3, <2>4
  <2>6. frameT'[1] = p
    BY <2>1
  <2> QED
    BY <1>1, <1>2, <2>1, <2>5, <2>6 DEF Carried
<1>14. NotStarted' /\ OneOwner' /\ Over'
  <2>1. train # "created" /\ train # "ended"
    BY <1>2 DEF FilesInv, NotStarted, Over
  <2> QED
    BY <1>2, <1>5, <2>1 DEF NotStarted, OneOwner, Over, Holding
<1> QED
  BY <1>7, <1>11, <1>12, <1>13, <1>14 DEF FilesInv

\* MESCAN_defiler writes the count it had read, less one.
LEMMA CountsStep ==
    ASSUME ~stolen, FilesInv, Counts
    PROVE  FilesInv'
<1>0. QueueTypeOK /\ OneOwner /\ Counted /\ Ordered /\ Carried
  BY DEF FilesInv
<1> DEFINE p == count[1]
<1>1. /\ task = "counts" /\ task' = "writes" /\ count[1] \in Priority
      /\ files' = [files EXCEPT ![count[1]].nb = count[2] - 1]
      /\ count[2] = files[count[1]].nb
      /\ UNCHANGED << train, fifo_can_lock, running, frameT, resend, count, call, left,
                      accepted, written, stolen >>
  BY <1>0 DEF Counts, Counted, writing, history
<1>2. /\ \A q \in Priority : files'[q].tete = files[q].tete /\ files'[q].queue = files[q].queue
                              /\ files'[q].value = files[q].value
      /\ \A q \in Priority : files'[q].nb = IF q = count[1] THEN files[q].nb - 1 ELSE files[q].nb
      /\ \A q \in Priority : files[q].nb \in Int
  BY <1>0, <1>1 DEF QueueTypeOK
<1>3. QueueTypeOK'
  <2>1. count[2] - 1 \in Int
    BY <1>1, <1>2
  <2>2. files' \in [Priority -> [value : [Place -> Int \X Int], tete : Place, queue : Place, nb : Int]]
    BY <1>0, <1>1, <2>1 DEF QueueTypeOK
  <2> QED
    BY <1>0, <1>1, <2>2 DEF QueueTypeOK, Holding
<1>4. call = NoCall /\ call' = NoCall
  BY <1>0, <1>1 DEF OneOwner, Holding
<1>5. \A q \in Priority : /\ Held(q)' = Held(q) /\ Calling(q) = 0 /\ Calling(q)' = 0
                          /\ Lagging(q) = IF q = count[1] THEN 1 ELSE 0
                          /\ Lagging(q)' = 0
                          /\ Held(q) \in Nat
  <2>1. \A q \in Priority : Held(q)' = Held(q)
    BY <1>2 DEF Held
  <2>2. \A q \in Priority : Held(q) \in Nat
    BY <1>0, BetweenNat DEF Held, QueueTypeOK
  <2>3. \A q \in Priority : Calling(q) = 0 /\ Calling(q)' = 0
    BY <1>4 DEF Calling
  <2>4. \A q \in Priority : Lagging(q) = (IF q = count[1] THEN 1 ELSE 0) /\ Lagging(q)' = 0
    BY <1>1 DEF Lagging
  <2> QED
    BY <2>1, <2>2, <2>3, <2>4
<1>6. \A q \in Priority : Taken(q)' = Taken(q)
  BY <1>1, <1>5 DEF Taken, Put
<1>7. Counted'
  <2>1. \A q \in Priority : files[q].nb = Held(q) + Lagging(q) - Calling(q)
    BY <1>0 DEF Counted
  <2>2. \A q \in Priority : files'[q].nb = Held(q)' + Lagging(q)' - Calling(q)'
    BY <1>2, <1>5, <2>1
  <2> QED
    BY <1>1, <2>2 DEF Counted
<1>8. Ordered'
  BY <1>0, <1>2, <1>5, <1>6 DEF Ordered
<1>9. Carried'
  <2>1. InHand /\ InHand'
    BY <1>1 DEF InHand
  <2>2. \A q \in Priority : Sent(q)' = Sent(q)
    BY <1>1, <1>6, <2>1 DEF Sent
  <2> QED
    BY <1>0, <1>1, <1>6, <2>1, <2>2 DEF Carried
<1>10. NotStarted' /\ OneOwner' /\ Over'
  <2>1. train # "created" /\ train # "ended"
    BY <1>0, <1>1 DEF FilesInv, NotStarted, Over, OneOwner, Holding
  <2> QED
    BY <1>0, <1>1, <1>4, <2>1 DEF NotStarted, OneOwner, Over, Holding
<1> QED
  BY <1>3, <1>7, <1>8, <1>9, <1>10 DEF FilesInv

\* The socket takes the frame or does not.
LEMMA WriteStep ==
    ASSUME ~stolen, FilesInv, NEW taken \in BOOLEAN, Write(taken)
    PROVE  FilesInv'
<1>0. QueueTypeOK /\ OneOwner /\ Counted /\ Ordered /\ Carried
  BY DEF FilesInv
<1>1. /\ task \in { "writes", "holds" } /\ task' = "unlocks" /\ InHand
      /\ UNCHANGED << train, fifo_can_lock, running, files, frameT, count, call, left,
                      accepted, stolen >>
      /\ resend' = ~taken
      /\ IF taken THEN Transferred ELSE UNCHANGED written
  BY DEF Write, InHand
<1>2. frameT[1] \in Priority /\ frameT = << frameT[1], Taken(frameT[1]) >>
  BY <1>0, <1>1 DEF Carried
<1>3. \A q \in Priority : Held(q) \in Nat /\ Taken(q) \in Int
  <2>1. \A q \in Priority : Held(q) \in Nat
    BY <1>0, BetweenNat DEF Held, QueueTypeOK
  <2>2. \A q \in Priority : Calling(q) \in Int /\ accepted[q] \in Int
    BY <1>0 DEF Calling, QueueTypeOK
  <2>3. \A q \in Priority : Put(q) \in Int
    BY <2>2 DEF Put
  <2> QED
    BY <2>1, <2>3 DEF Taken
<1>4. /\ written[frameT[1]] = Taken(frameT[1]) - 1
      /\ \A q \in Priority : q # frameT[1] => written[q] = Taken(q)
  BY <1>0, <1>1, <1>2 DEF Carried, Sent
<1>5. written[frameT[1]] \in Nat
  BY <1>0, <1>2 DEF QueueTypeOK
<1>6. Taken(frameT[1]) \in Nat \ { 0 }
  BY <1>2, <1>3, <1>4, <1>5
<1>7. frameT # NoFrame
  BY <1>2, <1>6 DEF NoFrame
<1>8. written' = IF taken THEN [written EXCEPT ![frameT[1]] = Taken(frameT[1])] ELSE written
  BY <1>1, <1>2, <1>7 DEF Transferred
<1>9. QueueTypeOK'
  BY <1>0, <1>1, <1>2, <1>6, <1>8 DEF QueueTypeOK, Holding
<1>10. \A q \in Priority : /\ Held(q)' = Held(q) /\ Calling(q)' = Calling(q)
                           /\ Taken(q)' = Taken(q) /\ Lagging(q)' = Lagging(q)
  BY <1>1 DEF Held, Calling, Taken, Put, Lagging
<1>11. Counted' /\ Ordered'
  BY <1>0, <1>1, <1>10 DEF Counted, Ordered
<1>12. Carried'
  <2>1. InHand' <=> ~taken
    BY <1>1 DEF InHand
  <2>2. \A q \in Priority : Sent(q)' = IF ~taken /\ q = frameT[1] THEN Taken(q) - 1 ELSE Taken(q)
    BY <1>1, <1>10, <2>1 DEF Sent
  <2>3. \A q \in Priority : written'[q] = Sent(q)'
    BY <1>0, <1>2, <1>4, <1>8, <2>2 DEF QueueTypeOK
  <2>4. InHand' => frameT'[1] \in Priority /\ frameT' = << frameT'[1], Taken(frameT[1])' >>
    BY <1>1, <1>2, <1>10
  <2> QED
    BY <1>1, <1>10, <2>3, <2>4 DEF Carried
<1>13. NotStarted' /\ OneOwner' /\ Over'
  <2>1. train # "created" /\ train # "ended"
    BY <1>0, <1>1 DEF FilesInv, NotStarted, Over, OneOwner, Holding
  <2> QED
    BY <1>0, <1>1, <2>1 DEF NotStarted, OneOwner, Over, Holding
<1> QED
  BY <1>9, <1>11, <1>12, <1>13 DEF FilesInv

\* MESCAN_enfiler, up to its write to the count.
LEMMA TransmitStep ==
    ASSUME ~stolen, FilesInv, canLinux_transmit
    PROVE  FilesInv'
<1>0. QueueTypeOK /\ OneOwner /\ Counted /\ Ordered /\ Carried
  BY DEF FilesInv
<1> DEFINE p == Sends[train][1]
           f == files[p]
           x == << p, accepted[p] + 1 >>
<1>1. /\ train \in DOMAIN Sends /\ call = NoCall /\ fifo_can_lock = "free" /\ task \notin Holding
      /\ UNCHANGED << task, running, frameT, resend, count, left, accepted, written, stolen >>
  BY <1>0 DEF canLinux_transmit, OneOwner, writing, history
<1>2. /\ p \in { Medium, High } /\ p \in Priority
      /\ Sends[train][2] \in { "loops", "speeds", "closes" }
      /\ train \in { "limits", "status", "speeds", "stops" }
  BY <1>1, SendsFacts DEF Sends
<1>3. task \notin { "counts", "writes" }
  BY <1>1 DEF Holding
<1>4. CASE UNCHANGED << fifo_can_lock, call, files >> /\ train' = Sends[train][2]
  <2>1. QueueTypeOK' /\ Counted' /\ Ordered' /\ Carried'
    BY <1>0, <1>1, <1>3, <1>4, NoFrameMoves DEF QueueTypeOK
  <2>2. NotStarted' /\ OneOwner' /\ Over'
    BY <1>0, <1>1, <1>2, <1>4 DEF NotStarted, OneOwner, Over
  <2> QED
    BY <2>1, <2>2 DEF FilesInv
<1>5. CASE /\ Room(f)
           /\ fifo_can_lock' = "held"
           /\ call' = [priority |-> p, frame |-> x, nb |-> f.nb]
           /\ files' = [files EXCEPT ![p].value[f.queue] = x, ![p].queue = Next_(@)]
           /\ UNCHANGED train
  <2> USE DEF Medium, High
  <2>1. f \in [value : [Place -> Int \X Int], tete : Place, queue : Place, nb : Int]
    BY <1>0, <1>2 DEF QueueTypeOK
  <2>2. call' # NoCall /\ call'.priority = p /\ call'.nb = f.nb
    BY <1>2, <1>5 DEF NoCall
  <2>3. /\ files'[p].tete = f.tete /\ files'[p].queue = Next_(f.queue) /\ files'[p].nb = f.nb
        /\ files'[p].value = [f.value EXCEPT ![f.queue] = x]
        /\ \A q \in Priority : q # p => files'[q] = files[q]
    BY <1>0, <1>2, <1>5 DEF QueueTypeOK
  <2>4. accepted[p] \in Nat /\ x \in Int \X Int
    BY <1>0, <1>2 DEF QueueTypeOK, Priority
  <2>5. /\ \A q \in Priority : Lagging(q) = 0 /\ Calling(q) = 0
        /\ \A q \in Priority : Held(q) \in Nat /\ files[q].nb = Held(q) /\ Taken(q) = accepted[q] - Held(q)
        /\ \A q \in Priority : accepted[q] \in Nat
    <3>1. \A q \in Priority : Held(q) \in Nat
      BY <1>0, BetweenNat DEF Held, QueueTypeOK
    <3>2. \A q \in Priority : Lagging(q) = 0 /\ Calling(q) = 0
      BY <1>1, <1>3 DEF Lagging, Calling
    <3>3. \A q \in Priority : files[q].nb = Held(q)
      BY <1>0, <3>1, <3>2 DEF Counted
    <3>4. \A q \in Priority : accepted[q] \in Nat
      BY <1>0 DEF QueueTypeOK
    <3>5. \A q \in Priority : Put(q) = accepted[q]
      BY <3>2, <3>4 DEF Put
    <3> QED
      BY <3>1, <3>2, <3>3, <3>4, <3>5 DEF Taken
  <2>6. Between(f.tete, f.queue) < TailleFIFO - 1
    BY <1>2, <1>5, <2>5 DEF Room, Held
  <2>7. /\ Next_(f.queue) \in Place
        /\ Between(f.tete, Next_(f.queue)) = Held(p) + 1
        /\ Index(f.tete, Held(p)) = f.queue
        /\ \A k \in 0 .. Held(p) - 1 : Index(f.tete, k) # f.queue /\ Index(f.tete, k) \in Place
    BY <2>1, <2>6, PutBehind DEF Held
  <2>8. files' \in [Priority -> [value : [Place -> Int \X Int], tete : Place, queue : Place, nb : Int]]
    <3> DEFINE v == [f.value EXCEPT ![f.queue] = x]
    <3>1. v \in [Place -> Int \X Int]
      BY <2>1, <2>4
    <3>2. files' = [files EXCEPT ![p] = [f EXCEPT !.value = v, !.queue = Next_(f.queue)]]
      BY <1>5, <1>2, <1>0 DEF QueueTypeOK
    <3> HIDE DEF v
    <3>3. [f EXCEPT !.value = v, !.queue = Next_(f.queue)]
             \in [value : [Place -> Int \X Int], tete : Place, queue : Place, nb : Int]
      BY <2>1, <2>7, <3>1
    <3> HIDE DEF f
    <3> QED
      BY <1>0, <3>2, <3>3 DEF QueueTypeOK
  <2>9. QueueTypeOK'
    BY <1>0, <1>1, <1>5, <2>8 DEF QueueTypeOK
  <2>10. \A q \in Priority : /\ Held(q)' = (IF q = p THEN Held(q) + 1 ELSE Held(q))
                             /\ Calling(q)' = (IF q = p THEN 1 ELSE 0)
                             /\ Lagging(q)' = 0
    <3>1. \A q \in Priority : Calling(q)' = (IF q = p THEN 1 ELSE 0) /\ Lagging(q)' = 0
      BY <1>1, <1>3, <2>2 DEF Calling, Lagging
    <3>2. \A q \in Priority : Held(q)' = (IF q = p THEN Held(q) + 1 ELSE Held(q))
      BY <2>3, <2>7 DEF Held
    <3> QED
      BY <3>1, <3>2
  <2>11. \A q \in Priority : Put(q)' = IF q = p THEN accepted[q] + 1 ELSE accepted[q]
    BY <1>1, <2>5, <2>10 DEF Put
  <2>12. \A q \in Priority : Taken(q)' = Taken(q)
    BY <2>5, <2>10, <2>11 DEF Taken
  <2>13. Counted'
    <3>1. \A q \in Priority : files'[q].nb = files[q].nb
      BY <2>3
    <3>2. \A q \in Priority : files'[q].nb = Held(q)' + Lagging(q)' - Calling(q)'
      BY <2>5, <2>10, <3>1
    <3> QED
      BY <1>1, <1>3, <3>2 DEF Counted
  <2>14. Ordered'
    <3>1. ASSUME NEW k \in 0 .. Held(p)
          PROVE  files'[p].value[Index(f.tete, k)] = << p, Taken(p) + 1 + k >>
      <4>1. CASE k = Held(p)
        BY <1>2, <2>1, <2>3, <2>5, <2>7, <4>1
      <4>2. CASE k # Held(p)
        <5>1. k \in 0 .. Held(p) - 1
          BY <1>2, <2>5, <4>2
        <5>2. f.value[Index(f.tete, k)] = << p, Taken(p) + 1 + k >>
          BY <1>0, <1>2, <5>1 DEF Ordered
        <5> QED
          BY <2>1, <2>3, <2>7, <5>1, <5>2
      <4> QED
        BY <4>1, <4>2
    <3>2. ASSUME NEW q \in Priority, NEW k \in 0 .. Held(q)' - 1
          PROVE  files'[q].value[Index(files'[q].tete, k)] = << q, Taken(q)' + 1 + k >>
      <4>1. CASE q = p
        <5>1. k \in 0 .. Held(p) /\ Taken(q)' = Taken(p)
          BY <1>2, <2>5, <2>10, <2>12, <4>1
        <5> QED
          BY <2>3, <3>1, <4>1, <5>1
      <4>2. CASE q # p
        BY <1>0, <2>3, <2>10, <2>12, <4>2 DEF Ordered
      <4> QED
        BY <4>1, <4>2
    <3> QED
      BY <3>2 DEF Ordered
  <2>15. Carried'
    <3>1. InHand' <=> InHand
      BY <1>1 DEF InHand
    <3>2. \A q \in Priority : Sent(q)' = Sent(q)
      BY <1>1, <2>12, <3>1 DEF Sent
    <3> QED
      BY <1>0, <1>1, <2>12, <3>1, <3>2 DEF Carried
  <2>16. NotStarted' /\ Over'
    BY <1>2, <1>5 DEF NotStarted, Over
  <2>17. OneOwner'
    BY <1>1, <1>5, <2>2, <2>3 DEF OneOwner
  <2> QED
    BY <2>9, <2>13, <2>14, <2>15, <2>16, <2>17 DEF FilesInv
<1> QED
  BY <1>4, <1>5 DEF canLinux_transmit

\* MESCAN_enfiler writes the count it had read, plus one.
LEMMA ReturnsStep ==
    ASSUME ~stolen, FilesInv, transmit_Returns
    PROVE  FilesInv'
<1>0. QueueTypeOK /\ OneOwner /\ Counted /\ Ordered /\ Carried
  BY DEF FilesInv
<1> DEFINE p == call.priority
<1>1. /\ call # NoCall /\ train \in DOMAIN Sends /\ p = Sends[train][1]
      /\ call' = NoCall /\ fifo_can_lock' = "free" /\ train' = Sends[train][2]
      /\ files' = [files EXCEPT ![p].nb = files[p].nb + 1]
      /\ accepted' = [accepted EXCEPT ![p] = @ + 1]
      /\ UNCHANGED << task, running, frameT, resend, count, left, written, stolen >>
      /\ task \notin Holding
  BY <1>0 DEF transmit_Returns, OneOwner, writing
<1>2. p \in Priority /\ train' \in { "loops", "speeds", "closes" }
  BY <1>1, SendsFacts
<1> HIDE DEF p
<1>3. /\ \A q \in Priority : files'[q].tete = files[q].tete /\ files'[q].queue = files[q].queue
                              /\ files'[q].value = files[q].value
      /\ \A q \in Priority : files'[q].nb = IF q = p THEN files[q].nb + 1 ELSE files[q].nb
      /\ \A q \in Priority : files[q].nb \in Int
      /\ \A q \in Priority : accepted'[q] = IF q = p THEN accepted[q] + 1 ELSE accepted[q]
  BY <1>0, <1>1, <1>2 DEF QueueTypeOK
<1>4. QueueTypeOK'
  <2>1. files[p].nb + 1 \in Int
    BY <1>2, <1>3
  <2>2. files' \in [Priority -> [value : [Place -> Int \X Int], tete : Place, queue : Place, nb : Int]]
    BY <1>0, <1>1, <2>1 DEF QueueTypeOK
  <2>3. accepted' \in [Priority -> Nat]
    BY <1>0, <1>1, <1>2 DEF QueueTypeOK
  <2> QED
    BY <1>0, <1>1, <2>2, <2>3 DEF QueueTypeOK
<1>5. \A q \in Priority : /\ Held(q)' = Held(q) /\ Held(q) \in Nat
                          /\ Lagging(q) = 0 /\ Lagging(q)' = 0
                          /\ Calling(q) = (IF q = p THEN 1 ELSE 0) /\ Calling(q)' = 0
                          /\ accepted[q] \in Nat
  <2>1. \A q \in Priority : Held(q)' = Held(q)
    BY <1>3 DEF Held
  <2>2. \A q \in Priority : Held(q) \in Nat
    BY <1>0, BetweenNat DEF Held, QueueTypeOK
  <2>3. \A q \in Priority : Lagging(q) = 0 /\ Lagging(q)' = 0
    BY <1>1 DEF Lagging, Holding
  <2>4. \A q \in Priority : Calling(q) = (IF q = p THEN 1 ELSE 0) /\ Calling(q)' = 0
    BY <1>1 DEF Calling, p
  <2> QED
    BY <1>0, <2>1, <2>2, <2>3, <2>4 DEF QueueTypeOK
<1>6. \A q \in Priority : Put(q)' = Put(q)
  BY <1>3, <1>5 DEF Put
<1>7. \A q \in Priority : Taken(q)' = Taken(q)
  BY <1>5, <1>6 DEF Taken
<1>8. Counted'
  <2>1. \A q \in Priority : files[q].nb = Held(q) + Lagging(q) - Calling(q)
    BY <1>0 DEF Counted
  <2>2. \A q \in Priority : files'[q].nb = Held(q)' + Lagging(q)' - Calling(q)'
    BY <1>3, <1>5, <2>1
  <2> QED
    BY <1>1, <2>2 DEF Counted, Holding
<1>9. Ordered'
  BY <1>0, <1>3, <1>5, <1>7 DEF Ordered
<1>10. Carried'
  <2>1. InHand' <=> InHand
    BY <1>1 DEF InHand
  <2>2. \A q \in Priority : Sent(q)' = Sent(q)
    BY <1>1, <1>7, <2>1 DEF Sent
  <2> QED
    BY <1>0, <1>1, <1>7, <2>1, <2>2 DEF Carried
<1>11. NotStarted' /\ OneOwner' /\ Over'
  BY <1>1, <1>2 DEF NotStarted, OneOwner, Over
<1> QED
  BY <1>4, <1>8, <1>9, <1>10, <1>11 DEF FilesInv

\* The steps of both threads that move no frame.
LEMMA LockStep ==
    ASSUME ~stolen, FilesInv, train # "ended",
           \/ task_Lock \/ Pass \/ task_Unlock
           \/ canLinux_init_prio \/ LeavesLoop \/ canLinux_close
           \/ \E turn \in BOOLEAN : TraitementDonnee(turn)
    PROVE  FilesInv'
<1>0. QueueTypeOK /\ OneOwner /\ Counted /\ Ordered /\ Carried /\ NotStarted /\ Over
  BY DEF FilesInv
<1>1. /\ UNCHANGED << files, frameT, resend, count, call, accepted, written >>
      /\ \/ task' = task
         \/ task \notin { "counts", "writes" } /\ task' \notin { "counts", "writes" }
      /\ task' \in { "off", "waits" } \cup Holding /\ fifo_can_lock' \in { "free", "held" }
  BY <1>0
  DEF task_Lock, Pass, task_Unlock, canLinux_init_prio, LeavesLoop, canLinux_close,
      TraitementDonnee, writing, history, QueueTypeOK, Holding, NotStarted, OneOwner
<1>2. QueueTypeOK' /\ Counted' /\ Ordered' /\ Carried'
  BY <1>0, <1>1, NoFrameMoves
<1>3. ASSUME task_Lock \/ Pass \/ task_Unlock PROVE NotStarted' /\ OneOwner' /\ Over'
  BY <1>0, <1>3
  DEF task_Lock, Pass, task_Unlock, writing, history, Holding, NotStarted, OneOwner, Over, Empty
<1>4. ASSUME \/ canLinux_init_prio \/ LeavesLoop \/ canLinux_close
             \/ \E turn \in BOOLEAN : TraitementDonnee(turn)
      PROVE  NotStarted' /\ OneOwner' /\ Over'
  <2>1. train \in DOMAIN Sends => train \in { "limits", "status", "speeds", "stops" }
    BY DEF Sends
  <2>2. /\ fifo_can_lock' = fifo_can_lock /\ UNCHANGED << call, files >>
        /\ train' # "created" /\ (task' \in Holding <=> task \in Holding)
        /\ train \in DOMAIN Sends => train' = train
        /\ train' = "ended" => Empty /\ fifo_can_lock = "free"
    BY <1>0, <1>4, <2>1
    DEF canLinux_init_prio, LeavesLoop, canLinux_close, TraitementDonnee, writing, history,
        Holding, NotStarted, OneOwner
  <2> QED
    BY <1>0, <2>2 DEF NotStarted, OneOwner, Over, Empty
<1> QED
  BY <1>2, <1>3, <1>4 DEF FilesInv

LEMMA QueueStep == QueueInv /\ [QueueNext]_queue => QueueInv'
<1> SUFFICES ASSUME QueueInv, [QueueNext]_queue, ~stolen' PROVE FilesInv'
  BY DEF QueueInv
<1>1. CASE QueueNext
  <2>1. ~stolen /\ ~transmit_Refused
    BY <1>1
    DEF QueueNext, TaskStep, TrainStep, task_Lock, Take, Counts, Pass, task_Unlock,
        canLinux_init_prio, canLinux_transmit, transmit_Returns, transmit_Refused, LeavesLoop,
        canLinux_close, Write, TraitementDonnee, history
  <2>2. FilesInv
    BY <2>1 DEF QueueInv
  <2> QED
    BY <1>1, <2>1, <2>2, TakeStep, CountsStep, WriteStep, TransmitStep, ReturnsStep, LockStep
    DEF QueueNext, TaskStep, TrainStep
<1>2. CASE UNCHANGED queue
  <2>1. FilesInv
    BY <1>2 DEF QueueInv, queue, history
  <2>2. UNCHANGED << train, task, fifo_can_lock, files, frameT, resend, count, call, accepted, written >>
    BY <1>2 DEF queue, history, writing
  <2>3. \A p : /\ Held(p)' = Held(p) /\ Calling(p)' = Calling(p) /\ Taken(p)' = Taken(p)
               /\ Lagging(p)' = Lagging(p) /\ Sent(p)' = Sent(p)
    BY <2>2 DEF Held, Calling, Taken, Put, Lagging, Sent, InHand
  <2>4. (InHand' <=> InHand) /\ (Empty' <=> Empty)
    BY <2>2 DEF InHand, Empty
  <2> QED
    BY <2>1, <2>2, <2>3, <2>4
    DEF FilesInv, QueueTypeOK, NotStarted, OneOwner, Counted, Ordered, Carried, Over
<1> QED
  BY <1>1, <1>2

-----------------------------------------------------------------------------
(* The theorems                                                            *)

\* As long as the lock excludes, each file of MESCAN1_Utilitaire.c holds the
\* frames that were accepted and not taken, oldest first, across the turns of
\* its array, and its count says how many.
THEOREM FilesKeepFrames == QueueSpec => []QueueInv
BY InitQueue, QueueStep, PTL DEF QueueSpec

\* The frames of one priority reach the socket in the order canLinux_transmit
\* accepted them in, each once, whatever the socket refuses.
THEOREM FramesGoInOrder == QueueSpec => InOrder
<1> DEFINE A == \A p \in Priority : \/ stolen'
                                    \/ written'[p] \in { written[p], written[p] + 1 }
<1>1. QueueInv /\ [QueueNext]_queue => [A]_queue
  <2> SUFFICES ASSUME QueueInv, QueueNext, ~stolen', NEW p \in Priority
               PROVE  written'[p] \in { written[p], written[p] + 1 }
    OBVIOUS
  <2>1. CASE UNCHANGED written
    BY <2>1
  <2>2. ASSUME NEW taken \in BOOLEAN, Write(taken)
        PROVE  written'[p] \in { written[p], written[p] + 1 }
    <3>1. ~stolen /\ InHand /\ (UNCHANGED written \/ Transferred)
      BY <2>2 DEF Write, InHand
    <3>2. /\ frameT[1] \in Priority /\ frameT = << frameT[1], Taken(frameT[1]) >>
          /\ written[frameT[1]] = Taken(frameT[1]) - 1
          /\ written \in [Priority -> Nat]
      BY <3>1 DEF QueueInv, FilesInv, Carried, Sent, QueueTypeOK
    <3>3. Taken(frameT[1]) \in Int
      <4>1. Held(frameT[1]) \in Nat
        BY <3>1, <3>2, BetweenNat DEF Held, QueueInv, FilesInv, QueueTypeOK
      <4>2. Calling(frameT[1]) \in Int /\ accepted[frameT[1]] \in Int
        BY <3>1, <3>2 DEF Calling, QueueInv, FilesInv, QueueTypeOK
      <4>3. Put(frameT[1]) \in Int
        BY <4>2 DEF Put
      <4> QED
        BY <4>1, <4>3 DEF Taken
    <3>4. frameT[2] = Taken(frameT[1])
      BY <3>2
    <3>5. written[frameT[1]] + 1 = frameT[2]
      BY <3>2, <3>3, <3>4
    <3> QED
      BY <3>1, <3>2, <3>5 DEF Transferred
  <2>3. UNCHANGED written \/ \E taken \in BOOLEAN : Write(taken)
    BY
    DEF QueueNext, TaskStep, TrainStep, task_Lock, Take, Counts, Pass, task_Unlock,
        canLinux_init_prio, canLinux_transmit, transmit_Returns, transmit_Refused, LeavesLoop,
        canLinux_close, TraitementDonnee, history
  <2> QED
    BY <2>1, <2>2, <2>3
<1> QED
  BY <1>1, FilesKeepFrames, PTL DEF QueueSpec, InOrder

\* canLinux_close leaves no accepted frame behind, but for one at most that the
\* socket has refused.
THEOREM NoFrameLost == QueueSpec => []NothingLost
<1>1. QueueInv => NothingLost
  <2> SUFFICES ASSUME QueueInv, train = "ended", ~stolen, NEW p \in Priority
               PROVE  \/ written[p] = accepted[p]
                      \/ resend /\ frameT = << p, accepted[p] >> /\ written[p] = accepted[p] - 1
    BY DEF NothingLost
  <2>1. QueueTypeOK /\ OneOwner /\ Carried /\ Empty /\ fifo_can_lock = "free"
    BY DEF QueueInv, FilesInv, Over
  <2>2. call = NoCall /\ task \notin { "counts", "writes" }
    BY <2>1 DEF OneOwner, Holding
  <2>3. \A q \in Priority : Held(q) = 0 /\ accepted[q] \in Nat
    BY <2>1, BetweenNat DEF Held, QueueTypeOK, Empty, MESCAN_isFileVide
  <2>4. \A q \in Priority : Calling(q) = 0
    BY <2>2 DEF Calling
  <2>5. \A q \in Priority : Put(q) = accepted[q]
    BY <2>3, <2>4 DEF Put
  <2>6. \A q \in Priority : Taken(q) = accepted[q]
    BY <2>3, <2>5 DEF Taken
  <2>7. InHand => resend
    BY <2>2 DEF InHand
  <2> QED
    BY <2>1, <2>6, <2>7 DEF Carried, Sent
<1> QED
  BY <1>1, FilesKeepFrames, PTL
===============================================================================
