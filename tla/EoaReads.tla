------------------------------ MODULE EoaReads ------------------------------
(***************************************************************************)
(* next_eoa of app/RBC/src/eoa_calculator.c at the grain of its reads of   *)
(* pos_trains, and the 101 report of requests_handler.c at the grain of    *)
(* its stores.  next_eoa takes pos_trains_locks of its own train only: the *)
(* reports of the other two are stored between any two of its reads.       *)
(* Interlocking gives any answer of Answers in one step; here the answer   *)
(* comes out of the reads, and each step is one of Interlocking or changes *)
(* none of its variables, until left holds (ReadsAreAnswers).              *)
(*                                                                         *)
(* The other steps are those of Interlocking.  What a report has stored of *)
(* its position so far is InMemory; pos_trains is what the RBC knew when   *)
(* no report was on its way.                                               *)
(***************************************************************************)
EXTENDS Interlocking

VARIABLES
    reader,     \* where next_eoa is for each train, with its local variables
    storing,    \* the position whose balise is stored and not yet its pos_r
    left,       \* history: a train left its canton while its position was copied
    torn        \* history: a train changed canton while its position was read

readsVars == << vars, reader, storing, left, torn >>

\* The local variables of next_eoa: whose position is looked at (k), how many
\* cantons ahead (n), the pos_r found there, and the balise copied so far.
NotReading == [at |-> "none", k |-> 1, n |-> 0, found |-> {}, bal |-> -1]
Reading(t) == reader[t].at # "none"
LookAt(k, n, found) == [at |-> "bal", k |-> k, n |-> n, found |-> found, bal |-> -1]

\* num_balise_check: the balise n cantons ahead of the one of train t.
Further(t, n) == BaliseAt(t, IndexOf[t][pos_trains[t].bal] + n)

\* Mutant of Looked: the same train is looked at twice.
Looked_OneTrain(t) == (t + 1) % 3

\* The train next_eoa looks at, and the balise it looks for.
Looked(t) == (t + reader[t].k) % 3
Canton(t) == Further(t, reader[t].n)

\* pos_trains[u] as another thread reads it.
InMemory(u) ==
    IF storing[u] = NoEoa THEN pos_trains[u]
    ELSE [bal |-> storing[u].bal, pos_r |-> pos_trains[u].pos_r]

\* No thread has pos_trains_locks[t].
Unlocked(t) == /\ ~Reading(t)
               /\ storing[t] = NoEoa
               /\ pc[t] = "switching" => cmd[t] = 0

\* next_eoa has found u on the balise it looks for and has not finished with it.
Reads(t, u) == reader[t].at \in { "pos_r", "copy", "copy_r" } /\ u = Looked(t)

\* That balise is the one of t itself.
Copying(t, u) == Reads(t, u) /\ reader[t].n = 0

\* A report p of train u that takes it out of its canton, or round to it again.
Leaves(u, p) == p.bal # pos_trains[u].bal \/ p.pos_r < pos_trains[u].pos_r

\* Train u reports another canton, and only the balise of it is stored.
HalfStored(u) == storing[u] # NoEoa /\ Leaves(u, storing[u])

\* Where train u says it is: a report counts from its first store when it takes
\* the train to another canton, and from its last one otherwise.
Reported(u) == IF HalfStored(u) THEN storing[u] ELSE pos_trains[u]

-----------------------------------------------------------------------------
(* The report                                                              *)

\* pos_trains[u].bal = bal.  A train whose authority is not on its loop stores
\* nothing any more: get_distance never returns on it (automatique.c).
StoreBal(u, p) ==
    /\ Unlocked(u)
    /\ storing' = [storing EXCEPT ![u] = p]
    /\ left' = (left \/ (Leaves(u, p) /\ \E t \in Train : Copying(t, u)))
    /\ torn' = (torn \/ (Leaves(u, p) /\ \E t \in Train : Reads(t, u)))
    /\ UNCHANGED << vars, reader >>

\* pos_trains[u].pos_r = ..., and free_resources.
StorePosR(u) ==
    /\ storing[u] # NoEoa
    /\ Report(u, storing[u])
    /\ storing' = [storing EXCEPT ![u] = NoEoa]
    /\ left' = (left \/ (Leaves(u, storing[u]) /\ \E t \in Train : Copying(t, u)))
    /\ UNCHANGED << reader, torn >>

-----------------------------------------------------------------------------
(* next_eoa                                                                *)

\* next_eoa returns e, which the train receives.
Give(t, e) ==
    /\ eoa' = [eoa EXCEPT ![t] = e]
    /\ pc' = [pc EXCEPT ![t] = "idle"]
    /\ reader' = [reader EXCEPT ![t] = NotReading]
    /\ UNCHANGED << resources, pos_trains, next_bal_index_req, next_bal_index_lib,
                    cmd, aig, held >>

\* It goes on with its next read.
Continue(t, r) == reader' = [reader EXCEPT ![t] = r] /\ UNCHANGED vars

\* Mutant of Request: the request is met one balise late.
Request_Late(t, n) == IF Further(t, n - 1) = RequestBalise(t) THEN { 0 } ELSE {}

\* objectif_sur_balise[0]: the balise of the next request, n cantons ahead.
Request(t, n) == IF Further(t, n) = RequestBalise(t) THEN { 0 } ELSE {}

\* Mutant of nearest: the comparison of the pos_r is the other way round.
nearest_Last(found) == Max(found)

\* min_pos_r
nearest(found) == Min(found)

\* After one train, the other one on the same balise; after both, the nearest
\* of the pos_r found there, or the next balise.
LookNext(t, found) ==
    LET r == reader[t] IN
    IF r.k = 1 THEN Continue(t, LookAt(2, r.n, found))
    ELSE IF found # {} THEN Give(t, [bal |-> Canton(t), pos_r |-> nearest(found)])
    ELSE Continue(t, LookAt(1, r.n + 1, Request(t, r.n + 1)))

\* pos_trains_locks[t] is taken and the own position copied; on the balise of the
\* next request the answer is there at once.
BeginEoa(t) ==
    LET own == pos_trains[t] IN
    /\ pc[t] = "eoa"
    /\ Unlocked(t)
    /\ IF RequestBalise(t) = own.bal /\ own.pos_r <= 0
       THEN Give(t, [bal |-> RequestBalise(t), pos_r |-> 0])
       ELSE Continue(t, LookAt(1, 0, {}))

\* Is the train looked at on this balise?
ReadBal(t) ==
    LET here == InMemory(Looked(t)).bal = Canton(t) IN
    /\ reader[t].at = "bal"
    /\ torn' = (torn \/ (here /\ HalfStored(Looked(t))))
    /\ IF here THEN Continue(t, [reader[t] EXCEPT !.at = "pos_r"])
       ELSE LookNext(t, reader[t].found)

\* Mutant of ReadPosR: in the own canton a train behind counts too.
ReadPosR_Behind(t) ==
    LET x == InMemory(Looked(t)).pos_r IN
    /\ reader[t].at = "pos_r"
    /\ IF reader[t].n > 0 THEN LookNext(t, reader[t].found \cup { x })
       ELSE Continue(t, [reader[t] EXCEPT !.at = "copy"])

\* In the own canton only a train in front counts, and its whole position is
\* copied; further on, pos_r is.
ReadPosR(t) ==
    LET x == InMemory(Looked(t)).pos_r IN
    /\ reader[t].at = "pos_r"
    /\ IF reader[t].n > 0 THEN LookNext(t, reader[t].found \cup { x })
       ELSE IF x >= pos_trains[t].pos_r THEN Continue(t, [reader[t] EXCEPT !.at = "copy"])
       ELSE LookNext(t, {})

\* next_train_position = pos_trains[...], one field after the other, then return.
CopyBal(t) ==
    /\ reader[t].at = "copy"
    /\ Continue(t, [reader[t] EXCEPT !.at = "copy_r", !.bal = InMemory(Looked(t)).bal])

CopyPosR(t) ==
    /\ reader[t].at = "copy_r"
    /\ Give(t, [bal |-> reader[t].bal, pos_r |-> InMemory(Looked(t)).pos_r])

-----------------------------------------------------------------------------
ReadsInit ==
    /\ Init
    /\ reader = [t \in Train |-> NotReading]
    /\ storing = [t \in Train |-> NoEoa]
    /\ left = FALSE
    /\ torn = FALSE

\* The authority of t is on its loop, where get_distance finds it.
OnLoop(t) == eoa[t] = NoEoa \/ eoa[t].bal \in DOMAIN IndexOf[t]

\* The report thread of t and its EOA thread: both compute with the authority.
Train101(t) == \/ OnLoop(t) /\ \E p \in Reports(t) : StoreBal(t, p)
               \/ StorePosR(t)

Train102(t) ==
    /\ UNCHANGED << reader, storing, left, torn >>
    /\ \/ OnLoop(t) /\ Unlocked(t) /\ Ask(t)
       \/ LockRessources(t)
       \/ storing[t] = NoEoa /\ SetSwitch(t)
       \/ storing[t] = NoEoa /\ EndSwitches(t)

Calculator(t) ==
    /\ UNCHANGED << storing, left >>
    /\ \/ ReadBal(t)
       \/ UNCHANGED torn /\ (BeginEoa(t) \/ ReadPosR(t) \/ CopyBal(t) \/ CopyPosR(t))

ReadsNext == \E t \in Active : Train101(t) \/ Train102(t) \/ Calculator(t)

ReadsSpec == ReadsInit /\ [][ReadsNext]_readsVars

-----------------------------------------------------------------------------
(* Properties                                                              *)

\* A report that is being stored is one its train could make, and its thread has
\* the lock.
StoringOK ==
    \A u \in Train :
        storing[u] # NoEoa => /\ storing[u] \in MayBeAt(u, pos_trains[u], eoa[u])
                              /\ EveryBalise => Ahead(u, pos_trains[u], storing[u]) <= 1
                              /\ pc[u] = "switching" => cmd[u] = 0

\* A train that does not run is where init_trains put it.
StandStill ==
    \A u \in Train \ Active :
        pos_trains[u] = [bal |-> StartBalise[u], pos_r |-> 0] /\ storing[u] = NoEoa

Reader == [at : { "none", "bal", "pos_r", "copy", "copy_r" },
           k : 1 .. 2, n : Nat, found : SUBSET PosR, bal : Int]

\* What next_eoa of train t, with local variables r, knows between two reads: the
\* balise of the next request is not behind it, what it has found are objectives,
\* and a train it found in front is still there.
Knows(t, r) ==
    LET own  == pos_trains[t]
        seen == InMemory((t + r.k) % 3)
    IN  /\ pc[t] = "eoa" /\ storing[t] = NoEoa
        /\ ~(RequestBalise(t) = own.bal /\ own.pos_r <= 0)
        /\ r.n <= TailleChemin(t)
        /\ \A n \in 1 .. r.n - 1 : Further(t, n) # RequestBalise(t)
        /\ IF r.n = 0 THEN r.found = {} ELSE Request(t, r.n) \subseteq r.found
        /\ \A x \in r.found :
             [bal |-> Further(t, r.n), pos_r |-> x] \in Objectifs(t, RequestBalise(t))
        /\ r.at # "bal" => \E p \in FoundAt((t + r.k) % 3) : p.bal = Further(t, r.n)
        /\ r.at \in { "copy", "copy_r" } => r.n = 0 /\ seen.pos_r >= own.pos_r
        /\ r.at # "bal" /\ r.n = 0 => seen.bal = own.bal
        /\ r.at = "copy_r" => r.bal = own.bal

ReadsTypeOK == /\ reader \in [Train -> Reader]
               /\ storing \in [Train -> Place \cup { NoEoa }]
               /\ left \in BOOLEAN
               /\ torn \in BOOLEAN

\* Although next_eoa reads the other positions without their locks, no train is
\* authorised where it does not hold the resource, and each resource is held by
\* one train, as long as no train in the same canton leaves it between the check
\* that it is in front and the copy of its position.
SafeUnlessLeft ==
    left \/ (Accounted /\ \A t \in Active : inside[t] \subseteq held[t])

\* As long as no train has left, every step shares out the track as TrackSharing
\* says: a lock takes what is free, an answer only leads where the train has the
\* resources, and a report gives back what the train does not need any more.
SharesUnlessLeft == [][ left' \/ Sharing!Next ]_<< held, inside >>

\* Each step is one of Interlocking, whose answers are those the reads come to,
\* until a train has left.
ReadsAreAnswers == [][ left' \/ Next ]_vars

\* An authority never runs past where another train is by its last report
\* (next_eoa: "en prenant en compte les autres trains"), also when that train
\* enters the loop from another one after its position was read; until one has
\* changed canton between two reads of it.
AuthorityStopsAtTrains ==
    \A t, u \in Active : t # u =>
        (Reported(u) \in MayBeAt(t, Reported(t), eoa[t])
            => Reported(u) \in { Reported(t), eoa[t] })

StopsUnlessTorn == torn \/ AuthorityStopsAtTrains

\* A new authority never ends before the one the train is already running on,
\* except when another train has come up to exactly the same position: next_eoa
\* then takes it for a train in front.
Prolongs(t) ==
    eoa[t] # NoEoa /\ eoa'[t] # eoa[t]
        => \/ eoa[t] \in MayBeAt(t, pos_trains[t], eoa'[t])
           \/ \E u \in Train \ {t} : Reported(u) = pos_trains[t]

ProlongsUnlessTorn == [][ torn' \/ \A t \in Train : Prolongs(t) ]_readsVars

-----------------------------------------------------------------------------
(* Progress.  The threads run, lock_ressources polls every 50 ms, the      *)
(* train asks again every second near the end of its authority and moves   *)
(* on while it has one.  A poll may come when another train holds the      *)
(* resource, and a handler may find pos_trains_locks[t] taken by the       *)
(* other: strong fairness says that what is free again and again is        *)
(* obtained in the end.                                                    *)

Advances(t) == \E p \in Reports(t) : p # pos_trains[t] /\ OnLoop(t) /\ StoreBal(t, p)

FairReadsSpec ==
    /\ ReadsSpec
    /\ \A t \in Active : /\ SF_readsVars(Advances(t))
                         /\ WF_readsVars(StorePosR(t))
                         /\ SF_readsVars(Train102(t) \/ Calculator(t))

\* A request for resources is served in the end.
RequestsServed == \A t \in Active : pc[t] = "locking" ~> pc[t] # "locking"

\* A train that runs keeps making laps: it always comes back to its first
\* balise and always leaves it again.
KeepsLapping ==
    \A t \in Active : /\ []<>(pos_trains[t].bal = StartBalise[t])
                     /\ []<>(pos_trains[t].bal # StartBalise[t])
=============================================================================
