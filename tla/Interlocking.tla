----------------------------- MODULE Interlocking -----------------------------
(***************************************************************************)
(* The radio block centre (RBC) of the model railway: the resources of the *)
(* track, the switches they protect and the movement authorities (EOA) it  *)
(* hands out, together with the trains that move inside them.  It models   *)
(* app/RBC/src/{trains,ressources,eoa_calculator,requests_handler}.c and   *)
(* set_all_switch of app/utility/src/can_infra.c.                          *)
(*                                                                         *)
(* Grain of the actions: what a handler does while it holds one of its     *)
(* mutexes.  A 102 request runs through Ask, LockRessources, one SetSwitch *)
(* per CAN command, EndSwitches and NextEoa; a 101 report is one Report,   *)
(* since it keeps pos_trains_locks[t] from beginning to end.               *)
(*                                                                         *)
(* Each train has at most one 102 request in the RBC: eoa_handler waits    *)
(* for the answer before it sends the next one.                            *)
(***************************************************************************)
EXTENDS Integers, Sequences, FiniteSets, FiniteSetsExt

CONSTANTS
    Active,           \* the trains that run; the others stand where init_trains puts them
    chemins,          \* map.c: loop of each train
    StartBalise,      \* trains.c: balise of each train at start-up
    L_res_req, L_res_lib, L_mask_req, L_mask_lib, L_res_size,
                      \* const_chemins.c, the masks as sets of resources
    all_command_aig,  \* can_infra.c: the switch commands of each request
    PosMax,           \* bound: pos_r is one of 0 .. PosMax, 0 being on the balise
    EveryBalise,      \* TRUE: no two consecutive reports are more than a canton apart
    Apart,            \* TRUE: a train never comes up to the very position of another one
    CanMayFail        \* TRUE: send_can_data may return an error

\* NB_TRAINS is 3, and next_eoa computes modulo the literal 3.
Train == 0 .. 2

PosR        == 0 .. PosMax
Balise(t)   == { chemins[t][i] : i \in 1 .. Len(chemins[t]) }
Position(t) == [bal : Balise(t), pos_r : PosR]
Place       == [bal : UNION { Balise(t) : t \in Train }, pos_r : PosR]
NoEoa       == [bal |-> -1, pos_r |-> 0]     \* main.c of the EVC: eoa = {-1, 0.0}
Resource    == UNION { UNION { L_mask_req[t][k] : k \in 1 .. Len(L_mask_req[t]) } :
                         t \in Train }

\* The commands of request k, and every switch some command moves.
Commands(t, k) == all_command_aig[t][k + 1]
Switches == { c.name : c \in UNION { UNION { { Commands(t, k)[i] :
                i \in 1 .. Len(Commands(t, k)) } : k \in 0 .. L_res_size[t] - 1 } :
                t \in Train } }

ASSUME BoundsAssumption ==
    /\ Active \subseteq Train
    /\ PosMax \in Nat
    /\ EveryBalise \in BOOLEAN
    /\ Apart \in BOOLEAN
    /\ CanMayFail \in BOOLEAN

\* A loop visits each of its balises once and starts at one of them.
ASSUME LoopAssumption ==
    \A t \in Train :
        /\ chemins[t] \in Seq(Nat)
        /\ \A i, j \in 1 .. Len(chemins[t]) : chemins[t][i] = chemins[t][j] => i = j
        /\ StartBalise[t] \in Balise(t)

\* Every index modulo L_res_size[t] is inside the tables of t, requests are
\* made at balises of the loop, and there are commands for each of them.
ASSUME TableAssumption ==
    \A t \in Train :
        /\ L_res_size[t] \in Nat \ {0}
        /\ \A k \in 1 .. L_res_size[t] :
             /\ k \in 1 .. Len(L_mask_req[t])
             /\ L_res_req[t][k] \in Balise(t)
             /\ all_command_aig[t][k] \in Seq([name : STRING, dir : {0, 1}])

VARIABLES
    resources,            \* ressources.c: the set of locked resources
    pos_trains,           \* trains.c: the last position each train reported
    next_bal_index_req,   \* trains.c: index of the next request of each train
    next_bal_index_lib,   \* trains.c: index of the next release of each train
    pc,                   \* where the 102 handler of each train is
    cmd,                  \* switch commands sent by set_all_switch so far
    eoa,                  \* the authority each train has received
    aig,                  \* the position of each switch: 1 turn, 0 straight
    held                  \* history: who obtained the locked resources

vars == << resources, pos_trains, next_bal_index_req, next_bal_index_lib,
           pc, cmd, eoa, aig, held >>

-----------------------------------------------------------------------------
(* Positions on a loop                                                     *)

TailleChemin(t) == Len(chemins[t])

\* Balise number i of the loop of t, counted from 0 and modulo its length.
BaliseAt(t, i) == chemins[t][(i % TailleChemin(t)) + 1]

\* Where each balise is on the loop of t.
IndexOf ==
    [t \in Train |-> [b \in Balise(t) |->
        CHOOSE i \in 0 .. TailleChemin(t) - 1 : BaliseAt(t, i) = b]]

\* Number of cantons travelled from balise b to balise c, less than a lap.
Cantons(t, b, c) ==
    (IndexOf[t][c] + TailleChemin(t) - IndexOf[t][b]) % TailleChemin(t)

\* Number of cantons from position p forward to position q: a q behind p in
\* the same canton is a whole lap ahead, as in get_distance.
Ahead(t, p, q) ==
    IF p.bal = q.bal /\ q.pos_r < p.pos_r
    THEN TailleChemin(t)
    ELSE Cantons(t, p.bal, q.bal)

\* The positions d cantons forward of p, on the way to q.
OnTheWay(t, p, q, d) ==
    { [bal |-> BaliseAt(t, IndexOf[t][p.bal] + d), pos_r |-> x] :
        x \in { y \in PosR : /\ d = 0 => y >= p.pos_r
                             /\ d = Ahead(t, p, q) => y <= q.pos_r } }

\* The positions from p forward to q, both included.
Between ==
    [t \in Train |-> [p \in Position(t) |-> [q \in Position(t) |->
        UNION { OnTheWay(t, p, q, d) : d \in 0 .. Ahead(t, p, q) }]]]

\* Where a train may be, given its last report p and its authority e: it does
\* not move without an authority and stops at the end of the one it has.
MayBeAt(t, p, e) == IF e = NoEoa THEN { p } ELSE Between[t][p][e]

-----------------------------------------------------------------------------
(* eoa_calculator.c                                                        *)

\* Mutant of EoaRange: the balise of the next request does not stop the search.
EoaRange_PastRequest(t, own, target) ==
    { p \in Position(t) : p.bal = own.bal => p.pos_r >= own.pos_r }

\* Every authority next_eoa can give a train standing at own, wherever it finds
\* the other trains: in front in its own canton, or on the first balise with an
\* objective, which is never past the balise of the next request.
EoaRange(t, own, target) ==
    IF target = own.bal /\ own.pos_r <= 0
    THEN { [bal |-> target, pos_r |-> 0] }
    ELSE { p \in Position(t) : p.bal = own.bal /\ p.pos_r >= own.pos_r }
         \cup { p \in Position(t) :
                  \E d \in 1 .. TailleChemin(t) :
                    /\ p.bal = BaliseAt(t, IndexOf[t][own.bal] + d)
                    /\ p.bal = target => p.pos_r = 0
                    /\ \A n \in 1 .. d - 1 :
                         BaliseAt(t, IndexOf[t][own.bal] + n) # target }

\* Where next_eoa can find train u: a balise and a pos_r that u reported, be it
\* in two different reports.
FoundAt(u) ==
    IF u \in Active THEN Position(u) ELSE { [bal |-> StartBalise[u], pos_r |-> 0] }

\* What next_eoa stops at: the balise of the next request and the other trains.
Objectifs(t, target) ==
    { [bal |-> target, pos_r |-> 0] } \cup UNION { FoundAt(u) : u \in Train \ {t} }

\* What next_eoa can answer.
Answers ==
    [t \in Train |-> [own \in Position(t) |-> [target \in Balise(t) |->
        EoaRange(t, own, target) \cap Objectifs(t, target)]]]

-----------------------------------------------------------------------------
(* ressources.c                                                            *)

RequestBalise(t) == L_res_req[t][next_bal_index_req[t] + 1]
RequestMask(t)   == L_mask_req[t][next_bal_index_req[t] + 1]
LibMask(t)       == L_mask_lib[t][next_bal_index_lib[t] + 1]

\* ask_resources: train t at p needs the resources of its request k when it is
\* on the balise of that request or on the one just before it.
resource_to_lock(t, p, k) ==
    /\ p.pos_r >= 0
    /\ \E i \in 0 .. TailleChemin(t) - 1 :
         /\ p.bal \in { BaliseAt(t, i + TailleChemin(t) - 1), BaliseAt(t, i) }
         /\ L_res_req[t][k + 1] = BaliseAt(t, i)

\* Mutant of available: one free bit of the mask is enough.
available_AnyBit(t) == RequestMask(t) \ resources # {}

\* lock_ressources: the condition its loop waits for.
available(t) == resources \cap RequestMask(t) = {}

\* Mutants of frees: a train that has just reached the balise does not release;
\* a train releases at the balise before.
frees_Past(t, p, k) == p.bal = L_res_lib[t][k + 1] /\ p.pos_r > 0
frees_Before(t, p, k) ==
    /\ p.bal = BaliseAt(t, IndexOf[t][L_res_lib[t][k + 1]] + TailleChemin(t) - 1)
    /\ p.pos_r >= 0

\* free_resources: train t, now at p, gives back the resources of its release k.
frees(t, p, k) == p.bal = L_res_lib[t][k + 1] /\ p.pos_r >= 0

\* Mutants of NextIndex: no wrap at the end of the table; stuck at its end.
NextIndex_NoWrap(t, k) == k + 1
NextIndex_Stuck(t, k)  == IF k + 1 < L_res_size[t] THEN k + 1 ELSE k

\* The next request, or release, after the one of index k.
NextIndex(t, k) == (k + 1) % L_res_size[t]

-----------------------------------------------------------------------------
Init ==
    /\ resources = {}
    /\ pos_trains = [t \in Train |-> [bal |-> StartBalise[t], pos_r |-> 0]]
    /\ next_bal_index_req = [t \in Train |-> 0]
    /\ next_bal_index_lib = [t \in Train |-> 0]
    /\ pc = [t \in Train |-> "idle"]
    /\ cmd = [t \in Train |-> 0]
    /\ eoa = [t \in Train |-> NoEoa]
    /\ aig \in [Switches -> {0, 1}]
    /\ held = [t \in Train |-> {}]

\* The positions train t can report next.
Reports(t) ==
    { p \in MayBeAt(t, pos_trains[t], eoa[t]) :
        /\ EveryBalise => Ahead(t, pos_trains[t], p) <= 1
        /\ Apart => \A u \in Train \ {t} : p # pos_trains[u] \/ p = pos_trains[t] }

\* handle_request, code 101: the position is stored and the resources whose
\* release balise has been reached are freed, under pos_trains_locks[t], which
\* a handler that sets switches holds from its first command on.
Report(t, p) ==
    /\ pc[t] = "switching" => cmd[t] = 0
    /\ pos_trains' = [pos_trains EXCEPT ![t] = p]
    /\ IF frees(t, p, next_bal_index_lib[t])
       THEN /\ resources' = resources \ LibMask(t)
            /\ held' = [held EXCEPT ![t] = @ \ LibMask(t)]
            /\ next_bal_index_lib' =
                 [next_bal_index_lib EXCEPT ![t] = NextIndex(t, @)]
       ELSE UNCHANGED << resources, held, next_bal_index_lib >>
    /\ UNCHANGED << next_bal_index_req, pc, cmd, eoa, aig >>

\* Code 102 and the first part of ask_resources: whether a resource is needed
\* is decided under pos_trains_locks[t], which is then released.
Ask(t) ==
    /\ pc[t] = "idle"
    /\ pc' = [pc EXCEPT ![t] =
                IF resource_to_lock(t, pos_trains[t], next_bal_index_req[t])
                THEN "locking" ELSE "eoa"]
    /\ UNCHANGED << resources, pos_trains, next_bal_index_req, next_bal_index_lib,
                    cmd, eoa, aig, held >>

\* lock_ressources: the poll that finds every bit of the mask free takes them
\* all; pos_trains_locks[t] is taken again after that.
LockRessources(t) ==
    /\ pc[t] = "locking"
    /\ available(t)
    /\ resources' = resources \cup RequestMask(t)
    /\ held' = [held EXCEPT ![t] = @ \cup RequestMask(t)]
    /\ pc' = [pc EXCEPT ![t] = "switching"]
    /\ cmd' = [cmd EXCEPT ![t] = 0]
    /\ UNCHANGED << pos_trains, next_bal_index_req, next_bal_index_lib, eoa, aig >>

\* set_all_switch: one command, sent under switch_mutex; the handler has taken
\* pos_trains_locks[t] before the first one.
SetSwitch(t) ==
    LET list == Commands(t, next_bal_index_req[t]) IN
    /\ pc[t] = "switching"
    /\ cmd[t] < Len(list)
    /\ LET c == list[cmd[t] + 1] IN aig' = [aig EXCEPT ![c.name] = c.dir]
    /\ cmd' = [cmd EXCEPT ![t] = @ + 1]
    /\ UNCHANGED << resources, pos_trains, next_bal_index_req, next_bal_index_lib,
                    pc, eoa, held >>

\* Mutant of EndSwitches: the last command is left out.
EndSwitches_OneShort(t) ==
    /\ pc[t] = "switching"
    /\ CanMayFail \/ cmd[t] + 1 >= Len(Commands(t, next_bal_index_req[t]))
    /\ next_bal_index_req' = [next_bal_index_req EXCEPT ![t] = NextIndex(t, @)]
    /\ pc' = [pc EXCEPT ![t] = "eoa"]
    /\ cmd' = [cmd EXCEPT ![t] = 0]
    /\ UNCHANGED << resources, pos_trains, next_bal_index_lib, eoa, aig, held >>

\* set_all_switch returns, after the last command or at the first one that
\* fails; ask_resources ignores its result, moves to the next request and
\* releases pos_trains_locks[t].
EndSwitches(t) ==
    /\ pc[t] = "switching"
    /\ CanMayFail \/ cmd[t] = Len(Commands(t, next_bal_index_req[t]))
    /\ next_bal_index_req' = [next_bal_index_req EXCEPT ![t] = NextIndex(t, @)]
    /\ pc' = [pc EXCEPT ![t] = "eoa"]
    /\ cmd' = [cmd EXCEPT ![t] = 0]
    /\ UNCHANGED << resources, pos_trains, next_bal_index_lib, eoa, aig, held >>

\* next_eoa, the 202 answer and its reception by the train.  It reads the
\* positions of the others while their threads store them, field by field and
\* without a common lock: a data race, of which this is every outcome but one
\* (EoaReads, which goes through the reads, and its history variable left).
NextEoa(t) ==
    /\ pc[t] = "eoa"
    /\ \E e \in Answers[t][pos_trains[t]][RequestBalise(t)] : eoa' = [eoa EXCEPT ![t] = e]
    /\ pc' = [pc EXCEPT ![t] = "idle"]
    /\ UNCHANGED << resources, pos_trains, next_bal_index_req, next_bal_index_lib,
                    cmd, aig, held >>

Handler(t) == \/ LockRessources(t)
              \/ SetSwitch(t)
              \/ EndSwitches(t)
              \/ NextEoa(t)

Next == \E t \in Active : \/ \E p \in Reports(t) : Report(t, p)
                          \/ Ask(t)
                          \/ Handler(t)

Spec == Init /\ [][Next]_vars

-----------------------------------------------------------------------------
(* Properties                                                              *)

\* Every variable has the values of its C declaration; the indices stay
\* inside the tables they are used on.
TypeOK ==
    /\ resources \subseteq Resource
    /\ pos_trains \in [Train -> Place]
    /\ next_bal_index_req \in [Train -> Nat]
    /\ next_bal_index_lib \in [Train -> Nat]
    /\ pc \in [Train -> { "idle", "locking", "switching", "eoa" }]
    /\ cmd \in [Train -> Nat]
    /\ eoa \in [Train -> Place \cup { NoEoa }]
    /\ aig \in [Switches -> {0, 1}]
    /\ held \in [Train -> SUBSET Resource]
    /\ \A t \in Train :
         /\ pos_trains[t] \in Position(t)
         /\ eoa[t] \in Position(t) \cup { NoEoa }
         /\ next_bal_index_req[t] < L_res_size[t]
         /\ next_bal_index_lib[t] < L_res_size[t]
         /\ cmd[t] <= Len(Commands(t, next_bal_index_req[t]))

\* The one resource byte tells who may be where: a resource is obtained by one
\* train at a time, every bit that is set belongs to some train, and no release
\* (free_resources clears whatever its table says) takes a resource from a
\* train that still relies on it.
Accounted ==
    /\ resources = UNION { held[t] : t \in Train }
    /\ \A t, u \in Train : t # u => held[t] \cap held[u] = {}

\* Position p of train t is on the part of its loop that resource r protects:
\* past the balise where r is requested and before the one where it is freed.
Inside(t, r, p) ==
    \E k \in 1 .. Len(L_res_req[t]) :
        /\ r \in L_mask_req[t][k]
        /\ p.bal = L_res_req[t][k] => p.pos_r > 0
        /\ \A j \in 1 .. Len(L_res_lib[t]) :
             r \in L_mask_lib[t][j] =>
                Cantons(t, L_res_req[t][k], p.bal)
                    < Cantons(t, L_res_req[t][k], L_res_lib[t][j])

\* The part of its loop where each train needs each resource.
Zone == [t \in Train |-> [r \in Resource |->
            { p \in Position(t) : Inside(t, r, p) }]]

\* Where each train may be told to go: its last report and its authority.
Course == UNION { { t } \X Position(t) \X (Position(t) \cup { NoEoa }) : t \in Train }

\* The resources a train needs on its course.
Needed == [c \in Course |-> { r \in Resource : MayBeAt(c[1], c[2], c[3]) \cap Zone[c[1]][r] # {} }]

\* Train t is, or is authorised to go, where r is needed.
MayEnter(t, r) == r \in Needed[t, pos_trains[t], eoa[t]]

\* A train that is, or is authorised to go, inside the part of the track a
\* resource protects has obtained that resource (ressources.h: a request blocks
\* until the resources are available).
EntersWhatItHolds ==
    \A t \in Active : \A r \in Resource : MayEnter(t, r) => r \in held[t]

\* Two trains are never allowed inside the part of the track the same resource
\* protects, whatever the order of their reports and requests: the loops cross,
\* merge and run in opposite directions there.
ZonesExclusive ==
    \A t, u \in Active : t < u =>
        \A r \in Resource : ~(MayEnter(t, r) /\ MayEnter(u, r))

\* The train of request k is, or may go, past its balise with all its resources.
Runs(t, k) ==
    /\ L_mask_req[t][k] \subseteq held[t]
    /\ \E r \in L_mask_req[t][k] : MayEnter(t, r)

\* While a train runs on the part of the track it has locked, the switches of
\* that part are as its request commanded them: they were moved before the
\* authority was given and no other train moves them.
SwitchesLocked ==
    \A t \in Active : \A k \in 1 .. Len(L_res_req[t]) :
        Runs(t, k) =>
            \A i \in 1 .. Len(Commands(t, k - 1)) :
                LET c == Commands(t, k - 1)[i] IN aig[c.name] = c.dir

\* A resource is given back when its release balise is reached: while train t
\* has r, it is between the balise before the request and the release balise.
ReleasedInTime ==
    \A t \in Active : \A r \in held[t] :
        \E k \in 1 .. Len(L_res_req[t]) :
            /\ r \in L_mask_req[t][k]
            /\ LET before == BaliseAt(t, IndexOf[t][L_res_req[t][k]] + TailleChemin(t) - 1)
               IN  \A j \in 1 .. Len(L_res_lib[t]) :
                     r \in L_mask_lib[t][j] =>
                        Cantons(t, before, pos_trains[t].bal)
                            < Cantons(t, before, L_res_lib[t][j])

\* The parts of the track each train is in or authorised to enter.
inside == [t \in Train |-> Needed[t, pos_trains[t], eoa[t]]]

Sharing == INSTANCE TrackSharing WITH Trains <- Train, Parts <- Resource

\* The tables, indices, masks and authorities of the RBC share out the track as
\* TrackSharing says: what a request locks was free, what next_eoa answers only
\* leads where the train has the resources, and what a report gives back is
\* neither where the train is nor where it is still authorised to go.
SharesTrack == Sharing!Spec
=============================================================================
