------------------------------- MODULE OnBoard -------------------------------
(***************************************************************************)
(* The program of one train: the three threads main starts (app/EVC/src),  *)
(* boucle_automatique with its lap counter and its choice of an objective, *)
(* the first report of report_position, and eoa_handler with the distances *)
(* at which it asks for an authority; in front of it the motor and the     *)
(* balises of the track, behind it the RBC.                                *)
(*                                                                         *)
(* The loop is cut into cells of some hundred millimetres.  A train stops  *)
(* for the end of its authority in the cell of that end: SpeedControl says *)
(* by how little it may pass it.  An end so close to the next balise that  *)
(* the train may pass both is left out.                                    *)
(***************************************************************************)
EXTENDS Integers, Sequences

CONSTANTS
    Cantons,     \* the lengths in cells of the cantons of the loop, the first at start_chemins
    Triggers,    \* eoa_handler distance_triggers, in cells
    Laps,        \* the second argument of the program: the laps to make
    ExtraLaps    \* bound: laps beyond the mission that are explored

ASSUME LoopAssumption ==
    /\ Cantons \in Seq(Nat \ {0}) /\ Len(Cantons) > 1
    /\ DOMAIN Triggers = 1 .. 3 /\ \A i \in 1 .. 3 : Triggers[i] \in Nat
    /\ Laps \in Nat /\ ExtraLaps \in Nat

VARIABLES
    at,               \* the cell the train is in
    moves,            \* the last speed ordered is above 0
    balise,           \* a frame 0x30 to be read: the balise it names, or NoBalise
    turns,            \* history: how often the train came to its start balise again
    auto,             \* where boucle_automatique is, see Phase
    last_balise,      \* the last balise it has read
    mission,          \* the laps left
    pos,              \* the position the threads share, or NoCell
    pos_initialized,  \* the RBC has acknowledged a position
    asks,             \* eoa_handler: "blocked", "looks" or "waits"
    armed,            \* the first two triggers that last_distance_triggered has not passed
    eoa,              \* the authority the threads share, or NoCell
    eoa_initialized   \* eoa_handler has had its first answer

track   == << at, moves, balise, turns >>
threads == << auto, last_balise, mission, pos, pos_initialized, asks, armed, eoa, eoa_initialized >>
program == << track, threads >>

\* connect: main waits for the answer to its 100.  search: init_train.  first: up
\* to the first frame 0x02F.  waits: for eoa_initialized.  drives: after that.
\* stopped: the program has ended (stop_train).
Phase == { "connect", "search", "first", "waits", "drives", "stopped" }

NoBalise == 0
NoCell == -1

-----------------------------------------------------------------------------
(* The loop and get_distance                                               *)

Balises == DOMAIN Cantons

\* The cell a balise is in: the cantons before it.
Start[b \in Balises] == IF b = 1 THEN 0 ELSE Start[b - 1] + Cantons[b - 1]
Lap == Start[Len(Cantons)] + Cantons[Len(Cantons)]
Cell == 0 .. Lap - 1

\* get_distance of two cells: along the loop, and 0 in the same cell.  When the
\* train is more than 50 mm past a position of its cell the distance is a lap.
get_distance(from, to) == (to - from) % Lap
distance_past(from, to, past) == IF from = to /\ past THEN Lap ELSE get_distance(from, to)

-----------------------------------------------------------------------------
ProgramInit ==
    /\ at \in Cell
    /\ moves = FALSE
    /\ balise = NoBalise
    /\ turns = 0
    /\ auto = "connect"
    /\ last_balise = NoBalise
    /\ mission = Laps
    /\ pos = NoCell
    /\ pos_initialized = FALSE
    /\ asks = "blocked"
    /\ armed = { 1, 2 }
    /\ eoa = NoCell
    /\ eoa_initialized = FALSE

-----------------------------------------------------------------------------
(* The track                                                               *)

\* The train goes to the next cell; frames come several times per cell, so the
\* program has seen the one it leaves.  At a balise a frame 0x30 is sent.
Move ==
    /\ moves
    /\ balise = NoBalise
    /\ auto = "search" \/ pos = at
    /\ at' = (at + 1) % Lap
    /\ balise' = IF \E b \in Balises : Start[b] = at'
                 THEN CHOOSE b \in Balises : Start[b] = at' ELSE NoBalise
    /\ turns' = IF at' = 0 /\ auto = "drives" THEN turns + 1 ELSE turns
    /\ UNCHANGED << moves, threads >>

\* The reader of the balise sends the same frame again while the train is on it.
ReadAgain ==
    /\ balise = NoBalise /\ last_balise # NoBalise
    /\ at = Start[last_balise]
    /\ auto \in { "first", "drives" }
    /\ balise' = last_balise
    /\ UNCHANGED << at, moves, turns, threads >>

-----------------------------------------------------------------------------
(* main and boucle_automatique                                             *)

\* The RBC answers the 100 of main, which starts the threads and boucle_automatique,
\* which starts with init_train: it has the train run until it finds a balise.
Connect ==
    /\ auto = "connect"
    /\ auto' = "search"
    /\ moves' = TRUE
    /\ UNCHANGED << at, balise, turns, last_balise, mission, pos, pos_initialized, asks,
                    armed, eoa, eoa_initialized >>

\* init_train reads its first frame 0x30: the train is stopped.
FirstBalise ==
    /\ auto = "search" /\ balise # NoBalise
    /\ last_balise' = balise
    /\ balise' = NoBalise
    /\ moves' = FALSE
    /\ auto' = "first"
    /\ UNCHANGED << at, turns, mission, pos, pos_initialized, asks, armed, eoa, eoa_initialized >>

\* Mutant of PassBalise: a balise that is read again counts again.
PassBalise_EachTime ==
    /\ auto \in { "first", "drives" } /\ balise # NoBalise
    /\ mission >= -ExtraLaps
    /\ mission' = IF balise = 1 THEN mission - 1 ELSE mission
    /\ last_balise' = balise
    /\ balise' = NoBalise
    /\ UNCHANGED << at, moves, turns, auto, pos, pos_initialized, asks, armed, eoa,
                    eoa_initialized >>

\* A frame 0x30: a lap is over when it names the start balise and the one before
\* named another.
PassBalise ==
    /\ auto \in { "first", "drives" } /\ balise # NoBalise
    /\ mission >= -ExtraLaps
    /\ mission' = IF balise = 1 /\ last_balise # 1 THEN mission - 1 ELSE mission
    /\ last_balise' = balise
    /\ balise' = NoBalise
    /\ UNCHANGED << at, moves, turns, auto, pos, pos_initialized, asks, armed, eoa,
                    eoa_initialized >>

\* The first frame 0x02F: the position is published, and the thread waits.
FirstFrame ==
    /\ auto = "first" /\ balise = NoBalise
    /\ pos' = at
    /\ auto' = "waits"
    /\ UNCHANGED << track, last_balise, mission, pos_initialized, asks, armed, eoa,
                    eoa_initialized >>

\* pthread_cond_wait until eoa_initialized.
Resume ==
    /\ auto = "waits" /\ eoa_initialized
    /\ auto' = "drives"
    /\ UNCHANGED << track, last_balise, mission, pos, pos_initialized, asks, armed, eoa,
                    eoa_initialized >>

\* Mutant of objective: once its laps are made the train only looks at its start.
objective_Start(left, d_eoa, d_start) == IF left > 0 THEN d_eoa ELSE d_start

\* The distance to the objective: the authority, or the start balise when the
\* laps are made and it comes first.
objective(left, d_eoa, d_start) == IF left > 0 \/ d_eoa < d_start THEN d_eoa ELSE d_start

\* A frame 0x02F: the position is published and the train ordered to run up to
\* its objective.  It brakes for the end of its authority from afar, but takes
\* the start balise for its objective only when the mission becomes 0, on that
\* balise: at the next frame it may be more than 50 mm past it, and runs on.
Frame02F ==
    /\ auto = "drives" /\ balise = NoBalise
    /\ pos' = at
    /\ \E past \in IF pos # at THEN BOOLEAN ELSE { moves } :
         moves' = (objective(mission, get_distance(at, eoa), distance_past(at, 0, past)) > 0)
    /\ UNCHANGED << at, balise, turns, auto, last_balise, mission, pos_initialized, asks,
                    armed, eoa, eoa_initialized >>

\* SIGINT: stop_train orders speed 0 and the program ends.
StopTrain ==
    /\ auto \notin { "connect", "stopped" }
    /\ auto' = "stopped"
    /\ moves' = FALSE
    /\ UNCHANGED << at, balise, turns, last_balise, mission, pos, pos_initialized, asks,
                    armed, eoa, eoa_initialized >>

-----------------------------------------------------------------------------
(* report_position and eoa_handler                                         *)

\* The RBC acknowledges a report: eoa_handler may start.
FirstAcknowledged ==
    /\ auto # "stopped"
    /\ pos # NoCell /\ ~pos_initialized
    /\ pos_initialized' = TRUE
    /\ asks' = "looks"
    /\ UNCHANGED << track, auto, last_balise, mission, pos, armed, eoa, eoa_initialized >>

\* Mutant of wants: no request once the last trigger is passed.
wants_AtTriggers(d) == \E i \in armed : d < Triggers[i]

\* A request at each of the first two triggers that is passed, and all the time
\* after the last one.
wants(d) == (\E i \in armed : d < Triggers[i]) \/ d < Triggers[3]

\* The first request is made at once, when distance is not yet assigned: what
\* last_distance_triggered becomes is any number.
FirstRequest ==
    /\ auto # "stopped"
    /\ asks = "looks" /\ ~eoa_initialized
    /\ armed' \in { {}, { 2 }, { 1, 2 } }
    /\ asks' = "waits"
    /\ UNCHANGED << track, auto, last_balise, mission, pos, pos_initialized, eoa,
                    eoa_initialized >>

\* Once per second: a request, if the position is close enough to the authority.
NextRequest ==
    LET distance == get_distance(pos, eoa) IN
    /\ auto # "stopped"
    /\ asks = "looks" /\ eoa_initialized
    /\ wants(distance)
    /\ armed' = { i \in 1 .. 2 : distance >= Triggers[i] }
    /\ asks' = "waits"
    /\ UNCHANGED << track, auto, last_balise, mission, pos, pos_initialized, eoa,
                    eoa_initialized >>

\* The RBC gives an authority, never behind the one before: ProlongsUnlessTorn of
\* EoaReads, without its two exceptions.
Answer(e) ==
    /\ auto # "stopped"
    /\ asks = "waits"
    /\ eoa # NoCell => get_distance(at, eoa) <= get_distance(at, e)
    /\ eoa' = e
    /\ eoa_initialized' = TRUE
    /\ asks' = "looks"
    /\ UNCHANGED << track, auto, last_balise, mission, pos, pos_initialized, armed >>

-----------------------------------------------------------------------------
ProgramNext ==
    \/ Move \/ ReadAgain
    \/ Connect \/ FirstBalise \/ PassBalise \/ FirstFrame \/ Resume \/ Frame02F \/ StopTrain
    \/ FirstAcknowledged \/ FirstRequest \/ NextRequest
    \/ \E e \in Cell : Answer(e)

ProgramSpec == ProgramInit /\ [][ProgramNext]_program

\* The train runs when it is told to and frames of the motor come, also while a
\* balise is read again and again; the threads run and their requests are
\* answered; and the RBC does not answer for ever with the authority the train has
\* (KeepsLapping of Interlocking, for a train that is alone).
ProgramFairness ==
    /\ SF_program(Move)
    /\ WF_program(FirstBalise \/ PassBalise \/ Resume)
    /\ SF_program(FirstFrame \/ Frame02F)
    /\ WF_program(FirstAcknowledged \/ FirstRequest \/ NextRequest)
    /\ WF_program(\E e \in Cell : Answer(e))
    /\ SF_program(\E e \in Cell : Answer(e) /\ eoa' # eoa)

-----------------------------------------------------------------------------
(* Properties                                                              *)

\* The mission goes down by one at every turn of the loop and at nothing else:
\* not at the balise the train was on at first, nor when a balise is read again.
CountsTurns ==
    auto = "drives" =>
        mission = Laps - turns + (IF balise = 1 /\ last_balise # 1 THEN 1 ELSE 0)

\* The train never leaves the cell its authority ends in, whatever the mission,
\* the start balise and the answers that come in between make its objective.
StopsAtAuthority == [][ auto = "drives" /\ at' # at => at # eoa ]_program

\* Once the RBC has answered its 100, the train makes its laps: its requests never
\* stop while it has some to make.
CompletesMission == auto # "connect" ~> (mission <= 0 \/ auto = "stopped")
=============================================================================
