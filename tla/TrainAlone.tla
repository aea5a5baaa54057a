------------------------------ MODULE TrainAlone ------------------------------
(***************************************************************************)
(* One train alone on its loop: what the tables make of its reports and    *)
(* requests when next_eoa may stop it anywhere another train could be.     *)
(* The few hundred states of each train are a set Alone(t), computed by    *)
(* TLC from the real tables (MCTrainAlone), and AloneAssumption says what  *)
(* one train at a time must satisfy.  InterlockingProofs shows that three  *)
(* such trains sharing the resource byte never meet inside a zone: the     *)
(* product of the trains needs no exploration.                             *)
(***************************************************************************)
EXTENDS Interlocking

CONSTANT Alone(_)    \* the states of each train alone, closed under its steps

AloneState(t) == [pos : Position(t), eoa : Position(t) \cup { NoEoa },
                  req : 0 .. L_res_size[t] - 1, lib : 0 .. L_res_size[t] - 1,
                  own : SUBSET Resource,
                  pc : { "idle", "locking", "switching", "eoa" }]

AloneInit(t) == [pos |-> [bal |-> StartBalise[t], pos_r |-> 0], eoa |-> NoEoa,
                 req |-> 0, lib |-> 0, own |-> {}, pc |-> "idle"]

\* The steps of Interlocking, as one train sees them.
ReportAlone(t, s, p) ==
    IF frees(t, p, s.lib)
    THEN [s EXCEPT !.pos = p, !.own = @ \ L_mask_lib[t][s.lib + 1],
                   !.lib = NextIndex(t, @)]
    ELSE [s EXCEPT !.pos = p]

AskAlone(t, s) ==
    [s EXCEPT !.pc = IF resource_to_lock(t, s.pos, s.req) THEN "locking" ELSE "eoa"]

LockAlone(t, s) ==
    [pos |-> s.pos, eoa |-> s.eoa, req |-> s.req, lib |-> s.lib,
     own |-> s.own \cup L_mask_req[t][s.req + 1], pc |-> "switching"]

EndSwitchesAlone(t, s) ==
    [pos |-> s.pos, eoa |-> s.eoa, req |-> NextIndex(t, s.req), lib |-> s.lib,
     own |-> s.own, pc |-> "eoa"]

NextEoaAlone(t, s, e) ==
    [pos |-> s.pos, eoa |-> e, req |-> s.req, lib |-> s.lib, own |-> s.own, pc |-> "idle"]

StepsAlone(t, s) ==
    UNION { { ReportAlone(t, s, p) : p \in MayBeAt(t, s.pos, s.eoa) },
            IF s.pc = "idle" THEN { AskAlone(t, s) } ELSE {},
            IF s.pc = "locking" /\ s.own \cap L_mask_req[t][s.req + 1] = {}
              THEN { LockAlone(t, s) } ELSE {},
            IF s.pc = "switching" THEN { EndSwitchesAlone(t, s) } ELSE {},
            IF s.pc = "eoa"
              THEN { NextEoaAlone(t, s, e) : e \in EoaRange(t, s.pos, L_res_req[t][s.req + 1]) }
              ELSE {} }

\* What a train alone must satisfy: it only gives back resources it has, and it
\* has those of every place it may be at.
SafeAlone(t, s) ==
    /\ \A p \in MayBeAt(t, s.pos, s.eoa) :
         frees(t, p, s.lib) => L_mask_lib[t][s.lib + 1] \subseteq s.own
    /\ \A r \in Resource : MayBeAt(t, s.pos, s.eoa) \cap Zone[t][r] # {} => r \in s.own

\* How a train alone goes through its requests: it keeps what it has locked until
\* the switches are set, a lock never completes the resources of another request,
\* and the balise of its next request is never inside the authority it has.
OrderlyAlone(t, s) ==
    LET mask(k) == L_mask_req[t][k]
        stop    == [bal |-> L_res_req[t][s.req + 1], pos_r |-> 0]
    IN  /\ s.pc = "switching" => mask(s.req + 1) \subseteq s.own
        /\ s.pc = "locking" /\ s.own \cap mask(s.req + 1) = {} =>
             \A k \in 1 .. L_res_size[t] \ { s.req + 1 } :
                mask(k) \subseteq s.own \cup mask(s.req + 1) => mask(k) \subseteq s.own
        /\ s.pc = "eoa" /\ s.eoa # NoEoa /\ stop \in MayBeAt(t, s.pos, s.eoa) => stop = s.eoa

ASSUME AloneAssumption ==
    \A t \in Train :
        /\ AloneInit(t) \in Alone(t)
        /\ \A s \in Alone(t) : /\ s \in AloneState(t)
                               /\ StepsAlone(t, s) \subseteq Alone(t)
                               /\ SafeAlone(t, s)
                               /\ OrderlyAlone(t, s)

-----------------------------------------------------------------------------
(* Two trains                                                              *)

\* The way of a train: where it is, where it may go and what it holds.
Way(t, s) ==
    [pos |-> s.pos, eoa |-> s.eoa, own |-> s.own, at |-> MayBeAt(t, s.pos, s.eoa)]

Ways == [t \in Train |-> { Way(t, s) : s \in Alone(t) }]

\* Neither train stands inside the way of the other, except at its ends, and of
\* two trains at the same position one at most may move.
Clear(v, w) ==
    /\ w.pos \in v.at => w.pos \in { v.pos, v.eoa }
    /\ v.pos \in w.at => v.pos \in { w.pos, w.eoa }
    /\ v.pos = w.pos => v.at = { v.pos } \/ w.at = { w.pos }

\* Two loops never merge inside the ways of two trains that hold different
\* resources and do not stand in each other's way.
ASSUME MergeAssumption ==
    \A t, u \in Train : t # u =>
        \A v \in Ways[t], w \in Ways[u] :
            v.own \cap w.own = {} /\ Clear(v, w) => v.at \cap w.at \subseteq { v.pos, v.eoa }

\* No balise is on the three loops: a canton holds two trains at most.
ASSUME CrossAssumption == Balise(0) \cap Balise(1) \cap Balise(2) = {}

\* Commands of all that move the same switch move it the same way, unless they
\* come with requests of two trains for the same resource.
Compatible(all) ==
    \A t, u \in Train : \A k \in 1 .. L_res_size[t], j \in 1 .. L_res_size[u] :
        t = u \/ L_mask_req[t][k] \cap L_mask_req[u][j] = {} =>
            \A h \in 1 .. Len(all[t][k]), i \in 1 .. Len(all[u][j]) :
                all[t][k][h].name = all[u][j][i].name => all[t][k][h].dir = all[u][j][i].dir

ASSUME SwitchAssumption ==
    /\ \A t \in Train : Len(L_res_req[t]) = L_res_size[t]
    /\ Compatible(all_command_aig)

-----------------------------------------------------------------------------
\* Train t as the RBC sees it.
SeenBy(t) == [pos |-> pos_trains[t], eoa |-> eoa[t],
              req |-> next_bal_index_req[t], lib |-> next_bal_index_lib[t],
              own |-> held[t], pc |-> pc[t]]

\* The inductive invariant: each train is in a state it could be in alone, and
\* the resource byte accounts for what they all hold.
IInv ==
    /\ TypeOK
    /\ \A t \in Train : SeenBy(t) \in Alone(t)
    /\ Accounted

\* The commands of every request whose resources a train holds stand, those of
\* the request it is setting the switches for as far as they have been sent, and
\* that train does not move yet where they protect it.
SwitchesStand ==
    \A t \in Train :
        LET stands(k, i) == aig[Commands(t, k)[i].name] = Commands(t, k)[i].dir
            setting      == next_bal_index_req[t]
        IN  /\ \A k \in 0 .. L_res_size[t] - 1 :
                 /\ L_mask_req[t][k + 1] # {}
                 /\ L_mask_req[t][k + 1] \subseteq held[t]
                 /\ ~(pc[t] = "switching" /\ k = setting)
                 => \A i \in 1 .. Len(Commands(t, k)) : stands(k, i)
            /\ pc[t] = "switching" =>
                 /\ \A i \in 1 .. cmd[t] : stands(setting, i)
                 /\ \A r \in RequestMask(t) : ~MayEnter(t, r)
=============================================================================
