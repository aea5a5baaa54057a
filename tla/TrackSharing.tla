----------------------------- MODULE TrackSharing -----------------------------
(***************************************************************************)
(* What the RBC promises of the shared parts of the track, without the     *)
(* tables, positions, requests and switches it needs to keep the promise:  *)
(* a part is obtained when nobody has it, entered when it has been         *)
(* obtained, and given back when it has been left.  Interlocking           *)
(* implements this specification.                                          *)
(***************************************************************************)
CONSTANTS Trains, Parts

VARIABLES
    held,     \* the parts each train has obtained
    inside    \* the parts each train is in, or is authorised to go in

Init ==
    /\ held = [t \in Trains |-> {}]
    /\ inside = [t \in Trains |-> {}]

Free == Parts \ UNION { held[t] : t \in Trains }

\* Train t obtains parts that are free.
Obtain(t) ==
    /\ held[t] \subseteq held'[t]
    /\ held'[t] \ held[t] \subseteq Free
    /\ inside'[t] = inside[t]

\* Train t is authorised to go where it needs parts it has.
Enter(t) ==
    /\ held'[t] = held[t]
    /\ inside'[t] \subseteq held[t]

\* Train t moves on: it only leaves parts, and may give back what it is not in
\* any more.
Leave(t) ==
    /\ held'[t] \subseteq held[t]
    /\ inside'[t] \subseteq inside[t] \cap held'[t]

Next ==
    \E t \in Trains :
        /\ held' \in [Trains -> SUBSET Parts]
        /\ \A u \in Trains \ {t} : held'[u] = held[u] /\ inside'[u] = inside[u]
        /\ Obtain(t) \/ Enter(t) \/ Leave(t)

Spec == Init /\ [][Next]_<< held, inside >>

-----------------------------------------------------------------------------
\* What makes the trains exclude each other: none is where it has no part, and a
\* part is one train's.
Owned ==
    /\ held \in [Trains -> SUBSET Parts]
    /\ \A t \in Trains : inside[t] \subseteq held[t]
    /\ \A t, u \in Trains : t # u => held[t] \cap held[u] = {}

\* Two trains are never in the same part.
Exclusive == \A t, u \in Trains : t # u => inside[t] \cap inside[u] = {}
=============================================================================
