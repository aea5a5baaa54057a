-------------------------- MODULE TrackSharingProofs --------------------------
(***************************************************************************)
(* What TrackSharing promises, whatever implements it: trains exclude each *)
(* other from the parts.                                                   *)
(***************************************************************************)
EXTENDS TrackSharing, TLAPS

\* A step of one train leaves the parts of the trains disjoint, and each train
\* inside its own.
LEMMA OwnedPreserved == Owned /\ [Next]_<< held, inside >> => Owned'
<1> SUFFICES ASSUME Owned, [Next]_<< held, inside >> PROVE Owned'
  OBVIOUS
<1>1. CASE UNCHANGED << held, inside >>
  BY <1>1 DEF Owned
<1>2. CASE Next
  <2> PICK t \in Trains :
        /\ held' \in [Trains -> SUBSET Parts]
        /\ \A u \in Trains \ {t} : held'[u] = held[u] /\ inside'[u] = inside[u]
        /\ Obtain(t) \/ Enter(t) \/ Leave(t)
    BY <1>2 DEF Next
  <2>1. inside'[t] \subseteq held'[t]
    BY DEF Owned, Obtain, Enter, Leave
  <2>2. held'[t] \subseteq held[t] \cup Free
    BY DEF Obtain, Enter, Leave
  <2>3. \A u \in Trains \ {t} : held'[t] \cap held[u] = {}
    BY <2>2 DEF Owned, Free
  <2>4. \A u, v \in Trains : u # v => held'[u] \cap held'[v] = {}
    BY <2>3 DEF Owned
  <2>5. \A u \in Trains : inside'[u] \subseteq held'[u]
    BY <2>1 DEF Owned
  <2> QED
    BY <2>4, <2>5 DEF Owned
<1> QED
  BY <1>1, <1>2

\* Two trains are never authorised in the same shared part of the track, as long
\* as the RBC gives authorities, resources and releases as TrackSharing says
\* (lock_ressources and free_resources of ressources.c).
THEOREM SharingExcludes == Spec => []Exclusive
<1>1. Init => Owned
  BY DEF Init, Owned
<1>2. Owned => Exclusive
  BY DEF Owned, Exclusive
<1> QED
  BY <1>1, <1>2, OwnedPreserved, PTL DEF Spec
=============================================================================
