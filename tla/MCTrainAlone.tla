----------------------------- MODULE MCTrainAlone -----------------------------
(***************************************************************************)
(* The certificate TrainAlone needs, computed from the tables of the       *)
(* railway: the states of each train alone, by breadth-first search.  TLC  *)
(* evaluates AloneAssumption on it when it starts.                         *)
(***************************************************************************)
EXTENDS MCInterlocking, TrainAlone, TLC

CONSTANT Depth    \* bound: steps of the search, which ends before it

\* The search of one more step from b, written with bound variables so that TLC
\* evaluates each set once.
OneMore(t, b) ==
    CHOOSE r \in { [seen |-> b.seen \cup next, new |-> next \ b.seen] :
                     next \in { UNION { StepsAlone(t, s) : s \in b.new } } } : TRUE

Search(t) ==
    LET start == { AloneInit(t) }
        after[n \in 0 .. Depth] ==
          IF n = 0 THEN [seen |-> start, new |-> start]
          ELSE CHOOSE r \in { OneMore(t, b) : b \in { after[n - 1] } } : TRUE
    IN  after[Depth].seen

Found == (0 :> Search(0)) @@ (1 :> Search(1)) @@ (2 :> Search(2))

MCAlone(t) == Found[t]

\* A run keeps the commands of some switches; this is about all of them.
ASSUME TablesAssumption == Compatible(unirail_all_command_aig)
=============================================================================
