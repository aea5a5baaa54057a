------------------------------ MODULE MCEoaReads ------------------------------
(***************************************************************************)
(* EoaReads on the tables of the railway, for TLC.                         *)
(***************************************************************************)
EXTENDS MCInterlocking, EoaReads

\* Bound: the properties say nothing once left holds, nor once torn does, which
\* comes before left.
NotLeft == ~left
=============================================================================
