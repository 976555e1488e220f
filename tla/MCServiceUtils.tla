--------------------------- MODULE MCServiceUtils ---------------------------
(***************************************************************************)
(* Three units and scripts that stop a list of services and start the     *)
(* same list again (the bracket a partition change needs), with names     *)
(* given with and without the ".service" suffix.                           *)
(***************************************************************************)
EXTENDS ServiceUtils

CONSTANTS a, b, c

N(s, sfx) == [svc |-> s, suffixed |-> sfx]
Stop(l)   == [op |-> "stop", list |-> l]
Start(l)  == [op |-> "start", list |-> l]
Bracket(l) == <<Stop(l), Start(l)>>

\* Stop then start the same list.
BracketScripts ==
    { Bracket(<<N(a, FALSE), N(b, TRUE)>>),
      Bracket(<<N(b, FALSE), N(c, FALSE), N(a, TRUE)>>) }

=============================================================================
