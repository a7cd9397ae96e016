------------------------------ MODULE MCRwTest ------------------------------
(***************************************************************************)
(* Model-checking root for the menus: the read and write tests of RwTest,  *)
(* and the led and ping threads of AllStart. The two share no state but    *)
(* what RwTest has of allstart itself; one of them runs.                   *)
(***************************************************************************)
EXTENDS RwTest, AllStart

VARIABLE prog

menuVars == <<vars, allStartVars, prog>>

MenuInit == Init /\ AllStartInit /\ prog \in {"rwtest", "allstart"}
MenuNext ==
  /\ UNCHANGED prog
  /\ \/ prog = "rwtest" /\ Next /\ UNCHANGED allStartVars
     \/ prog = "allstart" /\ AllStartNext /\ UNCHANGED vars
MenuSpec == MenuInit /\ [][MenuNext]_menuVars /\ Fairness /\ AllStartFairness
=============================================================================
