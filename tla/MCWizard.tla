------------------------------ MODULE MCWizard ------------------------------
(***************************************************************************)
(* Instances of Wizard for TLC; the tabs are alike.                        *)
(***************************************************************************)
EXTENDS Wizard, TLC

CONSTANTS a, b

TabsAlike == Permutations(Tabs)
=============================================================================
