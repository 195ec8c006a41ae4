-------------------------------- MODULE Python --------------------------------
(***************************************************************************)
(* What the modules of the invoice side take from the language.            *)
(***************************************************************************)
EXTENDS Integers

CONSTANT None   \* Python's None: a missing value

ASSUME NoneAssumption == None \notin Int
==============================================================================
