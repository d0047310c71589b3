------------------------------ MODULE MCFleet ------------------------------
(***************************************************************************)
(* Instances of Fleet for TLC: a core router, an edge router behind it and *)
(* a lone one.  edge and core are a group of their own.                    *)
(***************************************************************************)
EXTENDS Fleet

CONSTANTS core, edge, lone

Depends == [d \in Device |-> IF d = edge THEN {core} ELSE {}]

\* edge after core, as in the example inventory...
InOrder == [d \in Device |-> IF d = core THEN 1 ELSE IF d = edge THEN 2 ELSE 3]

\* ...and in an inventory that sorts it before, which is valid, too.
OutOfOrder == [d \in Device |-> IF d = core THEN 2 ELSE IF d = edge THEN 1 ELSE 3]

WholeFleet == {Device}

FleetAndGroup == {Device, {core, edge} \cap Device}
=============================================================================
