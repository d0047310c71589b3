------------------------------ MODULE MCRosup ------------------------------
(***************************************************************************)
(* Instances of Rosup for TLC: two releases, a device with a system        *)
(* package and at most one more.                                           *)
(***************************************************************************)
EXTENDS Rosup, TLC

\* Nothing tells the releases apart when the operator may ask for both.
ReleaseSymmetry == Permutations(Release)
=============================================================================
