---------------------------- MODULE MCController ----------------------------
(***************************************************************************)
(* Instances of Controller for TLC.                                        *)
(***************************************************************************)
EXTENDS Controller, TLC

CONSTANTS a, b, p, q, name1, name2, lock, arch, routeros, extra

\* Two callers, each a command of its own process.
OneEach == (a :> p) @@ (b :> q)

\* One lock file, under another name in either configuration.
TwoNames == (name1 :> lock) @@ (name2 :> lock)
Paths == (a :> name1) @@ (b :> name2)

\* The system package and one more.
Archs == <<arch, arch>>
Packages == <<routeros, extra>>
Two == 1 .. 2
=============================================================================
