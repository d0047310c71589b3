------------------------- MODULE PublishedReleases -------------------------
(***************************************************************************)
(* What the package store promises to whoever reads it, with or without    *)
(* the controller lock: a file once stored keeps its bytes, a manifest     *)
(* appears whole, and only lists files that are stored as it says.  Only a *)
(* power loss of the controller may tear what was stored, or lose it.      *)
(***************************************************************************)
EXTENDS Naturals

CONSTANTS Release, File, Content, None, Torn

Manifest == UNION {[F -> Content] : F \in SUBSET File}

VARIABLES
    stored,     \* per release, the bytes of each file
    published   \* per release, the manifest

vars == <<stored, published>>

Init ==
    /\ stored = [v \in Release |-> [f \in File |-> None]]
    /\ published = [v \in Release |-> None]

Store(v, f, x) ==
    /\ stored[v][f] = None
    /\ stored' = [stored EXCEPT ![v][f] = x]
    /\ UNCHANGED published

Publish(v, F) ==
    /\ \A f \in F : stored[v][f] \in Content
    /\ published' = [published EXCEPT ![v] = [f \in F |-> stored[v][f]]]
    /\ UNCHANGED stored

\* Any files and manifests may be torn or gone, and another manifest be there
\* than before; no file gets other bytes.  Nobody repairs a torn file.
LosePower ==
    /\ stored' \in [Release -> [File -> Content \cup {None, Torn}]]
    /\ published' \in [Release -> Manifest \cup {None, Torn}]
    /\ \A v \in Release :
          /\ \A f \in File :
                \/ stored'[v][f] = stored[v][f]
                \/ stored[v][f] \in Content /\ stored'[v][f] \in {None, Torn}
          /\ published[v] \in {None, Torn} => published'[v] = published[v]

Next ==
    \/ \E v \in Release, f \in File, x \in Content : Store(v, f, x)
    \/ \E v \in Release, F \in SUBSET File : Publish(v, F)
    \/ LosePower

Spec == Init /\ [][Next]_vars
=============================================================================
