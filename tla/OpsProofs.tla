----------------------------- MODULE OpsProofs -----------------------------
(***************************************************************************)
(* What is pushed to the ops repository stays there, whole, for every set  *)
(* of records and every bound.  The heart of it is that the content of a   *)
(* record never gets older along any history, which needs the index reset: *)
(* what a commit adds to the last tree is exactly what it was asked to.    *)
(***************************************************************************)
EXTENDS OpsRepository, TLAPS

USE OpsAssumption DEF OpsAssumption

RecordPath == PathsOf(Record)

Whole(t) == \A r \in Record : t[<<r, "first">>] = t[<<r, "second">>]

\* Nothing is newer than the newest content of its record.
Bounded(t) == \A p \in RecordPath : t[p] <= version[p[1]]

Older(t, u) == \A p \in RecordPath : t[p] <= u[p]

History(h) ==
    /\ h \in Seq(Tree) /\ Len(h) > 0
    /\ \A i \in DOMAIN h : Whole(h[i]) /\ Bounded(h[i])
    /\ \A i, j \in DOMAIN h : i <= j => Older(h[i], h[j])

\* The index is the last tree and what has been added to it.
Staged ==
    \A p \in Path :
        index[p] = IF p \in PathsOf(items) \ todo THEN version[p[1]] ELSE Last(local)[p]

Steps ==
    /\ pc = "idle" => items = {} /\ todo = {}
    /\ pc # "idle" => items # {}
    /\ pc \in {"pull", "reset"} => todo = PathsOf(items)
    /\ pc \in {"add", "commit"} => Staged
    /\ pc = "push" => \A p \in PathsOf(items) : Last(local)[p] = version[p[1]]

Arrived == \A p \in RecordPath : pushed[p[1]] <= Last(remote)[p]

Inv == TypeOK /\ History(remote) /\ History(local) /\ Steps /\ Arrived

LEMMA Paths ==
    /\ RecordPath \subseteq Path /\ Inventory \in Path /\ Inventory \notin RecordPath
    /\ \A p \in RecordPath : p[1] \in Record /\ p[2] \in Part
    /\ \A r \in Record, q \in Part : <<r, q>> \in RecordPath
    /\ Path = RecordPath \cup {Inventory}
  BY DEF RecordPath, PathsOf, Path, Inventory, Part

LEMMA LastTree ==
    ASSUME NEW h, History(h)
    PROVE  /\ Last(h) \in Tree /\ Whole(Last(h)) /\ Bounded(Last(h))
           /\ Len(h) \in DOMAIN h /\ Last(h) = h[Len(h)]
  BY DEF History, Last

LEMMA PathValue ==
    ASSUME NEW t \in Tree, NEW p \in RecordPath
    PROVE  t[p] \in Nat
  BY Paths DEF Tree

LEMMA AppendTree ==
    ASSUME NEW h, History(h), NEW t \in Tree, Whole(t), Bounded(t), Older(Last(h), t)
    PROVE  History(Append(h, t)) /\ Last(Append(h, t)) = t
  <1> DEFINE g == Append(h, t)
  <1>1. h \in Seq(Tree) /\ Len(h) \in Nat /\ Len(h) > 0 /\ DOMAIN h = 1 .. Len(h)
    BY DEF History
  <1>2. /\ g \in Seq(Tree) /\ Len(g) = Len(h) + 1 /\ DOMAIN g = 1 .. (Len(h) + 1)
        /\ \A i \in 1 .. Len(h) : g[i] = h[i]
        /\ g[Len(h) + 1] = t
    BY <1>1
  <1> HIDE DEF g
  <1>3. Last(g) = t
    BY <1>2 DEF Last
  <1>4. \A i \in DOMAIN g : Whole(g[i]) /\ Bounded(g[i])
    BY <1>1, <1>2 DEF History
  <1>5. ASSUME NEW i \in DOMAIN g, NEW j \in DOMAIN g, i <= j PROVE Older(g[i], g[j])
    <2>1. CASE j \in 1 .. Len(h)
      BY <1>1, <1>2, <1>5, <2>1 DEF History
    <2>2. CASE j = Len(h) + 1 /\ i \in 1 .. Len(h)
      <3>1. Older(h[i], Last(h))
        BY <1>1, <2>2, LastTree DEF History
      <3>2. h[i] \in Tree /\ Last(h) \in Tree
        BY <1>1, <2>2, LastTree
      <3> QED
        BY <1>2, <2>2, <3>1, <3>2, PathValue DEF Older
    <2>3. CASE j = Len(h) + 1 /\ i = Len(h) + 1
      BY <1>2, <2>3, PathValue DEF Older
    <2> QED
      BY <1>1, <1>2, <2>1, <2>2, <2>3
  <1>6. History(g)
    BY <1>1, <1>2, <1>4, <1>5 DEF History
  <1> QED
    BY <1>3, <1>6 DEF g

\* A longer history is newer at its end.
LEMMA PrefixOlder ==
    ASSUME NEW g, NEW h, History(g), History(h), IsPrefix(g, h)
    PROVE  Older(Last(g), Last(h))
  <1>1. Len(g) \in Nat /\ Len(g) > 0 /\ Len(h) \in Nat /\ Len(g) <= Len(h)
    BY DEF History, IsPrefix
  <1>2. g[Len(g)] = h[Len(g)]
    <2>1. SubSeq(g, 1, Len(g)) = SubSeq(h, 1, Len(g))
      BY DEF IsPrefix
    <2>2. SubSeq(g, 1, Len(g))[Len(g)] = g[Len(g)] /\ SubSeq(h, 1, Len(g))[Len(g)] = h[Len(g)]
      BY <1>1 DEF History
    <2> QED
      BY <2>1, <2>2
  <1>3. Len(g) \in DOMAIN h /\ Len(h) \in DOMAIN h
    BY <1>1 DEF History
  <1> QED
    BY <1>1, <1>2, <1>3 DEF Last, History

\* Histories do not mind newer contents.
LEMMA VersionGrows ==
    ASSUME TypeOK, version' \in [Record -> 0 .. MaxVersion],
           \A r \in Record : version[r] <= version'[r], NEW h, History(h)
    PROVE  /\ h \in Seq(Tree) /\ Len(h) > 0
           /\ \A i \in DOMAIN h : Whole(h[i]) /\ \A p \in RecordPath : h[i][p] <= version'[p[1]]
           /\ \A i, j \in DOMAIN h : i <= j => Older(h[i], h[j])
  <1>1. ASSUME NEW i \in DOMAIN h, NEW p \in RecordPath PROVE h[i][p] <= version'[p[1]]
    <2>1. h[i] \in Tree /\ h[i][p] \in Nat /\ h[i][p] <= version[p[1]] /\ p[1] \in Record
      BY Paths, PathValue DEF History, Bounded
    <2> QED
      BY <2>1 DEF TypeOK
  <1> QED
    BY <1>1 DEF History

LEMMA Initially == Init => Inv
  <1> SUFFICES ASSUME Init PROVE Inv
    OBVIOUS
  <1> DEFINE empty == [p \in Path |-> 0]
  <1>1. /\ empty \in Tree /\ remote = <<empty>> /\ local = <<empty>> /\ index = empty
        /\ version = [r \in Record |-> 0] /\ pushed = [r \in Record |-> 0]
        /\ pc = "idle" /\ items = {} /\ todo = {}
    BY DEF Init, Tree
  <1>2. \A p \in Path : empty[p] = 0
    OBVIOUS
  <1>3. Whole(empty) /\ Bounded(empty) /\ Older(empty, empty)
    <2> HIDE DEF empty
    <2>1. \A p \in RecordPath : empty[p] = 0 /\ version[p[1]] = 0
      BY <1>1, <1>2, Paths
    <2>2. \A r \in Record : empty[<<r, "first">>] = 0 /\ empty[<<r, "second">>] = 0
      BY <2>1, Paths DEF Part
    <2> QED
      BY <2>1, <2>2 DEF Whole, Bounded, Older
  <1> HIDE DEF empty
  <1>4. History(remote) /\ History(local)
    BY <1>1, <1>3 DEF History
  <1>5. Last(remote) = empty
    BY <1>1 DEF Last
  <1>6. TypeOK
    BY <1>1 DEF Init, TypeOK
  <1>7. Steps /\ Arrived
    BY <1>1, <1>2, <1>5, Paths DEF Steps, Arrived
  <1> QED
    BY <1>4, <1>6, <1>7 DEF Inv

\* A command begins.
LEMMA BeginKept ==
    ASSUME Inv, NEW r \in Record, Begin(r), pending' \subseteq Audit, exports' \subseteq Audit
    PROVE  Inv'
  <1>1. PICK v \in {version[r], version[r] + 1} \cap (1 .. MaxVersion) :
           version' = [version EXCEPT ![r] = v]
    BY DEF Begin
  <1>2. version' \in [Record -> 0 .. MaxVersion] /\ \A s \in Record : version[s] <= version'[s]
    BY <1>1 DEF Inv, TypeOK
  <1>3. /\ UNCHANGED <<remote, local, index, edits, faults, pushed>>
        /\ pc' = "pull" /\ items' = {r} /\ todo' = PathsOf({r})
    BY DEF Begin, git
  <1>4. TypeOK'
    BY <1>2, <1>3 DEF Inv, TypeOK, PathsOf
  <1>5. History(remote)' /\ History(local)'
    BY <1>2, <1>3, VersionGrows DEF Inv, History, Bounded
  <1>6. Steps' /\ Arrived'
    BY <1>3 DEF Inv, Steps, Arrived
  <1> QED
    BY <1>4, <1>5, <1>6 DEF Inv

LEMMA PullKept ==
    ASSUME Inv, Pull
    PROVE  Inv'
  <1>1. /\ pc = "pull" /\ pc' = "reset"
        /\ UNCHANGED <<remote, edits, faults, version, pending, exports, pushed, items, todo>>
        /\ \/ local' = remote /\ index' = Last(remote)
           \/ UNCHANGED <<local, index>>
    BY DEF Pull, callers
  <1>2. History(local')
    BY <1>1 DEF Inv
  <1>3. index' \in Tree
    BY <1>1, LastTree DEF Inv, TypeOK
  <1>4. TypeOK'
    BY <1>1, <1>2, <1>3 DEF Inv, TypeOK, History
  <1>5. History(remote)' /\ History(local)'
    BY <1>1, <1>2 DEF Inv, History, Bounded
  <1>6. Steps' /\ Arrived'
    BY <1>1 DEF Inv, Steps, Arrived
  <1> QED
    BY <1>4, <1>5, <1>6 DEF Inv

LEMMA ResetKept ==
    ASSUME Inv, Reset
    PROVE  Inv'
  <1>1. /\ pc = "reset" /\ pc' = "add" /\ index' = Last(local)
        /\ UNCHANGED <<remote, local, edits, faults, version, pending, exports, pushed, items, todo>>
    BY DEF Reset, ResetIndex, callers
  <1>2. TypeOK'
    BY <1>1, LastTree DEF Inv, TypeOK
  <1>3. History(remote)' /\ History(local)'
    BY <1>1 DEF Inv, History, Bounded
  <1>4. todo = PathsOf(items)
    BY <1>1 DEF Inv, Steps
  <1>5. Staged'
    BY <1>1, <1>4 DEF Staged, PathsOf
  <1>6. Steps' /\ Arrived'
    BY <1>1, <1>5 DEF Inv, Steps, Arrived
  <1> QED
    BY <1>2, <1>3, <1>6 DEF Inv

LEMMA AddKept ==
    ASSUME Inv, NEW p \in todo, Add(p)
    PROVE  Inv'
  <1>1. /\ pc = "add" /\ index' = [index EXCEPT ![p] = version[p[1]]] /\ todo' = todo \ {p}
        /\ pc' \in {"add", "commit"} /\ (pc' = "commit" => todo' = {})
        /\ UNCHANGED <<remote, local, edits, faults, version, pending, exports, pushed, items>>
    BY DEF Add, AllAdded, callers
  <1>2. p \in PathsOf(items) /\ p \in Path /\ p[1] \in Record /\ index \in Tree
        /\ items \subseteq Record
    BY Paths DEF Inv, TypeOK, PathsOf, RecordPath
  <1>3. version[p[1]] \in 0 .. (MaxVersion + MaxEdits)
    BY <1>2 DEF Inv, TypeOK
  <1>4. index' \in Tree
    BY <1>1, <1>2, <1>3 DEF Tree
  <1>5. TypeOK'
    BY <1>1, <1>4 DEF Inv, TypeOK
  <1>6. History(remote)' /\ History(local)'
    BY <1>1 DEF Inv, History, Bounded
  <1>7. Staged'
    BY <1>1, <1>2 DEF Inv, Steps, Staged, Tree, PathsOf
  <1>8. Steps' /\ Arrived'
    BY <1>1, <1>7 DEF Inv, Steps, Arrived
  <1> QED
    BY <1>5, <1>6, <1>8 DEF Inv

\* What Commit commits: the last tree, with the newest content of its items.
LEMMA ToCommit ==
    ASSUME Inv, pc = "commit"
    PROVE  /\ index \in Tree /\ Whole(index) /\ Bounded(index) /\ Older(Last(local), index)
           /\ \A p \in PathsOf(items) : index[p] = version[p[1]]
           /\ \A p \in Path \ PathsOf(items) : index[p] = Last(local)[p]
  <1>1. /\ todo = {} /\ index \in Tree /\ items \subseteq Record /\ Staged
        /\ version \in [Record -> 0 .. MaxVersion]
    BY DEF Inv, TypeOK, Steps
  <1>2. /\ \A p \in PathsOf(items) : index[p] = version[p[1]]
        /\ \A p \in Path \ PathsOf(items) : index[p] = Last(local)[p]
    BY <1>1, Paths DEF Staged, PathsOf, RecordPath
  <1>3. Last(local) \in Tree /\ Whole(Last(local)) /\ Bounded(Last(local))
    BY LastTree DEF Inv
  <1>4. Whole(index)
    <2> SUFFICES ASSUME NEW r \in Record
                 PROVE  index[<<r, "first">>] = index[<<r, "second">>]
      BY DEF Whole
    <2>1. /\ <<r, "first">> \in PathsOf(items) <=> r \in items
          /\ <<r, "second">> \in PathsOf(items) <=> r \in items
          /\ <<r, "first">> \in Path /\ <<r, "second">> \in Path
      BY Paths DEF PathsOf, Part
    <2> QED
      BY <1>2, <1>3, <2>1 DEF Whole
  <1>5. ASSUME NEW p \in RecordPath
        PROVE  index[p] <= version[p[1]] /\ Last(local)[p] <= index[p]
    <2>1. Last(local)[p] <= version[p[1]] /\ p[1] \in Record /\ p \in Path
      BY <1>3, Paths DEF Bounded
    <2>2. Last(local)[p] \in Nat /\ version[p[1]] \in Nat
      BY <1>1, <1>3, <2>1, PathValue
    <2> QED
      BY <1>2, <2>1, <2>2
  <1> QED
    BY <1>1, <1>2, <1>4, <1>5 DEF Bounded, Older

LEMMA CommitKept ==
    ASSUME Inv, Commit
    PROVE  Inv'
  <1>1. /\ pc = "commit" /\ pc' = "push"
        /\ local' = IF index = Last(local) THEN local ELSE Append(local, index)
        /\ UNCHANGED <<remote, index, edits, faults, version, pending, exports, pushed, items, todo>>
    BY DEF Commit, callers
  <1>2. History(local') /\ Last(local') = index
    BY <1>1, ToCommit, AppendTree DEF Inv
  <1>3. TypeOK'
    BY <1>1, <1>2 DEF Inv, TypeOK, History
  <1>4. History(remote)' /\ History(local)'
    BY <1>1, <1>2 DEF Inv, History, Bounded
  <1>5. Steps' /\ Arrived'
    BY <1>1, <1>2, ToCommit DEF Inv, Steps, Arrived
  <1> QED
    BY <1>3, <1>4, <1>5 DEF Inv

\* The remote takes a longer history: whatever had arrived is still there.
LEMMA ArrivedOnPush ==
    ASSUME Inv, IsPrefix(remote, local)
    PROVE  \A p \in RecordPath : pushed[p[1]] <= Last(local)[p]
  <1> SUFFICES ASSUME NEW p \in RecordPath PROVE pushed[p[1]] <= Last(local)[p]
    OBVIOUS
  <1>1. Last(remote)[p] <= Last(local)[p] /\ pushed[p[1]] <= Last(remote)[p]
    BY PrefixOlder DEF Inv, Older, Arrived
  <1>2. Last(remote)[p] \in Nat /\ Last(local)[p] \in Nat /\ pushed[p[1]] \in Nat
    BY LastTree, PathValue, Paths DEF Inv, TypeOK
  <1> QED
    BY <1>1, <1>2

LEMMA PushKept ==
    ASSUME Inv, Push \/ PushUnconfirmed
    PROVE  Inv'
  <1>1. /\ pc = "push" /\ pc' = "idle" /\ items' = {} /\ todo' = {}
        /\ IsPrefix(remote, local) /\ remote' = local /\ UNCHANGED <<local, index, edits, version, exports>>
        /\ faults' \in 0 .. MaxFaults
        /\ pending' \subseteq Audit
    BY DEF Push, PushUnconfirmed, Pushed, Succeed, Idle, NextFault, callers, Inv, TypeOK
  <1>2. pushed' \in [Record -> 0 .. MaxVersion]
        /\ \A r \in Record : pushed'[r] \in {pushed[r]} \cup {version[s] : s \in items \cap {r}}
    BY DEF Push, PushUnconfirmed, Succeed, callers, Inv, TypeOK
  <1>3. TypeOK'
    BY <1>1, <1>2 DEF Inv, TypeOK
  <1>4. History(remote)' /\ History(local)'
    BY <1>1 DEF Inv, History, Bounded
  <1>5. Arrived'
    <2> SUFFICES ASSUME NEW p \in RecordPath PROVE pushed'[p[1]] <= Last(local)[p]
      BY <1>1 DEF Arrived
    <2>1. p[1] \in Record /\ p[2] \in Part
      BY Paths
    <2>2. CASE pushed'[p[1]] = pushed[p[1]]
      BY <1>1, <2>2, ArrivedOnPush
    <2>3. CASE p[1] \in items /\ pushed'[p[1]] = version[p[1]]
      <3>1. p \in PathsOf(items)
        BY <2>1, <2>3 DEF RecordPath, PathsOf
      <3>2. Last(local)[p] = version[p[1]] /\ version[p[1]] \in Nat
        BY <1>1, <2>1, <3>1 DEF Inv, Steps, TypeOK
      <3> QED
        BY <2>3, <3>2
    <2> QED
      BY <1>2, <2>1, <2>2, <2>3
  <1>6. Steps'
    BY <1>1 DEF Steps
  <1> QED
    BY <1>3, <1>4, <1>5, <1>6 DEF Inv

LEMMA StopKept ==
    ASSUME Inv, Diverged \/ Abort
    PROVE  Inv'
  <1>1. /\ pc' = "idle" /\ items' = {} /\ todo' = {} /\ faults' \in 0 .. MaxFaults
        /\ UNCHANGED <<remote, local, index, edits, version, pending, exports, pushed>>
    BY DEF Diverged, Abort, Idle, NextFault, callers, git, Inv, TypeOK
  <1>2. TypeOK'
    BY <1>1 DEF Inv, TypeOK
  <1>3. History(remote)' /\ History(local)'
    BY <1>1 DEF Inv, History, Bounded
  <1>4. Steps' /\ Arrived'
    BY <1>1 DEF Inv, Steps, Arrived
  <1> QED
    BY <1>2, <1>3, <1>4 DEF Inv

LEMMA ForcePullKept ==
    ASSUME Inv, ForcePull
    PROVE  Inv'
  <1>1. /\ pc = "idle" /\ local' = remote /\ index' = Last(remote)
        /\ UNCHANGED <<remote, edits, faults, version, pending, exports, pushed, pc, items, todo>>
    BY DEF ForcePull, Forced, callers, command
  <1>2. TypeOK'
    BY <1>1, LastTree DEF Inv, TypeOK
  <1>3. History(remote)' /\ History(local)'
    BY <1>1 DEF Inv, History, Bounded
  <1>4. Steps' /\ Arrived'
    BY <1>1 DEF Inv, Steps, Arrived
  <1> QED
    BY <1>2, <1>3, <1>4 DEF Inv

\* An edit of the inventory leaves the records of a tree as they are.
LEMMA EditKept ==
    ASSUME NEW t \in Tree, NEW e \in 1 .. MaxEdits
    PROVE  LET u == [t EXCEPT ![Inventory] = e] IN
           u \in Tree /\ \A p \in RecordPath : u[p] = t[p]
  <1>1. \A p \in RecordPath : p # Inventory
    BY Paths
  <1>2. e \in 0 .. (MaxVersion + MaxEdits)
    OBVIOUS
  <1> QED
    BY <1>1, <1>2, Paths DEF Tree

LEMMA SameRecords ==
    ASSUME NEW h, History(h), NEW t \in Tree, \A p \in RecordPath : t[p] = Last(h)[p]
    PROVE  History(Append(h, t)) /\ Last(Append(h, t)) = t
  <1>1. Last(h) \in Tree /\ Whole(Last(h)) /\ Bounded(Last(h))
    BY LastTree
  <1>2. Whole(t) /\ Bounded(t)
    BY <1>1, Paths DEF Whole, Bounded, Part
  <1>3. Older(Last(h), t)
    BY <1>1, PathValue DEF Older
  <1> QED
    BY <1>2, <1>3, AppendTree

LEMMA OthersKept ==
    ASSUME Inv, OthersPush
    PROVE  Inv'
  <1> DEFINE t == [Last(remote) EXCEPT ![Inventory] = edits']
  <1>1. /\ edits' \in 1 .. MaxEdits /\ remote' = Append(remote, t)
        /\ UNCHANGED <<local, index, faults, version, pending, exports, pushed, pc, items, todo>>
    BY DEF OthersPush, NextEdit, callers, command, Inv, TypeOK
  <1>2. t \in Tree /\ \A p \in RecordPath : t[p] = Last(remote)[p]
    BY <1>1, LastTree, EditKept DEF Inv
  <1> HIDE DEF t
  <1>3. History(remote') /\ Last(remote') = t
    BY <1>1, <1>2, SameRecords DEF Inv
  <1>4. TypeOK'
    BY <1>1, <1>3 DEF Inv, TypeOK, History
  <1>5. History(remote)' /\ History(local)'
    BY <1>1, <1>3 DEF Inv, History, Bounded
  <1>6. Arrived'
    BY <1>1, <1>2, <1>3 DEF Inv, Arrived
  <1>7. Steps'
    BY <1>1 DEF Inv, Steps, Staged
  <1> QED
    BY <1>4, <1>5, <1>6, <1>7 DEF Inv

LEMMA OperatorKept ==
    ASSUME Inv, OperatorStages \/ OperatorCommits
    PROVE  Inv'
  <1>1. CASE OperatorStages
    <2>1. /\ pc = "idle" /\ edits' \in 1 .. MaxEdits
          /\ index' = [index EXCEPT ![Inventory] = edits']
          /\ UNCHANGED <<remote, local, faults, version, pending, exports, pushed, pc, items, todo>>
      BY <1>1 DEF OperatorStages, NextEdit, callers, command, Inv, TypeOK
    <2>2. index' \in Tree
      BY <2>1, EditKept DEF Inv, TypeOK
    <2>3. TypeOK'
      BY <2>1, <2>2 DEF Inv, TypeOK
    <2>4. History(remote)' /\ History(local)'
      BY <2>1 DEF Inv, History, Bounded
    <2>5. Steps' /\ Arrived'
      BY <2>1 DEF Inv, Steps, Arrived
    <2> QED
      BY <2>3, <2>4, <2>5 DEF Inv
  <1>2. CASE OperatorCommits
    <2>1. /\ pc = "idle" /\ local' = Append(local, index)
          /\ \A p \in RecordPath : index[p] = Last(local)[p]
          /\ UNCHANGED <<remote, index, edits, faults, version, pending, exports, pushed, pc, items, todo>>
      BY <1>2 DEF OperatorCommits, callers, command, RecordPath
    <2>2. History(local')
      BY <2>1, SameRecords DEF Inv, TypeOK
    <2>3. TypeOK'
      BY <2>1, <2>2 DEF Inv, TypeOK, History
    <2>4. History(remote)' /\ History(local)'
      BY <2>1, <2>2 DEF Inv, History, Bounded
    <2>5. Steps' /\ Arrived'
      BY <2>1 DEF Inv, Steps, Arrived
    <2> QED
      BY <2>3, <2>4, <2>5 DEF Inv
  <1> QED
    BY <1>1, <1>2

LEMMA NextKept == Inv /\ [Next]_vars => Inv'
  <1> SUFFICES ASSUME Inv, [Next]_vars PROVE Inv'
    OBVIOUS
  <1>1. ASSUME NEW r \in Record, StartCommit(r) PROVE Inv'
    <2>1. Begin(r) /\ pending' \subseteq Audit /\ exports' \subseteq Audit
      BY <1>1 DEF StartCommit, NewRecord, RetryRecord, BackupRun, Inv, TypeOK
    <2> QED
      BY <2>1, BeginKept
  <1>2. CASE CommitStep
    BY <1>2, PullKept, ResetKept, AddKept, CommitKept, PushKept, StopKept DEF CommitStep
  <1>3. CASE PushUnconfirmed
    BY <1>3, PushKept
  <1>4. CASE Abort
    BY <1>4, StopKept
  <1>5. CASE ForcePull
    BY <1>5, ForcePullKept
  <1>6. CASE OthersPush
    BY <1>6, OthersKept
  <1>7. CASE OperatorStages \/ OperatorCommits
    BY <1>7, OperatorKept
  <1>8. CASE UNCHANGED vars
    BY <1>8 DEF vars, git, callers, command, Inv, TypeOK, History, Bounded, Steps, Staged, Arrived
  <1> QED
    BY <1>1, <1>2, <1>3, <1>4, <1>5, <1>6, <1>7, <1>8 DEF Next

LEMMA Invariance == Spec => []Inv
  BY Initially, NextKept, PTL DEF Spec

(***************************************************************************)
(* Theorems.                                                               *)
(***************************************************************************)

\* Checkout, remote, callers and Commit keep their types (TypeOK).
THEOREM TypeCorrect == Spec => []TypeOK
  <1>1. Inv => TypeOK
    BY DEF Inv
  <1> QED
    BY <1>1, Invariance, PTL

\* What Commit has reported as pushed is on the remote for good (PushedStays).
THEOREM PushedRemains == Spec => []PushedStays
  <1>1. Inv => PushedStays
    <2> SUFFICES ASSUME Inv, NEW r \in Record, NEW p \in Part
                 PROVE  /\ Last(remote)[<<r, p>>] >= pushed[r]
                        /\ pushed[r] # 0 => Last(remote)[<<r, p>>] # 0
      BY DEF PushedStays
    <2>1. <<r, p>> \in RecordPath /\ <<r, p>>[1] = r
      BY Paths
    <2>2. pushed[r] <= Last(remote)[<<r, p>>]
      BY <2>1 DEF Inv, Arrived
    <2>3. pushed[r] \in Nat /\ Last(remote)[<<r, p>>] \in Nat
      BY <2>1, LastTree, PathValue DEF Inv, TypeOK
    <2> QED
      BY <2>2, <2>3
  <1> QED
    BY <1>1, Invariance, PTL

\* No commit on the remote has half a record (WholeRecords).
THEOREM RecordsWhole == Spec => []WholeRecords
  <1>1. Inv => WholeRecords
    BY DEF Inv, History, Whole, WholeRecords
  <1> QED
    BY <1>1, Invariance, PTL

\* A commit changes the paths of its items only (OwnPathsOnly).
THEOREM OnlyOwnPaths == Spec => OwnPathsOnly
  <1> DEFINE Own == Commit => \A p \in Path \ PathsOf(items) : Last(local')[p] = Last(local)[p]
  <1>1. ASSUME Inv, Commit
        PROVE  \A p \in Path \ PathsOf(items) : Last(local')[p] = Last(local)[p]
    <2>1. pc = "commit"
      BY <1>1 DEF Commit
    <2>2. Last(local') = index
      BY <1>1, <2>1, ToCommit, AppendTree DEF Commit, Inv
    <2> QED
      BY <1>1, <2>1, <2>2, ToCommit
  <1>2. Inv /\ [Next]_vars => [Own]_vars
    BY <1>1
  <1> QED
    BY <1>2, Invariance, PTL DEF Spec, OwnPathsOnly
=============================================================================
