----------------------------- MODULE TreeStore -----------------------------
(***************************************************************************)
(* One TreeStore (gan/framework/tree/store.py) with its append-only log.   *)
(*                                                                         *)
(* load() folds _apply over the lines of the file, so the file is          *)
(* represented by the tree that fold yields: appending event e to the file *)
(* is disk' = ApplyEvent(disk, e).  add_node is not one write: it appends  *)
(* an update for every parent and then the node itself, and the process    *)
(* may die between two appends.                                            *)
(***************************************************************************)
EXTENDS TreeOps

CONSTANTS
    MaxGen,        \* bound: generation ids are 0..MaxGen, 0 is the root
    BranchLimit,   \* tree.branch_limit
    DepthLimit,    \* tree.depth_limit
    NumParents,    \* tree.num_parents (k > 1: crossover)
    Methods,       \* tree.selection settings: "latest", "best", "ucb"
    Scores,        \* scores a benchmark may report
    MaxCrashes     \* bound on process deaths

ASSUME LimitsAssumption ==
    /\ MaxGen \in Nat /\ MaxCrashes \in Nat
    /\ BranchLimit \in Nat /\ DepthLimit \in Nat
    /\ NumParents \in Nat \ {0}
    /\ Methods \subseteq {"latest", "best", "ucb"}
    /\ Scores \subseteq Nat /\ None \notin Nat

Gens == 0..MaxGen

NodeType ==
    [parents : UNION {[1..m -> Gens] : m \in 0..NumParents},
     depth : Nat, children : Nat, valid : BOOLEAN,
     status : {"alive", "invalid"}, score : Scores \cup {None},
     meta : BOOLEAN]

\* The trees with these generations.
Trees(ids) == [nodes : [ids -> NodeType], order : Seq(Gens)]

\* A checkpoint that was never written is told from any tree.
ASSUME NoneAssumption == \A ids \in SUBSET Gens : None \notin Trees(ids)

VARIABLES
    up,       \* the process holding the store runs
    mem,      \* TreeStore.nodes / .order of that process
    disk,     \* the replay of tree.jsonl
    adding,   \* the add_node call in progress, or None
    snap,     \* the tree in the last checkpoint payload, or None
    crashes   \* process deaths so far

vars == <<up, mem, disk, adding, snap, crashes>>

NewNode(parents, valid, score) ==
    [parents |-> parents, depth |-> 0, children |-> 0, valid |-> valid,
     status |-> IF valid THEN "alive" ELSE "invalid", score |-> score,
     meta |-> FALSE]

Init ==
    /\ up = TRUE
    /\ mem = EmptyTree /\ disk = EmptyTree
    /\ adding = None /\ snap = None
    /\ crashes = 0

Idle == up /\ adding = None

(***************************************************************************)
(* add_node: register the child with every parent that is in the tree, one *)
(* append each, then compute the depth and append the node.                *)
(***************************************************************************)
BeginAdd(g, parents, n) ==
    adding' = [genid |-> g, node |-> n, todo |-> parents]

\* The root of an empty tree (the loop adds it when len(task_tree) = 0).
AddRoot ==
    /\ Idle /\ GenIds(mem) = {}
    /\ BeginAdd(0, <<>>, NewNode(<<>>, TRUE, None))
    /\ UNCHANGED <<up, mem, disk, snap, crashes>>

\* A child of selected parents under a fresh id: the loop's use of the store.
AddChild(g, valid, score) ==
    /\ Idle /\ g \notin GenIds(mem) /\ GenIds(mem) # {}
    /\ \E m \in Methods :
       \E ps \in SelectParents(mem, NumParents, BranchLimit, DepthLimit, m) :
         /\ ps # <<>>
         /\ BeginAdd(g, ps, NewNode(ps, valid, score))
    /\ UNCHANGED <<up, mem, disk, snap, crashes>>

RegisterParent ==
    /\ up /\ adding # None /\ adding.todo # <<>>
    /\ LET p == Head(adding.todo)
           n == mem.nodes[p].children + 1
       IN  IF p \in GenIds(mem)
           THEN /\ mem'  = SetFields(mem, p, [children |-> n])
                /\ disk' = ApplyEvent(disk, UpdateEvent(p, [children |-> n]))
           ELSE UNCHANGED <<mem, disk>>
    /\ adding' = [adding EXCEPT !.todo = Tail(@)]
    /\ UNCHANGED <<up, snap, crashes>>

FinishAdd ==
    /\ up /\ adding # None /\ adding.todo = <<>>
    /\ LET n == [adding.node EXCEPT !.depth =
                   DepthBelow(mem, {adding.node.parents[i] :
                                      i \in DOMAIN adding.node.parents})]
       IN  /\ mem'  = Put(mem, adding.genid, n)
           /\ disk' = ApplyEvent(disk, AddEvent(adding.genid, n))
    /\ adding' = None
    /\ UNCHANGED <<up, snap, crashes>>

\* update(genid, meta=...): what the loop settles on a node after adding it.
Update(g) ==
    /\ Idle
    /\ mem' = SetFields(mem, g, [meta |-> TRUE])
    /\ disk' = IF g \in GenIds(mem)
               THEN ApplyEvent(disk, UpdateEvent(g, [meta |-> TRUE]))
               ELSE disk
    /\ UNCHANGED <<up, adding, snap, crashes>>

(***************************************************************************)
(* Checkpointing: capture_trees lists the nodes in order; restore_trees    *)
(* appends one reset event and the store is loaded again.                  *)
(***************************************************************************)
Capture ==
    /\ Idle /\ GenIds(mem) # {}
    /\ snap' = mem
    /\ UNCHANGED <<up, mem, disk, adding, crashes>>

\* Mutant of Restore: fields are set back node by node, later nodes stay.
Restore_Merges ==
    /\ Idle /\ snap # None
    /\ disk' = [disk EXCEPT !.nodes =
                  [g \in GenIds(disk) |->
                     IF g \in GenIds(snap)
                     THEN [snap.nodes[g] EXCEPT !.children = disk.nodes[g].children]
                     ELSE disk.nodes[g]]]
    /\ mem' = disk'
    /\ UNCHANGED <<up, adding, snap, crashes>>

Restore ==
    /\ Idle /\ snap # None
    /\ disk' = ApplyEvent(disk, ResetEvent(snap))
    /\ mem' = disk'
    /\ UNCHANGED <<up, adding, snap, crashes>>

\* The process dies; only the file and the checkpoint survive.
Crash ==
    /\ up /\ crashes < MaxCrashes
    /\ up' = FALSE /\ mem' = EmptyTree /\ adding' = None
    /\ crashes' = crashes + 1
    /\ UNCHANGED <<disk, snap>>

\* A new process replays the file.
Load ==
    /\ ~up
    /\ up' = TRUE /\ mem' = disk
    /\ UNCHANGED <<disk, adding, snap, crashes>>

Next ==
    \/ AddRoot \/ RegisterParent \/ FinishAdd
    \/ \E g \in Gens, s \in Scores : AddChild(g, TRUE, s)
    \/ \E g \in Gens : AddChild(g, FALSE, None) \/ Update(g)
    \/ Capture \/ Restore \/ Crash \/ Load

Spec == Init /\ [][Next]_vars

-----------------------------------------------------------------------------
(***************************************************************************)
(* What the store promises its readers: adding a node is one atomic step   *)
(* on the table of nodes without their child counters.                     *)
(***************************************************************************)
Visible(t) ==
    [g \in GenIds(t) |->
        [f \in DOMAIN t.nodes[g] \ {"children"} |-> t.nodes[g][f]]]

Atomic == INSTANCE AtomicTree WITH
              nodes <- Visible(disk),
              saved <- IF snap = None THEN <<>> ELSE Visible(snap)

\* The log with its several appends per add_node, torn by crashes anywhere,
\* implements the atomic tree, whose limits count the real children.
ImplementsAtomicTree == Atomic!Spec

ParentSet(n) == {n.parents[i] : i \in DOMAIN n.parents}

TreeType(t) ==
    /\ GenIds(t) \subseteq Gens /\ t \in Trees(GenIds(t))
    /\ {t.order[i] : i \in DOMAIN t.order} = GenIds(t)
    /\ Len(t.order) = Cardinality(GenIds(t))

ActualChildren(t, g) == {h \in GenIds(t) : g \in ParentSet(t.nodes[h])}

\* Type invariant: tables hold nodes, and the order lists each id once.
TypeOK ==
    /\ up \in BOOLEAN /\ crashes \in 0..MaxCrashes
    /\ TreeType(mem) /\ TreeType(disk)
    /\ adding = None \/ adding.genid \in Gens
    /\ snap = None \/ TreeType(snap)

\* Between calls the replay of the log is the tree the process works on:
\* every mutation of add_node and update is logged with the value it set.
MemoryIsReplay == up /\ adding = None => mem = disk

WithinBranchLimit(t) ==
    \A g \in GenIds(t) :
        /\ Cardinality(ActualChildren(t, g)) <= t.nodes[g].children
        /\ Cardinality(ActualChildren(t, g)) <= BranchLimit

RootedDag(t) ==
    \A g \in GenIds(t) :
        LET n == t.nodes[g]
        IN  /\ n.depth <= DepthLimit
            /\ g = 0 <=> n.parents = <<>>
            /\ \A p \in ParentSet(n) :
                 /\ p \in GenIds(t)
                 /\ t.nodes[p].depth < n.depth
                 /\ t.nodes[p].valid

\* However the process dies and restarts, no node ever has more children than
\* branch_limit: the counter the selection reads never undercounts, because
\* parents are registered before the child is written.
BranchBound == WithinBranchLimit(disk)

\* The log always replays to a DAG rooted at "initial" that respects
\* depth_limit: the parents of a node are in the tree, strictly less deep,
\* and were valid.
LineageOK == RootedDag(disk)

\* The log is sound: after any crash it replays to the tree the process had,
\* the limits hold of the real children, and every lineage is a DAG of valid
\* nodes (store.py:54, 86; the parts above).
LogSound == TypeOK /\ MemoryIsReplay /\ BranchBound /\ LineageOK
=============================================================================
