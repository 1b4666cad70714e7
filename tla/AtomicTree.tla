----------------------------- MODULE AtomicTree -----------------------------
(***************************************************************************)
(* The version DAG as its readers may think of it: a table of nodes that   *)
(* grows by whole nodes, remembers one checkpoint and may return to it.    *)
(* There is no log, no child counter and no crash; the branch limit counts *)
(* the children that are really in the table.                              *)
(***************************************************************************)
EXTENDS Integers, FiniteSets

CONSTANTS None, MaxGen, BranchLimit, DepthLimit, Scores

VARIABLES
    nodes,   \* generation id -> node
    saved    \* the table at the last checkpoint, empty before the first

vars == <<nodes, saved>>

Init == nodes = <<>> /\ saved = <<>>

Extend(g, n) == [h \in DOMAIN nodes \cup {g} |-> IF h = g THEN n ELSE nodes[h]]

Parents(n) == {n.parents[i] : i \in DOMAIN n.parents}

ChildrenOf(p) == {h \in DOMAIN nodes : p \in Parents(nodes[h])}

Eligible(p) ==
    /\ p \in DOMAIN nodes
    /\ nodes[p].valid
    /\ nodes[p].depth < DepthLimit
    /\ Cardinality(ChildrenOf(p)) < BranchLimit

\* A whole node appears below eligible parents, one deeper than the deepest.
Add(g) ==
    /\ g \notin DOMAIN nodes
    /\ \E ps \in SUBSET DOMAIN nodes, v \in BOOLEAN, s \in Scores \cup {None} :
         /\ \A p \in ps : Eligible(p)
         /\ (ps = {}) <=> (g = 0)
         /\ g \in DOMAIN nodes'
         /\ nodes' = Extend(g, nodes'[g])
         /\ Parents(nodes'[g]) = ps
         /\ nodes'[g].valid = v /\ nodes'[g].score = s
         /\ IF ps = {} THEN nodes'[g].depth = 0
            ELSE /\ \A p \in ps : nodes[p].depth < nodes'[g].depth
                 /\ \E p \in ps : nodes'[g].depth = nodes[p].depth + 1
    /\ UNCHANGED saved

\* The record settled on a node after it was added.
Settle(g) ==
    /\ g \in DOMAIN nodes
    /\ nodes' = [nodes EXCEPT ![g].meta = TRUE]
    /\ UNCHANGED saved

Save == nodes # <<>> /\ saved' = nodes /\ UNCHANGED nodes

Return == saved # <<>> /\ nodes' = saved /\ UNCHANGED saved

Next ==
    \/ \E g \in 0..MaxGen : Add(g) \/ Settle(g)
    \/ Save \/ Return

Spec == Init /\ [][Next]_vars
=============================================================================
