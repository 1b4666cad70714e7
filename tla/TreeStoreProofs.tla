--------------------------- MODULE TreeStoreProofs ---------------------------
(***************************************************************************)
(* Theorems about TreeStore for every value of its constants: the log is   *)
(* sound whatever crash comes between two appends, and it implements the   *)
(* atomic tree.                                                            *)
(***************************************************************************)
EXTENDS TreeStore, Integers, FiniteSetTheorems, SequenceTheorems, WellFoundedInduction, TLAPS

\* A nonempty set of naturals has a least element.
LEMMA LeastNatural ==
    ASSUME NEW T, T \subseteq Nat, T # {}
    PROVE  \E x \in T : \A y \in T : x <= y
<1> DEFINE R == OpToRel(<, Nat)
<1>1. \A x, y \in Nat : y < x => <<y, x>> \in R
  BY DEF OpToRel
<1>2. IsWellFoundedOn(R, Nat)
  BY NatLessThanWellFounded
<1> HIDE DEF R
<1>3. PICK x \in T : \A y \in T : <<y, x>> \notin R
  BY <1>2, WFMin
<1>4. \A y \in T : x \in Nat /\ y \in Nat /\ ~(y < x)
  BY <1>3, <1>1
<1>5. \A y \in T : x <= y
  BY <1>4
<1> QED BY <1>5

\* A nonempty bounded set of naturals has a greatest element.
LEMMA GreatestNatural ==
    ASSUME NEW T, T \subseteq Nat, T # {}, NEW b \in Nat, \A x \in T : x <= b
    PROVE  \E x \in T : \A y \in T : y <= x
<1> DEFINE U == {b - x : x \in T}
<1>1. U # {} /\ \A u \in U : u \in Nat
  <2>1. \A x \in T : x \in Nat /\ b - x \in Nat
    OBVIOUS
  <2>2. U # {}
    OBVIOUS
  <2> QED BY <2>1, <2>2
<1>2. PICK u \in U : \A v \in U : u <= v
  <2> HIDE DEF U
  <2>1. U \subseteq Nat
    BY <1>1
  <2> QED BY <1>1, <2>1, LeastNatural
<1>3. PICK x \in T : u = b - x
  BY <1>2
<1>4. ASSUME NEW y \in T PROVE y <= x
  <2>1. u <= b - y
    BY <1>2
  <2> QED BY <2>1, <1>3
<1> QED BY <1>4

-----------------------------------------------------------------------------
(* The operators of TreeOps.                                               *)

\* The depth of a node is one below its deepest parent, 0 without parents.
LEMMA DepthOfChild ==
    ASSUME NEW t, NEW P, P \subseteq GenIds(t), NEW b \in Nat,
           \A p \in P : t.nodes[p].depth \in 0..b
    PROVE  /\ DepthBelow(t, P) \in Nat
           /\ P = {} => DepthBelow(t, P) = 0
           /\ \A p \in P : t.nodes[p].depth < DepthBelow(t, P)
           /\ P # {} => \E p \in P : DepthBelow(t, P) = t.nodes[p].depth + 1
<1> DEFINE depths == {t.nodes[p].depth : p \in P \cap GenIds(t)}
<1>1. depths = {t.nodes[p].depth : p \in P} /\ (depths = {} <=> P = {})
  OBVIOUS
<1>2. CASE P = {}
  BY <1>1, <1>2 DEF DepthBelow
<1>3. CASE P # {}
  <2> DEFINE m == CHOOSE d \in depths : \A e \in depths : e <= d
  <2>1. DepthBelow(t, P) = 1 + m
    BY <1>1, <1>3 DEF DepthBelow
  <2>2. depths \subseteq Nat /\ \A d \in depths : d <= b
    BY <1>1
  <2>3. \E d \in depths : \A e \in depths : e <= d
    <3> HIDE DEF depths
    <3> QED BY <1>1, <1>3, <2>2, GreatestNatural
  <2>4. m \in depths /\ \A e \in depths : e <= m
    <3> HIDE DEF depths
    <3> QED BY <2>3
  <2>5. PICK p \in P : m = t.nodes[p].depth
    BY <2>4
  <2>6. \A q \in P : t.nodes[q].depth <= m /\ t.nodes[q].depth \in Nat
    BY <1>1, <2>2, <2>4
  <2>7. m \in Nat
    BY <2>2, <2>4
  <2> HIDE DEF m
  <2> QED BY <1>3, <2>1, <2>5, <2>6, <2>7
<1> QED BY <1>2, <1>3

\* The shape of a tree, and the part of it that a sequence argument needs.
WellShaped(t) == GenIds(t) \subseteq Gens /\ t \in Trees(GenIds(t))

\* Logging the children counter changes that counter and nothing else.
LEMMA CounterStep ==
    ASSUME NEW t, WellShaped(t), NEW g \in GenIds(t), NEW k \in Nat,
           NEW u, u = SetFields(t, g, [children |-> k])
    PROVE  /\ GenIds(u) = GenIds(t) /\ u.order = t.order /\ WellShaped(u)
           /\ \A h \in GenIds(t) :
                u.nodes[h] = IF h = g THEN [t.nodes[g] EXCEPT !.children = k]
                             ELSE t.nodes[h]
<1> DEFINE n == [f \in DOMAIN t.nodes[g] |->
                   IF f \in {"children"} THEN k ELSE t.nodes[g][f]]
<1>1. t.nodes[g] \in NodeType /\ t.nodes \in [GenIds(t) -> NodeType]
      /\ t.order \in Seq(Gens)
  BY DEF WellShaped, Trees
<1>2. u = [nodes |-> [t.nodes EXCEPT ![g] = n], order |-> t.order]
  BY DEF SetFields
<1>3. n = [t.nodes[g] EXCEPT !.children = k] /\ n \in NodeType
  BY <1>1 DEF NodeType
<1> HIDE DEF n
<1>4. u.nodes = [t.nodes EXCEPT ![g] = n] /\ u.order = t.order
      /\ GenIds(u) = GenIds(t)
  BY <1>1, <1>2 DEF GenIds
<1>5. u.nodes \in [GenIds(t) -> NodeType]
  BY <1>1, <1>3, <1>4
<1>6. WellShaped(u)
  BY <1>1, <1>2, <1>4, <1>5 DEF WellShaped, Trees
<1> QED BY <1>1, <1>3, <1>4, <1>6

\* The same for the settled record of a node.
LEMMA MetaStep ==
    ASSUME NEW t, WellShaped(t), NEW g \in GenIds(t),
           NEW u, u = SetFields(t, g, [meta |-> TRUE])
    PROVE  /\ GenIds(u) = GenIds(t) /\ u.order = t.order /\ WellShaped(u)
           /\ \A h \in GenIds(t) :
                u.nodes[h] = IF h = g THEN [t.nodes[g] EXCEPT !.meta = TRUE]
                             ELSE t.nodes[h]
<1> DEFINE fields == [meta |-> TRUE]
           n == [f \in DOMAIN t.nodes[g] |->
                   IF f \in DOMAIN fields THEN fields[f] ELSE t.nodes[g][f]]
<1>1. t.nodes[g] \in NodeType /\ t.nodes \in [GenIds(t) -> NodeType]
      /\ t.order \in Seq(Gens)
  BY DEF WellShaped, Trees
<1>2. u = [nodes |-> [t.nodes EXCEPT ![g] = n], order |-> t.order]
  <2> HIDE DEF fields
  <2>1. u = SetFields(t, g, fields)
    BY DEF fields
  <2> QED BY <2>1 DEF SetFields
<1>3. n = [t.nodes[g] EXCEPT !.meta = TRUE] /\ n \in NodeType
  <2>1. DOMAIN fields = {"meta"} /\ fields["meta"] = TRUE
    OBVIOUS
  <2> HIDE DEF fields
  <2> QED BY <1>1, <2>1 DEF NodeType
<1> HIDE DEF n
<1>4. u.nodes = [t.nodes EXCEPT ![g] = n] /\ u.order = t.order
      /\ GenIds(u) = GenIds(t)
  BY <1>1, <1>2 DEF GenIds
<1>5. u.nodes \in [GenIds(t) -> NodeType]
  BY <1>1, <1>3, <1>4
<1>6. WellShaped(u)
  BY <1>1, <1>2, <1>4, <1>5 DEF WellShaped, Trees
<1> QED BY <1>1, <1>3, <1>4, <1>6

\* Adding a node keeps the others and lists the new one last.
LEMMA AddStep ==
    ASSUME NEW t, TreeType(t), NEW g \in Gens \ GenIds(t), NEW n \in NodeType,
           NEW u, u = Put(t, g, n)
    PROVE  /\ GenIds(u) = GenIds(t) \cup {g} /\ TreeType(u)
           /\ u.nodes[g] = n
           /\ \A h \in GenIds(t) : u.nodes[h] = t.nodes[h]
<1>1. /\ u.nodes = [h \in GenIds(t) \cup {g} |-> IF h = g THEN n ELSE t.nodes[h]]
      /\ u.order = Append(t.order, g)
      /\ u = [nodes |-> u.nodes, order |-> u.order]
  BY DEF Put
<1>2. GenIds(u) = GenIds(t) \cup {g}
  BY <1>1 DEF GenIds
<1>3. /\ t.nodes \in [GenIds(t) -> NodeType] /\ t.order \in Seq(Gens)
      /\ GenIds(t) \subseteq Gens
  BY DEF TreeType, Trees
<1>4. u.nodes \in [GenIds(u) -> NodeType] /\ u.order \in Seq(Gens)
  BY <1>1, <1>2, <1>3
<1>5. GenIds(u) \subseteq Gens /\ u \in Trees(GenIds(u))
  BY <1>1, <1>2, <1>3, <1>4 DEF Trees
<1>6. /\ Len(u.order) = Len(t.order) + 1
      /\ \A i \in DOMAIN t.order : u.order[i] = t.order[i]
      /\ u.order[Len(t.order) + 1] = g
      /\ DOMAIN t.order = 1..Len(t.order)
      /\ DOMAIN u.order = 1..(Len(t.order) + 1)
      /\ Len(t.order) \in Nat
  BY <1>1, <1>3
<1>7. {u.order[i] : i \in DOMAIN u.order} = {t.order[i] : i \in DOMAIN t.order} \cup {g}
  BY <1>6
<1>8. IsFiniteSet(GenIds(t)) /\ Cardinality(GenIds(u)) = Cardinality(GenIds(t)) + 1
  <2>1. IsFiniteSet(Gens)
    BY FS_Interval, LimitsAssumption DEF Gens
  <2>2. IsFiniteSet(GenIds(t))
    BY <1>3, <2>1, FS_Subset
  <2> QED BY <1>2, <2>2, FS_AddElement
<1>9. TreeType(u)
  BY <1>2, <1>5, <1>6, <1>7, <1>8 DEF TreeType
<1> QED BY <1>1, <1>2, <1>9
-----------------------------------------------------------------------------
(***************************************************************************)
(* The inductive invariant.  LogSound is not inductive: the children       *)
(* counters must hold of the checkpoint too, which a restore brings back,  *)
(* and while add_node is under way they must already count the child for   *)
(* every parent that is registered, and still leave room at the others.    *)
(***************************************************************************)

Counted(t) ==
    \A g \in GenIds(t) :
        /\ Cardinality(ActualChildren(t, g)) <= t.nodes[g].children
        /\ t.nodes[g].children <= BranchLimit

SoundTree(t) ==
    /\ TreeType(t)
    /\ Counted(t)
    /\ RootedDag(t)
    /\ GenIds(t) # {} => 0 \in GenIds(t)

Todo == {adding.todo[i] : i \in DOMAIN adding.todo}

\* What holds between the appends of one add_node.
AddUnderWay ==
    /\ adding \in [genid : Gens, node : NodeType, todo : Seq(Gens)]
    /\ adding.genid \notin GenIds(disk)
    /\ adding.genid = 0 <=> adding.node.parents = <<>>
    /\ GenIds(disk) = {} => adding.genid = 0
    /\ adding.node.children = 0
    /\ \A i, j \in 1..Len(adding.todo) : i # j => adding.todo[i] # adding.todo[j]
    /\ Todo \subseteq ParentSet(adding.node)
    /\ \A p \in ParentSet(adding.node) :
         /\ p \in GenIds(disk) /\ disk.nodes[p].valid
         /\ disk.nodes[p].depth < DepthLimit
         /\ p \in Todo => disk.nodes[p].children < BranchLimit
         /\ p \notin Todo =>
              Cardinality(ActualChildren(disk, p)) < disk.nodes[p].children

StoreInv ==
    /\ up \in BOOLEAN /\ crashes \in 0..MaxCrashes
    /\ SoundTree(disk)
    /\ up => mem = disk
    /\ ~up => mem = EmptyTree /\ adding = None
    /\ adding # None => AddUnderWay
    /\ snap # None => SoundTree(snap) /\ GenIds(snap) # {}

\* The children of a generation are finitely many.
LEMMA ChildrenFinite ==
    ASSUME NEW t, GenIds(t) \subseteq Gens, NEW g
    PROVE  /\ IsFiniteSet(ActualChildren(t, g))
           /\ Cardinality(ActualChildren(t, g)) \in Nat
<1>1. IsFiniteSet(Gens)
  BY FS_Interval, LimitsAssumption DEF Gens
<1>2. ActualChildren(t, g) \subseteq Gens
  BY DEF ActualChildren
<1>3. IsFiniteSet(ActualChildren(t, g))
  BY <1>1, <1>2, FS_Subset
<1> QED BY <1>3, FS_CardinalityType

\* The empty tree is sound.
LEMMA EmptySound == SoundTree(EmptyTree)
<1>1. GenIds(EmptyTree) = {} /\ EmptyTree.order = <<>>
  BY DEF GenIds, EmptyTree
<1>2. EmptyTree.nodes \in [{} -> NodeType]
  BY DEF EmptyTree
<1>3. EmptyTree \in Trees({})
  BY <1>1, <1>2 DEF Trees, EmptyTree
<1>4. Cardinality({}) = 0 /\ Len(<<>>) = 0
  BY FS_EmptySet
<1>5. TreeType(EmptyTree)
  BY <1>1, <1>3, <1>4 DEF TreeType
<1> QED BY <1>1, <1>5 DEF SoundTree, Counted, RootedDag

\* Whatever is logged of a node but its parents, depth, validity and counter
\* leaves a sound tree sound; the counter may grow up to the limit.
LEMMA UpdateSound ==
    ASSUME NEW t, SoundTree(t), NEW u, WellShaped(u),
           GenIds(u) = GenIds(t), u.order = t.order,
           \A h \in GenIds(t) :
              /\ u.nodes[h].parents = t.nodes[h].parents
              /\ u.nodes[h].depth = t.nodes[h].depth
              /\ u.nodes[h].valid = t.nodes[h].valid
              /\ t.nodes[h].children <= u.nodes[h].children
              /\ u.nodes[h].children <= BranchLimit
    PROVE  /\ SoundTree(u)
           /\ \A g : ActualChildren(u, g) = ActualChildren(t, g)
<1>1. \A g : ActualChildren(u, g) = ActualChildren(t, g)
  BY DEF ActualChildren, ParentSet
<1>2. TreeType(u)
  BY DEF SoundTree, TreeType, WellShaped
<1>3. Counted(u)
  <2> SUFFICES ASSUME NEW g \in GenIds(u)
               PROVE  /\ Cardinality(ActualChildren(u, g)) <= u.nodes[g].children
                      /\ u.nodes[g].children <= BranchLimit
    BY DEF Counted
  <2>1. Cardinality(ActualChildren(t, g)) \in Nat
    BY ChildrenFinite DEF SoundTree, TreeType
  <2>2. t.nodes[g].children \in Nat /\ u.nodes[g].children \in Nat
    BY DEF SoundTree, TreeType, WellShaped, Trees, NodeType
  <2> QED BY <1>1, <2>1, <2>2 DEF SoundTree, Counted
<1>4. RootedDag(u)
  BY DEF SoundTree, RootedDag, ParentSet
<1> QED BY <1>1, <1>2, <1>3, <1>4 DEF SoundTree

\* A new node below parents with room keeps the tree sound.
LEMMA AddSound ==
    ASSUME NEW t, SoundTree(t), NEW g \in Gens \ GenIds(t), NEW n \in NodeType,
           g = 0 <=> n.parents = <<>>, GenIds(t) = {} => g = 0,
           n.children = 0, n.depth <= DepthLimit,
           \A p \in ParentSet(n) :
              /\ p \in GenIds(t) /\ t.nodes[p].valid
              /\ t.nodes[p].depth < n.depth
              /\ Cardinality(ActualChildren(t, p)) < t.nodes[p].children,
           NEW u, u = Put(t, g, n)
    PROVE  SoundTree(u)
<1>1. /\ GenIds(u) = GenIds(t) \cup {g} /\ TreeType(u)
      /\ u.nodes[g] = n
      /\ \A h \in GenIds(t) : u.nodes[h] = t.nodes[h]
  BY AddStep DEF SoundTree
<1>2. \A p : ActualChildren(u, p) = IF p \in ParentSet(n)
                                    THEN ActualChildren(t, p) \cup {g}
                                    ELSE ActualChildren(t, p)
  BY <1>1 DEF ActualChildren
<1>3. \A p : /\ IsFiniteSet(ActualChildren(t, p))
             /\ Cardinality(ActualChildren(t, p)) \in Nat
             /\ Cardinality(ActualChildren(t, p) \cup {g})
                  = Cardinality(ActualChildren(t, p)) + 1
  <2> TAKE p
  <2>1. IsFiniteSet(ActualChildren(t, p)) /\ Cardinality(ActualChildren(t, p)) \in Nat
    BY ChildrenFinite DEF SoundTree, TreeType
  <2>2. g \notin ActualChildren(t, p)
    BY DEF ActualChildren
  <2> QED BY <2>1, <2>2, FS_AddElement
<1>4. ActualChildren(u, g) = {}
  <2>1. g \notin ParentSet(n)
    OBVIOUS
  <2>2. \A h \in GenIds(t) : g \notin ParentSet(t.nodes[h])
    BY DEF SoundTree, RootedDag
  <2> QED BY <1>1, <2>1, <2>2 DEF ActualChildren
<1>5. Counted(u)
  <2> SUFFICES ASSUME NEW p \in GenIds(u)
               PROVE  /\ Cardinality(ActualChildren(u, p)) <= u.nodes[p].children
                      /\ u.nodes[p].children <= BranchLimit
    BY DEF Counted
  <2>1. CASE p = g
    <3>1. Cardinality(ActualChildren(u, p)) = 0
      BY <1>4, <2>1, FS_EmptySet
    <3>2. u.nodes[p].children = 0
      BY <1>1, <2>1
    <3> QED BY <3>1, <3>2, LimitsAssumption
  <2>2. CASE p \in GenIds(t)
    <3>1. u.nodes[p] = t.nodes[p] /\ t.nodes[p].children \in Nat
      BY <1>1, <2>2 DEF SoundTree, TreeType, Trees, NodeType
    <3>2. /\ Cardinality(ActualChildren(t, p)) <= t.nodes[p].children
          /\ t.nodes[p].children <= BranchLimit
      BY <2>2 DEF SoundTree, Counted
    <3>3. CASE p \in ParentSet(n)
      <4>1. Cardinality(ActualChildren(u, p)) = Cardinality(ActualChildren(t, p)) + 1
        BY <1>2, <1>3, <3>3
      <4>2. Cardinality(ActualChildren(t, p)) < t.nodes[p].children
        BY <3>3
      <4> QED BY <1>3, <3>1, <3>2, <4>1, <4>2
    <3>4. CASE p \notin ParentSet(n)
      BY <1>2, <3>1, <3>2, <3>4
    <3> QED BY <3>3, <3>4
  <2> QED BY <1>1, <2>1, <2>2
<1>6. RootedDag(u)
  <2> SUFFICES ASSUME NEW h \in GenIds(u)
               PROVE  /\ u.nodes[h].depth <= DepthLimit
                      /\ h = 0 <=> u.nodes[h].parents = <<>>
                      /\ \A p \in ParentSet(u.nodes[h]) :
                           /\ p \in GenIds(u)
                           /\ u.nodes[p].depth < u.nodes[h].depth
                           /\ u.nodes[p].valid
    BY DEF RootedDag
  <2>1. CASE h = g
    BY <1>1, <2>1
  <2>2. CASE h \in GenIds(t)
    <3>1. /\ t.nodes[h].depth <= DepthLimit
          /\ h = 0 <=> t.nodes[h].parents = <<>>
          /\ \A p \in ParentSet(t.nodes[h]) :
               /\ p \in GenIds(t)
               /\ t.nodes[p].depth < t.nodes[h].depth
               /\ t.nodes[p].valid
      BY <2>2 DEF SoundTree, RootedDag
    <3> QED BY <1>1, <2>2, <3>1
  <2> QED BY <1>1, <2>1, <2>2
<1>7. 0 \in GenIds(u)
  BY <1>1 DEF SoundTree
<1> QED BY <1>1, <1>5, <1>6, <1>7 DEF SoundTree

\* Selected parents are distinct candidates of the tree.
LEMMA SelectedParents ==
    ASSUME NEW t, TreeType(t), NEW m,
           NEW ps \in SelectParents(t, NumParents, BranchLimit, DepthLimit, m)
    PROVE  /\ ps \in UNION {[1..k -> Gens] : k \in 0..NumParents}
           /\ ps \in Seq(Gens)
           /\ \A i, j \in 1..Len(ps) : i # j => ps[i] # ps[j]
           /\ \A i \in DOMAIN ps : ps[i] \in Candidates(t, BranchLimit, DepthLimit)
<1> DEFINE C == Candidates(t, BranchLimit, DepthLimit)
<1>1. C \subseteq Gens
  BY DEF Candidates, TreeType
<1>2. /\ ps \in UNION {[1..k -> C] : k \in 0..NumParents}
      /\ \A i, j \in DOMAIN ps : i < j => ps[i] # ps[j]
  BY DEF SelectParents
<1> HIDE DEF C
<1>3. PICK k \in 0..NumParents : ps \in [1..k -> C]
  BY <1>2
<1>4. k \in Nat /\ ps \in [1..k -> Gens] /\ DOMAIN ps = 1..k
  BY <1>1, <1>3, LimitsAssumption
<1>5. ps \in Seq(Gens) /\ Len(ps) = k
  BY <1>4
<1>6. \A i, j \in 1..k : i # j => ps[i] # ps[j]
  <2> SUFFICES ASSUME NEW i \in 1..k, NEW j \in 1..k, i # j PROVE ps[i] # ps[j]
    OBVIOUS
  <2>1. i < j \/ j < i
    BY <1>4
  <2> QED BY <1>2, <1>4, <2>1
<1> QED BY <1>3, <1>4, <1>5, <1>6 DEF C

\* An add_node call starts with every parent still to be registered.
LEMMA BeginStep ==
    ASSUME StoreInv, Idle, NEW g \in Gens \ GenIds(mem), NEW ps,
           ps \in UNION {[1..k -> Gens] : k \in 0..NumParents},
           ps \in Seq(Gens),
           \A i, j \in 1..Len(ps) : i # j => ps[i] # ps[j],
           \A i \in DOMAIN ps : ps[i] \in Candidates(mem, BranchLimit, DepthLimit),
           g = 0 <=> ps = <<>>, GenIds(mem) = {} => g = 0,
           NEW v \in BOOLEAN, NEW s \in Scores \cup {None},
           BeginAdd(g, ps, NewNode(ps, v, s)),
           UNCHANGED <<up, mem, disk, snap, crashes>>
    PROVE  StoreInv'
<1>1. mem = disk /\ SoundTree(disk) /\ up
  BY DEF StoreInv, Idle
<1>2. NewNode(ps, v, s) \in NodeType
  BY DEF NewNode, NodeType
<1>3. adding' = [genid |-> g, node |-> NewNode(ps, v, s), todo |-> ps]
  BY DEF BeginAdd
<1>4. /\ adding'.genid = g /\ adding'.todo = ps
      /\ adding'.node = NewNode(ps, v, s)
      /\ adding'.node.parents = ps /\ adding'.node.children = 0
      /\ adding' \in [genid : Gens, node : NodeType, todo : Seq(Gens)]
  BY <1>2, <1>3 DEF NewNode
<1>5. Todo' = ParentSet(adding'.node)
  BY <1>4 DEF Todo, ParentSet
<1>6. \A p \in ParentSet(adding'.node) :
        /\ p \in GenIds(disk) /\ disk.nodes[p].valid
        /\ disk.nodes[p].depth < DepthLimit
        /\ disk.nodes[p].children < BranchLimit
  BY <1>1, <1>4 DEF ParentSet, Candidates, IsCandidate
<1>7. AddUnderWay'
  BY <1>1, <1>4, <1>5, <1>6 DEF AddUnderWay
<1> QED BY <1>1, <1>7 DEF StoreInv

LEMMA AddRootStep == StoreInv /\ AddRoot => StoreInv'
<1> SUFFICES ASSUME StoreInv, AddRoot PROVE StoreInv'
  OBVIOUS
<1>1. 0 \in Gens \ GenIds(mem)
  BY LimitsAssumption DEF AddRoot, Gens
<1>2. /\ <<>> \in Seq(Gens) /\ Len(<<>>) = 0 /\ DOMAIN <<>> = {}
      /\ <<>> \in UNION {[1..k -> Gens] : k \in 0..NumParents}
  <2>1. <<>> \in [1..0 -> Gens] /\ 0 \in 0..NumParents
    BY LimitsAssumption
  <2> QED BY <2>1
<1>3. \A i, j \in 1..Len(<<>>) : i # j => <<>>[i] # <<>>[j]
  BY <1>2
<1>4. \A i \in DOMAIN <<>> : <<>>[i] \in Candidates(mem, BranchLimit, DepthLimit)
  BY <1>2
<1>5. /\ Idle /\ BeginAdd(0, <<>>, NewNode(<<>>, TRUE, None))
      /\ UNCHANGED <<up, mem, disk, snap, crashes>>
  BY DEF AddRoot
<1>6. TRUE \in BOOLEAN /\ None \in Scores \cup {None}
  OBVIOUS
<1> QED BY <1>1, <1>2, <1>3, <1>4, <1>5, <1>6, BeginStep

LEMMA AddChildStep ==
    ASSUME StoreInv, NEW g \in Gens, NEW v \in BOOLEAN, NEW s \in Scores \cup {None},
           AddChild(g, v, s)
    PROVE  StoreInv'
<1>1. PICK m \in Methods :
        \E ps \in SelectParents(mem, NumParents, BranchLimit, DepthLimit, m) :
           ps # <<>> /\ BeginAdd(g, ps, NewNode(ps, v, s))
  BY DEF AddChild
<1>2. PICK ps \in SelectParents(mem, NumParents, BranchLimit, DepthLimit, m) :
        ps # <<>> /\ BeginAdd(g, ps, NewNode(ps, v, s))
  BY <1>1
<1>3. Idle /\ mem = disk /\ g \notin GenIds(mem) /\ GenIds(mem) # {}
      /\ UNCHANGED <<up, mem, disk, snap, crashes>>
  BY DEF AddChild, StoreInv, Idle
<1>4. g # 0
  BY <1>3 DEF StoreInv, SoundTree
<1>5. TreeType(mem)
  BY <1>3 DEF StoreInv, SoundTree
<1> QED BY <1>2, <1>3, <1>4, <1>5, SelectedParents, BeginStep

\* A sequence without repetitions loses exactly its head.
LEMMA TailWithoutHead ==
    ASSUME NEW S, NEW s \in Seq(S), s # <<>>,
           \A i, j \in 1..Len(s) : i # j => s[i] # s[j]
    PROVE  /\ Tail(s) \in Seq(S) /\ Head(s) \in {s[i] : i \in DOMAIN s}
           /\ \A i, j \in 1..Len(Tail(s)) : i # j => Tail(s)[i] # Tail(s)[j]
           /\ {Tail(s)[i] : i \in DOMAIN Tail(s)} = {s[i] : i \in DOMAIN s} \ {Head(s)}
<1>1. /\ Len(s) \in Nat \ {0} /\ DOMAIN s = 1..Len(s) /\ Head(s) = s[1]
      /\ Tail(s) \in Seq(S) /\ Len(Tail(s)) = Len(s) - 1
      /\ DOMAIN Tail(s) = 1..(Len(s) - 1)
      /\ \A i \in 1..(Len(s) - 1) : Tail(s)[i] = s[i + 1]
  OBVIOUS
<1>2. \A i, j \in 1..Len(Tail(s)) : i # j => Tail(s)[i] # Tail(s)[j]
  <2> SUFFICES ASSUME NEW i \in 1..(Len(s) - 1), NEW j \in 1..(Len(s) - 1), i # j
               PROVE  Tail(s)[i] # Tail(s)[j]
    BY <1>1
  <2>1. i + 1 \in 1..Len(s) /\ j + 1 \in 1..Len(s) /\ i + 1 # j + 1
    BY <1>1
  <2> QED BY <1>1, <2>1
<1>3. ASSUME NEW x \in {Tail(s)[i] : i \in DOMAIN Tail(s)}
      PROVE  x \in {s[i] : i \in DOMAIN s} \ {Head(s)}
  <2>1. PICK i \in 1..(Len(s) - 1) : x = s[i + 1]
    BY <1>1
  <2>2. i + 1 \in 1..Len(s) /\ 1 \in 1..Len(s) /\ i + 1 # 1
    BY <1>1
  <2> QED BY <1>1, <2>1, <2>2
<1>4. ASSUME NEW x \in {s[i] : i \in DOMAIN s} \ {Head(s)}
      PROVE  x \in {Tail(s)[i] : i \in DOMAIN Tail(s)}
  <2>1. PICK i \in 1..Len(s) : x = s[i]
    BY <1>1
  <2>2. i - 1 \in 1..(Len(s) - 1) /\ (i - 1) + 1 = i
    BY <1>1, <2>1
  <2>3. Tail(s)[i - 1] = x
    BY <1>1, <2>1, <2>2
  <2> QED BY <1>1, <2>2, <2>3
<1> QED BY <1>1, <1>2, <1>3, <1>4

\* What registering the next parent does, in memory and in the log.
LEMMA RegisterEffect ==
    ASSUME StoreInv, RegisterParent
    PROVE  LET p == Head(adding.todo)
               k == disk.nodes[p].children + 1
           IN  /\ p \in Todo /\ p \in GenIds(disk)
               /\ k \in Nat /\ k <= BranchLimit
               /\ disk' = SetFields(disk, p, [children |-> k]) /\ mem' = disk'
<1> DEFINE p == Head(adding.todo)
           k == disk.nodes[p].children + 1
<1>1. up /\ adding # None /\ adding.todo # <<>> /\ mem = disk /\ AddUnderWay
      /\ SoundTree(disk)
  BY DEF RegisterParent, StoreInv
<1>2. p \in Todo
  BY <1>1, TailWithoutHead DEF AddUnderWay, Todo
<1>3. p \in GenIds(disk) /\ disk.nodes[p].children < BranchLimit
  BY <1>1, <1>2 DEF AddUnderWay
<1>4. disk.nodes[p].children \in Nat
  BY <1>1, <1>3 DEF SoundTree, TreeType, Trees, NodeType
<1>5. /\ mem' = SetFields(mem, p, [children |-> k])
      /\ disk' = ApplyEvent(disk, UpdateEvent(p, [children |-> k]))
  BY <1>1, <1>3 DEF RegisterParent
<1>6. ApplyEvent(disk, UpdateEvent(p, [children |-> k]))
        = SetFields(disk, p, [children |-> k])
  BY DEF ApplyEvent, UpdateEvent
<1> QED BY <1>1, <1>2, <1>3, <1>4, <1>5, <1>6, LimitsAssumption

LEMMA RegisterParentStep == StoreInv /\ RegisterParent => StoreInv'
<1> SUFFICES ASSUME StoreInv, RegisterParent PROVE StoreInv'
  OBVIOUS
<1> DEFINE p == Head(adding.todo)
           k == disk.nodes[p].children + 1
<1>1. /\ p \in Todo /\ p \in GenIds(disk)
      /\ k \in Nat /\ k <= BranchLimit
      /\ disk' = SetFields(disk, p, [children |-> k]) /\ mem' = disk'
  BY RegisterEffect
<1>2. /\ adding # None /\ adding.todo # <<>> /\ up /\ AddUnderWay /\ SoundTree(disk)
      /\ adding' = [adding EXCEPT !.todo = Tail(adding.todo)]
      /\ UNCHANGED <<up, snap, crashes>>
  BY DEF RegisterParent, StoreInv
<1>3. WellShaped(disk)
  BY <1>2 DEF SoundTree, TreeType, WellShaped
<1>4. /\ GenIds(disk') = GenIds(disk) /\ disk'.order = disk.order /\ WellShaped(disk')
      /\ \A h \in GenIds(disk) :
           disk'.nodes[h] = IF h = p THEN [disk.nodes[p] EXCEPT !.children = k]
                            ELSE disk.nodes[h]
  BY <1>1, <1>3, CounterStep
<1>5. \A h \in GenIds(disk) :
        /\ disk.nodes[h] \in NodeType /\ disk.nodes[h].children <= BranchLimit
        /\ disk.nodes[h].children \in Nat
  BY <1>2 DEF SoundTree, TreeType, Trees, NodeType, Counted
<1>6. \A h \in GenIds(disk) :
        /\ disk'.nodes[h].parents = disk.nodes[h].parents
        /\ disk'.nodes[h].depth = disk.nodes[h].depth
        /\ disk'.nodes[h].valid = disk.nodes[h].valid
        /\ disk'.nodes[h].children = IF h = p THEN k ELSE disk.nodes[h].children
  <2> SUFFICES ASSUME NEW h \in GenIds(disk)
               PROVE  /\ disk'.nodes[h].parents = disk.nodes[h].parents
                      /\ disk'.nodes[h].depth = disk.nodes[h].depth
                      /\ disk'.nodes[h].valid = disk.nodes[h].valid
                      /\ disk'.nodes[h].children = IF h = p THEN k ELSE disk.nodes[h].children
    OBVIOUS
  <2> HIDE DEF p, k
  <2>1. CASE h = p
    BY <1>4, <1>5, <2>1 DEF NodeType
  <2>2. CASE h # p
    BY <1>4, <2>2
  <2> QED BY <2>1, <2>2
<1> HIDE DEF p
<1>7. /\ SoundTree(disk')
      /\ \A g : ActualChildren(disk', g) = ActualChildren(disk, g)
  <2>1. \A h \in GenIds(disk) : /\ disk.nodes[h].children <= disk'.nodes[h].children
                                /\ disk'.nodes[h].children <= BranchLimit
    BY <1>1, <1>5, <1>6, LimitsAssumption
  <2> QED BY <1>2, <1>4, <1>6, <2>1, UpdateSound
<1>8. /\ adding' \in [genid : Gens, node : NodeType, todo : Seq(Gens)]
      /\ adding'.genid = adding.genid /\ adding'.node = adding.node
      /\ adding'.todo = Tail(adding.todo)
  BY <1>2, TailWithoutHead DEF AddUnderWay
<1>9. /\ \A i, j \in 1..Len(adding'.todo) : i # j => adding'.todo[i] # adding'.todo[j]
      /\ Todo' = Todo \ {p}
  <2>1. /\ adding.todo \in Seq(Gens) /\ adding.todo # <<>>
        /\ \A i, j \in 1..Len(adding.todo) : i # j => adding.todo[i] # adding.todo[j]
    BY <1>2 DEF AddUnderWay
  <2>2. /\ \A i, j \in 1..Len(Tail(adding.todo)) :
             i # j => Tail(adding.todo)[i] # Tail(adding.todo)[j]
        /\ {Tail(adding.todo)[i] : i \in DOMAIN Tail(adding.todo)} = Todo \ {p}
    BY <2>1, TailWithoutHead DEF Todo, p
  <2>3. Todo' = {Tail(adding.todo)[i] : i \in DOMAIN Tail(adding.todo)}
    BY <1>8 DEF Todo
  <2> QED BY <1>8, <2>2, <2>3
<1>10. ASSUME NEW q \in ParentSet(adding'.node)
       PROVE  /\ q \in GenIds(disk') /\ disk'.nodes[q].valid
              /\ disk'.nodes[q].depth < DepthLimit
              /\ q \in Todo' => disk'.nodes[q].children < BranchLimit
              /\ q \notin Todo' =>
                   Cardinality(ActualChildren(disk', q)) < disk'.nodes[q].children
  <2>1. /\ q \in GenIds(disk) /\ disk.nodes[q].valid
        /\ disk.nodes[q].depth < DepthLimit
        /\ q \in Todo => disk.nodes[q].children < BranchLimit
        /\ q \notin Todo =>
             Cardinality(ActualChildren(disk, q)) < disk.nodes[q].children
    BY <1>2, <1>8 DEF AddUnderWay
  <2>2. CASE q = p
    <3>1. Cardinality(ActualChildren(disk, q)) <= disk.nodes[q].children
      BY <1>2, <2>1 DEF SoundTree, Counted
    <3>2. Cardinality(ActualChildren(disk, q)) \in Nat /\ disk.nodes[q].children \in Nat
      BY <1>2, <1>5, <2>1, ChildrenFinite DEF SoundTree, TreeType
    <3>3. Cardinality(ActualChildren(disk', q)) < disk'.nodes[q].children
      BY <1>6, <1>7, <2>1, <2>2, <3>1, <3>2
    <3> QED BY <1>4, <1>6, <1>9, <2>1, <2>2, <3>3
  <2>3. CASE q # p
    BY <1>4, <1>6, <1>7, <1>9, <2>1, <2>3
  <2> QED BY <2>2, <2>3
<1>11. AddUnderWay'
  BY <1>2, <1>4, <1>8, <1>9, <1>10 DEF AddUnderWay
<1> QED BY <1>1, <1>2, <1>7, <1>11 DEF StoreInv

\* What writing the node does: every parent of it is registered.
LEMMA FinishEffect ==
    ASSUME StoreInv, FinishAdd
    PROVE  LET n == [adding.node EXCEPT !.depth = DepthBelow(disk, ParentSet(adding.node))]
           IN  /\ n \in NodeType /\ adding.genid \in Gens \ GenIds(disk)
               /\ adding.genid = 0 <=> n.parents = <<>>
               /\ GenIds(disk) = {} => adding.genid = 0
               /\ n.children = 0 /\ n.depth <= DepthLimit
               /\ \A f \in {"parents", "valid", "score", "status", "meta"} :
                    n[f] = adding.node[f]
               /\ ParentSet(n) = ParentSet(adding.node)
               /\ ParentSet(n) = {} => n.depth = 0
               /\ ParentSet(n) # {} =>
                    \E p \in ParentSet(n) : n.depth = disk.nodes[p].depth + 1
               /\ \A p \in ParentSet(n) :
                    /\ p \in GenIds(disk) /\ disk.nodes[p].valid
                    /\ disk.nodes[p].depth < n.depth /\ disk.nodes[p].depth < DepthLimit
                    /\ Cardinality(ActualChildren(disk, p)) < disk.nodes[p].children
               /\ disk' = Put(disk, adding.genid, n) /\ mem' = disk'
<1> DEFINE P == ParentSet(adding.node)
           d == DepthBelow(disk, P)
           n == [adding.node EXCEPT !.depth = d]
<1>1. up /\ adding # None /\ adding.todo = <<>> /\ mem = disk /\ AddUnderWay
      /\ SoundTree(disk)
  BY DEF FinishAdd, StoreInv
<1>2. Todo = {}
  BY <1>1 DEF Todo
<1>3. \A p \in P :
        /\ p \in GenIds(disk) /\ disk.nodes[p].valid
        /\ disk.nodes[p].depth < DepthLimit
        /\ Cardinality(ActualChildren(disk, p)) < disk.nodes[p].children
  BY <1>1, <1>2 DEF AddUnderWay
<1>4. \A p \in P : disk.nodes[p].depth \in Nat
  BY <1>1, <1>3 DEF SoundTree, TreeType, Trees, NodeType
<1>5. /\ d \in Nat
      /\ P = {} => d = 0
      /\ \A p \in P : disk.nodes[p].depth < d
      /\ P # {} => \E p \in P : d = disk.nodes[p].depth + 1
  <2>1. P \subseteq GenIds(disk)
    BY <1>3
  <2>2. \A p \in P : disk.nodes[p].depth \in 0..DepthLimit
    BY <1>3, <1>4, LimitsAssumption
  <2> HIDE DEF P
  <2> QED BY <2>1, <2>2, DepthOfChild, LimitsAssumption
<1> HIDE DEF d
<1>6. d <= DepthLimit
  BY <1>3, <1>4, <1>5, LimitsAssumption
<1>7. adding.node \in NodeType
  BY <1>1 DEF AddUnderWay
<1>8. /\ n \in NodeType /\ n.depth = d /\ n.children = adding.node.children
      /\ n.parents = adding.node.parents
      /\ \A f \in {"parents", "valid", "score", "status", "meta"} : n[f] = adding.node[f]
  BY <1>5, <1>7 DEF NodeType
<1>9. ParentSet(n) = P
  BY <1>8 DEF ParentSet
<1>10. disk' = Put(disk, adding.genid, n) /\ mem' = disk'
  <2>1. /\ mem' = Put(mem, adding.genid, n)
        /\ disk' = ApplyEvent(disk, AddEvent(adding.genid, n))
    BY <1>1 DEF FinishAdd, d, ParentSet
  <2>2. ApplyEvent(disk, AddEvent(adding.genid, n)) = Put(disk, adding.genid, n)
    BY DEF ApplyEvent, AddEvent
  <2> QED BY <1>1, <2>1, <2>2
<1>11. /\ adding.genid \in Gens \ GenIds(disk)
       /\ adding.genid = 0 <=> adding.node.parents = <<>>
       /\ GenIds(disk) = {} => adding.genid = 0
       /\ adding.node.children = 0
  BY <1>1 DEF AddUnderWay
<1> HIDE DEF n, P
<1>12. /\ n \in NodeType /\ adding.genid \in Gens \ GenIds(disk)
       /\ adding.genid = 0 <=> n.parents = <<>>
       /\ GenIds(disk) = {} => adding.genid = 0
       /\ n.children = 0 /\ n.depth <= DepthLimit
  BY <1>6, <1>8, <1>11
<1>13. /\ ParentSet(n) = {} => n.depth = 0
       /\ ParentSet(n) # {} =>
            \E p \in ParentSet(n) : n.depth = disk.nodes[p].depth + 1
       /\ \A p \in ParentSet(n) :
            /\ p \in GenIds(disk) /\ disk.nodes[p].valid
            /\ disk.nodes[p].depth < n.depth /\ disk.nodes[p].depth < DepthLimit
            /\ Cardinality(ActualChildren(disk, p)) < disk.nodes[p].children
  BY <1>3, <1>5, <1>8, <1>9
<1> QED BY <1>8, <1>9, <1>10, <1>12, <1>13 DEF n, P, d

LEMMA FinishAddStep == StoreInv /\ FinishAdd => StoreInv'
<1> SUFFICES ASSUME StoreInv, FinishAdd PROVE StoreInv'
  OBVIOUS
<1> DEFINE n == [adding.node EXCEPT !.depth = DepthBelow(disk, ParentSet(adding.node))]
<1>1. SoundTree(disk')
  <2>1. SoundTree(disk)
    BY DEF StoreInv
  <2>2. /\ n \in NodeType /\ adding.genid \in Gens \ GenIds(disk)
        /\ adding.genid = 0 <=> n.parents = <<>>
        /\ GenIds(disk) = {} => adding.genid = 0
        /\ n.children = 0 /\ n.depth <= DepthLimit
        /\ \A p \in ParentSet(n) :
             /\ p \in GenIds(disk) /\ disk.nodes[p].valid
             /\ disk.nodes[p].depth < n.depth
             /\ Cardinality(ActualChildren(disk, p)) < disk.nodes[p].children
        /\ disk' = Put(disk, adding.genid, n)
    BY FinishEffect
  <2> HIDE DEF n
  <2> QED BY <2>1, <2>2, AddSound
<1>2. mem' = disk'
  BY FinishEffect
<1>3. adding' = None /\ up /\ UNCHANGED <<up, snap, crashes>>
  BY DEF FinishAdd
<1> QED BY <1>1, <1>2, <1>3 DEF StoreInv

LEMMA UpdateStep ==
    ASSUME StoreInv, NEW g \in Gens, Update(g)
    PROVE  /\ StoreInv' /\ mem' = disk'
           /\ g \notin GenIds(disk) => UNCHANGED disk
           /\ g \in GenIds(disk) =>
                /\ GenIds(disk') = GenIds(disk)
                /\ \A h \in GenIds(disk) :
                     disk'.nodes[h] = IF h = g THEN [disk.nodes[g] EXCEPT !.meta = TRUE]
                                      ELSE disk.nodes[h]
<1>1. /\ mem = disk /\ SoundTree(disk) /\ adding = None /\ up
      /\ UNCHANGED <<up, adding, snap, crashes>>
  BY DEF Update, Idle, StoreInv
<1>2. mem' = SetFields(disk, g, [meta |-> TRUE])
  BY <1>1 DEF Update
<1>3. CASE g \notin GenIds(disk)
  <2>1. mem' = disk /\ disk' = disk
    BY <1>1, <1>2, <1>3 DEF SetFields, Update
  <2> QED BY <1>1, <1>3, <2>1 DEF StoreInv
<1>4. CASE g \in GenIds(disk)
  <2>1. disk' = SetFields(disk, g, [meta |-> TRUE])
    BY <1>1, <1>4 DEF Update, ApplyEvent, UpdateEvent
  <2>2. WellShaped(disk)
    BY <1>1 DEF SoundTree, TreeType, WellShaped
  <2>3. /\ GenIds(disk') = GenIds(disk) /\ disk'.order = disk.order /\ WellShaped(disk')
        /\ \A h \in GenIds(disk) :
             disk'.nodes[h] = IF h = g THEN [disk.nodes[g] EXCEPT !.meta = TRUE]
                              ELSE disk.nodes[h]
    BY <1>4, <2>1, <2>2, MetaStep
  <2>4. \A h \in GenIds(disk) :
          /\ disk.nodes[h] \in NodeType /\ disk.nodes[h].children <= BranchLimit
          /\ disk.nodes[h].children \in Nat
    BY <1>1 DEF SoundTree, TreeType, Trees, NodeType, Counted
  <2>5. \A h \in GenIds(disk) :
          /\ disk'.nodes[h].parents = disk.nodes[h].parents
          /\ disk'.nodes[h].depth = disk.nodes[h].depth
          /\ disk'.nodes[h].valid = disk.nodes[h].valid
          /\ disk'.nodes[h].children = disk.nodes[h].children
    BY <2>3, <2>4 DEF NodeType
  <2>6. \A h \in GenIds(disk) : /\ disk.nodes[h].children <= disk'.nodes[h].children
                                /\ disk'.nodes[h].children <= BranchLimit
    BY <2>4, <2>5
  <2>7. SoundTree(disk')
    BY <1>1, <2>3, <2>5, <2>6, UpdateSound
  <2> QED BY <1>1, <1>2, <1>4, <2>1, <2>3, <2>7 DEF StoreInv
<1> QED BY <1>3, <1>4

\* The initial state and every step keep the invariant.
LEMMA StoreInit == Init => StoreInv
BY EmptySound, LimitsAssumption DEF Init, StoreInv

LEMMA StoreStep == StoreInv /\ [Next]_vars => StoreInv'
<1> SUFFICES ASSUME StoreInv, [Next]_vars PROVE StoreInv'
  OBVIOUS
<1>1. CASE AddRoot
  BY <1>1, AddRootStep
<1>2. CASE RegisterParent
  BY <1>2, RegisterParentStep
<1>3. CASE FinishAdd
  BY <1>3, FinishAddStep
<1>4. CASE \E g \in Gens, s \in Scores : AddChild(g, TRUE, s)
  BY <1>4, AddChildStep
<1>5. CASE \E g \in Gens : AddChild(g, FALSE, None)
  BY <1>5, AddChildStep
<1>6. CASE \E g \in Gens : Update(g)
  BY <1>6, UpdateStep
<1>7. CASE Capture
  BY <1>7 DEF Capture, Idle, StoreInv
<1>8. CASE Restore
  <2>1. disk' = snap
    BY <1>8 DEF Restore, ApplyEvent, ResetEvent
  <2> QED BY <1>8, <2>1 DEF Restore, Idle, StoreInv
<1>9. CASE Crash
  <2>1. /\ up' = FALSE /\ mem' = EmptyTree /\ adding' = None
        /\ crashes' = crashes + 1 /\ crashes < MaxCrashes
        /\ UNCHANGED <<disk, snap>>
    BY <1>9 DEF Crash
  <2>2. crashes' \in 0..MaxCrashes
    BY <2>1, LimitsAssumption DEF StoreInv
  <2> QED BY <2>1, <2>2 DEF StoreInv
<1>10. CASE Load
  BY <1>10 DEF Load, StoreInv
<1>11. CASE UNCHANGED vars
  <2>1. UNCHANGED <<up, mem, disk, adding, snap, crashes>>
    BY <1>11 DEF vars
  <2>2. AddUnderWay => AddUnderWay'
    <3>1. Todo' = Todo
      BY <2>1 DEF Todo
    <3> QED BY <2>1, <3>1 DEF AddUnderWay
  <2> QED BY <2>1, <2>2 DEF StoreInv
<1> QED BY <1>1, <1>2, <1>3, <1>4, <1>5, <1>6, <1>7, <1>8, <1>9, <1>10, <1>11 DEF Next

LEMMA StoreInvariant == Spec => []StoreInv
BY StoreInit, StoreStep, PTL DEF Spec

\* However the process dies between two appends, the log replays to the tree
\* the process had, the limits hold of the real children of every generation,
\* and every lineage is a DAG of valid nodes below "initial".
THEOREM LogIsSound == Spec => []LogSound
<1>1. StoreInv => LogSound
  <2> SUFFICES ASSUME StoreInv PROVE LogSound
    OBVIOUS
  <2>1. SoundTree(mem)
    BY EmptySound DEF StoreInv
  <2>2. TypeOK
    BY <2>1 DEF StoreInv, SoundTree, TypeOK, AddUnderWay
  <2>3. BranchBound
    <3> SUFFICES ASSUME NEW g \in GenIds(disk)
                 PROVE  /\ Cardinality(ActualChildren(disk, g)) <= disk.nodes[g].children
                        /\ Cardinality(ActualChildren(disk, g)) <= BranchLimit
      BY DEF BranchBound, WithinBranchLimit
    <3>1. /\ Cardinality(ActualChildren(disk, g)) \in Nat
          /\ disk.nodes[g].children \in Nat
      BY ChildrenFinite DEF StoreInv, SoundTree, TreeType, Trees, NodeType
    <3> QED BY <3>1, LimitsAssumption DEF StoreInv, SoundTree, Counted
  <2>4. MemoryIsReplay /\ LineageOK
    BY DEF StoreInv, MemoryIsReplay, LineageOK, SoundTree
  <2> QED BY <2>2, <2>3, <2>4 DEF LogSound
<1> QED BY <1>1, StoreInvariant, PTL

-----------------------------------------------------------------------------
(***************************************************************************)
(* The refinement.  An append that registers a parent, a crash and a load  *)
(* leave the abstract table alone; the append of the node is Add, which    *)
(* the parents' real children still allow because every parent counts the  *)
(* child before it is written.                                             *)
(***************************************************************************)

\* Readers see the ids of the log.
LEMMA VisibleIds == \A t : DOMAIN Visible(t) = GenIds(t)
BY DEF Visible

\* What readers see of one node.
LEMMA VisibleNode ==
    ASSUME NEW t, WellShaped(t), NEW g \in GenIds(t)
    PROVE  /\ Visible(t)[g] = [f \in {"parents", "depth", "valid", "status", "score", "meta"}
                                 |-> t.nodes[g][f]]
           /\ Visible(t)[g].parents = t.nodes[g].parents
           /\ Visible(t)[g].depth = t.nodes[g].depth
           /\ Visible(t)[g].valid = t.nodes[g].valid
           /\ Visible(t)[g].score = t.nodes[g].score
<1>1. t.nodes[g] \in NodeType
  BY DEF WellShaped, Trees
<1>2. DOMAIN t.nodes[g] \ {"children"}
        = {"parents", "depth", "valid", "status", "score", "meta"}
  BY <1>1 DEF NodeType
<1>3. Visible(t)[g] = [f \in {"parents", "depth", "valid", "status", "score", "meta"}
                         |-> t.nodes[g][f]]
  BY <1>2 DEF Visible
<1> QED BY <1>3

\* Two trees whose nodes differ in the counters only look the same.
LEMMA CounterInvisible ==
    ASSUME NEW t, WellShaped(t), NEW u, WellShaped(u), GenIds(u) = GenIds(t),
           \A h \in GenIds(t) :
              \A f \in {"parents", "depth", "valid", "status", "score", "meta"} :
                 u.nodes[h][f] = t.nodes[h][f]
    PROVE  Visible(u) = Visible(t)
<1>1. ASSUME NEW h \in GenIds(t) PROVE Visible(u)[h] = Visible(t)[h]
  <2> DEFINE fields == {"parents", "depth", "valid", "status", "score", "meta"}
  <2>1. /\ Visible(u)[h] = [f \in fields |-> u.nodes[h][f]]
        /\ Visible(t)[h] = [f \in fields |-> t.nodes[h][f]]
    BY VisibleNode
  <2>2. \A f \in fields : u.nodes[h][f] = t.nodes[h][f]
    OBVIOUS
  <2> HIDE DEF fields
  <2> QED BY <2>1, <2>2
<1>2. /\ Visible(u) = [h \in GenIds(t) |-> Visible(u)[h]]
      /\ Visible(t) = [h \in GenIds(t) |-> Visible(t)[h]]
  BY DEF Visible
<1> QED BY <1>1, <1>2

\* What readers see after the node is written: the old table and the node.
LEMMA AddVisible ==
    ASSUME NEW t, TreeType(t), NEW g \in Gens \ GenIds(t), NEW n \in NodeType,
           NEW u, u = Put(t, g, n)
    PROVE  /\ GenIds(u) = GenIds(t) \cup {g} /\ WellShaped(u) /\ WellShaped(t)
           /\ u.nodes[g] = n
           /\ \A h \in GenIds(t) : Visible(u)[h] = Visible(t)[h]
<1>1. /\ GenIds(u) = GenIds(t) \cup {g} /\ TreeType(u) /\ u.nodes[g] = n
      /\ \A h \in GenIds(t) : u.nodes[h] = t.nodes[h]
  BY AddStep
<1>2. WellShaped(u) /\ WellShaped(t)
  BY <1>1 DEF TreeType, WellShaped
<1>3. \A h \in GenIds(t) : Visible(u)[h] = Visible(t)[h]
  BY <1>1 DEF Visible
<1> QED BY <1>1, <1>2, <1>3

\* The instance counts as the store does.
LEMMA SameCardinality == \A S : Atomic!Cardinality(S) = Cardinality(S)
BY DEF Atomic!Cardinality, Cardinality

\* The real children, counted by readers.
LEMMA VisibleChildren ==
    ASSUME StoreInv, NEW p
    PROVE  Atomic!ChildrenOf(p) = ActualChildren(disk, p)
<1>1. WellShaped(disk)
  BY DEF StoreInv, SoundTree, TreeType, WellShaped
<1>2. \A h \in GenIds(disk) : Visible(disk)[h].parents = disk.nodes[h].parents
  BY <1>1, VisibleNode
<1>3. DOMAIN Visible(disk) = GenIds(disk)
  BY VisibleIds
<1> QED BY <1>2, <1>3 DEF Atomic!ChildrenOf, Atomic!Parents, ActualChildren, ParentSet

LEMMA FinishRefines == StoreInv /\ FinishAdd => Atomic!Next
<1> SUFFICES ASSUME StoreInv, FinishAdd PROVE Atomic!Next
  OBVIOUS
<1> DEFINE n == [adding.node EXCEPT !.depth = DepthBelow(disk, ParentSet(adding.node))]
           g == adding.genid
<1>1. /\ n \in NodeType /\ g \in Gens \ GenIds(disk)
      /\ g = 0 <=> n.parents = <<>>
      /\ ParentSet(n) = {} => n.depth = 0
      /\ ParentSet(n) # {} =>
           \E p \in ParentSet(n) : n.depth = disk.nodes[p].depth + 1
      /\ \A p \in ParentSet(n) :
           /\ p \in GenIds(disk) /\ disk.nodes[p].valid
           /\ disk.nodes[p].depth < n.depth /\ disk.nodes[p].depth < DepthLimit
           /\ Cardinality(ActualChildren(disk, p)) < disk.nodes[p].children
      /\ disk' = Put(disk, g, n)
  BY FinishEffect
<1> HIDE DEF n, g
<1>2. SoundTree(disk) /\ TreeType(disk)
  BY DEF StoreInv, SoundTree
<1>3. /\ GenIds(disk') = GenIds(disk) \cup {g} /\ WellShaped(disk') /\ WellShaped(disk)
      /\ disk'.nodes[g] = n
      /\ \A h \in GenIds(disk) : Visible(disk')[h] = Visible(disk)[h]
  BY <1>1, <1>2, AddVisible
<1>4. /\ Visible(disk')[g].parents = n.parents /\ Visible(disk')[g].depth = n.depth
      /\ Visible(disk')[g].valid = n.valid /\ Visible(disk')[g].score = n.score
  <2>1. g \in GenIds(disk') /\ WellShaped(disk') /\ disk'.nodes[g] = n
    BY <1>3
  <2> QED BY <2>1, VisibleNode
<1>5. \A p \in GenIds(disk) : /\ Visible(disk)[p].depth = disk.nodes[p].depth
                              /\ Visible(disk)[p].valid = disk.nodes[p].valid
  BY <1>3, VisibleNode
<1>6. DOMAIN Visible(disk) = GenIds(disk) /\ DOMAIN Visible(disk') = GenIds(disk')
  BY VisibleIds
<1>7. ASSUME NEW p \in ParentSet(n) PROVE Atomic!Eligible(p)
  <2>1. Cardinality(ActualChildren(disk, p)) < BranchLimit
    <3>1. /\ Cardinality(ActualChildren(disk, p)) \in Nat
          /\ disk.nodes[p].children \in Nat /\ disk.nodes[p].children <= BranchLimit
      BY <1>1, <1>2, ChildrenFinite DEF SoundTree, TreeType, Trees, NodeType, Counted
    <3> QED BY <1>1, <3>1, LimitsAssumption
  <2>2. Atomic!ChildrenOf(p) = ActualChildren(disk, p)
    BY VisibleChildren
  <2>3. /\ p \in DOMAIN Visible(disk) /\ Visible(disk)[p].valid
        /\ Visible(disk)[p].depth < DepthLimit
    BY <1>1, <1>5, <1>6
  <2> QED BY <2>1, <2>2, <2>3, SameCardinality DEF Atomic!Eligible
<1>8. ParentSet(n) = {} <=> g = 0
  <2>1. PICK m \in 0..NumParents : n.parents \in [1..m -> Gens]
    BY <1>1 DEF NodeType
  <2>2. m \in Nat /\ n.parents \in Seq(Gens) /\ Len(n.parents) = m
    BY <2>1, LimitsAssumption
  <2>3. ParentSet(n) = {} <=> m = 0
    <3>1. DOMAIN n.parents = 1..m
      BY <2>1
    <3>2. m # 0 => 1 \in 1..m
      BY <2>2
    <3>3. \A i : i \in 1..m => n.parents[i] \in ParentSet(n)
      BY <3>1 DEF ParentSet
    <3>4. m = 0 => 1..m = {}
      OBVIOUS
    <3>5. m = 0 => ParentSet(n) = {}
      BY <3>1, <3>4 DEF ParentSet
    <3> QED BY <3>2, <3>3, <3>5
  <2> QED BY <1>1, <2>2, <2>3
<1>9. Atomic!Parents(Visible(disk')[g]) = ParentSet(n)
  BY <1>4 DEF Atomic!Parents, ParentSet
<1>10. Visible(disk') = Atomic!Extend(g, Visible(disk')[g])
  <2>1. Visible(disk') = [h \in GenIds(disk') |-> Visible(disk')[h]]
    BY DEF Visible
  <2> QED BY <1>3, <1>6, <2>1 DEF Atomic!Extend
<1>11. ParentSet(n) \in SUBSET GenIds(disk) /\ n.valid \in BOOLEAN
       /\ n.score \in Scores \cup {None}
  BY <1>1 DEF NodeType
<1>12. IF ParentSet(n) = {} THEN Visible(disk')[g].depth = 0
       ELSE /\ \A p \in ParentSet(n) : Visible(disk)[p].depth < Visible(disk')[g].depth
            /\ \E p \in ParentSet(n) : Visible(disk')[g].depth = Visible(disk)[p].depth + 1
  BY <1>1, <1>4, <1>5
<1>13. UNCHANGED (IF snap = None THEN <<>> ELSE Visible(snap))
  BY DEF FinishAdd
<1>14. Atomic!Add(g)
  BY <1>1, <1>3, <1>4, <1>6, <1>7, <1>8, <1>9, <1>10, <1>11, <1>12, <1>13
     DEF Atomic!Add
<1> QED BY <1>1, <1>14 DEF Atomic!Next, Gens

\* What is logged of a node after it was added is Settle.
LEMMA UpdateRefines ==
    ASSUME StoreInv, NEW g \in Gens, Update(g)
    PROVE  [Atomic!Next]_(Atomic!vars)
<1>1. /\ StoreInv' /\ (g \notin GenIds(disk) => UNCHANGED disk)
      /\ g \in GenIds(disk) =>
           /\ GenIds(disk') = GenIds(disk)
           /\ \A h \in GenIds(disk) :
                disk'.nodes[h] = IF h = g THEN [disk.nodes[g] EXCEPT !.meta = TRUE]
                                 ELSE disk.nodes[h]
  BY UpdateStep
<1>2. UNCHANGED (IF snap = None THEN <<>> ELSE Visible(snap))
  BY DEF Update
<1>3. CASE g \notin GenIds(disk)
  BY <1>1, <1>2, <1>3 DEF Atomic!vars
<1>4. CASE g \in GenIds(disk)
  <2> DEFINE fields == {"parents", "depth", "valid", "status", "score", "meta"}
  <2>1. WellShaped(disk) /\ WellShaped(disk') /\ disk.nodes[g] \in NodeType
    BY <1>1, <1>4 DEF StoreInv, SoundTree, TreeType, WellShaped, Trees
  <2>2. \A h \in GenIds(disk) :
          /\ Visible(disk)[h] = [f \in fields |-> disk.nodes[h][f]]
          /\ Visible(disk')[h] = [f \in fields |-> disk'.nodes[h][f]]
    BY <1>1, <1>4, <2>1, VisibleNode
  <2>3. \A h \in GenIds(disk) \ {g} : Visible(disk')[h] = Visible(disk)[h]
    <3>1. \A h \in GenIds(disk) \ {g} : disk'.nodes[h] = disk.nodes[h]
      BY <1>1, <1>4
    <3> SUFFICES ASSUME NEW h \in GenIds(disk) \ {g} PROVE Visible(disk')[h] = Visible(disk)[h]
      OBVIOUS
    <3>2. /\ Visible(disk)[h] = [f \in fields |-> disk.nodes[h][f]]
          /\ Visible(disk')[h] = [f \in fields |-> disk'.nodes[h][f]]
      BY <2>2
    <3>3. disk'.nodes[h] = disk.nodes[h]
      BY <3>1
    <3> HIDE DEF fields
    <3> QED BY <3>2, <3>3
  <2>4. Visible(disk')[g] = [Visible(disk)[g] EXCEPT !.meta = TRUE]
    <3>1. disk'.nodes[g] = [disk.nodes[g] EXCEPT !.meta = TRUE]
      BY <1>1, <1>4
    <3>2. [f \in fields |-> disk'.nodes[g][f]]
            = [[f \in fields |-> disk.nodes[g][f]] EXCEPT !.meta = TRUE]
      BY <2>1, <3>1 DEF NodeType
    <3> QED BY <1>4, <2>2, <3>2
  <2>5. /\ Visible(disk) = [h \in GenIds(disk) |-> Visible(disk)[h]]
        /\ Visible(disk') = [h \in GenIds(disk) |-> Visible(disk')[h]]
    BY <1>1, <1>4 DEF Visible
  <2>6. Visible(disk') = [Visible(disk) EXCEPT ![g] = [Visible(disk)[g] EXCEPT !.meta = TRUE]]
    BY <1>4, <2>3, <2>4, <2>5
  <2>7. Atomic!Settle(g)
    BY <1>2, <1>4, <2>6, VisibleIds DEF Atomic!Settle
  <2> QED BY <2>7 DEF Atomic!Next, Gens
<1> QED BY <1>3, <1>4

LEMMA StoreRefines == StoreInv /\ [Next]_vars => [Atomic!Next]_(Atomic!vars)
<1> SUFFICES ASSUME StoreInv, [Next]_vars PROVE [Atomic!Next]_(Atomic!vars)
  OBVIOUS
<1>1. CASE UNCHANGED <<disk, snap>>
  BY <1>1 DEF Atomic!vars
<1>2. CASE RegisterParent
  <2> DEFINE p == Head(adding.todo)
             k == disk.nodes[p].children + 1
  <2>1. /\ p \in GenIds(disk) /\ k \in Nat
        /\ disk' = SetFields(disk, p, [children |-> k])
    BY <1>2, RegisterEffect
  <2>2. WellShaped(disk)
    BY DEF StoreInv, SoundTree, TreeType, WellShaped
  <2>3. /\ GenIds(disk') = GenIds(disk) /\ WellShaped(disk')
        /\ \A h \in GenIds(disk) :
             disk'.nodes[h] = IF h = p THEN [disk.nodes[p] EXCEPT !.children = k]
                              ELSE disk.nodes[h]
    BY <2>1, <2>2, CounterStep
  <2> HIDE DEF p, k
  <2>4. \A h \in GenIds(disk) : disk.nodes[h] \in NodeType
    BY <2>2 DEF WellShaped, Trees
  <2>5. \A h \in GenIds(disk) :
          \A f \in {"parents", "depth", "valid", "status", "score", "meta"} :
             disk'.nodes[h][f] = disk.nodes[h][f]
    BY <2>3, <2>4 DEF NodeType
  <2>6. Visible(disk') = Visible(disk)
    BY <2>2, <2>3, <2>5, CounterInvisible
  <2> QED BY <1>2, <2>6 DEF RegisterParent, Atomic!vars
<1>3. CASE FinishAdd
  BY <1>3, FinishRefines
<1>4. CASE \E g \in Gens : Update(g)
  BY <1>4, UpdateRefines
<1>5. CASE Capture
  <2>1. mem = disk /\ TreeType(disk) /\ GenIds(disk) # {} /\ snap' = disk /\ disk' = disk
    BY <1>5 DEF Capture, Idle, StoreInv, SoundTree
  <2>2. disk # None
    BY <2>1, NoneAssumption DEF TreeType
  <2>3. Visible(disk) # <<>>
    BY <2>1, VisibleIds
  <2> QED BY <2>1, <2>2, <2>3 DEF Atomic!Next, Atomic!Save
<1>6. CASE Restore
  <2>1. disk' = snap /\ snap # None /\ snap' = snap /\ GenIds(snap) # {}
    BY <1>6 DEF Restore, ApplyEvent, ResetEvent, StoreInv
  <2>2. Visible(snap) # <<>>
    BY <2>1, VisibleIds
  <2> QED BY <2>1, <2>2 DEF Atomic!Next, Atomic!Return
<1>7. \/ UNCHANGED <<disk, snap>> \/ RegisterParent \/ FinishAdd
      \/ Capture \/ Restore \/ \E g \in Gens : Update(g)
  BY DEF Next, vars, AddRoot, AddChild, Crash, Load
<1> QED BY <1>1, <1>2, <1>3, <1>4, <1>5, <1>6, <1>7

\* A log written in several appends per node, torn by the death of the process
\* anywhere and brought back to a checkpoint at any time, is an atomic table
\* whose limits count the real children.
THEOREM LogImplementsTree == Spec => ImplementsAtomicTree
<1>1. Init => Atomic!Init
  <2> SUFFICES ASSUME Init PROVE Atomic!Init
    OBVIOUS
  <2>1. GenIds(EmptyTree) = {}
    BY DEF GenIds, EmptyTree
  <2>2. Visible(EmptyTree) = <<>>
    BY <2>1 DEF Visible
  <2> QED BY <2>2 DEF Init, Atomic!Init
<1> QED BY <1>1, StoreInvariant, StoreRefines, PTL DEF Spec, ImplementsAtomicTree, Atomic!Spec
=============================================================================
