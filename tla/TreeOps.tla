------------------------------ MODULE TreeOps ------------------------------
(***************************************************************************)
(* The version DAG kept by gan/framework/tree/store.py, as a value: a      *)
(* record with the node table and the insertion order, the three events of *)
(* its JSONL log, and the selection rule.  A node is a record with at      *)
(* least the fields parents, depth, children, valid, status and score.     *)
(*                                                                         *)
(* Generation ids are naturals; 0 stands for the root "initial".           *)
(***************************************************************************)
EXTENDS Integers, Sequences, FiniteSets

CONSTANT None        \* Python's None: a missing score

EmptyTree == [nodes |-> <<>>, order |-> <<>>]

GenIds(t) == DOMAIN t.nodes

\* The node table gains (or overwrites) entry g; the order keeps first seen.
Put(t, g, n) ==
    [nodes |-> [h \in GenIds(t) \cup {g} |-> IF h = g THEN n ELSE t.nodes[h]],
     order |-> IF g \in GenIds(t) THEN t.order ELSE Append(t.order, g)]

\* setattr of every logged field on an existing node; an unknown genid is
\* ignored.
SetFields(t, g, fields) ==
    IF g \in GenIds(t)
    THEN [nodes |-> [t.nodes EXCEPT ![g] =
                       [f \in DOMAIN @ |->
                          IF f \in DOMAIN fields THEN fields[f] ELSE @[f]]],
          order |-> t.order]
    ELSE t

\* The events of the log.
AddEvent(g, n)         == [op |-> "add", genid |-> g, node |-> n]
UpdateEvent(g, fields) == [op |-> "update", genid |-> g, fields |-> fields]
ResetEvent(t)          == [op |-> "reset", tree |-> t]

\* One line of the log replayed onto a tree.
ApplyEvent(t, e) ==
    CASE e.op = "add"    -> Put(t, e.genid, e.node)
      [] e.op = "update" -> SetFields(t, e.genid, e.fields)
      [] e.op = "reset"  -> e.tree

\* Mutant of DepthBelow: one below the shallowest parent.
DepthBelow_Shallowest(t, parents) ==
    LET depths == {t.nodes[p].depth : p \in parents \cap GenIds(t)}
    IN  IF depths = {} THEN 0
        ELSE 1 + CHOOSE d \in depths : \A e \in depths : e >= d

\* Depth of a node with these parents: one below the deepest known one.
DepthBelow(t, parents) ==
    LET depths == {t.nodes[p].depth : p \in parents \cap GenIds(t)}
    IN  IF depths = {} THEN 0
        ELSE 1 + CHOOSE d \in depths : \A e \in depths : e <= d

(***************************************************************************)
(* Selection.  A candidate is a valid, alive node below both limits.       *)
(***************************************************************************)

IsCandidate(n, branchLimit, depthLimit) ==
    /\ n.valid /\ n.status = "alive"
    /\ n.children < branchLimit
    /\ n.depth < depthLimit

Candidates(t, branchLimit, depthLimit) ==
    {g \in GenIds(t) : IsCandidate(t.nodes[g], branchLimit, depthLimit)}

\* A missing score counts as 0.0.
ScoreOf(n) == IF n.score = None THEN 0 ELSE n.score

Position(t, g) == CHOOSE i \in DOMAIN t.order : t.order[i] = g

\* Candidate g is listed before candidate h.  "latest" goes by recency,
\* "best" by score (stably); the floating-point UCB value is abstracted to an
\* arbitrary ranking.
RankedBefore(t, g, h, method) ==
    \/ method = "ucb"
    \/ method = "latest" /\ Position(t, g) > Position(t, h)
    \/ /\ method = "best"
       /\ \/ ScoreOf(t.nodes[g]) > ScoreOf(t.nodes[h])
          \/ /\ ScoreOf(t.nodes[g]) = ScoreOf(t.nodes[h])
             /\ Position(t, g) < Position(t, h)

\* The sequences of up to k parents select_parents may return: the first k
\* candidates of a ranking, or all of them when they are fewer.
SelectParents(t, k, branchLimit, depthLimit, method) ==
    LET C == Candidates(t, branchLimit, depthLimit)
        Chosen(ps) == {ps[i] : i \in DOMAIN ps}
    IN  {ps \in UNION {[1..n -> C] : n \in 0..k} :
            /\ \A i, j \in DOMAIN ps :
                 i < j => ps[i] # ps[j] /\ RankedBefore(t, ps[i], ps[j], method)
            /\ \A i \in DOMAIN ps, g \in C \ Chosen(ps) :
                 RankedBefore(t, ps[i], g, method)
            /\ DOMAIN ps = 1..k \/ Chosen(ps) = C}
=============================================================================
