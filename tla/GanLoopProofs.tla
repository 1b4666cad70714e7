---------------------------- MODULE GanLoopProofs ----------------------------
(***************************************************************************)
(* Theorems about GanLoop for every value of its constants.                *)
(***************************************************************************)
EXTENDS GanLoop, Integers, FiniteSetTheorems, SequenceTheorems, WellFoundedInduction, TLAPS

\* A nonempty set of naturals has a least element.
LEMMA LeastNatural ==
    ASSUME NEW T, T \subseteq Nat, T # {}
    PROVE  \E x \in T : \A y \in T : x <= y
<1> DEFINE R == OpToRel(<, Nat)
<1>1. \A x, y \in Nat : y < x => <<y, x>> \in R
  BY DEF OpToRel
<1>2. IsWellFoundedOn(R, Nat)
  BY NatLessThanWellFounded
<1> HIDE DEF R
<1>3. PICK x \in T : \A y \in T : <<y, x>> \notin R
  BY <1>2, WFMin
<1>4. \A y \in T : x \in Nat /\ y \in Nat /\ ~(y < x)
  BY <1>3, <1>1
<1>5. \A y \in T : x <= y
  BY <1>4
<1> QED BY <1>5

\* A nonempty bounded set of naturals has a greatest element.
LEMMA GreatestNatural ==
    ASSUME NEW T, T \subseteq Nat, T # {}, NEW b \in Nat, \A x \in T : x <= b
    PROVE  \E x \in T : \A y \in T : y <= x
<1> DEFINE U == {b - x : x \in T}
<1>1. U # {} /\ \A u \in U : u \in Nat
  <2>1. \A x \in T : x \in Nat /\ b - x \in Nat
    OBVIOUS
  <2>2. U # {}
    OBVIOUS
  <2> QED BY <2>1, <2>2
<1>2. PICK u \in U : \A v \in U : u <= v
  <2> HIDE DEF U
  <2>1. U \subseteq Nat
    BY <1>1
  <2> QED BY <1>1, <2>1, LeastNatural
<1>3. PICK x \in T : u = b - x
  BY <1>2
<1>4. ASSUME NEW y \in T PROVE y <= x
  <2>1. u <= b - y
    BY <1>2
  <2> QED BY <2>1, <1>3
<1> QED BY <1>4

(***************************************************************************)
(* Freshness of generation ids.  FreshIds is not inductive: a restart      *)
(* takes the counter from a checkpoint, or computes it from the replayed   *)
(* tree, so the same must hold of every payload on disk, and the replayed  *)
(* tree must have a largest id.                                            *)
(***************************************************************************)
HasMax(S) == S = {} \/ \E m \in S : \A g \in S : g <= m

TreeShape(t) ==
    /\ "nodes" \in DOMAIN t
    /\ GenIds(t) \subseteq Nat
    /\ HasMax(GenIds(t))

PayloadShape(p) ==
    /\ {"counter", "tree", "ts"} \subseteq DOMAIN p
    /\ p.counter \in Nat
    /\ TreeShape(p.tree)
    /\ \A g \in GenIds(p.tree) : g < p.counter

\* Steps at which the generation in progress is not yet in the tree, and all
\* steps at which there is one.
BeforeAdd == {"plan", "plan_probe", "apply", "commit", "pin", "harness",
              "collect", "evaluate", "register"}
InRound == BeforeAdd \cup {"score", "meta", "inner_ckpt"}

\* There is a newest snapshot, and names and times lie in the past.
SnapshotsOrdered ==
    /\ IsFiniteSet(DOMAIN snapshots)
    /\ \A n \in DOMAIN snapshots :
         /\ n[2] \in Nat /\ n[2] < Now
         /\ snapshots[n].ts \in Nat /\ snapshots[n].ts < Now
    /\ DOMAIN snapshots # {} =>
         \E n \in DOMAIN snapshots :
            \A m \in DOMAIN snapshots : snapshots[m].ts <= snapshots[n].ts

FreshInv ==
    /\ counter \in Nat
    /\ TreeShape(tree)
    /\ latest # NoCheckpoint => PayloadShape(latest)
    /\ \A n \in DOMAIN snapshots : PayloadShape(snapshots[n])
    /\ pc # "down" => \A g \in GenIds(tree) : g < counter
    /\ pc \in InRound => /\ {"genid", "node"} \subseteq DOMAIN cur
                         /\ cur.genid \in Nat /\ cur.genid < counter
    /\ pc \in BeforeAdd => cur.genid \notin GenIds(tree)
    /\ pc = "snapshot" => PayloadShape(latest)

\* Replaying an update changes no id: what RegisterParent and SettleMeta rest on.
LEMMA UpdateKeepsIds ==
    ASSUME NEW t, TreeShape(t), NEW g, NEW fields
    PROVE  /\ TreeShape(ApplyEvent(t, UpdateEvent(g, fields)))
           /\ GenIds(ApplyEvent(t, UpdateEvent(g, fields))) = GenIds(t)
<1>1. ApplyEvent(t, UpdateEvent(g, fields)) = SetFields(t, g, fields)
  BY DEF ApplyEvent, UpdateEvent
<1>2. CASE g \in GenIds(t)
  <2>1. /\ GenIds(SetFields(t, g, fields)) = GenIds(t)
        /\ "nodes" \in DOMAIN SetFields(t, g, fields)
    BY <1>2 DEF SetFields, GenIds
  <2> QED BY <1>1, <2>1 DEF TreeShape
<1>3. CASE g \notin GenIds(t)
  BY <1>1, <1>3 DEF SetFields
<1> QED BY <1>2, <1>3

\* Adding a node adds its id, so a tree with a largest id keeps having one.
LEMMA PutAddsId ==
    ASSUME NEW t, TreeShape(t), NEW g \in Nat, NEW n
    PROVE  /\ TreeShape(Put(t, g, n))
           /\ GenIds(Put(t, g, n)) = GenIds(t) \cup {g}
<1>1. GenIds(Put(t, g, n)) = GenIds(t) \cup {g}
  BY DEF Put, GenIds
<1>2. HasMax(GenIds(t) \cup {g})
  BY DEF HasMax, TreeShape
<1> QED BY <1>1, <1>2 DEF TreeShape, Put

\* One past the largest id of a replayed tree is ahead of all its ids.
LEMMA LoadedIsAhead ==
    ASSUME NEW t, TreeShape(t), GenIds(t) # {}
    PROVE  LET m == CHOOSE g \in GenIds(t) : \A h \in GenIds(t) : h <= g
           IN  m \in Nat /\ \A g \in GenIds(t) : g < m + 1
<1>1. PICK m \in GenIds(t) : \A g \in GenIds(t) : g <= m
  BY DEF TreeShape, HasMax
<1>2. LET m1 == CHOOSE g \in GenIds(t) : \A h \in GenIds(t) : h <= g
      IN  m1 \in GenIds(t) /\ \A h \in GenIds(t) : h <= m1
  BY <1>1
<1> QED BY <1>2 DEF TreeShape

\* A snapshot is written under a name no snapshot has, and is the newest.
LEMMA SnapshotStep ==
    ASSUME SnapshotsOrdered, WriteSnapshot, "ts" \in DOMAIN latest
    PROVE  /\ SnapshotName(outer) \notin DOMAIN snapshots
           /\ SnapshotsOrdered'
<1> DEFINE name == SnapshotName(outer)
<1>1. Now \in Nat \ {0} /\ Cardinality(DOMAIN snapshots) \in Nat
  BY FS_CardinalityType DEF Now, SnapshotsOrdered
<1>2. name \notin DOMAIN snapshots /\ name[2] \in {0, Now}
  BY <1>1 DEF SnapshotName, SnapshotsOrdered
<1>3. DOMAIN snapshots' = DOMAIN snapshots \cup {name}
  BY DEF WriteSnapshot
<1>4. IsFiniteSet(DOMAIN snapshots') /\ Now' = Now + 1
  <2> HIDE DEF name
  <2>1. /\ IsFiniteSet(DOMAIN snapshots \cup {name})
        /\ Cardinality(DOMAIN snapshots \cup {name}) = Cardinality(DOMAIN snapshots) + 1
    BY <1>2, FS_AddElement DEF SnapshotsOrdered
  <2> QED BY <1>1, <1>3, <2>1 DEF Now
<1>5. /\ snapshots'[name].ts = Now
      /\ \A n \in DOMAIN snapshots : snapshots'[n] = snapshots[n]
  BY <1>2 DEF WriteSnapshot
<1> HIDE DEF name
<1>6. \A n \in DOMAIN snapshots' :
        /\ n[2] \in Nat /\ n[2] < Now'
        /\ snapshots'[n].ts \in Nat /\ snapshots'[n].ts <= Now
  BY <1>1, <1>2, <1>3, <1>4, <1>5 DEF SnapshotsOrdered
<1>7. \A m \in DOMAIN snapshots' : snapshots'[m].ts <= snapshots'[name].ts
  BY <1>5, <1>6
<1>8. SnapshotsOrdered'
  BY <1>1, <1>3, <1>4, <1>6, <1>7 DEF SnapshotsOrdered
<1> QED BY <1>2, <1>8 DEF name

\* Other steps leave the snapshots alone.
LEMMA SnapshotsKept ==
    ASSUME SnapshotsOrdered, UNCHANGED snapshots
    PROVE  SnapshotsOrdered'
BY DEF SnapshotsOrdered, Now

\* The initial state satisfies the strengthened invariant.
LEMMA FreshInit == Init => FreshInv /\ SnapshotsOrdered
<1> SUFFICES ASSUME Init PROVE FreshInv /\ SnapshotsOrdered
  OBVIOUS
<1>1. SnapshotsOrdered
  BY FS_EmptySet DEF Init, SnapshotsOrdered
<1> QED BY <1>1, LoopAssumption DEF Init, FreshInv, TreeShape, GenIds, HasMax, EmptyTree,
       PayloadShape, InRound, BeforeAdd

\* Every step keeps it.  The steps that matter are StartWorker (a restored or
\* recomputed counter), SelectParent (a new id), AddNode (the id enters the
\* tree) and the two checkpoint writes; the others leave ids and counter alone.
LEMMA FreshStep == FreshInv /\ SnapshotsOrdered /\ [Next]_vars => FreshInv'
<1> SUFFICES ASSUME FreshInv, SnapshotsOrdered, [Next]_vars PROVE FreshInv'
  OBVIOUS
<1> USE DEF store, ckpt, repo, driver, worker
<1>1. CASE WorkerExit
  BY <1>1 DEF WorkerExit, FreshInv, InRound, BeforeAdd
<1>2. CASE Crash
  BY <1>2 DEF Crash, PatchInTree, FreshInv, InRound, BeforeAdd
<1>3. CASE EnterOuter
  BY <1>3 DEF EnterOuter, EnsureBranch, FreshInv, InRound, BeforeAdd
<1>4. CASE LeaveInner
  BY <1>4 DEF LeaveInner, FreshInv, InRound, BeforeAdd
<1>5. CASE ProbePatch
  BY <1>5 DEF ProbePatch, FreshInv, InRound, BeforeAdd
<1>6. CASE ProbeRollback
  BY <1>6 DEF ProbeRollback, CleanCheckout, FreshInv, InRound, BeforeAdd
<1>7. CASE ApplyTaskPatch
  BY <1>7 DEF ApplyTaskPatch, CleanCheckout, FreshInv, InRound, BeforeAdd
<1>8. CASE CommitTaskPatch
  BY <1>8 DEF CommitTaskPatch, Commit, CleanCheckout, FreshInv, InRound, BeforeAdd
<1>9. CASE PinTaskRef
  BY <1>9 DEF PinTaskRef, EnsureBranch, FreshInv, InRound, BeforeAdd
<1>10. CASE PlanFails
  BY <1>10 DEF PlanFails, Archive, FreshInv, InRound, BeforeAdd
<1>11. CASE TaskRunnerFails
  BY <1>11 DEF TaskRunnerFails, Archive, FreshInv, InRound, BeforeAdd
<1>12. CASE TrajectoryCollected
  BY <1>12 DEF TrajectoryCollected, FreshInv, InRound, BeforeAdd
<1>13. CASE TrajectoryFails
  BY <1>13 DEF TrajectoryFails, Archive, FreshInv, InRound, BeforeAdd
<1>14. CASE EvaluatorFails
  BY <1>14 DEF EvaluatorFails, Archive, FreshInv, InRound, BeforeAdd
<1>15. CASE EvaluatorJudges
  BY <1>15 DEF EvaluatorJudges, Archive, FreshInv, InRound, BeforeAdd
<1>16. CASE AppendScore
  BY <1>16 DEF AppendScore, FreshInv, InRound, BeforeAdd
<1>17. CASE NoSelfPatch
  BY <1>17 DEF NoSelfPatch, NextRole, FreshInv, InRound, BeforeAdd
<1>18. CASE ApplySelfPatch
  BY <1>18 DEF ApplySelfPatch, FreshInv, InRound, BeforeAdd
<1>19. CASE RecordMeta
  BY <1>19 DEF RecordMeta, NextRole, FreshInv, InRound, BeforeAdd
<1>20. CASE \E p \in PatchOutcomes : PlanSucceeds(p)
  BY <1>20 DEF PlanSucceeds, FreshInv, InRound, BeforeAdd
<1>21. CASE \E s \in Scores \cup {None} : HarnessReports(s)
  BY <1>21 DEF HarnessReports, FreshInv, InRound, BeforeAdd
<1>22. CASE \E p \in PatchOutcomes \ {"none"} : CommitSelfPatch(p)
  BY <1>22 DEF CommitSelfPatch, Commit, CleanCheckout, NextRole, FreshInv, InRound, BeforeAdd
<1>23. CASE \E m \in Modes : DriverStart(m)
  BY <1>23 DEF DriverStart, FreshInv, InRound, BeforeAdd, ForcedCheckout
<1>24. CASE UNCHANGED vars
  BY <1>24 DEF vars, FreshInv
<1>25. CASE SelectParent
  <2>1. PICK ps, b : cur' = [genid |-> counter, parents |-> ps, base |-> b,
                             patch |-> None, node |-> NewNode(ps), todo |-> ps,
                             tail |-> None]
    BY <1>25 DEF SelectParent
  <2>2. {"genid", "node"} \subseteq DOMAIN cur' /\ cur'.genid = counter
    BY <2>1
  <2>3. pc = "select" /\ pc' = "plan" /\ counter' = counter + 1
        /\ UNCHANGED <<tree, latest, snapshots>>
    BY <1>25 DEF SelectParent
  <2>4. /\ counter \in Nat /\ cur'.genid \in Nat /\ cur'.genid < counter'
        /\ \A g \in GenIds(tree) : g < counter
    BY <2>2, <2>3 DEF FreshInv
  <2>5. \A g \in GenIds(tree') : g < counter' /\ g # cur'.genid
    BY <2>2, <2>3, <2>4 DEF FreshInv, TreeShape
  <2>6. /\ TreeShape(tree') /\ (latest' # NoCheckpoint => PayloadShape(latest'))
        /\ \A n \in DOMAIN snapshots' : PayloadShape(snapshots'[n])
    BY <2>3 DEF FreshInv
  <2> QED BY <2>2, <2>3, <2>4, <2>5, <2>6 DEF FreshInv
<1>26. CASE RegisterParent
  <2>1. TreeShape(tree') /\ GenIds(tree') = GenIds(tree)
    BY <1>26, UpdateKeepsIds DEF RegisterParent, FreshInv
  <2> QED BY <1>26, <2>1 DEF RegisterParent, FreshInv, InRound, BeforeAdd
<1>27. CASE SettleMeta
  <2>1. TreeShape(tree') /\ GenIds(tree') = GenIds(tree)
    BY <1>27, UpdateKeepsIds DEF SettleMeta, FreshInv
  <2> QED BY <1>27, <2>1 DEF SettleMeta, FreshInv, InRound, BeforeAdd
<1>28. CASE AddNode
  <2>1. PICK n : tree' = Put(tree, cur.genid, n)
    BY <1>28 DEF AddNode, ApplyEvent, AddEvent
  <2>2. cur.genid \in Nat /\ cur.genid < counter
    BY <1>28 DEF AddNode, FreshInv, InRound, BeforeAdd
  <2>3. TreeShape(tree') /\ GenIds(tree') = GenIds(tree) \cup {cur.genid}
    BY <2>1, <2>2, PutAddsId DEF FreshInv
  <2> QED BY <1>28, <2>2, <2>3 DEF AddNode, FreshInv, InRound, BeforeAdd
<1>29. CASE SaveInnerCheckpoint
  <2>1. PayloadShape(latest')
    BY <1>29 DEF SaveInnerCheckpoint, Payload, PayloadShape, FreshInv
  <2> QED BY <1>29, <2>1 DEF SaveInnerCheckpoint, FreshInv, InRound, BeforeAdd
<1>30. CASE SaveOuterCheckpoint
  <2>1. PayloadShape(latest')
    BY <1>30 DEF SaveOuterCheckpoint, Payload, PayloadShape, FreshInv
  <2> QED BY <1>30, <2>1 DEF SaveOuterCheckpoint, FreshInv, InRound, BeforeAdd
<1>31. CASE WriteSnapshot
  <2>1. PayloadShape([latest EXCEPT !.ts = Now])
    BY <1>31 DEF WriteSnapshot, PayloadShape, FreshInv
  <2> QED BY <1>31, <2>1, SnapshotStep DEF WriteSnapshot, FreshInv, InRound, BeforeAdd
<1>32. CASE StartWorker
  <2> DEFINE cp == LoadCheckpoint(IF mode = "resume" THEN "outer" ELSE "latest")
  <2>1. cp # NoCheckpoint => PayloadShape(cp)
    <3>1. NewestOuterSnapshot # NoCheckpoint => PayloadShape(NewestOuterSnapshot)
      BY DEF NewestOuterSnapshot, SnapshotsOrdered, FreshInv
    <3> QED BY <3>1 DEF LoadCheckpoint, FreshInv
  <2>2. CASE GenIds(tree) # {} /\ cp # NoCheckpoint
    <3>1. tree' = cp.tree /\ counter' = cp.counter
      BY <1>32, <2>2 DEF StartWorker, ApplyEvent, ResetEvent
    <3> QED BY <1>32, <2>1, <2>2, <3>1
            DEF StartWorker, PayloadShape, FreshInv, InRound, BeforeAdd
  <2>3. CASE GenIds(tree) # {} /\ cp = NoCheckpoint
    <3> DEFINE m == CHOOSE g \in GenIds(tree) : \A h \in GenIds(tree) : h <= g
    <3>1. m \in Nat /\ \A g \in GenIds(tree) : g < m + 1
      BY <2>3, LoadedIsAhead DEF FreshInv
    <3>2. tree' = tree /\ counter' = IF 1 + m = 0 THEN 1 ELSE 1 + m
      BY <1>32, <2>3 DEF StartWorker
    <3>3. pc' = "enter" /\ UNCHANGED <<latest, snapshots>>
      BY <1>32 DEF StartWorker
    <3> HIDE DEF m
    <3>4. counter' \in Nat /\ \A g \in GenIds(tree') : g < counter'
      BY <3>1, <3>2
    <3> QED BY <3>2, <3>3, <3>4 DEF FreshInv, InRound, BeforeAdd
  <2>4. CASE GenIds(tree) = {}
    <3>1. counter' = 1 /\ \E n : tree' = Put(tree, Initial, n)
      BY <1>32, <2>4 DEF StartWorker
    <3>2. TreeShape(tree') /\ GenIds(tree') = {0}
      BY <2>4, <3>1, PutAddsId DEF FreshInv, Initial
    <3>3. pc' = "enter" /\ UNCHANGED <<latest, snapshots>>
      BY <1>32 DEF StartWorker
    <3> QED BY <3>1, <3>2, <3>3 DEF FreshInv, InRound, BeforeAdd
  <2> QED BY <2>2, <2>3, <2>4
<1> QED BY <1>1, <1>2, <1>3, <1>4, <1>5, <1>6, <1>7, <1>8, <1>9, <1>10, <1>11, <1>12, <1>13, <1>14, <1>15, <1>16, <1>17, <1>18, <1>19, <1>20, <1>21, <1>22, <1>23, <1>24, <1>25, <1>26, <1>27, <1>28, <1>29, <1>30, <1>31, <1>32 DEF Next, WorkerStep

\* Every step keeps the snapshots ordered.
LEMMA OrderStep ==
    FreshInv /\ SnapshotsOrdered /\ [Next]_vars => SnapshotsOrdered'
<1> SUFFICES ASSUME FreshInv, SnapshotsOrdered, [Next]_vars
             PROVE  SnapshotsOrdered'
  OBVIOUS
<1>1. CASE WriteSnapshot
  BY <1>1, SnapshotStep DEF WriteSnapshot, FreshInv, PayloadShape
<1>2. CASE UNCHANGED snapshots
  BY <1>2, SnapshotsKept
<1>3. WriteSnapshot \/ UNCHANGED snapshots
  BY DEF Next, WorkerStep, vars, store, ckpt, repo, driver, worker, StartWorker,
         WorkerExit, Crash, EnterOuter, SelectParent, LeaveInner, ProbePatch,
         ProbeRollback, PlanFails, PlanSucceeds, ApplyTaskPatch, CommitTaskPatch,
         PinTaskRef, TaskRunnerFails, HarnessReports, TrajectoryCollected,
         TrajectoryFails, EvaluatorFails, EvaluatorJudges, RegisterParent,
         AddNode, AppendScore, SettleMeta, SaveInnerCheckpoint, NoSelfPatch,
         ApplySelfPatch, CommitSelfPatch, RecordMeta, SaveOuterCheckpoint,
         DriverStart
<1> QED BY <1>1, <1>2, <1>3

\* The inductive invariant holds of every reachable state.
LEMMA FreshInvariant == Spec => [](FreshInv /\ SnapshotsOrdered)
BY FreshInit, FreshStep, OrderStep, PTL DEF Spec

\* A worker never gives a new generation an id its tree already holds,
\* whatever sequence of crashes, resumes and forced restarts came before.
THEOREM FreshIdsHold == Spec => []FreshIds
<1>1. FreshInv => FreshIds
  BY DEF FreshInv, FreshIds, BeforeAdd
<1> QED BY <1>1, FreshInvariant, PTL

\* No outer snapshot is ever overwritten or deleted: a re-run of an outer gets
\* a name of its own.
THEOREM SnapshotsStayImmutable == Spec => SnapshotsImmutable
<1>1. FreshInv /\ SnapshotsOrdered /\ [Next]_vars
        => [\A n \in DOMAIN snapshots :
              n \in DOMAIN snapshots' /\ snapshots'[n] = snapshots[n]]_snapshots
  <2> SUFFICES ASSUME FreshInv, SnapshotsOrdered, WriteSnapshot
               PROVE  \A n \in DOMAIN snapshots :
                        n \in DOMAIN snapshots' /\ snapshots'[n] = snapshots[n]
    BY DEF Next, WorkerStep, vars, store, ckpt, repo, driver, worker, StartWorker,
         WorkerExit, Crash, EnterOuter, SelectParent, LeaveInner, ProbePatch,
         ProbeRollback, PlanFails, PlanSucceeds, ApplyTaskPatch, CommitTaskPatch,
         PinTaskRef, TaskRunnerFails, HarnessReports, TrajectoryCollected,
         TrajectoryFails, EvaluatorFails, EvaluatorJudges, RegisterParent,
         AddNode, AppendScore, SettleMeta, SaveInnerCheckpoint, NoSelfPatch,
         ApplySelfPatch, CommitSelfPatch, RecordMeta, SaveOuterCheckpoint,
         DriverStart
  <2> QED BY SnapshotStep DEF WriteSnapshot, FreshInv, PayloadShape
<1> QED BY <1>1, FreshInvariant, PTL DEF Spec, SnapshotsImmutable

-----------------------------------------------------------------------------
(***************************************************************************)
(* The blood line.  Lineage, SettledIsScored and ImputedIsGrounded speak   *)
(* of the tree in use; a restore brings back the tree of a payload, so the *)
(* invariant states them of every tree on disk, against the branches,      *)
(* commits and rows that are there now.  These only grow, which keeps old  *)
(* trees sound.                                                            *)
(***************************************************************************)

Bases == Nat \cup {None}

GenNode ==
    [parents : Seq(Nat), depth : Nat, children : Nat, valid : BOOLEAN,
     status : {"alive", "invalid"}, score : Nat \cup {None},
     scoreStatus : {"ok", "failed", "imputed", "invalid"}, outer : Nat,
     base : Bases, commit : Bases, settled : BOOLEAN]

\* A score between two measured scores of tree t.
Grounded(t, s) ==
    \E l, h \in {m \in GenIds(t) : Measured(t.nodes[m])} :
        t.nodes[l].score <= s /\ s <= t.nodes[h].score

\* Commit c is base itself or generation g's own patch on top of it.
OwnCode(c, base, g, C) ==
    \/ c = base
    \/ c \in 1..Len(C) /\ C[c] = [parent |-> base, by |-> g]

\* The code a child of p starts from, in a run with branches R.
StartingCode(t, p, o, R) == IF p = Initial THEN R[OuterRef(o)] ELSE t.nodes[p].commit

\* The row of generation g with the score and validity of node n.
HasRow(g, n, S) ==
    \E row \in S : row.genid = g /\ row.score = n.score /\ row.valid = n.valid

SoundNode(n, g, t, R, C, S) ==
    /\ g # Initial =>
         /\ n.parents[1] \in GenIds(t) /\ t.nodes[n.parents[1]].valid
         /\ n.valid => n.commit # None
         /\ n.commit # None =>
              /\ n.commit \in 0..Len(C)
              /\ OuterRef(n.outer) \in DOMAIN R
              /\ n.base = StartingCode(t, n.parents[1], n.outer, R)
              /\ OwnCode(n.commit, n.base, g, C)
    /\ n.valid => n.scoreStatus \in {"ok", "imputed"}
    /\ n.settled => HasRow(g, n, S)
    /\ n.scoreStatus = "imputed" => n.score \in Nat /\ Grounded(t, n.score)

SoundTree(t, R, C, S) ==
    /\ GenIds(t) \subseteq Nat /\ IsFiniteSet(GenIds(t))
    /\ t.nodes \in [GenIds(t) -> GenNode]
    /\ \A g \in GenIds(t) : SoundNode(t.nodes[g], g, t, R, C, S)

SoundPayload(p, R, C, S) ==
    /\ {"outer", "counter", "roleCommits", "tree", "metaTree", "commit", "ts"} \subseteq DOMAIN p
    /\ SoundTree(p.tree, R, C, S) /\ GenIds(p.tree) # {}
    /\ p.outer \in Nat \ {0} /\ p.commit \in 0..Len(C)

CommitKind == [parent : Nat, by : Nat \cup {"evaluator", "planner"}]

CommitLog == commits \in Seq(CommitKind)

DiskInv ==
    /\ \A c \in DOMAIN commits : commits[c].parent \in 0..(c - 1)
    /\ head \in CommitIds /\ outer \in Nat \ {0}
    /\ \A r \in DOMAIN refs : refs[r] \in CommitIds
    /\ SoundTree(tree, refs, commits, scores)
    /\ latest # NoCheckpoint => SoundPayload(latest, refs, commits, scores)
    /\ \A n \in DOMAIN snapshots : SoundPayload(snapshots[n], refs, commits, scores)
    /\ pc # "down" \/ latest # NoCheckpoint \/ DOMAIN snapshots # {}
         => GenIds(tree) # {}
    /\ pc \notin {"down", "enter"} => OuterRef(outer) \in DOMAIN refs
    /\ pc \in {"snapshot", "exit"} => latest # NoCheckpoint

RoundKind ==
    [genid : Nat, parents : Seq(Nat), base : Nat,
     patch : PatchOutcomes \cup {None}, node : GenNode, todo : Seq(Nat),
     tail : {None, "invalid", "no_trajectory", "settle"}]

\* A generation in progress in outer o: its parent, its base and what its node
\* already says.
SoundCur(c, o, t, R, C) ==
    /\ c \in RoundKind
    /\ Len(c.parents) = 1 /\ c.todo \in {<<>>, c.parents}
    /\ c.parents[1] \in GenIds(t) /\ t.nodes[c.parents[1]].valid
    /\ c.base \in 0..Len(C) /\ OuterRef(o) \in DOMAIN R
    /\ c.base = StartingCode(t, c.parents[1], o, R)
    /\ c.node.parents = c.parents /\ c.node.outer = o /\ ~c.node.settled
    /\ c.node.commit # None =>
         /\ c.node.commit \in 0..Len(C) /\ c.node.base = c.base
         /\ OwnCode(c.node.commit, c.base, c.genid, C)
    /\ c.node.valid => c.node.scoreStatus \in {"ok", "imputed"}
    /\ c.node.scoreStatus = "imputed" =>
         c.node.score \in Nat /\ Grounded(t, c.node.score)

\* What holds of the generation in progress at each of its steps.
RoundInv ==
    pc \in InRound =>
      /\ SoundCur(cur, outer, tree, refs, commits)
      /\ pc = "commit" => head = cur.base
      /\ pc \in {"pin", "harness", "collect", "evaluate"} => cur.node.commit # None
      /\ pc \in {"register", "score", "meta"} /\ cur.node.valid => cur.node.commit # None
      /\ pc \in {"score", "meta"} =>
           /\ cur.genid \in GenIds(tree)
           /\ tree.nodes[cur.genid].score = cur.node.score
           /\ tree.nodes[cur.genid].valid = cur.node.valid
      /\ pc = "meta" => HasRow(cur.genid, cur.node, scores)

\* The work tree is clean in a round, and there is a generation only in one.
CleanInv ==
    /\ dirty \subseteq Leftovers
    /\ pc \in InRound => dirty = {}
    /\ pc \notin InRound => cur = None

\* Two payloads of the same state, written at different times.
SameState(p, q) ==
    \A f \in {"outer", "counter", "roleCommits", "tree", "metaTree", "commit"} :
        p[f] = q[f]

\* What a worker will start from: at the end of an outer and until the next
\* worker starts, checkpoint.json, the newest snapshot and HEAD agree.
ResumeInv ==
    LET newest == NewestOuterSnapshot
    IN  /\ drv # "running" => pc = "down"
        /\ pc = "snapshot" => SameState(latest, Payload("outer", InnerMax))
        /\ pc = "exit" => /\ newest # NoCheckpoint /\ SameState(newest, latest)
                          /\ SameState(latest, Payload("outer", InnerMax))
        /\ pc = "down" /\ drv = "running" /\ newest # NoCheckpoint
             /\ outer = newest.outer + 1 =>
                /\ head = newest.commit
                /\ mode # "resume" => latest # NoCheckpoint /\ SameState(newest, latest)
        /\ ContinuesNewest

\* What is left of the type invariant.
CountersInv ==
    /\ inner \in Nat /\ noImprove \in Nat /\ seat \in 1..2
    /\ starts \in 0..MaxStarts /\ crashes \in 0..MaxCrashes
    /\ drv \in {"stopped", "running", "done"} /\ mode \in Modes \cup {"fresh"}
    /\ pc \in Steps /\ probed \in BOOLEAN

LoopInv == CommitLog /\ DiskInv /\ RoundInv /\ CleanInv /\ ResumeInv /\ CountersInv

-----------------------------------------------------------------------------
(* What a growing disk keeps.                                              *)

\* Tree u has the nodes of t, with their validity, code and scores.
TreeKept(t, u) ==
    \A g \in GenIds(t) :
        /\ g \in GenIds(u)
        /\ u.nodes[g].valid = t.nodes[g].valid
        /\ u.nodes[g].commit = t.nodes[g].commit
        /\ u.nodes[g].score = t.nodes[g].score
        /\ u.nodes[g].scoreStatus = t.nodes[g].scoreStatus

RefsKept(R, Q) == \A r \in DOMAIN R : r \in DOMAIN Q /\ Q[r] = R[r]

CommitsKept(C, D) ==
    /\ Len(C) \in Nat /\ Len(D) \in Nat /\ Len(C) <= Len(D)
    /\ \A c \in 1..Len(C) : D[c] = C[c]

LEMMA GroundedKept ==
    ASSUME NEW t, NEW u, TreeKept(t, u), NEW s, Grounded(t, s)
    PROVE  Grounded(u, s)
BY DEF Grounded, TreeKept, Measured

LEMMA OwnCodeKept ==
    ASSUME NEW c, NEW b, NEW g, NEW C, NEW D, CommitsKept(C, D), OwnCode(c, b, g, C)
    PROVE  OwnCode(c, b, g, D)
BY DEF OwnCode, CommitsKept

LEMMA NodeKept ==
    ASSUME NEW n, NEW g, NEW t, NEW R, NEW C, NEW S, SoundNode(n, g, t, R, C, S),
           NEW u, NEW Q, NEW D, NEW P,
           TreeKept(t, u), RefsKept(R, Q), CommitsKept(C, D), S \subseteq P
    PROVE  SoundNode(n, g, u, Q, D, P)
<1>1. n.settled => HasRow(g, n, P)
  BY DEF SoundNode, HasRow
<1>2. n.scoreStatus = "imputed" => n.score \in Nat /\ Grounded(u, n.score)
  BY GroundedKept DEF SoundNode
<1>3. n.valid => n.scoreStatus \in {"ok", "imputed"}
  BY DEF SoundNode
<1>4. ASSUME g # Initial
      PROVE  /\ n.parents[1] \in GenIds(u) /\ u.nodes[n.parents[1]].valid
             /\ n.valid => n.commit # None
  BY <1>4 DEF SoundNode, TreeKept
<1>5. ASSUME g # Initial, n.commit # None
      PROVE  /\ n.commit \in 0..Len(D)
             /\ OuterRef(n.outer) \in DOMAIN Q
             /\ n.base = StartingCode(u, n.parents[1], n.outer, Q)
             /\ OwnCode(n.commit, n.base, g, D)
  <2>1. /\ n.parents[1] \in GenIds(t) /\ n.commit \in 0..Len(C)
        /\ OuterRef(n.outer) \in DOMAIN R /\ OwnCode(n.commit, n.base, g, C)
        /\ n.base = StartingCode(t, n.parents[1], n.outer, R)
    BY <1>5 DEF SoundNode
  <2>2. n.commit \in 0..Len(D)
    BY <2>1 DEF CommitsKept
  <2>3. n.base = StartingCode(u, n.parents[1], n.outer, Q)
    BY <2>1 DEF StartingCode, TreeKept, RefsKept
  <2> QED BY <2>1, <2>2, <2>3, OwnCodeKept DEF RefsKept
<1> QED BY <1>1, <1>2, <1>3, <1>4, <1>5 DEF SoundNode

LEMMA TreeStaysSound ==
    ASSUME NEW t, NEW R, NEW C, NEW S, SoundTree(t, R, C, S), NEW Q, NEW D, NEW P,
           RefsKept(R, Q), CommitsKept(C, D), S \subseteq P
    PROVE  SoundTree(t, Q, D, P)
<1>1. TreeKept(t, t)
  BY DEF TreeKept
<1>2. ASSUME NEW g \in GenIds(t) PROVE SoundNode(t.nodes[g], g, t, Q, D, P)
  <2>1. SoundNode(t.nodes[g], g, t, R, C, S)
    BY DEF SoundTree
  <2> QED BY <2>1, <1>1, NodeKept
<1> QED BY <1>2 DEF SoundTree

LEMMA PayloadStaysSound ==
    ASSUME NEW p, NEW R, NEW C, NEW S, SoundPayload(p, R, C, S), NEW Q, NEW D, NEW P,
           RefsKept(R, Q), CommitsKept(C, D), S \subseteq P
    PROVE  SoundPayload(p, Q, D, P)
<1>1. SoundTree(p.tree, Q, D, P)
  BY TreeStaysSound DEF SoundPayload
<1>2. p.commit \in 0..Len(D)
  BY DEF SoundPayload, CommitsKept
<1> QED BY <1>1, <1>2 DEF SoundPayload

LEMMA CurKept ==
    ASSUME NEW c, NEW o, NEW t, NEW R, NEW C, SoundCur(c, o, t, R, C),
           NEW u, NEW Q, NEW D,
           TreeKept(t, u), RefsKept(R, Q), CommitsKept(C, D)
    PROVE  SoundCur(c, o, u, Q, D)
<1>1. /\ c.parents[1] \in GenIds(u) /\ u.nodes[c.parents[1]].valid
      /\ c.base \in 0..Len(D) /\ OuterRef(o) \in DOMAIN Q
      /\ c.base = StartingCode(u, c.parents[1], o, Q)
  BY DEF SoundCur, TreeKept, RefsKept, CommitsKept, StartingCode
<1>2. c.node.commit # None =>
         /\ c.node.commit \in 0..Len(D) /\ c.node.base = c.base
         /\ OwnCode(c.node.commit, c.base, c.genid, D)
  BY OwnCodeKept DEF SoundCur, CommitsKept
<1>3. c.node.scoreStatus = "imputed" =>
         c.node.score \in Nat /\ Grounded(u, c.node.score)
  BY GroundedKept DEF SoundCur
<1> QED BY <1>1, <1>2, <1>3 DEF SoundCur

-----------------------------------------------------------------------------
(* Imputed scores.                                                         *)

ScoresOf(t, S) == {t.nodes[g].score : g \in S}
Below(t, S, x) == {g \in S : t.nodes[g].score < x}
UpTo(t, S, x)  == {g \in S : t.nodes[g].score <= x}

\* Of n naturals, the one at position k (from 0) exists.
LEMMA OrderStatistic ==
    ASSUME NEW t, NEW S, IsFiniteSet(S), \A g \in S : t.nodes[g].score \in Nat,
           NEW k \in Nat, k < Cardinality(S)
    PROVE  \E x \in ScoresOf(t, S) : /\ Cardinality(Below(t, S, x)) <= k
                                    /\ k < Cardinality(UpTo(t, S, x))
<1> DEFINE s(g)     == t.nodes[g].score
           X        == {s(g) : g \in S}
           below(x) == {g \in S : s(g) < x}
           upTo(x)  == {g \in S : s(g) <= x}
           n        == Cardinality(S)
           T        == {x \in X : k < Cardinality(upTo(x))}
<1>1. n \in Nat /\ X \subseteq Nat
  BY FS_CardinalityType
<1>2. \A x : /\ IsFiniteSet(upTo(x)) /\ IsFiniteSet(below(x))
             /\ Cardinality(upTo(x)) \in Nat /\ Cardinality(upTo(x)) <= n
             /\ Cardinality(below(x)) \in Nat /\ Cardinality(below(x)) <= n
  <2>1. \A x : upTo(x) \subseteq S /\ below(x) \subseteq S
    OBVIOUS
  <2> HIDE DEF upTo, below
  <2> QED BY <1>1, <2>1, FS_Subset, FS_CardinalityType
<1>3. T # {}
  <2> DEFINE U == {Cardinality(upTo(x)) : x \in X}
  <2>1. S # {}
    BY <1>1, FS_EmptySet
  <2>2. U # {} /\ U \subseteq Nat /\ \A m \in U : m <= n
    <3>1. \A x \in X : Cardinality(upTo(x)) \in Nat /\ Cardinality(upTo(x)) <= n
      <4> HIDE DEF upTo, n
      <4> QED BY <1>1, <1>2
    <3>2. X # {}
      BY <2>1
    <3> HIDE DEF upTo, n, X
    <3> QED BY <3>1, <3>2
  <2>3. PICK m \in U : \A l \in U : l <= m
    <3> HIDE DEF U
    <3> QED BY <1>1, <2>2, GreatestNatural
  <2>4. PICK x \in X : m = Cardinality(upTo(x))
    BY <2>3
  <2>5. upTo(x) = S
    <3> SUFFICES ASSUME upTo(x) # S PROVE FALSE
      OBVIOUS
    <3>1. PICK g \in S : ~(s(g) <= x)
      OBVIOUS
    <3>2. x \in Nat /\ s(g) \in Nat /\ x < s(g)
      BY <1>1, <3>1
    <3>3. g \notin upTo(x) /\ upTo(x) \cup {g} \subseteq upTo(s(g))
      <4>1. \A h \in S : s(h) <= x => s(h) <= s(g)
        BY <1>1, <3>2
      <4> QED BY <3>1, <3>2, <4>1
    <3>4. Cardinality(upTo(x)) + 1 <= Cardinality(upTo(s(g)))
      <4> HIDE DEF upTo, s
      <4>1. /\ Cardinality(upTo(x) \cup {g}) = Cardinality(upTo(x)) + 1
            /\ IsFiniteSet(upTo(x) \cup {g})
        BY <1>2, <3>3, FS_AddElement
      <4>2. Cardinality(upTo(x) \cup {g}) <= Cardinality(upTo(s(g)))
        BY <1>2, <3>3, <4>1, FS_Subset
      <4> QED BY <4>1, <4>2
    <3>5. Cardinality(upTo(s(g))) <= m
      BY <2>3
    <3>6. /\ Cardinality(upTo(x)) \in Nat /\ m = Cardinality(upTo(x))
          /\ Cardinality(upTo(s(g))) \in Nat
      <4> HIDE DEF upTo, s, n
      <4> QED BY <1>1, <1>2, <2>4
    <3> HIDE DEF upTo, s, n
    <3> QED BY <3>4, <3>5, <3>6
  <2>6. x \in T
    BY <2>5
  <2> QED BY <2>6
<1>4. PICK x \in T : \A y \in T : x <= y
  <2>1. T \subseteq Nat
    BY <1>1
  <2> HIDE DEF T
  <2> QED BY <1>3, <2>1, LeastNatural
<1>5. x \in Nat /\ x \in X /\ k < Cardinality(upTo(x))
  BY <1>1
<1>6. Cardinality(below(x)) <= k
  <2>0. Cardinality(below(x)) \in Nat
    <3> HIDE DEF below, n
    <3> QED BY <1>1, <1>2
  <2> SUFFICES ASSUME k < Cardinality(below(x)) PROVE FALSE
    <3> HIDE DEF below
    <3> QED BY <2>0
  <2> DEFINE V == {s(g) : g \in below(x)}
  <2>1. below(x) # {}
    <3> HIDE DEF below
    <3>1. Cardinality(below(x)) # 0
      BY <1>1, <2>0
    <3> QED BY <3>1, FS_EmptySet
  <2>2. V # {} /\ V \subseteq Nat /\ \A v \in V : v <= x
    <3>1. \A g \in below(x) : s(g) \in Nat /\ s(g) <= x
      BY <1>5
    <3> HIDE DEF below, s
    <3> QED BY <2>1, <3>1
  <2>3. PICK y \in V : \A v \in V : v <= y
    <3> HIDE DEF V
    <3> QED BY <1>5, <2>2, GreatestNatural
  <2>4. y \in X /\ y \in Nat /\ y < x
    BY <2>2, <2>3
  <2>5. upTo(y) = below(x)
    <3>1. \A g \in S : s(g) < x => s(g) <= y
      BY <2>3
    <3>2. \A g \in S : s(g) <= y => s(g) < x
      BY <1>5, <2>4
    <3> QED BY <3>1, <3>2
  <2>6. y \in T
    BY <2>4, <2>5
  <2>7. x <= y
    <3> HIDE DEF T
    <3> QED BY <1>4, <2>6
  <2> HIDE DEF T, V, X, below, upTo
  <2> QED BY <1>5, <2>4, <2>7
<1> QED BY <1>5, <1>6 DEF ScoresOf, Below, UpTo

\* The median lies between two of the scores.
LEMMA MedianBounds ==
    ASSUME NEW S, IsFiniteSet(S), S # {}, \A g \in S : tree.nodes[g].score \in Nat
    PROVE  /\ Median(S) \in Nat
           /\ \E l, h \in S : /\ tree.nodes[l].score <= Median(S)
                              /\ Median(S) <= tree.nodes[h].score
<1> DEFINE s(g)     == tree.nodes[g].score
           below(x) == Cardinality({g \in S : s(g) < x})
           upTo(x)  == Cardinality({g \in S : s(g) <= x})
           X        == {s(g) : g \in S}
           At(k)    == CHOOSE x \in X : below(x) <= k /\ k < upTo(x)
           n        == Cardinality(S)
<1>1. Median(S) = (At((n - 1) \div 2) + At(n \div 2)) \div 2
  BY DEF Median
<1>2. n \in Nat \ {0}
  BY FS_CardinalityType, FS_EmptySet
<1>3. ASSUME NEW k \in Nat, k < n PROVE At(k) \in X
  <2>1. \E x \in ScoresOf(tree, S) : /\ Cardinality(Below(tree, S, x)) <= k
                                    /\ k < Cardinality(UpTo(tree, S, x))
    <3> HIDE DEF n
    <3>1. k < Cardinality(S)
      BY <1>3 DEF n
    <3> QED BY <3>1, OrderStatistic
  <2>2. \E x \in X : below(x) <= k /\ k < upTo(x)
    BY <2>1 DEF ScoresOf, Below, UpTo
  <2> HIDE DEF below, upTo, X
  <2> QED BY <2>2
<1> DEFINE a == At((n - 1) \div 2)
           b == At(n \div 2)
<1>4. a \in X /\ b \in X
  <2> HIDE DEF At, X, n
  <2>1. (n - 1) \div 2 \in Nat /\ (n - 1) \div 2 < n /\ n \div 2 \in Nat /\ n \div 2 < n
    BY <1>2
  <2> QED BY <1>3, <2>1 DEF a, b
<1>5. PICK i \in S, j \in S : a = s(i) /\ b = s(j)
  <2> HIDE DEF At, n
  <2> QED BY <1>4
<1> HIDE DEF a, b, n, At
<1>6. a \in Nat /\ b \in Nat /\ Median(S) = (a + b) \div 2
  BY <1>1, <1>5 DEF a, b
<1>7. Median(S) \in Nat
  BY <1>6
<1>8. CASE a <= b
  <2>1. a <= Median(S) /\ Median(S) <= b
    BY <1>6, <1>8
  <2> QED BY <1>5, <1>7, <2>1
<1>9. CASE b <= a
  <2>1. b <= Median(S) /\ Median(S) <= a
    BY <1>6, <1>9
  <2> QED BY <1>5, <1>7, <2>1
<1> QED BY <1>6, <1>8, <1>9

\* An imputed score lies between measured scores of the tree, also when it is
\* the parent's and the parent's was imputed itself.
LEMMA ImputedGrounded ==
    ASSUME SoundTree(tree, refs, commits, scores), NEW p \in GenIds(tree),
           tree.nodes[p].valid, ImputeScore(p) # None
    PROVE  ImputeScore(p) \in Nat /\ Grounded(tree, ImputeScore(p))
<1> DEFINE sibs == {g \in GenIds(tree) : /\ tree.nodes[g].parents # <<>>
                                         /\ tree.nodes[g].parents[1] = p
                                         /\ Measured(tree.nodes[g])}
<1>1. \A g \in GenIds(tree) :
         /\ tree.nodes[g].score \in Nat \cup {None}
         /\ tree.nodes[g].scoreStatus = "imputed" => Grounded(tree, tree.nodes[g].score)
         /\ tree.nodes[g].valid => tree.nodes[g].scoreStatus \in {"ok", "imputed"}
  BY DEF SoundTree, SoundNode, GenNode
<1>2. /\ IsFiniteSet(sibs) /\ Cardinality(sibs) \in Nat
      /\ \A g \in sibs : /\ g \in GenIds(tree) /\ Measured(tree.nodes[g])
                         /\ tree.nodes[g].score \in Nat
  <2>1. sibs \subseteq GenIds(tree) /\ IsFiniteSet(GenIds(tree))
    BY DEF SoundTree
  <2>2. \A g \in sibs : Measured(tree.nodes[g])
    OBVIOUS
  <2> HIDE DEF sibs
  <2>3. IsFiniteSet(sibs) /\ Cardinality(sibs) \in Nat
    BY <2>1, FS_Subset, FS_CardinalityType
  <2> QED BY <1>1, <2>1, <2>2, <2>3 DEF Measured
<1>3. ImputeScore(p) = IF Cardinality(sibs) >= 2 THEN Median(sibs)
                       ELSE tree.nodes[p].score
  BY DEF ImputeScore
<1> HIDE DEF sibs
<1>4. CASE Cardinality(sibs) >= 2
  <2>1. sibs # {}
    BY <1>4, FS_EmptySet
  <2>2. /\ Median(sibs) \in Nat
        /\ \E l, h \in sibs : /\ tree.nodes[l].score <= Median(sibs)
                              /\ Median(sibs) <= tree.nodes[h].score
    BY <1>2, <2>1, MedianBounds
  <2> QED BY <1>2, <1>3, <1>4, <2>2 DEF Grounded
<1>5. CASE ~(Cardinality(sibs) >= 2)
  <2>1. ImputeScore(p) = tree.nodes[p].score /\ ImputeScore(p) \in Nat
    BY <1>1, <1>3, <1>5
  <2>2. CASE tree.nodes[p].scoreStatus = "imputed"
    BY <1>1, <2>1, <2>2
  <2>3. CASE tree.nodes[p].scoreStatus = "ok"
    <3>1. Measured(tree.nodes[p]) /\ ImputeScore(p) <= ImputeScore(p)
      BY <2>1, <2>3 DEF Measured
    <3> QED BY <2>1, <3>1 DEF Grounded
  <2> QED BY <1>1, <2>2, <2>3
<1> QED BY <1>4, <1>5

\* Settling a child's validity changes its score, status and validity, and
\* leaves it valid only with a score that is measured or grounded.
LEMMA FinalizeSound ==
    ASSUME SoundTree(tree, refs, commits, scores), NEW p \in GenIds(tree),
           tree.nodes[p].valid, NEW n \in GenNode,
           n.scoreStatus = IF n.score = None THEN "failed" ELSE "ok",
           NEW m, m = FinalizeChild(n, p)
    PROVE  /\ m \in GenNode
           /\ m.parents = n.parents /\ m.outer = n.outer /\ m.settled = n.settled
           /\ m.base = n.base /\ m.commit = n.commit
           /\ m.valid => m.scoreStatus \in {"ok", "imputed"}
           /\ m.scoreStatus = "imputed" => m.score \in Nat /\ Grounded(tree, m.score)
<1>1. CASE Measured(n)
  BY <1>1 DEF FinalizeChild, Measured
<1>2. CASE ~Measured(n) /\ ImputeScore(p) = None
  BY <1>2 DEF FinalizeChild, GenNode
<1>3. CASE ~Measured(n) /\ ImputeScore(p) # None
  <2>1. m = [n EXCEPT !.score = ImputeScore(p), !.scoreStatus = "imputed"]
    BY <1>3 DEF FinalizeChild
  <2>2. ImputeScore(p) \in Nat /\ Grounded(tree, ImputeScore(p))
    BY <1>3, ImputedGrounded
  <2> HIDE DEF Measured
  <2> QED BY <2>1, <2>2 DEF GenNode
<1> QED BY <1>1, <1>2, <1>3

-----------------------------------------------------------------------------
(* What the steps do to the tree.                                          *)

\* Nodes n and m differ at most in their counter of children.
Recounted(n, m) ==
    \A f \in {"parents", "valid", "score", "scoreStatus", "outer", "base", "commit",
             "settled"} : m[f] = n[f]

\* Registering a child at its parent counts it and changes nothing else.
LEMMA ChildCounted ==
    ASSUME NEW t, t.nodes \in [GenIds(t) -> GenNode], NEW g \in GenIds(t),
           NEW u, u = ApplyEvent(t, UpdateEvent(g, [children |-> t.nodes[g].children + 1]))
    PROVE  /\ GenIds(u) = GenIds(t) /\ u.nodes \in [GenIds(t) -> GenNode]
           /\ \A h \in GenIds(t) : Recounted(t.nodes[h], u.nodes[h])
<1> DEFINE k == t.nodes[g].children + 1
           n == [f \in DOMAIN t.nodes[g] |->
                   IF f \in {"children"} THEN k ELSE t.nodes[g][f]]
<1>1. t.nodes[g] \in GenNode /\ k \in Nat
  BY DEF GenNode
<1>2. u = [nodes |-> [t.nodes EXCEPT ![g] = n], order |-> t.order]
  BY DEF ApplyEvent, UpdateEvent, SetFields
<1>3. n = [t.nodes[g] EXCEPT !.children = k] /\ n \in GenNode
  <2> HIDE DEF k
  <2> QED BY <1>1 DEF GenNode
<1> HIDE DEF n
<1>4. u.nodes = [t.nodes EXCEPT ![g] = n] /\ GenIds(u) = GenIds(t)
  BY <1>1, <1>2 DEF GenIds
<1>5. Recounted(t.nodes[g], n)
  BY <1>1, <1>3 DEF Recounted, GenNode
<1>6. \A h \in GenIds(t) : Recounted(t.nodes[h], u.nodes[h])
  BY <1>4, <1>5 DEF Recounted
<1> QED BY <1>3, <1>4, <1>6

\* Settling marks the node and changes nothing else.
LEMMA NodeSettled ==
    ASSUME NEW t, t.nodes \in [GenIds(t) -> GenNode], NEW g \in GenIds(t),
           NEW u, u = ApplyEvent(t, UpdateEvent(g, [settled |-> TRUE]))
    PROVE  /\ GenIds(u) = GenIds(t) /\ u.nodes \in [GenIds(t) -> GenNode]
           /\ \A h \in GenIds(t) \ {g} : u.nodes[h] = t.nodes[h]
           /\ u.nodes[g] = [t.nodes[g] EXCEPT !.settled = TRUE]
<1> DEFINE fields == [settled |-> TRUE]
           n == [f \in DOMAIN t.nodes[g] |->
                   IF f \in DOMAIN fields THEN fields[f] ELSE t.nodes[g][f]]
<1>1. t.nodes[g] \in GenNode
  OBVIOUS
<1>2. u = [nodes |-> [t.nodes EXCEPT ![g] = n], order |-> t.order]
  <2> HIDE DEF fields
  <2>1. u = SetFields(t, g, fields)
    BY DEF fields, ApplyEvent, UpdateEvent
  <2> QED BY <2>1 DEF SetFields
<1>3. n = [t.nodes[g] EXCEPT !.settled = TRUE] /\ n \in GenNode
  <2>1. DOMAIN fields = {"settled"} /\ fields["settled"] = TRUE
    OBVIOUS
  <2> HIDE DEF fields
  <2> QED BY <1>1, <2>1 DEF GenNode
<1> HIDE DEF n
<1>4. u.nodes = [t.nodes EXCEPT ![g] = n] /\ GenIds(u) = GenIds(t)
  BY <1>1, <1>2 DEF GenIds
<1> QED BY <1>3, <1>4

\* Adding a node under a new id keeps the others.
LEMMA NodeAdded ==
    ASSUME NEW t, t.nodes \in [GenIds(t) -> GenNode], NEW g \in Nat \ GenIds(t),
           NEW n \in GenNode, NEW u, u = Put(t, g, n)
    PROVE  /\ GenIds(u) = GenIds(t) \cup {g}
           /\ u.nodes \in [GenIds(u) -> GenNode] /\ u.nodes[g] = n
           /\ \A h \in GenIds(t) : u.nodes[h] = t.nodes[h]
<1>1. u.nodes = [h \in GenIds(t) \cup {g} |-> IF h = g THEN n ELSE t.nodes[h]]
  BY DEF Put
<1> QED BY <1>1 DEF GenIds

\* The parent of a new generation: one valid node of the tree.
LEMMA ParentSelected ==
    ASSUME NEW t, NEW b, NEW d,
           NEW ps \in SelectParents(t, 1, b, d, "ucb"), ps # <<>>
    PROVE  /\ Len(ps) = 1 /\ ps = <<ps[1]>>
           /\ ps[1] \in GenIds(t) /\ t.nodes[ps[1]].valid
<1> DEFINE C == Candidates(t, b, d)
<1>1. PICK k \in 0..1 : ps \in [1..k -> C]
  BY DEF SelectParents
<1>2. k = 1
  <2>1. k = 0 => ps = <<>>
    BY <1>1
  <2> QED BY <1>1, <2>1
<1>3. ps \in [1..1 -> C] /\ 1 \in 1..1 /\ Len(ps) = 1 /\ ps = <<ps[1]>>
  BY <1>1, <1>2
<1>4. ps[1] \in C
  BY <1>3
<1> QED BY <1>3, <1>4 DEF Candidates, IsCandidate

-----------------------------------------------------------------------------
(* Every step keeps the invariant, one part after the other.               *)

\* Branches stay where they are, commits and score rows are only added.
LEMMA DiskGrows ==
    ASSUME CommitLog, DiskInv, CountersInv, FreshInv, [Next]_vars
    PROVE  /\ RefsKept(refs, refs') /\ CommitsKept(commits, commits')
           /\ scores \subseteq scores' /\ CommitLog'
           /\ \A c \in DOMAIN commits' : commits'[c].parent \in 0..(c - 1)
<1>1. CASE UNCHANGED commits
  <2>1. CommitsKept(commits, commits')
    BY <1>1, SMTT(30) DEF CommitLog, CommitsKept
  <2>2. RefsKept(refs, refs')
    BY DEF RefsKept, Next, WorkerStep, vars, store, ckpt, repo, driver, worker,
           StartWorker, WorkerExit, Crash, EnterOuter, EnsureBranch, SelectParent,
           LeaveInner, ProbePatch, ProbeRollback, PlanFails, PlanSucceeds,
           ApplyTaskPatch, CommitTaskPatch, PinTaskRef, TaskRunnerFails,
           HarnessReports, TrajectoryCollected, TrajectoryFails, EvaluatorFails,
           EvaluatorJudges, RegisterParent, AddNode, AppendScore, SettleMeta,
           SaveInnerCheckpoint, NoSelfPatch, ApplySelfPatch, CommitSelfPatch,
           RecordMeta, SaveOuterCheckpoint, WriteSnapshot, DriverStart
  <2>3. scores \subseteq scores'
    BY DEF Next, WorkerStep, vars, store, ckpt, repo, driver, worker,
           StartWorker, WorkerExit, Crash, EnterOuter, SelectParent,
           LeaveInner, ProbePatch, ProbeRollback, PlanFails, PlanSucceeds,
           ApplyTaskPatch, CommitTaskPatch, PinTaskRef, TaskRunnerFails,
           HarnessReports, TrajectoryCollected, TrajectoryFails, EvaluatorFails,
           EvaluatorJudges, RegisterParent, AddNode, AppendScore, SettleMeta,
           SaveInnerCheckpoint, NoSelfPatch, ApplySelfPatch, CommitSelfPatch,
           RecordMeta, SaveOuterCheckpoint, WriteSnapshot, DriverStart
  <2> QED BY <1>1, <2>1, <2>2, <2>3 DEF CommitLog, DiskInv
<1>2. CASE commits' # commits
  <2>1. PICK by \in Nat \cup {"evaluator", "planner"} :
           commits' = Append(commits, [parent |-> head, by |-> by])
    <3>1. CASE CommitTaskPatch
      <4>1. cur.genid \in Nat
        BY <3>1 DEF CommitTaskPatch, FreshInv, InRound, BeforeAdd
      <4> QED BY <1>2, <3>1, <4>1 DEF CommitTaskPatch, Commit
    <3>2. CASE \E p \in PatchOutcomes \ {"none"} : CommitSelfPatch(p)
      <4>1. Roles[seat] \in {"evaluator", "planner"}
        <5>1. seat = 1 \/ seat = 2
          BY DEF CountersInv
        <5> QED BY <5>1 DEF Roles
      <4> QED BY <1>2, <3>2, <4>1 DEF CommitSelfPatch, Commit
    <3>3. CommitTaskPatch \/ \E p \in PatchOutcomes \ {"none"} : CommitSelfPatch(p)
      BY <1>2
      DEF Next, WorkerStep, vars, store, ckpt, repo, driver, worker,
           StartWorker, WorkerExit, Crash, EnterOuter, SelectParent,
           LeaveInner, ProbePatch, ProbeRollback, PlanFails, PlanSucceeds,
           ApplyTaskPatch, PinTaskRef, TaskRunnerFails,
           HarnessReports, TrajectoryCollected, TrajectoryFails, EvaluatorFails,
           EvaluatorJudges, RegisterParent, AddNode, AppendScore, SettleMeta,
           SaveInnerCheckpoint, NoSelfPatch, ApplySelfPatch,
           RecordMeta, SaveOuterCheckpoint, WriteSnapshot, DriverStart
    <3> QED BY <3>1, <3>2, <3>3
  <2>2. UNCHANGED <<refs, scores>>
    BY <1>2
    DEF Next, WorkerStep, vars, store, ckpt, repo, driver, worker,
           StartWorker, WorkerExit, Crash, EnterOuter, SelectParent,
           LeaveInner, ProbePatch, ProbeRollback, PlanFails, PlanSucceeds,
           ApplyTaskPatch, CommitTaskPatch, PinTaskRef, TaskRunnerFails,
           HarnessReports, TrajectoryCollected, TrajectoryFails, EvaluatorFails,
           EvaluatorJudges, RegisterParent, AddNode, AppendScore, SettleMeta,
           SaveInnerCheckpoint, NoSelfPatch, ApplySelfPatch, CommitSelfPatch,
           RecordMeta, SaveOuterCheckpoint, WriteSnapshot, DriverStart
  <2>3. head \in 0..Len(commits) /\ head \in Nat
    BY DEF DiskInv, CommitIds
  <2>4. [parent |-> head, by |-> by] \in CommitKind
    BY <2>1, <2>3 DEF CommitKind
  <2> DEFINE new == [parent |-> head, by |-> by]
  <2>5. commits \in Seq(CommitKind) /\ new.parent = head
    BY DEF CommitLog
  <2> HIDE DEF new
  <2>6. /\ commits' \in Seq(CommitKind) /\ Len(commits') = Len(commits) + 1
        /\ Len(commits) \in Nat
        /\ \A c \in 1..Len(commits) : commits'[c] = commits[c]
        /\ commits'[Len(commits) + 1] = new
    BY <2>1, <2>4, <2>5 DEF new
  <2>7. CommitsKept(commits, commits') /\ RefsKept(refs, refs') /\ scores \subseteq scores'
    BY <2>2, <2>6 DEF CommitsKept, RefsKept
  <2>8. \A c \in DOMAIN commits' : commits'[c].parent \in 0..(c - 1)
    <3>1. \A c \in 1..Len(commits) : commits[c].parent \in 0..(c - 1)
      BY <2>5 DEF DiskInv
    <3> QED BY <3>1, <2>3, <2>5, <2>6
  <2> QED BY <2>6, <2>7, <2>8 DEF CommitLog
<1> QED BY <1>1, <1>2

\* The counter of children is no part of what makes a node sound.
LEMMA CountingIsSound ==
    ASSUME NEW n, NEW m, Recounted(n, m), NEW g, NEW t, NEW R, NEW C, NEW S,
           SoundNode(n, g, t, R, C, S)
    PROVE  SoundNode(m, g, t, R, C, S)
<1>1. /\ m.parents = n.parents /\ m.valid = n.valid /\ m.commit = n.commit
      /\ m.outer = n.outer /\ m.base = n.base /\ m.settled = n.settled
      /\ m.scoreStatus = n.scoreStatus /\ m.score = n.score
  BY DEF Recounted
<1> QED BY <1>1 DEF SoundNode, HasRow

\* Counting a child keeps every tree sound.
LEMMA CountKept ==
    ASSUME NEW t, NEW R, NEW C, NEW S, SoundTree(t, R, C, S), Len(C) \in Nat,
           NEW g \in GenIds(t),
           NEW u, u = ApplyEvent(t, UpdateEvent(g, [children |-> t.nodes[g].children + 1]))
    PROVE  TreeKept(t, u) /\ SoundTree(u, R, C, S)
<1>1. /\ t.nodes \in [GenIds(t) -> GenNode]
      /\ GenIds(t) \subseteq Nat /\ IsFiniteSet(GenIds(t))
      /\ \A h \in GenIds(t) : SoundNode(t.nodes[h], h, t, R, C, S)
  BY DEF SoundTree
<1>2. /\ GenIds(u) = GenIds(t) /\ u.nodes \in [GenIds(t) -> GenNode]
      /\ \A h \in GenIds(t) : Recounted(t.nodes[h], u.nodes[h])
  BY <1>1, ChildCounted
<1>3. \A h \in GenIds(t) : SoundNode(u.nodes[h], h, t, R, C, S)
  BY <1>1, <1>2, CountingIsSound
<1>4. TreeKept(t, u) /\ RefsKept(R, R) /\ CommitsKept(C, C)
  BY <1>2 DEF TreeKept, RefsKept, CommitsKept, Recounted
<1>5. \A h \in GenIds(u) : SoundNode(u.nodes[h], h, u, R, C, S)
  BY <1>2, <1>3, <1>4, NodeKept
<1> QED BY <1>1, <1>2, <1>4, <1>5 DEF SoundTree

\* Settling a node keeps every tree sound once the node's row is written.
LEMMA SettleKept ==
    ASSUME NEW t, NEW R, NEW C, NEW S, SoundTree(t, R, C, S), Len(C) \in Nat,
           NEW g \in GenIds(t), HasRow(g, t.nodes[g], S),
           NEW u, u = ApplyEvent(t, UpdateEvent(g, [settled |-> TRUE]))
    PROVE  TreeKept(t, u) /\ SoundTree(u, R, C, S)
<1>1. /\ t.nodes \in [GenIds(t) -> GenNode]
      /\ GenIds(t) \subseteq Nat /\ IsFiniteSet(GenIds(t))
      /\ \A h \in GenIds(t) : SoundNode(t.nodes[h], h, t, R, C, S)
  BY DEF SoundTree
<1>2. /\ GenIds(u) = GenIds(t) /\ u.nodes \in [GenIds(t) -> GenNode]
      /\ \A h \in GenIds(t) \ {g} : u.nodes[h] = t.nodes[h]
      /\ u.nodes[g] = [t.nodes[g] EXCEPT !.settled = TRUE]
  BY <1>1, NodeSettled
<1> DEFINE n == t.nodes[g]
           m == u.nodes[g]
<1>3. /\ m.parents = n.parents /\ m.valid = n.valid /\ m.commit = n.commit
      /\ m.outer = n.outer /\ m.base = n.base
      /\ m.scoreStatus = n.scoreStatus /\ m.score = n.score
  <2>1. n \in GenNode
    BY <1>1
  <2> QED BY <1>2, <2>1 DEF GenNode
<1>4. SoundNode(n, g, t, R, C, S) /\ HasRow(g, n, S)
  BY <1>1
<1> HIDE DEF n, m
<1>5. SoundNode(m, g, t, R, C, S)
  BY <1>3, <1>4 DEF SoundNode, HasRow
<1>6. \A h \in GenIds(t) : SoundNode(u.nodes[h], h, t, R, C, S)
  BY <1>1, <1>2, <1>5 DEF m
<1>7. TreeKept(t, u) /\ RefsKept(R, R) /\ CommitsKept(C, C)
  BY <1>2, <1>3 DEF TreeKept, RefsKept, CommitsKept, n, m
<1>8. \A h \in GenIds(u) : SoundNode(u.nodes[h], h, u, R, C, S)
  BY <1>2, <1>6, <1>7, NodeKept
<1> QED BY <1>1, <1>2, <1>7, <1>8 DEF SoundTree

\* A new node, sound on the tree it joins, keeps the tree sound.
LEMMA AddKept ==
    ASSUME NEW t, NEW R, NEW C, NEW S, SoundTree(t, R, C, S), Len(C) \in Nat,
           NEW g \in Nat \ GenIds(t), NEW n \in GenNode, SoundNode(n, g, t, R, C, S),
           NEW u, u = Put(t, g, n)
    PROVE  TreeKept(t, u) /\ SoundTree(u, R, C, S) /\ GenIds(u) = GenIds(t) \cup {g}
<1>1. /\ t.nodes \in [GenIds(t) -> GenNode]
      /\ GenIds(t) \subseteq Nat /\ IsFiniteSet(GenIds(t))
      /\ \A h \in GenIds(t) : SoundNode(t.nodes[h], h, t, R, C, S)
  BY DEF SoundTree
<1>2. /\ GenIds(u) = GenIds(t) \cup {g}
      /\ u.nodes \in [GenIds(u) -> GenNode] /\ u.nodes[g] = n
      /\ \A h \in GenIds(t) : u.nodes[h] = t.nodes[h]
  BY <1>1, NodeAdded
<1>3. TreeKept(t, u) /\ RefsKept(R, R) /\ CommitsKept(C, C)
  BY <1>2 DEF TreeKept, RefsKept, CommitsKept
<1>4. \A h \in GenIds(u) : SoundNode(u.nodes[h], h, t, R, C, S)
  BY <1>1, <1>2
<1>5. \A h \in GenIds(u) : SoundNode(u.nodes[h], h, u, R, C, S)
  BY <1>3, <1>4, NodeKept
<1>6. IsFiniteSet(GenIds(u)) /\ GenIds(u) \subseteq Nat
  BY <1>1, <1>2, FS_AddElement
<1> QED BY <1>2, <1>3, <1>5, <1>6 DEF SoundTree

\* The tree in use stays sound, and outside a restore it only grows.
LEMMA TreeStep ==
    ASSUME CommitLog, DiskInv, RoundInv, FreshInv, SnapshotsOrdered, [Next]_vars
    PROVE  /\ SoundTree(tree', refs, commits, scores)
           /\ ~StartWorker => TreeKept(tree, tree')
<1>1. SoundTree(tree, refs, commits, scores) /\ Len(commits) \in Nat
  BY DEF DiskInv, CommitLog
<1>2. CASE UNCHANGED tree
  BY <1>1, <1>2 DEF TreeKept
<1>3. CASE RegisterParent
  <2>1. SoundCur(cur, outer, tree, refs, commits) /\ cur.todo # <<>>
    BY <1>3 DEF RegisterParent, RoundInv, InRound, BeforeAdd
  <2>2. cur.todo = cur.parents /\ Head(cur.todo) = cur.parents[1]
        /\ cur.parents[1] \in GenIds(tree)
    BY <2>1 DEF SoundCur, RoundKind
  <2>3. tree' = ApplyEvent(tree, UpdateEvent(cur.parents[1],
                  [children |-> tree.nodes[cur.parents[1]].children + 1]))
    BY <1>3, <2>2 DEF RegisterParent
  <2> QED BY <1>1, <2>2, <2>3, CountKept
<1>4. CASE AddNode
  <2> DEFINE p == cur.parents[1]
             P == {cur.parents[i] : i \in DOMAIN cur.parents}
             d == DepthBelow(tree, P)
             n == [cur.node EXCEPT !.depth = d]
  <2>1. /\ SoundCur(cur, outer, tree, refs, commits)
        /\ cur.node.valid => cur.node.commit # None
        /\ cur.genid \in Nat \ GenIds(tree)
    BY <1>4 DEF AddNode, RoundInv, FreshInv, InRound, BeforeAdd
  <2>2. P = {p} /\ p \in GenIds(tree) /\ cur.node \in GenNode
    BY <2>1 DEF SoundCur, RoundKind
  <2>3. d \in Nat
    <3>1. tree.nodes[p].depth \in Nat
      BY <1>1, <2>2 DEF SoundTree, GenNode
    <3> HIDE DEF p, P
    <3> DEFINE depths == {tree.nodes[q].depth : q \in P \cap GenIds(tree)}
    <3>2. depths = {tree.nodes[p].depth}
      BY <2>2
    <3> DEFINE m == CHOOSE e \in depths : \A f \in depths : f <= e
    <3>3. d = 1 + m
      BY <3>2 DEF DepthBelow
    <3>4. m = tree.nodes[p].depth
      BY <3>1, <3>2
    <3> HIDE DEF m, d
    <3> QED BY <3>1, <3>3, <3>4
  <2>4. tree' = Put(tree, cur.genid, n)
    BY <1>4 DEF AddNode, ApplyEvent, AddEvent
  <2> HIDE DEF d
  <2>5. /\ n \in GenNode /\ n.parents = cur.node.parents /\ n.valid = cur.node.valid
        /\ n.commit = cur.node.commit /\ n.base = cur.node.base
        /\ n.outer = cur.node.outer /\ n.settled = cur.node.settled
        /\ n.scoreStatus = cur.node.scoreStatus /\ n.score = cur.node.score
    BY <2>2, <2>3 DEF GenNode
  <2> HIDE DEF n
  <2>6. SoundNode(n, cur.genid, tree, refs, commits, scores)
    BY <2>1, <2>5 DEF SoundNode, SoundCur, StartingCode
  <2> QED BY <1>1, <2>1, <2>4, <2>5, <2>6, AddKept
<1>5. CASE SettleMeta
  <2>1. /\ cur.genid \in GenIds(tree)
        /\ tree.nodes[cur.genid].score = cur.node.score
        /\ tree.nodes[cur.genid].valid = cur.node.valid
        /\ HasRow(cur.genid, cur.node, scores)
    BY <1>5 DEF SettleMeta, RoundInv, InRound, BeforeAdd
  <2>2. HasRow(cur.genid, tree.nodes[cur.genid], scores)
    BY <2>1 DEF HasRow
  <2>3. tree' = ApplyEvent(tree, UpdateEvent(cur.genid, [settled |-> TRUE]))
    BY <1>5 DEF SettleMeta
  <2> QED BY <1>1, <2>1, <2>2, <2>3, SettleKept
<1>6. CASE StartWorker
  <2> DEFINE cp == LoadCheckpoint(IF mode = "resume" THEN "outer" ELSE "latest")
  <2>1. cp # NoCheckpoint => SoundTree(cp.tree, refs, commits, scores)
    <3>1. NewestOuterSnapshot # NoCheckpoint
            => SoundTree(NewestOuterSnapshot.tree, refs, commits, scores)
      BY DEF NewestOuterSnapshot, SnapshotsOrdered, DiskInv, SoundPayload
    <3> QED BY <3>1 DEF LoadCheckpoint, DiskInv, SoundPayload
  <2>2. CASE GenIds(tree) # {} /\ cp # NoCheckpoint
    <3>1. tree' = cp.tree
      BY <1>6, <2>2 DEF StartWorker, ApplyEvent, ResetEvent
    <3> QED BY <1>6, <2>1, <2>2, <3>1
  <2>3. CASE GenIds(tree) # {} /\ cp = NoCheckpoint
    BY <1>1, <1>6, <2>3 DEF StartWorker
  <2>4. CASE GenIds(tree) = {}
    <3>1. tree' = Put(tree, Initial, NewNode(<<>>))
      BY <1>6, <2>4 DEF StartWorker
    <3>2. NewNode(<<>>) \in GenNode
      BY LoopAssumption DEF NewNode, GenNode, Bases, DiskInv
    <3>3. SoundNode(NewNode(<<>>), Initial, tree, refs, commits, scores)
      BY DEF SoundNode, NewNode
    <3> QED BY <1>1, <1>6, <2>4, <3>1, <3>2, <3>3, AddKept DEF Initial
  <2> QED BY <1>6, <2>2, <2>3, <2>4
<1>7. RegisterParent \/ AddNode \/ SettleMeta \/ StartWorker \/ UNCHANGED tree
  BY DEF Next, WorkerStep, vars, store, ckpt, repo, driver, worker,
         WorkerExit, Crash, EnterOuter, SelectParent,
         LeaveInner, ProbePatch, ProbeRollback, PlanFails, PlanSucceeds,
         ApplyTaskPatch, CommitTaskPatch, PinTaskRef, TaskRunnerFails,
         HarnessReports, TrajectoryCollected, TrajectoryFails, EvaluatorFails,
         EvaluatorJudges, AppendScore,
         SaveInnerCheckpoint, NoSelfPatch, ApplySelfPatch, CommitSelfPatch,
         RecordMeta, SaveOuterCheckpoint, WriteSnapshot, DriverStart
<1> QED BY <1>2, <1>3, <1>4, <1>5, <1>6, <1>7

\* A payload is not the absence of one.
LEMMA PayloadIsThere == \A b, i : Payload(b, i) # NoCheckpoint
<1> SUFFICES ASSUME NEW b, NEW i, Payload(b, i) = NoCheckpoint PROVE FALSE
  OBVIOUS
<1>1. "ts" \in DOMAIN Payload(b, i)
  BY DEF Payload
<1>2. DOMAIN NoCheckpoint = {}
  BY DEF NoCheckpoint
<1> QED BY <1>1, <1>2

\* What a worker saves of a sound state is a sound payload.
LEMMA SavedIsSound ==
    ASSUME DiskInv, pc # "down", NEW b, NEW i
    PROVE  SoundPayload(Payload(b, i), refs, commits, scores)
<1> DEFINE p == Payload(b, i)
<1>1. /\ {"outer", "counter", "roleCommits", "tree", "metaTree", "commit", "ts"} \subseteq DOMAIN p
      /\ p.tree = tree /\ p.outer = outer /\ p.commit = head
  BY DEF Payload
<1>2. SoundTree(tree, refs, commits, scores) /\ GenIds(tree) # {}
      /\ outer \in Nat \ {0} /\ head \in 0..Len(commits)
  BY DEF DiskInv, CommitIds
<1> HIDE DEF p
<1>3. SoundPayload(p, refs, commits, scores)
  BY <1>1, <1>2 DEF SoundPayload
<1> QED BY <1>3 DEF p

\* HEAD and the branches point into the commits.
LEMMA PointersStep ==
    ASSUME CommitLog, DiskInv, RoundInv, SnapshotsOrdered, CommitsKept(commits, commits'),
           [Next]_vars
    PROVE  /\ head' \in 0..Len(commits')
           /\ \A r \in DOMAIN refs' : refs'[r] \in 0..Len(commits')
<1>1. /\ head \in 0..Len(commits) /\ Len(commits) \in Nat
      /\ \A r \in DOMAIN refs : refs[r] \in 0..Len(commits)
      /\ Len(commits') \in Nat /\ Len(commits) <= Len(commits')
      /\ 0..Len(commits) \subseteq 0..Len(commits')
  BY DEF DiskInv, CommitIds, CommitLog, CommitsKept
<1>2. head' \in 0..Len(commits')
  <2>1. CASE UNCHANGED head
    BY <1>1, <2>1
  <2>2. CASE SelectParent
    <3>1. PICK ps \in SelectParents(tree, 1, BranchLimit, DepthLimit, "ucb") :
             ps # <<>> /\ head' = ResolveBase(ps[1])
      BY <2>2 DEF SelectParent, CleanCheckout
    <3>2. ps[1] \in GenIds(tree) /\ tree.nodes[ps[1]].valid
      BY <3>1, ParentSelected
    <3>3. OuterRef(outer) \in DOMAIN refs
      BY <2>2 DEF SelectParent, DiskInv
    <3>4. ps[1] # Initial /\ tree.nodes[ps[1]].commit # None
             => tree.nodes[ps[1]].commit \in 0..Len(commits)
      BY <3>2 DEF DiskInv, SoundTree, SoundNode
    <3> QED BY <1>1, <3>1, <3>3, <3>4 DEF ResolveBase
  <2>3. CASE ProbeRollback
    BY <1>1, <2>3 DEF ProbeRollback, CleanCheckout
  <2>4. CASE ApplyTaskPatch
    <3>1. cur.base \in 0..Len(commits)
      BY <2>4 DEF ApplyTaskPatch, RoundInv, InRound, BeforeAdd, SoundCur
    <3> QED BY <1>1, <2>4, <3>1 DEF ApplyTaskPatch, CleanCheckout
  <2>5. CASE CommitTaskPatch
    <3>1. cur.base \in 0..Len(commits)
      BY <2>5 DEF CommitTaskPatch, RoundInv, InRound, BeforeAdd, SoundCur
    <3>2. CASE cur.patch = "good"
      <4>1. commits' = Append(commits, [parent |-> head, by |-> cur.genid])
            /\ head' = Len(commits) + 1
        BY <2>5, <3>2 DEF CommitTaskPatch, Commit
      <4>2. Len(commits') = Len(commits) + 1
        BY <4>1 DEF CommitLog
      <4> QED BY <1>1, <4>1, <4>2
    <3>3. CASE cur.patch # "good"
      BY <1>1, <2>5, <3>1, <3>3 DEF CommitTaskPatch, CleanCheckout
    <3> QED BY <3>2, <3>3
  <2>6. ASSUME NEW patch \in PatchOutcomes \ {"none"}, CommitSelfPatch(patch)
        PROVE  head' \in 0..Len(commits')
    <3>1. CASE patch = "good"
      <4>1. commits' = Append(commits, [parent |-> head, by |-> Roles[seat]])
            /\ head' = Len(commits) + 1
        BY <2>6, <3>1 DEF CommitSelfPatch, Commit
      <4>2. Len(commits') = Len(commits) + 1
        BY <4>1 DEF CommitLog
      <4> QED BY <1>1, <4>1, <4>2
    <3>2. CASE patch # "good"
      BY <1>1, <2>6, <3>2 DEF CommitSelfPatch, CleanCheckout
    <3> QED BY <3>1, <3>2
  <2>7. ASSUME NEW m \in Modes, DriverStart(m)
        PROVE  head' \in 0..Len(commits')
    <3>1. NewestOuterSnapshot # NoCheckpoint
            => NewestOuterSnapshot.commit \in 0..Len(commits)
      BY DEF NewestOuterSnapshot, SnapshotsOrdered, DiskInv, SoundPayload
    <3>2. \/ UNCHANGED head
          \/ NewestOuterSnapshot # NoCheckpoint /\ head' = NewestOuterSnapshot.commit
      BY <2>7 DEF DriverStart, ForcedCheckout
    <3> QED BY <1>1, <3>1, <3>2
  <2>8. \/ SelectParent \/ ProbeRollback \/ ApplyTaskPatch \/ CommitTaskPatch
        \/ \E p \in PatchOutcomes \ {"none"} : CommitSelfPatch(p)
        \/ \E m \in Modes : DriverStart(m)
        \/ UNCHANGED head
    BY DEF Next, WorkerStep, vars, store, ckpt, repo, driver, worker, StartWorker,
           WorkerExit, Crash, EnterOuter, LeaveInner, ProbePatch, PlanFails,
           PlanSucceeds, PinTaskRef, TaskRunnerFails, HarnessReports,
           TrajectoryCollected, TrajectoryFails, EvaluatorFails, EvaluatorJudges,
           RegisterParent, AddNode, AppendScore, SettleMeta, SaveInnerCheckpoint,
           NoSelfPatch, ApplySelfPatch, RecordMeta, SaveOuterCheckpoint,
           WriteSnapshot
  <2> QED BY <2>1, <2>2, <2>3, <2>4, <2>5, <2>6, <2>7, <2>8
<1>3. \A r \in DOMAIN refs' : refs'[r] \in 0..Len(commits')
  <2>1. CASE UNCHANGED refs
    BY <1>1, <2>1
  <2>2. CASE EnterOuter
    BY <1>1, <2>2 DEF EnterOuter, EnsureBranch
  <2>3. CASE PinTaskRef
    <3>1. cur.node.commit \in 0..Len(commits)
      BY <2>3, SMTT(30) DEF PinTaskRef, RoundInv, InRound, BeforeAdd, SoundCur
    <3> QED BY <1>1, <2>3, <3>1 DEF PinTaskRef, EnsureBranch
  <2>4. EnterOuter \/ PinTaskRef \/ UNCHANGED refs
    BY DEF Next, WorkerStep, vars, store, ckpt, repo, driver, worker, StartWorker,
           WorkerExit, Crash, SelectParent, LeaveInner, ProbePatch, ProbeRollback,
           PlanFails, PlanSucceeds, ApplyTaskPatch, CommitTaskPatch,
           TaskRunnerFails, HarnessReports, TrajectoryCollected, TrajectoryFails,
           EvaluatorFails, EvaluatorJudges, RegisterParent, AddNode, AppendScore,
           SettleMeta, SaveInnerCheckpoint, NoSelfPatch, ApplySelfPatch,
           CommitSelfPatch, RecordMeta, SaveOuterCheckpoint, WriteSnapshot,
           DriverStart
  <2> QED BY <2>1, <2>2, <2>3, <2>4
<1> QED BY <1>2, <1>3

\* The checkpoints on disk stay sound.
LEMMA PayloadsStep ==
    ASSUME DiskInv, FreshInv, SnapshotsOrdered, RefsKept(refs, refs'),
           CommitsKept(commits, commits'), scores \subseteq scores', [Next]_vars
    PROVE  /\ latest' # NoCheckpoint => SoundPayload(latest', refs', commits', scores')
           /\ \A n \in DOMAIN snapshots' :
                SoundPayload(snapshots'[n], refs', commits', scores')
<1>1. /\ latest # NoCheckpoint => SoundPayload(latest, refs', commits', scores')
      /\ \A n \in DOMAIN snapshots :
            SoundPayload(snapshots[n], refs', commits', scores')
  BY PayloadStaysSound DEF DiskInv
<1>2. ASSUME SaveInnerCheckpoint \/ SaveOuterCheckpoint
      PROVE  SoundPayload(latest', refs', commits', scores') /\ UNCHANGED snapshots
  <2>1. PICK b, i : latest' = Payload(b, i)
    BY <1>2 DEF SaveInnerCheckpoint, SaveOuterCheckpoint
  <2>2. pc # "down" /\ UNCHANGED snapshots
    BY <1>2 DEF SaveInnerCheckpoint, SaveOuterCheckpoint
  <2>3. SoundPayload(Payload(b, i), refs, commits, scores)
    BY <2>2, SavedIsSound
  <2> QED BY <2>1, <2>2, <2>3, PayloadStaysSound
<1>3. CASE WriteSnapshot
  <2>1. latest' = latest /\ latest # NoCheckpoint
    BY <1>3 DEF WriteSnapshot, DiskInv
  <2> DEFINE p == [latest EXCEPT !.ts = Now]
  <2>2. SoundPayload(latest, refs', commits', scores')
    BY <1>1, <2>1
  <2>3. /\ DOMAIN p = DOMAIN latest /\ p.tree = latest.tree
        /\ p.outer = latest.outer /\ p.commit = latest.commit
    BY <2>2 DEF SoundPayload
  <2> HIDE DEF p
  <2>4. SoundPayload(p, refs', commits', scores')
    BY <2>2, <2>3 DEF SoundPayload
  <2>5. \A n \in DOMAIN snapshots' :
           \/ snapshots'[n] = p
           \/ n \in DOMAIN snapshots /\ snapshots'[n] = snapshots[n]
    BY <1>3, SMTT(30) DEF WriteSnapshot, p
  <2> QED BY <1>1, <2>1, <2>4, <2>5
<1>4. SaveInnerCheckpoint \/ SaveOuterCheckpoint \/ WriteSnapshot
      \/ UNCHANGED <<latest, snapshots>>
  BY DEF Next, WorkerStep, vars, store, ckpt, repo, driver, worker, StartWorker,
         WorkerExit, Crash, EnterOuter, SelectParent, LeaveInner, ProbePatch,
         ProbeRollback, PlanFails, PlanSucceeds, ApplyTaskPatch, CommitTaskPatch,
         PinTaskRef, TaskRunnerFails, HarnessReports, TrajectoryCollected,
         TrajectoryFails, EvaluatorFails, EvaluatorJudges, RegisterParent,
         AddNode, AppendScore, SettleMeta, NoSelfPatch, ApplySelfPatch,
         CommitSelfPatch, RecordMeta, DriverStart
<1> QED BY <1>1, <1>2, <1>3, <1>4

LEMMA DiskStep ==
    ASSUME CommitLog, DiskInv, RoundInv, ResumeInv, CountersInv, FreshInv,
           SnapshotsOrdered, [Next]_vars
    PROVE  CommitLog' /\ DiskInv'
<1>1. /\ RefsKept(refs, refs') /\ CommitsKept(commits, commits')
      /\ scores \subseteq scores' /\ CommitLog'
      /\ \A c \in DOMAIN commits' : commits'[c].parent \in 0..(c - 1)
  BY DiskGrows
<1>2. /\ head' \in CommitIds' /\ \A r \in DOMAIN refs' : refs'[r] \in CommitIds'
  BY <1>1, PointersStep DEF CommitIds
<1>3. SoundTree(tree', refs', commits', scores')
  BY <1>1, TreeStep, TreeStaysSound
<1>4. /\ latest' # NoCheckpoint => SoundPayload(latest', refs', commits', scores')
      /\ \A n \in DOMAIN snapshots' :
           SoundPayload(snapshots'[n], refs', commits', scores')
  BY <1>1, PayloadsStep
<1>5. outer' \in Nat \ {0}
  <2>1. NewestOuterSnapshot # NoCheckpoint => NewestOuterSnapshot.outer \in Nat \ {0}
    BY DEF NewestOuterSnapshot, SnapshotsOrdered, DiskInv, SoundPayload
  <2>2. \/ UNCHANGED outer \/ outer' = outer + 1 \/ outer' = 1
        \/ NewestOuterSnapshot # NoCheckpoint /\ outer' = NewestOuterSnapshot.outer + 1
    BY DEF Next, WorkerStep, vars, store, ckpt, repo, driver, worker, StartWorker,
           WorkerExit, Crash, EnterOuter, SelectParent, LeaveInner, ProbePatch,
           ProbeRollback, PlanFails, PlanSucceeds, ApplyTaskPatch, CommitTaskPatch,
           PinTaskRef, TaskRunnerFails, HarnessReports, TrajectoryCollected,
           TrajectoryFails, EvaluatorFails, EvaluatorJudges, RegisterParent,
           AddNode, AppendScore, SettleMeta, SaveInnerCheckpoint, NoSelfPatch,
           ApplySelfPatch, CommitSelfPatch, RecordMeta, SaveOuterCheckpoint,
           WriteSnapshot, DriverStart
  <2>3. outer \in Nat \ {0}
    BY DEF DiskInv
  <2> QED BY <2>1, <2>2, <2>3
<1>6. (pc' # "down" \/ latest' # NoCheckpoint \/ DOMAIN snapshots' # {})
        => GenIds(tree') # {}
  <2>1. CASE StartWorker
    <3>1. UNCHANGED <<latest, snapshots>>
      BY <2>1 DEF StartWorker, ckpt
    <3> DEFINE cp == LoadCheckpoint(IF mode = "resume" THEN "outer" ELSE "latest")
    <3>2. cp # NoCheckpoint => GenIds(cp.tree) # {}
      <4>1. NewestOuterSnapshot # NoCheckpoint => GenIds(NewestOuterSnapshot.tree) # {}
        BY DEF NewestOuterSnapshot, SnapshotsOrdered, DiskInv, SoundPayload
      <4> QED BY <4>1 DEF LoadCheckpoint, DiskInv, SoundPayload
    <3>3. CASE GenIds(tree) # {} /\ cp # NoCheckpoint
      BY <2>1, <3>2, <3>3 DEF StartWorker, ApplyEvent, ResetEvent
    <3>4. CASE GenIds(tree) # {} /\ cp = NoCheckpoint
      BY <2>1, <3>4 DEF StartWorker
    <3>5. CASE GenIds(tree) = {}
      <4>1. tree' = Put(tree, Initial, NewNode(<<>>))
        BY <2>1, <3>5 DEF StartWorker
      <4>2. Initial \in GenIds(tree')
        BY <4>1 DEF Put, GenIds
      <4> QED BY <4>2
    <3> QED BY <3>3, <3>4, <3>5
  <2>2. CASE ~StartWorker
    <3>1. TreeKept(tree, tree')
      BY <2>2, TreeStep, SMTT(30)
    <3>2. pc' # "down" \/ latest' # NoCheckpoint \/ DOMAIN snapshots' # {}
            => pc # "down" \/ latest # NoCheckpoint \/ DOMAIN snapshots # {}
      BY <2>2
      DEF Next, WorkerStep, vars, store, ckpt, repo, driver, worker,
           WorkerExit, Crash, EnterOuter, SelectParent, LeaveInner, ProbePatch,
           ProbeRollback, PlanFails, PlanSucceeds, ApplyTaskPatch, CommitTaskPatch,
           PinTaskRef, TaskRunnerFails, HarnessReports, TrajectoryCollected,
           TrajectoryFails, EvaluatorFails, EvaluatorJudges, RegisterParent,
           AddNode, AppendScore, SettleMeta, SaveInnerCheckpoint, NoSelfPatch,
           ApplySelfPatch, CommitSelfPatch, RecordMeta, SaveOuterCheckpoint,
           WriteSnapshot, DriverStart
    <3>3. CASE GenIds(tree) # {}
      BY <3>1, <3>3 DEF TreeKept
    <3>4. CASE GenIds(tree) = {}
      BY <3>2, <3>4 DEF DiskInv
    <3> QED BY <3>3, <3>4
  <2> QED BY <2>1, <2>2
<1>7. pc' \notin {"down", "enter"} => OuterRef(outer') \in DOMAIN refs'
  <2>1. \/ EnterOuter
        \/ pc' \in {"down", "enter"}
        \/ pc \notin {"down", "enter"} /\ UNCHANGED outer
        \/ UNCHANGED <<pc, outer>>
    BY DEF ResumeInv, Next, WorkerStep, vars, store, ckpt, repo, driver, worker, StartWorker,
           WorkerExit, Crash, EnterOuter, SelectParent, LeaveInner, ProbePatch,
           ProbeRollback, PlanFails, PlanSucceeds, ApplyTaskPatch, CommitTaskPatch,
           PinTaskRef, TaskRunnerFails, HarnessReports, TrajectoryCollected,
           TrajectoryFails, EvaluatorFails, EvaluatorJudges, RegisterParent,
           AddNode, AppendScore, SettleMeta, SaveInnerCheckpoint, NoSelfPatch,
           ApplySelfPatch, CommitSelfPatch, RecordMeta, SaveOuterCheckpoint,
           WriteSnapshot, DriverStart, NextRole, Archive
  <2>2. CASE EnterOuter
    BY <2>2 DEF EnterOuter, EnsureBranch, driver
  <2> QED BY <1>1, <2>1, <2>2 DEF DiskInv, RefsKept
<1>8. pc' \in {"snapshot", "exit"} => latest' # NoCheckpoint
  <2>1. \/ SaveOuterCheckpoint
        \/ pc' \notin {"snapshot", "exit"}
        \/ pc \in {"snapshot", "exit"} /\ UNCHANGED latest
    BY DEF Next, WorkerStep, vars, store, ckpt, repo, driver, worker, StartWorker,
           WorkerExit, Crash, EnterOuter, SelectParent, LeaveInner, ProbePatch,
           ProbeRollback, PlanFails, PlanSucceeds, ApplyTaskPatch, CommitTaskPatch,
           PinTaskRef, TaskRunnerFails, HarnessReports, TrajectoryCollected,
           TrajectoryFails, EvaluatorFails, EvaluatorJudges, RegisterParent,
           AddNode, AppendScore, SettleMeta, SaveInnerCheckpoint, NoSelfPatch,
           ApplySelfPatch, CommitSelfPatch, RecordMeta,
           WriteSnapshot, DriverStart, NextRole, Archive
  <2>2. CASE SaveOuterCheckpoint
    BY <2>2, PayloadIsThere DEF SaveOuterCheckpoint
  <2> QED BY <2>1, <2>2 DEF DiskInv
<1> QED BY <1>1, <1>2, <1>3, <1>4, <1>5, <1>6, <1>7, <1>8 DEF DiskInv

\* The bounded counters and the flags.
LEMMA CountersStep ==
    ASSUME CountersInv, ResumeInv, [Next]_vars
    PROVE  CountersInv'
<1>0. probed' \in BOOLEAN
  <2>1. probed' = TRUE \/ probed' = FALSE \/ UNCHANGED probed
    BY DEF Next, WorkerStep, vars, store, ckpt, repo, driver, worker, StartWorker,
           WorkerExit, Crash, EnterOuter, SelectParent, LeaveInner, ProbePatch,
           ProbeRollback, PlanFails, PlanSucceeds, ApplyTaskPatch, CommitTaskPatch,
           PinTaskRef, TaskRunnerFails, HarnessReports, TrajectoryCollected,
           TrajectoryFails, EvaluatorFails, EvaluatorJudges, RegisterParent,
           AddNode, AppendScore, SettleMeta, SaveInnerCheckpoint, NoSelfPatch,
           ApplySelfPatch, CommitSelfPatch, RecordMeta, SaveOuterCheckpoint,
           WriteSnapshot, DriverStart
  <2> QED BY <2>1, Zenon DEF CountersInv
<1> USE <1>0, LoopAssumption DEF CountersInv, store, ckpt, repo, driver, worker, Steps
<1>1. CASE StartWorker
  BY <1>1 DEF StartWorker
<1>2. CASE WorkerExit
  BY <1>2 DEF WorkerExit
<1>3. CASE Crash
  BY <1>3 DEF Crash
<1>4. CASE EnterOuter
  BY <1>4 DEF EnterOuter
<1>5. CASE SelectParent
  BY <1>5 DEF SelectParent
<1>6. CASE LeaveInner
  BY <1>6 DEF LeaveInner
<1>7. CASE ProbePatch \/ ProbeRollback
  BY <1>7 DEF ProbePatch, ProbeRollback
<1>8. CASE PlanFails \/ TaskRunnerFails \/ TrajectoryFails \/ EvaluatorFails \/ EvaluatorJudges
  BY <1>8 DEF PlanFails, TaskRunnerFails, TrajectoryFails, EvaluatorFails,
              EvaluatorJudges, Archive
<1>9. CASE \E p \in PatchOutcomes : PlanSucceeds(p)
  BY <1>9 DEF PlanSucceeds
<1>10. CASE ApplyTaskPatch \/ CommitTaskPatch \/ PinTaskRef
  BY <1>10 DEF ApplyTaskPatch, CommitTaskPatch, PinTaskRef
<1>11. CASE TrajectoryCollected \/ \E s \in Scores \cup {None} : HarnessReports(s)
  BY <1>11 DEF TrajectoryCollected, HarnessReports
<1>12. CASE RegisterParent \/ AddNode \/ AppendScore
  BY <1>12 DEF RegisterParent, AddNode, AppendScore
<1>13. CASE SettleMeta
  BY <1>13 DEF SettleMeta
<1>14. CASE SaveInnerCheckpoint
  BY <1>14 DEF SaveInnerCheckpoint
<1>15. CASE NoSelfPatch
  BY <1>15 DEF NoSelfPatch, NextRole, Roles
<1>16. CASE ApplySelfPatch
  BY <1>16 DEF ApplySelfPatch
<1>17. CASE \E p \in PatchOutcomes \ {"none"} : CommitSelfPatch(p)
  BY <1>17 DEF CommitSelfPatch, NextRole, Roles
<1>18. CASE RecordMeta
  BY <1>18 DEF RecordMeta, NextRole, Roles
<1>19. CASE SaveOuterCheckpoint \/ WriteSnapshot
  BY <1>19 DEF SaveOuterCheckpoint, WriteSnapshot
<1>20. CASE \E m \in Modes : DriverStart(m)
  BY <1>20 DEF DriverStart
<1>21. CASE UNCHANGED vars
  BY <1>21 DEF vars
<1> QED BY <1>1, <1>2, <1>3, <1>4, <1>5, <1>6, <1>7, <1>8, <1>9, <1>10, <1>11, <1>12,
           <1>13, <1>14, <1>15, <1>16, <1>17, <1>18, <1>19, <1>20, <1>21
        DEF Next, WorkerStep

\* The work tree is clean in a round: choosing the parent cleans it, and what
\* the round applies it commits or undoes.
LEMMA CleanStep ==
    ASSUME CleanInv, ResumeInv, [Next]_vars
    PROVE  CleanInv'
<1> USE DEF CleanInv, InRound, BeforeAdd, store, ckpt, repo, driver, worker
<1>1. CASE StartWorker \/ WorkerExit \/ EnterOuter \/ LeaveInner
  BY <1>1 DEF StartWorker, WorkerExit, EnterOuter, LeaveInner
<1>2. CASE Crash
  BY <1>2 DEF Crash
<1>3. CASE SelectParent
  BY <1>3 DEF SelectParent, CleanCheckout
<1>4. CASE ProbePatch \/ ProbeRollback
  BY <1>4 DEF ProbePatch, ProbeRollback, CleanCheckout
<1>5. CASE PlanFails \/ TaskRunnerFails \/ TrajectoryFails \/ EvaluatorFails \/ EvaluatorJudges
  BY <1>5 DEF PlanFails, TaskRunnerFails, TrajectoryFails, EvaluatorFails,
              EvaluatorJudges, Archive
<1>6. CASE \E p \in PatchOutcomes : PlanSucceeds(p)
  BY <1>6 DEF PlanSucceeds
<1>7. CASE ApplyTaskPatch \/ CommitTaskPatch \/ PinTaskRef
  BY <1>7 DEF ApplyTaskPatch, CommitTaskPatch, PinTaskRef, CleanCheckout, Commit
<1>8. CASE TrajectoryCollected \/ \E s \in Scores \cup {None} : HarnessReports(s)
  BY <1>8 DEF TrajectoryCollected, HarnessReports
<1>9. CASE RegisterParent \/ AddNode \/ AppendScore \/ SettleMeta
  BY <1>9 DEF RegisterParent, AddNode, AppendScore, SettleMeta
<1>10. CASE SaveInnerCheckpoint \/ NoSelfPatch \/ ApplySelfPatch
  BY <1>10 DEF SaveInnerCheckpoint, NoSelfPatch, NextRole, ApplySelfPatch
<1>11. CASE \E p \in PatchOutcomes \ {"none"} : CommitSelfPatch(p)
  BY <1>11 DEF CommitSelfPatch, NextRole, CleanCheckout, Commit
<1>12. CASE RecordMeta \/ SaveOuterCheckpoint \/ WriteSnapshot
  BY <1>12 DEF RecordMeta, NextRole, SaveOuterCheckpoint, WriteSnapshot
<1>13. CASE \E m \in Modes : DriverStart(m)
  BY <1>13 DEF DriverStart, ForcedCheckout, ResumeInv
<1>14. CASE UNCHANGED vars
  BY <1>14 DEF vars
<1> QED BY <1>1, <1>2, <1>3, <1>4, <1>5, <1>6, <1>7, <1>8, <1>9, <1>10, <1>11, <1>12,
           <1>13, <1>14 DEF Next, WorkerStep

\* A round starts from one valid parent, on the code that parent left.
LEMMA SelectStep ==
    ASSUME CommitLog, DiskInv, FreshInv, SelectParent
    PROVE  RoundInv'
<1>1. PICK ps \in SelectParents(tree, 1, BranchLimit, DepthLimit, "ucb") :
        /\ ps # <<>>
        /\ cur' = [genid |-> counter, parents |-> ps, base |-> ResolveBase(ps[1]),
                   patch |-> None, node |-> NewNode(ps), todo |-> ps, tail |-> None]
  BY DEF SelectParent
<1>2. /\ pc = "select" /\ pc' = "plan"
      /\ UNCHANGED <<tree, scores, commits, refs, outer>>
  BY DEF SelectParent, store, driver
<1> DEFINE p == ps[1]
           b == ResolveBase(p)
<1>3. Len(ps) = 1 /\ ps = <<p>> /\ p \in GenIds(tree) /\ tree.nodes[p].valid
  BY <1>1, ParentSelected
<1>4. SoundNode(tree.nodes[p], p, tree, refs, commits, scores)
  BY <1>3 DEF DiskInv, SoundTree
<1>5. OuterRef(outer) \in DOMAIN refs /\ refs[OuterRef(outer)] \in 0..Len(commits)
  BY <1>2 DEF DiskInv, CommitIds
<1>6. b = StartingCode(tree, p, outer, refs) /\ b \in 0..Len(commits) /\ b \in Nat
  BY <1>3, <1>4, <1>5 DEF ResolveBase, StartingCode, SoundNode
<1>7. p \in Nat /\ ps \in Seq(Nat) /\ counter \in Nat /\ outer \in Nat
  <2>1. p \in Nat
    BY <1>3 DEF DiskInv, SoundTree
  <2>2. counter \in Nat /\ outer \in Nat
    BY DEF DiskInv, FreshInv
  <2>3. <<p>> \in Seq(Nat)
    BY <2>1
  <2> HIDE DEF p
  <2> QED BY <1>3, <2>1, <2>2, <2>3
<1>8. NewNode(ps) \in GenNode
  BY <1>7, LoopAssumption DEF NewNode, GenNode, Bases
<1> HIDE DEF b
<1>9. cur' \in RoundKind
  BY <1>1, <1>6, <1>7, <1>8 DEF RoundKind, b
<1>10. /\ cur'.parents = ps /\ cur'.base = b /\ cur'.todo = ps
       /\ cur'.node = NewNode(ps)
  BY <1>1 DEF b
<1>11. /\ NewNode(ps).parents = ps /\ NewNode(ps).outer = outer
       /\ ~NewNode(ps).settled /\ NewNode(ps).commit = None
       /\ NewNode(ps).scoreStatus = "ok"
  BY DEF NewNode
<1>12. SoundCur(cur', outer, tree, refs, commits)
  BY <1>3, <1>5, <1>6, <1>9, <1>10, <1>11 DEF SoundCur
<1> QED BY <1>2, <1>12 DEF RoundInv

\* A failed stage archives a node without code and without a score.
LEMMA FailureStep ==
    ASSUME DiskInv, RoundInv, PlanFails \/ TaskRunnerFails
    PROVE  RoundInv'
<1>1. /\ pc \in {"plan", "apply", "harness"} /\ pc' = "register"
      /\ UNCHANGED <<tree, scores, commits, refs, outer>>
      /\ cur' = [cur EXCEPT !.node = InvalidNode(cur.parents), !.tail = "invalid"]
  BY DEF PlanFails, TaskRunnerFails, Archive, store, repo, driver
<1>2. SoundCur(cur, outer, tree, refs, commits)
  BY <1>1 DEF RoundInv, InRound, BeforeAdd
<1> DEFINE n == InvalidNode(cur.parents)
<1>3. /\ n \in GenNode /\ n.parents = cur.parents /\ n.outer = outer /\ ~n.settled
      /\ n.commit = None /\ n.valid = FALSE /\ n.scoreStatus = "invalid"
  <2>1. cur.parents \in Seq(Nat) /\ outer \in Nat
    BY <1>2 DEF SoundCur, RoundKind, DiskInv
  <2> QED BY <2>1 DEF InvalidNode, NewNode, GenNode, Bases
<1> HIDE DEF n
<1>4. /\ cur' \in RoundKind /\ cur'.parents = cur.parents /\ cur'.todo = cur.todo
      /\ cur'.base = cur.base /\ cur'.node = n
  BY <1>1, <1>2, <1>3 DEF SoundCur, RoundKind, n
<1>5. SoundCur(cur', outer, tree, refs, commits)
  BY <1>2, <1>3, <1>4 DEF SoundCur
<1> QED BY <1>1, <1>3, <1>4, <1>5 DEF RoundInv

\* The steps that leave the node of the generation as it is, or only take its
\* validity away.
LEMMA VerdictStep ==
    ASSUME RoundInv, TrajectoryFails \/ EvaluatorFails \/ EvaluatorJudges
    PROVE  RoundInv'
<1>1. /\ pc \in {"collect", "evaluate"} /\ pc' = "register"
      /\ UNCHANGED <<tree, scores, commits, refs, outer>>
  BY DEF TrajectoryFails, EvaluatorFails, EvaluatorJudges, Archive, store, repo, driver
<1>2. SoundCur(cur, outer, tree, refs, commits) /\ cur.node.commit # None
  BY <1>1 DEF RoundInv, InRound, BeforeAdd
<1>3. cur.node \in GenNode /\ cur \in RoundKind
  BY <1>2 DEF SoundCur, RoundKind
<1>4. PICK n \in {cur.node, [cur.node EXCEPT !.valid = FALSE]},
           tail \in {"invalid", "no_trajectory", "settle"} :
        cur' = [cur EXCEPT !.node = n, !.tail = tail]
  BY DEF TrajectoryFails, EvaluatorFails, EvaluatorJudges, Archive
<1>5. /\ n \in GenNode /\ n.parents = cur.node.parents /\ n.outer = cur.node.outer
      /\ n.settled = cur.node.settled /\ n.commit = cur.node.commit
      /\ n.base = cur.node.base /\ n.score = cur.node.score
      /\ n.scoreStatus = cur.node.scoreStatus /\ (n.valid => cur.node.valid)
  BY <1>3, <1>4 DEF GenNode
<1>6. /\ cur' \in RoundKind /\ cur'.parents = cur.parents /\ cur'.todo = cur.todo
      /\ cur'.base = cur.base /\ cur'.node = n /\ cur'.genid = cur.genid
  BY <1>3, <1>4, <1>5 DEF RoundKind
<1>7. SoundCur(cur', outer, tree, refs, commits)
  BY <1>2, <1>5, <1>6 DEF SoundCur
<1> QED BY <1>1, <1>2, <1>5, <1>6, <1>7 DEF RoundInv

\* The patch becomes the generation's own commit on its base, or nothing.
LEMMA CommitStep ==
    ASSUME CommitLog, DiskInv, RoundInv, FreshInv, CommitTaskPatch,
           CommitsKept(commits, commits')
    PROVE  RoundInv'
<1>1. /\ pc = "commit" /\ pc' = "pin" /\ UNCHANGED <<tree, scores, refs, outer>>
      /\ cur' = [cur EXCEPT !.node.base = cur.base, !.node.commit = head']
  BY DEF CommitTaskPatch, store, driver
<1>2. SoundCur(cur, outer, tree, refs, commits) /\ head = cur.base
  BY <1>1 DEF RoundInv, InRound, BeforeAdd
<1>3. cur.node \in GenNode /\ cur \in RoundKind /\ Len(commits) \in Nat
  BY <1>2 DEF SoundCur, RoundKind, CommitLog
<1>4. head' \in 0..Len(commits') /\ OwnCode(head', cur.base, cur.genid, commits')
  <2>1. CASE cur.patch = "good"
    <3>1. commits' = Append(commits, [parent |-> head, by |-> cur.genid])
          /\ head' = Len(commits) + 1
      BY <2>1 DEF CommitTaskPatch, Commit
    <3> DEFINE new == [parent |-> head, by |-> cur.genid]
    <3>2. commits \in Seq(CommitKind)
      BY DEF CommitLog
    <3> HIDE DEF new
    <3>3. Len(commits') = Len(commits) + 1 /\ commits'[Len(commits) + 1] = new
      BY <3>1, <3>2 DEF new
    <3> QED BY <1>2, <1>3, <3>1, <3>3 DEF OwnCode, new
  <2>2. CASE cur.patch # "good"
    BY <1>2, <2>2 DEF CommitTaskPatch, CleanCheckout, SoundCur, OwnCode
  <2> QED BY <2>1, <2>2
<1> DEFINE n == [cur.node EXCEPT !.base = cur.base, !.commit = head']
<1>5. cur' = [cur EXCEPT !.node = n]
  BY <1>1, <1>3 DEF RoundKind, GenNode
<1>6. head' \in Nat /\ cur.base \in Nat /\ head' # None
  <2>1. head' \in Nat /\ cur.base \in Nat
    BY <1>2, <1>4 DEF SoundCur
  <2> QED BY <2>1, LoopAssumption
<1>7. /\ n \in GenNode /\ n.parents = cur.node.parents /\ n.outer = cur.node.outer
      /\ n.settled = cur.node.settled /\ n.commit = head' /\ n.base = cur.base
      /\ n.score = cur.node.score /\ n.scoreStatus = cur.node.scoreStatus
      /\ n.valid = cur.node.valid
  BY <1>3, <1>6 DEF GenNode, Bases
<1> HIDE DEF n
<1>8. /\ cur' \in RoundKind /\ cur'.parents = cur.parents /\ cur'.todo = cur.todo
      /\ cur'.base = cur.base /\ cur'.node = n /\ cur'.genid = cur.genid
  BY <1>3, <1>5, <1>7 DEF RoundKind
<1>9. SoundCur(cur, outer, tree, refs, commits')
  <2>1. TreeKept(tree, tree) /\ RefsKept(refs, refs)
    BY DEF TreeKept, RefsKept
  <2> QED BY <1>2, <2>1, CurKept
<1>10. SoundCur(cur', outer, tree, refs, commits')
  BY <1>4, <1>7, <1>8, <1>9 DEF SoundCur
<1> QED BY <1>1, <1>6, <1>7, <1>8, <1>10 DEF RoundInv

\* The benchmark's report leaves a node with a measured or a grounded score,
\* or an invalid one.
LEMMA ReportStep ==
    ASSUME DiskInv, RoundInv, NEW s \in Scores \cup {None}, HarnessReports(s)
    PROVE  RoundInv'
<1>1. /\ pc = "harness" /\ pc' = "collect"
      /\ UNCHANGED <<tree, scores, commits, refs, outer>>
      /\ cur' = [cur EXCEPT !.node =
                 FinalizeChild([@ EXCEPT !.score = s,
                                         !.scoreStatus = IF s = None THEN "failed" ELSE "ok"],
                               cur.parents[1])]
  BY DEF HarnessReports, store, repo, driver
<1>2. SoundCur(cur, outer, tree, refs, commits) /\ cur.node.commit # None
  BY <1>1 DEF RoundInv, InRound, BeforeAdd
<1>3. cur.node \in GenNode /\ cur \in RoundKind /\ s \in Nat \cup {None}
  BY <1>2, LoopAssumption DEF SoundCur, RoundKind
<1> DEFINE k == [cur.node EXCEPT !.score = s,
                                 !.scoreStatus = IF s = None THEN "failed" ELSE "ok"]
           n == FinalizeChild(k, cur.parents[1])
<1>4. /\ k \in GenNode /\ k.score = s
      /\ k.scoreStatus = (IF s = None THEN "failed" ELSE "ok")
      /\ k.parents = cur.node.parents /\ k.outer = cur.node.outer
      /\ k.settled = cur.node.settled /\ k.commit = cur.node.commit
      /\ k.base = cur.node.base
  BY <1>3 DEF GenNode
<1>5. cur' = [cur EXCEPT !.node = n]
  BY <1>1, <1>3 DEF RoundKind
<1> HIDE DEF k
<1>6. /\ n \in GenNode
      /\ n.parents = k.parents /\ n.outer = k.outer /\ n.settled = k.settled
      /\ n.base = k.base /\ n.commit = k.commit
      /\ n.valid => n.scoreStatus \in {"ok", "imputed"}
      /\ n.scoreStatus = "imputed" => n.score \in Nat /\ Grounded(tree, n.score)
  <2>1. /\ SoundTree(tree, refs, commits, scores) /\ cur.parents[1] \in GenIds(tree)
        /\ tree.nodes[cur.parents[1]].valid
    BY <1>2 DEF DiskInv, SoundCur
  <2> QED BY <1>4, <2>1, FinalizeSound
<1> HIDE DEF n
<1>7. /\ cur' \in RoundKind /\ cur'.parents = cur.parents /\ cur'.todo = cur.todo
      /\ cur'.base = cur.base /\ cur'.node = n /\ cur'.genid = cur.genid
  BY <1>3, <1>5, <1>6 DEF RoundKind
<1>8. SoundCur(cur', outer, tree, refs, commits)
  BY <1>2, <1>4, <1>6, <1>7 DEF SoundCur
<1> QED BY <1>1, <1>2, <1>4, <1>6, <1>7, <1>8 DEF RoundInv

\* The tail of the round: the tree and the ledger get what the round found.
LEMMA TailStep ==
    ASSUME CommitLog, DiskInv, RoundInv, FreshInv, SnapshotsOrdered, [Next]_vars,
           RegisterParent \/ AddNode \/ AppendScore \/ SettleMeta
    PROVE  RoundInv'
<1>1. /\ pc \in {"register", "score", "meta"}
      /\ UNCHANGED <<commits, refs, outer>>
  BY DEF RegisterParent, AddNode, AppendScore, SettleMeta, repo, driver
<1>2. SoundCur(cur, outer, tree, refs, commits)
  BY <1>1 DEF RoundInv, InRound, BeforeAdd
<1>3. TreeKept(tree, tree')
  <2>1. ~StartWorker
    BY <1>1 DEF StartWorker
  <2> QED BY <2>1, TreeStep
<1>4. SoundCur(cur, outer', tree', refs', commits')
  <2>1. RefsKept(refs, refs') /\ CommitsKept(commits, commits')
    BY <1>1 DEF RefsKept, CommitsKept, CommitLog
  <2> QED BY <1>1, <1>2, <1>3, <2>1, CurKept
<1>5. CASE RegisterParent
  <2>1. /\ pc = "register" /\ pc' = "register" /\ cur.todo # <<>>
        /\ cur' = [cur EXCEPT !.todo = Tail(cur.todo)]
    BY <1>5 DEF RegisterParent
  <2>2. cur \in RoundKind /\ cur.todo = cur.parents /\ Len(cur.parents) = 1
    BY <1>2, <2>1 DEF SoundCur
  <2>3. Tail(cur.todo) = <<>>
    <3>1. cur.todo \in Seq(Nat) /\ Len(cur.todo) = 1
      BY <2>2 DEF RoundKind
    <3>2. Tail(cur.todo) \in Seq(Nat) /\ Len(Tail(cur.todo)) = 0
      <4>1. cur.todo # <<>>
        BY <2>1
      <4> QED BY <3>1, <4>1, HeadTailProperties
    <3> QED BY <3>2, EmptySeq
  <2>4. /\ cur' \in RoundKind /\ cur'.todo = <<>> /\ cur'.parents = cur.parents
        /\ cur'.base = cur.base /\ cur'.node = cur.node /\ cur'.genid = cur.genid
    BY <2>1, <2>2, <2>3 DEF RoundKind
  <2>5. SoundCur(cur', outer', tree', refs', commits')
    BY <1>4, <2>4 DEF SoundCur
  <2>6. cur.node.valid => cur.node.commit # None
    BY <2>1 DEF RoundInv, InRound, BeforeAdd
  <2> QED BY <2>1, <2>4, <2>5, <2>6 DEF RoundInv
<1>6. CASE AddNode
  <2> DEFINE n == [cur.node EXCEPT !.depth =
                     DepthBelow(tree, {cur.parents[i] : i \in DOMAIN cur.parents})]
  <2>1. /\ pc = "register" /\ pc' \in {"inner_ckpt", "score"} /\ cur' = cur
        /\ tree' = Put(tree, cur.genid, n)
    BY <1>6 DEF AddNode, ApplyEvent, AddEvent, worker
  <2>2. /\ cur.genid \in GenIds(tree') /\ tree'.nodes[cur.genid] = n
    BY <2>1 DEF Put, GenIds
  <2>3. n.score = cur.node.score /\ n.valid = cur.node.valid
    <3>1. cur.node \in GenNode
      BY <1>2 DEF SoundCur, RoundKind
    <3> QED BY <3>1 DEF GenNode
  <2> HIDE DEF n
  <2>4. cur.node.valid => cur.node.commit # None
    BY <2>1 DEF RoundInv, InRound, BeforeAdd
  <2> QED BY <1>4, <2>1, <2>2, <2>3, <2>4 DEF RoundInv
<1>7. CASE AppendScore
  <2>1. /\ pc = "score" /\ pc' \in {"meta", "inner_ckpt"} /\ cur' = cur /\ tree' = tree
        /\ scores' = scores \cup {[genid |-> cur.genid, score |-> cur.node.score,
                                   scoreStatus |-> cur.node.scoreStatus,
                                   valid |-> cur.node.valid]}
    BY <1>7 DEF AppendScore, worker
  <2>2. HasRow(cur.genid, cur.node, scores')
    <3> DEFINE row == [genid |-> cur.genid, score |-> cur.node.score,
                       scoreStatus |-> cur.node.scoreStatus,
                       valid |-> cur.node.valid]
    <3>1. row \in scores'
      BY <2>1
    <3>2. /\ row.genid = cur.genid /\ row.score = cur.node.score
          /\ row.valid = cur.node.valid
      BY Zenon
    <3> HIDE DEF row
    <3> QED BY <3>1, <3>2, Zenon DEF HasRow
  <2>3. /\ cur.node.valid => cur.node.commit # None
        /\ cur.genid \in GenIds(tree)
        /\ tree.nodes[cur.genid].score = cur.node.score
        /\ tree.nodes[cur.genid].valid = cur.node.valid
    BY <2>1 DEF RoundInv, InRound, BeforeAdd
  <2> QED BY <1>4, <2>1, <2>2, <2>3 DEF RoundInv
<1>8. CASE SettleMeta
  <2>1. pc' = "inner_ckpt" /\ cur' = cur
    BY <1>8 DEF SettleMeta
  <2> QED BY <1>4, <2>1 DEF RoundInv
<1> QED BY <1>5, <1>6, <1>7, <1>8

\* Every step keeps what holds of the generation in progress.
LEMMA RoundStep ==
    ASSUME CommitLog, DiskInv, RoundInv, ResumeInv, CountersInv, FreshInv,
           SnapshotsOrdered, [Next]_vars
    PROVE  RoundInv'
<1>1. CASE SelectParent
  BY <1>1, SelectStep
<1>2. CASE PlanFails \/ TaskRunnerFails
  BY <1>2, FailureStep
<1>3. CASE TrajectoryFails \/ EvaluatorFails \/ EvaluatorJudges
  BY <1>3, VerdictStep
<1>4. CASE CommitTaskPatch
  BY <1>4, DiskGrows, CommitStep
<1>5. CASE \E s \in Scores \cup {None} : HarnessReports(s)
  BY <1>5, ReportStep
<1>6. CASE RegisterParent \/ AddNode \/ AppendScore \/ SettleMeta
  BY <1>6, TailStep
<1>7. ASSUME NEW p \in PatchOutcomes, PlanSucceeds(p)
      PROVE  RoundInv'
  <2>1. /\ pc = "plan" /\ pc' = "apply" /\ cur' = [cur EXCEPT !.patch = p]
        /\ UNCHANGED <<tree, scores, commits, refs, outer>>
    BY <1>7 DEF PlanSucceeds, store, repo, driver
  <2>2. SoundCur(cur, outer, tree, refs, commits)
    BY <2>1 DEF RoundInv, InRound, BeforeAdd
  <2>3. cur \in RoundKind
    BY <2>2 DEF SoundCur
  <2>4. /\ cur' \in RoundKind /\ cur'.parents = cur.parents /\ cur'.todo = cur.todo
        /\ cur'.base = cur.base /\ cur'.node = cur.node /\ cur'.genid = cur.genid
    BY <2>1, <2>3 DEF RoundKind
  <2>5. SoundCur(cur', outer, tree, refs, commits)
    BY <2>2, <2>4 DEF SoundCur
  <2> QED BY <2>1, <2>5 DEF RoundInv
<1>8. CASE PinTaskRef
  <2>1. /\ pc = "pin" /\ pc' = "harness" /\ cur' = cur
        /\ UNCHANGED <<tree, scores, commits, outer>>
    BY <1>8 DEF PinTaskRef, store, driver, worker
  <2>2. SoundCur(cur, outer, tree, refs, commits) /\ cur.node.commit # None
    BY <2>1 DEF RoundInv, InRound, BeforeAdd
  <2>3. RefsKept(refs, refs') /\ CommitsKept(commits, commits) /\ TreeKept(tree, tree)
    BY <2>1, DiskGrows DEF TreeKept
  <2>4. SoundCur(cur, outer, tree, refs', commits)
    BY <2>2, <2>3, CurKept
  <2> QED BY <2>1, <2>2, <2>4 DEF RoundInv
<1>9. CASE ProbePatch \/ ProbeRollback \/ ApplyTaskPatch \/ TrajectoryCollected
  <2>1. /\ UNCHANGED <<tree, scores, commits, refs, outer, cur>>
        /\ \/ pc' \in {"plan", "plan_probe", "self", "self_probe"}
           \/ pc' = "commit" /\ head' = cur.base
           \/ pc = "collect" /\ pc' = "evaluate"
        /\ pc' \in InRound => pc \in InRound
    BY <1>9 DEF ProbePatch, ProbeRollback, ApplyTaskPatch, TrajectoryCollected,
                CleanCheckout, store, repo, driver, worker, InRound, BeforeAdd
  <2>2. pc' \in InRound => SoundCur(cur, outer, tree, refs, commits)
    BY <2>1 DEF RoundInv
  <2>3. pc' = "evaluate" => cur.node.commit # None
    BY <2>1 DEF RoundInv, InRound, BeforeAdd
  <2> QED BY <2>1, <2>2, <2>3 DEF RoundInv
<1>10. CASE UNCHANGED vars
  <2>1. UNCHANGED <<pc, cur, tree, scores, commits, refs, outer, head>>
    BY <1>10 DEF vars, store, repo, driver, worker
  <2> QED BY <2>1 DEF RoundInv
<1>11. CASE pc' \notin InRound
  BY <1>11 DEF RoundInv
<1>12. \/ SelectParent \/ PlanFails \/ TaskRunnerFails \/ TrajectoryFails
       \/ EvaluatorFails \/ EvaluatorJudges \/ CommitTaskPatch
       \/ \E s \in Scores \cup {None} : HarnessReports(s)
       \/ RegisterParent \/ AddNode \/ AppendScore \/ SettleMeta
       \/ \E p \in PatchOutcomes : PlanSucceeds(p)
       \/ PinTaskRef \/ ProbePatch \/ ProbeRollback \/ ApplyTaskPatch
       \/ TrajectoryCollected \/ UNCHANGED vars \/ pc' \notin InRound
  BY DEF Next, WorkerStep, InRound, BeforeAdd, StartWorker, WorkerExit, Crash,
         EnterOuter, LeaveInner, SaveInnerCheckpoint, NoSelfPatch, ApplySelfPatch,
         CommitSelfPatch, RecordMeta, SaveOuterCheckpoint, WriteSnapshot, NextRole,
         DriverStart, ResumeInv
<1> QED BY <1>1, <1>2, <1>3, <1>4, <1>5, <1>6, <1>7, <1>8, <1>9, <1>10, <1>11, <1>12

\* The snapshot just written is the newest one.
LEMMA NewestWritten ==
    ASSUME DiskInv, FreshInv, SnapshotsOrdered, WriteSnapshot
    PROVE  /\ NewestOuterSnapshot' = [latest EXCEPT !.ts = Now]
           /\ NewestOuterSnapshot' # NoCheckpoint
           /\ SameState(NewestOuterSnapshot', latest)
<1> DEFINE name == SnapshotName(outer)
           p    == [latest EXCEPT !.ts = Now]
<1>1. latest # NoCheckpoint /\ SoundPayload(latest, refs, commits, scores)
  BY DEF WriteSnapshot, DiskInv
<1>2. {"outer", "counter", "roleCommits", "tree", "metaTree", "commit", "ts"} \subseteq DOMAIN latest
  BY <1>1 DEF SoundPayload
<1>3. name \notin DOMAIN snapshots
  BY <1>2, SnapshotStep
<1>4. /\ DOMAIN snapshots' = DOMAIN snapshots \cup {name}
      /\ snapshots'[name] = p
      /\ \A n \in DOMAIN snapshots : snapshots'[n] = snapshots[n]
  BY <1>3 DEF WriteSnapshot
<1>5. DOMAIN p = DOMAIN latest /\ p.ts = Now
  BY <1>2
<1>6. \A f \in {"outer", "counter", "roleCommits", "tree", "metaTree", "commit"} :
         p[f] = latest[f]
  BY <1>2
<1>7. Now \in Nat
  BY FS_CardinalityType DEF Now, SnapshotsOrdered
<1> HIDE DEF name, p
<1>8. \A n \in DOMAIN snapshots :
         snapshots'[n].ts \in Nat /\ snapshots'[n].ts < Now
  BY <1>4 DEF SnapshotsOrdered
<1>9. \A m \in DOMAIN snapshots' : snapshots'[m].ts <= snapshots'[name].ts
  BY <1>4, <1>5, <1>7, <1>8
<1>10. \A n \in DOMAIN snapshots' :
         (\A m \in DOMAIN snapshots' : snapshots'[m].ts <= snapshots'[n].ts)
           => n = name
  <2> SUFFICES ASSUME NEW n \in DOMAIN snapshots',
                      snapshots'[name].ts <= snapshots'[n].ts, n # name
               PROVE  FALSE
    BY <1>4
  <2> QED BY <1>4, <1>5, <1>7, <1>8
<1>11. (CHOOSE n \in DOMAIN snapshots' :
          \A m \in DOMAIN snapshots' : snapshots'[m].ts <= snapshots'[n].ts) = name
  BY <1>4, <1>9, <1>10
<1>12. NewestOuterSnapshot' = p
  BY <1>4, <1>11 DEF NewestOuterSnapshot
<1>13. p # NoCheckpoint
  <2>1. "ts" \in DOMAIN p
    BY <1>2, <1>5
  <2>2. DOMAIN NoCheckpoint = {}
    BY DEF NoCheckpoint
  <2> QED BY <2>1, <2>2
<1> QED BY <1>6, <1>12, <1>13 DEF SameState, p

\* A worker that follows the newest snapshot starts from it.
LEMMA StartStep ==
    ASSUME DiskInv, SnapshotsOrdered, ResumeInv, StartWorker
    PROVE  ResumeInv'
<1> DEFINE newest == NewestOuterSnapshot
           cp == LoadCheckpoint(IF mode = "resume" THEN "outer" ELSE "latest")
<1>1. /\ drv = "running" /\ pc = "down" /\ pc' = "enter"
      /\ UNCHANGED <<latest, snapshots, head, outer, mode, drv>>
  BY DEF StartWorker, ckpt, repo, driver
<1>2. newest' = newest
  BY <1>1 DEF NewestOuterSnapshot
<1>3. ASSUME newest # NoCheckpoint, outer = newest.outer + 1
      PROVE  /\ tree' = newest.tree /\ metaTree' = newest.metaTree
             /\ counter' = newest.counter /\ roleCommits' = newest.roleCommits
             /\ head = newest.commit
  <2>1. /\ head = newest.commit
        /\ mode # "resume" => latest # NoCheckpoint /\ SameState(newest, latest)
    BY <1>1, <1>3 DEF ResumeInv
  <2>2. /\ cp # NoCheckpoint /\ cp.tree = newest.tree /\ cp.metaTree = newest.metaTree
        /\ cp.counter = newest.counter /\ cp.roleCommits = newest.roleCommits
    <3>1. CASE mode = "resume"
      BY <1>3, <3>1 DEF LoadCheckpoint
    <3>2. CASE mode # "resume"
      BY <2>1, <3>2 DEF LoadCheckpoint, SameState
    <3> QED BY <3>1, <3>2
  <2>3. GenIds(tree) # {}
    BY <1>3 DEF NewestOuterSnapshot, DiskInv
  <2> HIDE DEF newest
  <2> QED BY <2>1, <2>2, <2>3 DEF StartWorker, ApplyEvent, ResetEvent
<1> HIDE DEF newest
<1>4. ContinuesNewest'
  BY <1>1, <1>2, <1>3 DEF ContinuesNewest, newest
<1> QED BY <1>1, <1>4 DEF ResumeInv

\* What a worker will start from stays in agreement.
LEMMA ResumeStep ==
    ASSUME DiskInv, FreshInv, SnapshotsOrdered, ResumeInv, [Next]_vars
    PROVE  ResumeInv'
<1>1. CASE StartWorker
  BY <1>1, StartStep
<1>2. CASE Crash
  <2>1. pc' = "down" /\ drv' = "stopped"
    BY <1>2 DEF Crash
  <2> QED BY <2>1 DEF ResumeInv, ContinuesNewest
<1>3. CASE SaveOuterCheckpoint
  <2>1. /\ pc = "outer_ckpt" /\ pc' = "snapshot" /\ latest' = Payload("outer", InnerMax)
        /\ UNCHANGED <<tree, metaTree, head, outer, limits, drv, counter, roleCommits>>
    BY <1>3 DEF SaveOuterCheckpoint, store, repo, driver, worker
  <2>2. latest' = Payload("outer", InnerMax)'
    BY <2>1 DEF Payload, InnerMax
  <2>3. drv' = "running"
    BY <2>1 DEF ResumeInv
  <2> QED BY <2>1, <2>2, <2>3 DEF ResumeInv, ContinuesNewest, SameState
<1>4. CASE WriteSnapshot
  <2>1. /\ pc = "snapshot" /\ pc' = "exit"
        /\ UNCHANGED <<latest, tree, metaTree, head, outer, limits, drv, counter,
                       roleCommits>>
    BY <1>4 DEF WriteSnapshot, store, repo, driver, worker
  <2>2. Payload("outer", InnerMax)' = Payload("outer", InnerMax)
    BY <2>1 DEF Payload, InnerMax
  <2>3. drv' = "running" /\ SameState(latest, Payload("outer", InnerMax))
    BY <2>1 DEF ResumeInv
  <2>4. NewestOuterSnapshot' # NoCheckpoint /\ SameState(NewestOuterSnapshot', latest)
    BY <1>4, NewestWritten
  <2> QED BY <2>1, <2>2, <2>3, <2>4 DEF ResumeInv, ContinuesNewest, SameState
<1>5. CASE WorkerExit
  <2> DEFINE newest == NewestOuterSnapshot
             saved  == Payload("outer", InnerMax)
  <2>1. /\ pc = "exit" /\ pc' = "down" /\ UNCHANGED <<latest, snapshots, head>>
        /\ \/ drv' = "done" \/ outer' = outer + 1
    BY <1>5 DEF WorkerExit, ckpt, repo
  <2>2. newest' = newest
    BY <2>1 DEF NewestOuterSnapshot
  <2>3. newest # NoCheckpoint /\ SameState(newest, latest) /\ SameState(latest, saved)
    BY <2>1 DEF ResumeInv
  <2>4. saved.outer = outer /\ saved.commit = head
    BY DEF Payload
  <2>5. newest.commit = head /\ latest # NoCheckpoint
    BY <2>1, <2>3, <2>4 DEF SameState, DiskInv
  <2> HIDE DEF newest, saved
  <2>6. pc' = "down" /\ newest'.commit = head' /\ latest' # NoCheckpoint
        /\ SameState(newest', latest')
    BY <2>1, <2>2, <2>3, <2>5
  <2> QED BY <2>6 DEF ResumeInv, ContinuesNewest, newest
<1>6. ASSUME NEW m \in Modes, DriverStart(m)
      PROVE  ResumeInv'
  <2> DEFINE newest == NewestOuterSnapshot
             start  == IF m = "resume" /\ newest # NoCheckpoint THEN newest.outer + 1
                       ELSE 1
  <2>1. /\ drv # "running" /\ pc' = pc /\ mode' = m /\ UNCHANGED <<latest, snapshots>>
        /\ outer' = start
        /\ m = "fresh" => newest = NoCheckpoint
        /\ drv' = "running" /\ m = "resume" /\ newest # NoCheckpoint
             => head' = newest.commit
    BY <1>6 DEF DriverStart, ckpt, ForcedCheckout
  <2>2. newest' = newest /\ pc' = "down"
    BY <2>1 DEF NewestOuterSnapshot, ResumeInv
  <2>3. newest # NoCheckpoint => newest.outer \in Nat \ {0}
    BY DEF NewestOuterSnapshot, SnapshotsOrdered, DiskInv, SoundPayload
  <2>4. m \in {"fresh", "resume", "force"}
    BY LoopAssumption
  <2> HIDE DEF newest
  <2>5. drv' = "running" /\ newest' # NoCheckpoint /\ outer' = newest'.outer + 1
          => head' = newest'.commit /\ mode' = "resume"
    BY <2>1, <2>2, <2>3, <2>4
  <2> QED BY <2>2, <2>5 DEF ResumeInv, ContinuesNewest, newest
<1>7. CASE UNCHANGED vars
  <2>1. UNCHANGED <<pc, drv, mode, outer, latest, snapshots, head, tree, metaTree,
                    counter, roleCommits, limits>>
    BY <1>7 DEF vars, store, ckpt, repo, driver, worker
  <2>2. NewestOuterSnapshot' = NewestOuterSnapshot
        /\ Payload("outer", InnerMax)' = Payload("outer", InnerMax)
    BY <2>1 DEF NewestOuterSnapshot, Payload, InnerMax
  <2> QED BY <2>1, <2>2 DEF ResumeInv, ContinuesNewest
<1>8. CASE drv' = drv /\ pc # "down" /\ pc' \notin {"down", "enter", "snapshot", "exit"}
  BY <1>8 DEF ResumeInv, ContinuesNewest
<1>9. \/ StartWorker \/ Crash \/ SaveOuterCheckpoint \/ WriteSnapshot \/ WorkerExit
      \/ \E m \in Modes : DriverStart(m)
      \/ UNCHANGED vars
      \/ drv' = drv /\ pc # "down" /\ pc' \notin {"down", "enter", "snapshot", "exit"}
  BY DEF Next, WorkerStep, store, ckpt, repo, driver, worker, EnterOuter, SelectParent,
         LeaveInner, ProbePatch, ProbeRollback, PlanFails, PlanSucceeds,
         ApplyTaskPatch, CommitTaskPatch, PinTaskRef, TaskRunnerFails,
         HarnessReports, TrajectoryCollected, TrajectoryFails, EvaluatorFails,
         EvaluatorJudges, RegisterParent, AddNode, AppendScore, SettleMeta,
         SaveInnerCheckpoint, NoSelfPatch, ApplySelfPatch, CommitSelfPatch,
         RecordMeta, NextRole, Archive
<1> QED BY <1>1, <1>2, <1>3, <1>4, <1>5, <1>6, <1>7, <1>8, <1>9

LEMMA LoopInit == Init => LoopInv
<1> SUFFICES ASSUME Init PROVE LoopInv
  OBVIOUS
<1>1. CommitLog /\ Len(commits) = 0 /\ DOMAIN commits = {}
  BY DEF Init, CommitLog
<1>2. /\ GenIds(tree) = {} /\ IsFiniteSet(GenIds(tree))
      /\ tree.nodes \in [GenIds(tree) -> GenNode]
  BY FS_EmptySet DEF Init, EmptyTree, GenIds
<1>3. DiskInv
  <2>1. SoundTree(tree, refs, commits, scores)
    BY <1>2 DEF SoundTree
  <2>2. /\ head \in CommitIds /\ outer \in Nat \ {0} /\ DOMAIN refs = {}
        /\ latest = NoCheckpoint /\ DOMAIN snapshots = {} /\ pc = "down"
    BY <1>1 DEF Init, CommitIds
  <2> QED BY <1>1, <2>1, <2>2 DEF DiskInv
<1>4. RoundInv /\ CleanInv
  BY DEF Init, RoundInv, CleanInv, InRound, BeforeAdd
<1>5. ResumeInv
  BY DEF Init, ResumeInv, ContinuesNewest, NewestOuterSnapshot
<1>6. CountersInv
  <2>1. probed \in BOOLEAN
    BY Zenon DEF Init
  <2> QED BY <2>1, LoopAssumption DEF Init, CountersInv, Steps
<1> QED BY <1>1, <1>3, <1>4, <1>5, <1>6 DEF LoopInv

LEMMA LoopStep ==
    LoopInv /\ FreshInv /\ SnapshotsOrdered /\ [Next]_vars => LoopInv'
BY DiskStep, RoundStep, CleanStep, ResumeStep, CountersStep DEF LoopInv

LEMMA LoopInvariant == Spec => [](LoopInv /\ FreshInv /\ SnapshotsOrdered)
BY LoopInit, LoopStep, FreshInit, FreshStep, OrderStep, PTL DEF Spec

-----------------------------------------------------------------------------
(* The properties.                                                         *)

LEMMA LoopTypes == LoopInv /\ FreshInv => TypeOK
BY DEF LoopInv, FreshInv, DiskInv, CleanInv, CountersInv, TreeShape, TypeOK

LEMMA LoopGenerations == LoopInv => GenerationsSound
<1> SUFFICES ASSUME LoopInv PROVE GenerationsSound
  OBVIOUS
<1>1. /\ CommitLog
      /\ \A g \in GenIds(tree) :
           SoundNode(tree.nodes[g], g, tree, refs, commits, scores)
  BY DEF LoopInv, DiskInv, SoundTree
<1>2. Lineage
  BY <1>1 DEF Lineage, SoundNode, StartingCode, OwnCode
<1>3. SettledIsScored
  BY <1>1 DEF SettledIsScored, SoundNode, HasRow
<1> QED BY <1>2, <1>3 DEF GenerationsSound

LEMMA LoopGrounded == LoopInv => ImputedIsGrounded
BY DEF LoopInv, DiskInv, SoundTree, SoundNode, Grounded, ImputedIsGrounded

\* Whatever was crashed, resumed or forced, every generation's code is that of
\* its valid parent plus at most its own patch, and every settled generation
\* has its row in the score ledger.
THEOREM GenerationsStaySound == Spec => []GenerationsSound
BY LoopInvariant, LoopGenerations, PTL

\* An outer that follows the newest snapshot starts from exactly that
\* snapshot, and no round works on what a dead process left behind.
THEOREM ResumesStaySound == Spec => []ResumesSound
<1>1. LoopInv => ResumesSound
  BY DEF LoopInv, ResumeInv, CleanInv, ResumesSound, RoundsOnCleanTree
<1> QED BY <1>1, LoopInvariant, PTL

\* Failing plans, patches, harnesses, archives and evaluations leave types,
\* blood line and ledger sound, and imputation, chained along imputed parents,
\* stays within the scores that were measured.
THEOREM FaultsStayContained == Spec => []FaultsContained
<1>1. LoopInv /\ FreshInv => FaultsContained
  BY LoopTypes, LoopGenerations, LoopGrounded DEF FaultsContained
<1> QED BY <1>1, LoopInvariant, PTL

\* A node keeps what the generation was: the fields the property names.
LEMMA KeptNodes ==
    ASSUME DiskInv, RoundInv, FreshInv, [Next]_vars, pc # "down"
    PROVE  \A g \in GenIds(tree) :
              /\ g \in GenIds(tree')
              /\ \A f \in {"parents", "score", "valid", "base", "commit"} :
                   tree'.nodes[g][f] = tree.nodes[g][f]
<1>1. tree.nodes \in [GenIds(tree) -> GenNode]
  BY DEF DiskInv, SoundTree
<1>2. CASE UNCHANGED tree
  BY <1>2
<1>3. CASE RegisterParent
  <2>1. SoundCur(cur, outer, tree, refs, commits) /\ cur.todo # <<>>
    BY <1>3 DEF RegisterParent, RoundInv, InRound, BeforeAdd
  <2>2. cur.todo = cur.parents /\ Head(cur.todo) = cur.parents[1]
        /\ cur.parents[1] \in GenIds(tree)
    BY <2>1 DEF SoundCur, RoundKind
  <2>3. tree' = ApplyEvent(tree, UpdateEvent(cur.parents[1],
                  [children |-> tree.nodes[cur.parents[1]].children + 1]))
    BY <1>3, <2>2 DEF RegisterParent
  <2>4. /\ GenIds(tree') = GenIds(tree)
        /\ \A h \in GenIds(tree) : Recounted(tree.nodes[h], tree'.nodes[h])
    BY <1>1, <2>2, <2>3, ChildCounted
  <2> QED BY <2>4 DEF Recounted
<1>4. CASE AddNode
  <2>1. PICK n : tree' = Put(tree, cur.genid, n)
    BY <1>4 DEF AddNode, ApplyEvent, AddEvent
  <2>2. cur.genid \notin GenIds(tree)
    BY <1>4 DEF AddNode, FreshInv, BeforeAdd
  <2> QED BY <2>1, <2>2 DEF Put, GenIds
<1>5. CASE SettleMeta
  <2>1. cur.genid \in GenIds(tree)
    BY <1>5 DEF SettleMeta, RoundInv, InRound, BeforeAdd
  <2>2. tree' = ApplyEvent(tree, UpdateEvent(cur.genid, [settled |-> TRUE]))
    BY <1>5 DEF SettleMeta
  <2>3. /\ GenIds(tree') = GenIds(tree)
        /\ \A h \in GenIds(tree) \ {cur.genid} : tree'.nodes[h] = tree.nodes[h]
        /\ tree'.nodes[cur.genid] = [tree.nodes[cur.genid] EXCEPT !.settled = TRUE]
    BY <1>1, <2>1, <2>2, NodeSettled
  <2>4. tree.nodes[cur.genid] \in GenNode
    BY <1>1, <2>1
  <2>5. \A f \in {"parents", "score", "valid", "base", "commit"} :
           tree'.nodes[cur.genid][f] = tree.nodes[cur.genid][f]
    BY <2>3, <2>4 DEF GenNode
  <2> QED BY <2>3, <2>5
<1>6. RegisterParent \/ AddNode \/ SettleMeta \/ UNCHANGED tree
  BY DEF Next, WorkerStep, vars, store, ckpt, repo, driver, worker, StartWorker,
         WorkerExit, Crash, EnterOuter, SelectParent,
         LeaveInner, ProbePatch, ProbeRollback, PlanFails, PlanSucceeds,
         ApplyTaskPatch, CommitTaskPatch, PinTaskRef, TaskRunnerFails,
         HarnessReports, TrajectoryCollected, TrajectoryFails, EvaluatorFails,
         EvaluatorJudges, AppendScore,
         SaveInnerCheckpoint, NoSelfPatch, ApplySelfPatch, CommitSelfPatch,
         RecordMeta, SaveOuterCheckpoint, WriteSnapshot, DriverStart
<1> QED BY <1>2, <1>3, <1>4, <1>5, <1>6

\* Outside a restore the tree only grows, and a generation keeps its parents,
\* its code and its score.
THEOREM GenerationsAreKept == Spec => GenerationsKept
<1>1. LoopInv /\ FreshInv /\ SnapshotsOrdered /\ [Next]_vars
        => [pc # "down" =>
              \A g \in GenIds(tree) :
                /\ g \in GenIds(tree')
                /\ \A f \in {"parents", "score", "valid", "base", "commit"} :
                     tree'.nodes[g][f] = tree.nodes[g][f]]_tree
  BY KeptNodes DEF LoopInv
<1> QED BY <1>1, LoopInvariant, PTL DEF Spec, GenerationsKept
=============================================================================
