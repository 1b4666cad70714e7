------------------------------ MODULE GanLoop ------------------------------
(***************************************************************************)
(* The dual loop of RSI-GAN run by its driver: gan/driver.py starts one    *)
(* gan.outer_worker process per outer generation, and that process runs    *)
(* GanLoop.run(only_outer = O) of gan/framework/loop.py on the per-run     *)
(* code tree (gan/framework/code_repo.py), the task tree                   *)
(* (gan/framework/tree/store.py), the score ledger (scores.py) and the     *)
(* checkpoints (checkpoint.py).                                            *)
(*                                                                         *)
(* One action is one stretch of the worker between two writes that survive *)
(* the process: an append to tree.jsonl or scores.jsonl, a replacement of  *)
(* checkpoint.json, a new outer snapshot, a git checkout, apply, commit or *)
(* branch.  The process may die between any two of them, after which an    *)
(* operator starts the driver again: plainly, with --resume or --force.    *)
(*                                                                         *)
(* The replay of tree.jsonl and the tree in memory agree between calls of  *)
(* the store (module TreeStore), so one variable stands for both.          *)
(***************************************************************************)
EXTENDS TreeOps

CONSTANTS
    OuterGenerations,   \* G, loop.outer_generations
    Patience,           \* loop.stagnation_patience
    Limits,             \* the configurations examined, see LimitKinds
    Scores,             \* what a benchmark may report
    Modes,              \* ways the operator starts the driver
    PatchOutcomes,      \* bound: what becomes of a session's patch
    Faults,             \* bound: which stages of a round may fail
    MaxStarts,          \* bound: number of driver invocations
    MaxCrashes          \* bound: number of process deaths

\* I_max (loop.inner_max), tree.branch_limit and tree.depth_limit.
LimitKinds == [rounds : Nat, branch : Nat, depth : Nat]

ASSUME LoopAssumption ==
    /\ OuterGenerations \in Nat \ {0} /\ Patience \in Nat
    /\ Limits \subseteq LimitKinds /\ MaxStarts \in Nat
    /\ Scores \subseteq Nat /\ None \notin Nat
    /\ Modes \subseteq {"fresh", "resume", "force"}
    /\ PatchOutcomes \subseteq {"good", "bad", "none"}
    /\ Faults \subseteq {"plan", "task", "trajectory", "evaluator"}
    /\ MaxCrashes \in Nat

Roles == <<"evaluator", "planner">>   \* the order self-patches are applied in

VARIABLES
    (* what survives the processes *)
    tree,        \* replay of the task tree's log
    metaTree,    \* <<role, outer>> nodes of the evaluator and planner trees
    scores,      \* rows of scores.jsonl
    latest,      \* checkpoint.json, or NoCheckpoint
    snapshots,   \* outer_<N>.json and outer_<N>_<ms>.json: name -> payload
    commits,     \* commits of the code tree; commit 0 is "initial"
    head,        \* HEAD of the code tree
    dirty,       \* what a dead process left in the work tree beyond HEAD
    refs,        \* branches of the code tree
    (* the driver *)
    drv,         \* "stopped", "running" or "done"
    mode,        \* how it was started
    outer,       \* outer generation in progress
    limits,      \* the run's configuration, the same for every start
    starts,      \* driver invocations so far
    crashes,     \* process deaths so far
    (* the outer worker *)
    pc,          \* next step
    inner,       \* inner generation in progress
    counter,     \* _gen_counter
    noImprove,   \* rounds without improvement
    cur,         \* the generation in progress, or None
    probed,      \* the session in progress has dry-run its patch
    seat,        \* position in Roles of the self-patch to apply next
    roleCommits  \* _role_commits

store  == <<tree, metaTree, scores>>
ckpt   == <<latest, snapshots>>
repo   == <<commits, head, dirty, refs>>
driver == <<drv, mode, outer, limits, starts, crashes>>
worker == <<inner, counter, noImprove, cur, probed, seat, roleCommits>>
vars   == <<store, ckpt, repo, driver, pc, worker>>

InnerMax    == limits.rounds
BranchLimit == limits.branch
DepthLimit  == limits.depth

NoCommits == [r \in {"evaluator", "planner"} |-> None]

-----------------------------------------------------------------------------
(* The code tree: what the git operations of code_repo.py do.              *)

\* What an applied but uncommitted patch is: edited files, added files.  While
\* the process lives, pc tells that a patch is in the work tree.
Leftovers == {"tracked", "untracked"}

TaskRef(g)  == <<"task", g>>
OuterRef(o) == <<"outer_base", o>>

\* ensure_branch never moves an existing branch.
EnsureBranch(r, c) ==
    refs' = [x \in DOMAIN refs \cup {r} |-> IF x \in DOMAIN refs THEN refs[x] ELSE c]

\* checkout_base and _hard_rollback: forced checkout, then clean -fd.
CleanCheckout(c) == head' = c /\ dirty' = {}

\* checkout: tracked files only.
ForcedCheckout(c) == head' = c /\ dirty' = dirty \ {"tracked"}

\* The patch's own files, and only those, are committed on top of HEAD.
Commit(by) ==
    /\ commits' = Append(commits, [parent |-> head, by |-> by])
    /\ head' = Len(commits) + 1
    /\ UNCHANGED dirty

\* The steps at which a patch is applied and not yet committed or undone.
PatchInTree ==
    \/ pc \in {"plan_probe", "self_probe", "self_commit"}
    \/ pc = "commit" /\ cur.patch # "none"

-----------------------------------------------------------------------------
(* Checkpoints.                                                            *)

\* What load returns when there is no file (None in the code): no payload.
NoCheckpoint == <<>>

\* Mutant of Payload: the last id handed out is saved, not the next one.
Payload_LastId(boundary, i) ==
    [boundary |-> boundary, outer |-> outer, inner |-> i, counter |-> counter - 1,
     roleCommits |-> roleCommits, tree |-> tree, metaTree |-> metaTree,
     commit |-> head, ts |-> 0]

Payload(boundary, i) ==
    [boundary |-> boundary, outer |-> outer, inner |-> i, counter |-> counter,
     roleCommits |-> roleCommits, tree |-> tree, metaTree |-> metaTree,
     commit |-> head, ts |-> 0]

\* The name a new snapshot of outer o gets: the canonical one once, then a
\* time-stamped archival one.  Time is the number of snapshots written.
Now == Cardinality(DOMAIN snapshots) + 1

\* Mutant of SnapshotName: a re-run overwrites the canonical snapshot.
SnapshotName_Canonical(o) == <<o, 0>>

SnapshotName(o) == IF <<o, 0>> \in DOMAIN snapshots THEN <<o, Now>> ELSE <<o, 0>>

\* The newest snapshot by completion time, not by index.
NewestOuterSnapshot ==
    IF DOMAIN snapshots = {} THEN NoCheckpoint
    ELSE snapshots[CHOOSE n \in DOMAIN snapshots :
                     \A m \in DOMAIN snapshots : snapshots[m].ts <= snapshots[n].ts]

\* Mutant of LoadCheckpoint: the boundary flag is ignored.
LoadCheckpoint_Latest(boundary) == latest

LoadCheckpoint(boundary) ==
    IF boundary = "latest" THEN latest ELSE NewestOuterSnapshot

-----------------------------------------------------------------------------
(* Nodes.                                                                  *)

Initial == 0

NewNode(parents) ==
    [parents |-> parents, depth |-> 0, children |-> 0, valid |-> TRUE,
     status |-> "alive", score |-> None, scoreStatus |-> "ok",
     outer |-> outer, base |-> None, commit |-> None, settled |-> FALSE]

InvalidNode(parents) ==
    [NewNode(parents) EXCEPT !.valid = FALSE, !.status = "invalid",
                             !.scoreStatus = "invalid"]

Measured(n) == n.scoreStatus = "ok" /\ n.score # None

\* Median of the scores of a set of generations.
Median(S) ==
    LET s(g)    == tree.nodes[g].score
        Below(x) == Cardinality({g \in S : s(g) < x})
        UpTo(x)  == Cardinality({g \in S : s(g) <= x})
        At(k)   == CHOOSE x \in {s(g) : g \in S} : Below(x) <= k /\ k < UpTo(x)
        n       == Cardinality(S)
    IN  (At((n - 1) \div 2) + At(n \div 2)) \div 2

\* Mutant of ImputeScore: a parent without score counts as zero.
ImputeScore_Zero(p) == ScoreOf(tree.nodes[p])

\* _impute_score: the measured siblings' median, else the parent's score.
ImputeScore(p) ==
    LET sibs == {g \in GenIds(tree) : /\ tree.nodes[g].parents # <<>>
                                      /\ tree.nodes[g].parents[1] = p
                                      /\ Measured(tree.nodes[g])}
    IN  IF Cardinality(sibs) >= 2 THEN Median(sibs) ELSE tree.nodes[p].score

\* _finalize_child: keep a measured score, else impute one, else invalid.
FinalizeChild(n, p) ==
    IF Measured(n) THEN n
    ELSE IF ImputeScore(p) = None
         THEN [n EXCEPT !.valid = FALSE, !.scoreStatus = "invalid"]
         ELSE [n EXCEPT !.score = ImputeScore(p), !.scoreStatus = "imputed"]

Improved(n, p) ==
    /\ n.scoreStatus = "ok" /\ n.score # None
    /\ tree.nodes[p].score = None \/ n.score > tree.nodes[p].score

-----------------------------------------------------------------------------
Init ==
    /\ tree = EmptyTree /\ metaTree = {} /\ scores = {}
    /\ latest = NoCheckpoint /\ snapshots = <<>>
    /\ commits = <<>> /\ head = 0 /\ dirty = {} /\ refs = <<>>
    /\ drv = "stopped" /\ mode = "fresh" /\ outer = 1 /\ starts = 0 /\ crashes = 0
    /\ limits \in Limits
    /\ pc = "down" /\ inner = 1 /\ counter = 0 /\ noImprove = 0
    /\ cur = None /\ probed = FALSE /\ seat = 1 /\ roleCommits = NoCommits

(***************************************************************************)
(* The driver.                                                             *)
(***************************************************************************)
\* run_gan_driver: refuse a plain start over snapshots, continue after the
\* newest one with --resume, restart at outer 1 otherwise; a resume brings
\* the code tree back to the snapshot's commit when HEAD is elsewhere.
DriverStart(m) ==
    /\ drv # "running" /\ starts < MaxStarts
    /\ LET newest == NewestOuterSnapshot
           start  == IF m = "resume" /\ newest # NoCheckpoint THEN newest.outer + 1 ELSE 1
       IN  /\ m = "fresh" => newest = NoCheckpoint
           /\ outer' = start
           /\ IF m = "resume" /\ start > OuterGenerations
              THEN drv' = "done" /\ UNCHANGED <<head, dirty>>
              ELSE /\ drv' = "running"
                   /\ IF m = "resume" /\ newest # NoCheckpoint /\ newest.commit # head
                      THEN ForcedCheckout(newest.commit)
                      ELSE UNCHANGED <<head, dirty>>
    /\ mode' = m /\ starts' = starts + 1
    /\ UNCHANGED <<store, ckpt, commits, refs, limits, crashes, pc, worker>>

\* The driver spawns the worker, which replays the tree, restores the
\* checkpoint its boundary flag names and gives an empty tree its root.
StartWorker ==
    /\ drv = "running" /\ pc = "down"
    /\ LET cp == LoadCheckpoint(IF mode = "resume" THEN "outer" ELSE "latest")
           loaded == IF GenIds(tree) = {} THEN 0
                     ELSE 1 + CHOOSE g \in GenIds(tree) :
                                \A h \in GenIds(tree) : h <= g
           restored == GenIds(tree) # {} /\ cp # NoCheckpoint
       IN  /\ tree' = IF restored THEN ApplyEvent(tree, ResetEvent(cp.tree))
                      ELSE IF GenIds(tree) = {}
                           THEN Put(tree, Initial, NewNode(<<>>))
                           ELSE tree
           /\ metaTree' = IF restored THEN cp.metaTree ELSE metaTree
           /\ counter' = IF restored THEN cp.counter
                         ELSE IF loaded = 0 THEN 1 ELSE loaded
           /\ roleCommits' = IF restored THEN cp.roleCommits ELSE NoCommits
    /\ pc' = "enter"
    /\ UNCHANGED <<scores, ckpt, repo, driver, inner, noImprove, cur, probed, seat>>

\* proc.wait() returned 0: next outer, or the run is complete.
WorkerExit ==
    /\ pc = "exit"
    /\ pc' = "down"
    /\ IF outer = OuterGenerations
       THEN drv' = "done" /\ UNCHANGED outer
       ELSE outer' = outer + 1 /\ UNCHANGED drv
    /\ cur' = None /\ seat' = 1 /\ counter' = 0 /\ roleCommits' = NoCommits
    /\ UNCHANGED <<store, ckpt, repo, mode, limits, starts, crashes, inner, noImprove,
                   probed>>

\* The worker dies, or raises RepoIntegrityError; the driver stops with it.
\* The same step stands for the death of the driver.
Crash ==
    /\ drv = "running" /\ crashes < MaxCrashes
    /\ drv' = "stopped" /\ pc' = "down" /\ crashes' = crashes + 1
    /\ inner' = 1 /\ counter' = 0 /\ noImprove' = 0 /\ cur' = None
    /\ probed' = FALSE /\ seat' = 1 /\ roleCommits' = NoCommits
    /\ IF PatchInTree THEN \E d \in SUBSET Leftovers \ {{}} : dirty' = dirty \cup d
       ELSE UNCHANGED dirty
    /\ UNCHANGED <<store, ckpt, commits, head, refs, mode, outer, limits, starts>>

(***************************************************************************)
(* The inner loop.                                                         *)
(***************************************************************************)
\* Fresh roles; the outer's entry HEAD is pinned once.
EnterOuter ==
    /\ pc = "enter"
    /\ EnsureBranch(OuterRef(outer), head)
    /\ pc' = "select" /\ inner' = 1 /\ noImprove' = 0
    /\ UNCHANGED <<store, ckpt, commits, head, dirty, driver, counter, cur,
                   probed, seat, roleCommits>>

\* Mutant of ResolveBase: the child starts from whatever HEAD is.
ResolveBase_Head(p) == head

\* _resolve_base: the pinned outer base for the root's children, the parent's
\* code commit otherwise (HEAD for a node that has none).
ResolveBase(p) ==
    IF p = Initial THEN refs[OuterRef(outer)]
    ELSE IF tree.nodes[p].commit = None THEN head ELSE tree.nodes[p].commit

SelectParent ==
    /\ pc = "select" /\ inner <= InnerMax
    /\ \E ps \in SelectParents(tree, 1, BranchLimit, DepthLimit, "ucb") :
         /\ ps # <<>>
         /\ CleanCheckout(ResolveBase(ps[1]))
         /\ cur' = [genid |-> counter, parents |-> ps, base |-> ResolveBase(ps[1]),
                    patch |-> None, node |-> NewNode(ps), todo |-> ps, tail |-> None]
    /\ counter' = counter + 1
    /\ pc' = "plan" /\ probed' = FALSE
    /\ UNCHANGED <<store, ckpt, commits, refs, driver, inner, noImprove, seat,
                   roleCommits>>

\* Mutant of LeaveInner: only the round count ends the inner loop.
LeaveInner_RoundsOnly ==
    /\ pc = "select" /\ inner > InnerMax
    /\ pc' = "self" /\ seat' = 1 /\ probed' = FALSE
    /\ UNCHANGED <<store, ckpt, repo, driver, inner, counter, noImprove, cur,
                   roleCommits>>

\* Out of inner rounds, or no candidate left.
LeaveInner ==
    /\ pc = "select"
    /\ \/ inner > InnerMax
       \/ Candidates(tree, BranchLimit, DepthLimit) = {}
    /\ pc' = "self" /\ seat' = 1 /\ probed' = FALSE
    /\ UNCHANGED <<store, ckpt, repo, driver, inner, counter, noImprove, cur,
                   roleCommits>>

\* A session dry-runs its patch (check_patch) in the code tree...
ProbePatch ==
    /\ pc \in {"plan", "self"} /\ ~probed
    /\ probed' = TRUE
    /\ pc' = IF pc = "plan" THEN "plan_probe" ELSE "self_probe"
    /\ UNCHANGED <<store, ckpt, repo, driver, inner, counter,
                   noImprove, cur, seat, roleCommits>>

\* ...and always rolls it back.
ProbeRollback ==
    /\ pc \in {"plan_probe", "self_probe"}
    /\ CleanCheckout(head)
    /\ pc' = IF pc = "plan_probe" THEN "plan" ELSE "self"
    /\ UNCHANGED <<store, ckpt, commits, refs, driver, worker>>

\* The tails a generation can end in, by what is still written for it.
Archive(n, tail) ==
    /\ cur' = [cur EXCEPT !.node = n, !.tail = tail]
    /\ pc' = "register"

PlanFails ==
    /\ pc = "plan" /\ "plan" \in Faults
    /\ Archive(InvalidNode(cur.parents), "invalid")
    /\ UNCHANGED <<store, ckpt, repo, driver, inner, counter, noImprove, probed,
                   seat, roleCommits>>

\* The plan carries a patch that will be accepted, rejected, or no patch.
PlanSucceeds(patch) ==
    /\ pc = "plan"
    /\ cur' = [cur EXCEPT !.patch = patch]
    /\ pc' = "apply"
    /\ UNCHANGED <<store, ckpt, repo, driver, inner, counter, noImprove, probed,
                   seat, roleCommits>>

\* apply_task_patch: align to the base, apply, then commit or roll back, and
\* pin the generation's branch.
ApplyTaskPatch ==
    /\ pc = "apply"
    /\ CleanCheckout(cur.base)
    /\ pc' = "commit"
    /\ UNCHANGED <<store, ckpt, commits, refs, driver, worker>>

CommitTaskPatch ==
    /\ pc = "commit"
    /\ IF cur.patch = "good" THEN Commit(cur.genid)
       ELSE CleanCheckout(cur.base) /\ UNCHANGED commits
    /\ cur' = [cur EXCEPT !.node.base = cur.base, !.node.commit = head']
    /\ pc' = "pin"
    /\ UNCHANGED <<store, ckpt, refs, driver, inner, counter, noImprove, probed,
                   seat, roleCommits>>

PinTaskRef ==
    /\ pc = "pin"
    /\ EnsureBranch(TaskRef(cur.genid), cur.node.commit)
    /\ pc' = "harness"
    /\ UNCHANGED <<store, ckpt, commits, head, dirty, driver, worker>>

TaskRunnerFails ==
    /\ pc \in {"apply", "harness"} /\ "task" \in Faults
    /\ Archive(InvalidNode(cur.parents), "invalid")
    /\ UNCHANGED <<store, ckpt, repo, driver, inner, counter, noImprove, probed,
                   seat, roleCommits>>

\* The benchmark reports a score, or none; _finalize_child settles validity.
HarnessReports(s) ==
    /\ pc = "harness"
    /\ cur' = [cur EXCEPT !.node =
                 FinalizeChild([@ EXCEPT !.score = s,
                                         !.scoreStatus = IF s = None THEN "failed" ELSE "ok"],
                               cur.parents[1])]
    /\ pc' = "collect"
    /\ UNCHANGED <<store, ckpt, repo, driver, inner, counter, noImprove, probed,
                   seat, roleCommits>>

TrajectoryCollected ==
    /\ pc = "collect" /\ pc' = "evaluate"
    /\ UNCHANGED <<store, ckpt, repo, driver, worker>>

TrajectoryFails ==
    /\ pc = "collect" /\ "trajectory" \in Faults
    /\ Archive([cur.node EXCEPT !.valid = FALSE], "no_trajectory")
    /\ UNCHANGED <<store, ckpt, repo, driver, inner, counter, noImprove, probed,
                   seat, roleCommits>>

EvaluatorFails ==
    /\ pc = "evaluate" /\ "evaluator" \in Faults
    /\ Archive([cur.node EXCEPT !.valid = FALSE], "invalid")
    /\ UNCHANGED <<store, ckpt, repo, driver, inner, counter, noImprove, probed,
                   seat, roleCommits>>

EvaluatorJudges ==
    /\ pc = "evaluate"
    /\ Archive(cur.node, "settle")
    /\ UNCHANGED <<store, ckpt, repo, driver, inner, counter, noImprove, probed,
                   seat, roleCommits>>

(***************************************************************************)
(* The tail of a round: add_node (one append per parent, one for the node),*)
(* the score row, the settled meta, the inner checkpoint.                  *)
(***************************************************************************)
RegisterParent ==
    /\ pc = "register" /\ cur.todo # <<>>
    /\ LET p == Head(cur.todo)
       IN  tree' = ApplyEvent(tree,
                     UpdateEvent(p, [children |-> tree.nodes[p].children + 1]))
    /\ cur' = [cur EXCEPT !.todo = Tail(@)]
    /\ UNCHANGED <<metaTree, scores, ckpt, repo, driver, pc, inner, counter,
                   noImprove, probed, seat, roleCommits>>

AddNode ==
    /\ pc = "register" /\ cur.todo = <<>>
    /\ LET n == [cur.node EXCEPT !.depth =
                   DepthBelow(tree, {cur.parents[i] : i \in DOMAIN cur.parents})]
       IN  tree' = ApplyEvent(tree, AddEvent(cur.genid, n))
    /\ pc' = IF cur.tail = "no_trajectory" THEN "inner_ckpt" ELSE "score"
    /\ UNCHANGED <<metaTree, scores, ckpt, repo, driver, worker>>

AppendScore ==
    /\ pc = "score"
    /\ scores' = scores \cup {[genid |-> cur.genid, score |-> cur.node.score,
                               scoreStatus |-> cur.node.scoreStatus,
                               valid |-> cur.node.valid]}
    /\ pc' = IF cur.tail = "settle" THEN "meta" ELSE "inner_ckpt"
    /\ UNCHANGED <<tree, metaTree, ckpt, repo, driver, worker>>

\* Mutant of SettleMeta: the update forgets the node's code commit.
SettleMeta_DropsCommit ==
    /\ pc = "meta"
    /\ tree' = ApplyEvent(tree, UpdateEvent(cur.genid, [settled |-> TRUE, commit |-> None]))
    /\ noImprove' = IF Improved(cur.node, cur.parents[1]) THEN 0 ELSE noImprove + 1
    /\ pc' = "inner_ckpt"
    /\ UNCHANGED <<metaTree, scores, ckpt, repo, driver, inner, counter, cur,
                   probed, seat, roleCommits>>

\* Receipt, digest and feedback land on the node; stagnation is counted.
SettleMeta ==
    /\ pc = "meta"
    /\ tree' = ApplyEvent(tree, UpdateEvent(cur.genid, [settled |-> TRUE]))
    /\ noImprove' = IF Improved(cur.node, cur.parents[1]) THEN 0 ELSE noImprove + 1
    /\ pc' = "inner_ckpt"
    /\ UNCHANGED <<metaTree, scores, ckpt, repo, driver, inner, counter, cur,
                   probed, seat, roleCommits>>

\* A settled round may end the inner loop by stagnation; a failed one not.
SaveInnerCheckpoint ==
    /\ pc = "inner_ckpt"
    /\ latest' = Payload("inner", inner)
    /\ IF cur.tail = "settle" /\ noImprove >= Patience
       THEN pc' = "self" /\ seat' = 1 /\ probed' = FALSE /\ UNCHANGED inner
       ELSE pc' = "select" /\ inner' = inner + 1 /\ UNCHANGED <<seat, probed>>
    /\ cur' = None
    /\ UNCHANGED <<store, snapshots, repo, driver, counter, noImprove, roleCommits>>

(***************************************************************************)
(* Outer self-improvement.  The two sessions run in parallel threads; what *)
(* they do to the code tree is serialised by _TREE_LOCK (module CodeRepo), *)
(* so here a dry run is one excursion and the patches are applied in order.*)
(***************************************************************************)

\* The step after a role's turn: the next role, or the phase that follows.
NextRole(here, after) ==
    IF seat = Len(Roles) THEN pc' = after /\ seat' = 1
    ELSE pc' = here /\ seat' = seat + 1

\* The session failed, proposed nothing, or its patch was refused.
NoSelfPatch ==
    /\ pc = "self" /\ "none" \in PatchOutcomes
    /\ NextRole("self", "record")
    /\ probed' = FALSE
    /\ UNCHANGED <<store, ckpt, repo, driver, inner, counter, noImprove, cur,
                   roleCommits>>

ApplySelfPatch ==
    /\ pc = "self" /\ PatchOutcomes # {"none"}
    /\ pc' = "self_commit"
    /\ UNCHANGED <<store, ckpt, repo, driver, worker>>

CommitSelfPatch(patch) ==
    /\ pc = "self_commit"
    /\ IF patch = "good"
       THEN /\ Commit(Roles[seat])
            /\ roleCommits' = [roleCommits EXCEPT ![Roles[seat]] = head']
       ELSE CleanCheckout(head) /\ UNCHANGED <<commits, roleCommits>>
    /\ NextRole("self", "record")
    /\ probed' = FALSE
    /\ UNCHANGED <<store, ckpt, refs, driver, inner, counter, noImprove, cur>>

\* eval_<O> and plan_<O> join the role trees.
RecordMeta ==
    /\ pc = "record"
    /\ metaTree' = metaTree \cup {<<Roles[seat], outer>>}
    /\ NextRole("record", "outer_ckpt")
    /\ UNCHANGED <<tree, scores, ckpt, repo, driver, inner, counter, noImprove,
                   cur, probed, roleCommits>>

SaveOuterCheckpoint ==
    /\ pc = "outer_ckpt"
    /\ latest' = Payload("outer", InnerMax)
    /\ pc' = "snapshot"
    /\ UNCHANGED <<store, snapshots, repo, driver, worker>>

WriteSnapshot ==
    /\ pc = "snapshot"
    /\ snapshots' =
         [n \in DOMAIN snapshots \cup {SnapshotName(outer)} |->
            IF n = SnapshotName(outer) THEN [latest EXCEPT !.ts = Now]
            ELSE snapshots[n]]
    /\ pc' = "exit"
    /\ UNCHANGED <<store, latest, repo, driver, worker>>

-----------------------------------------------------------------------------
WorkerStep ==
    \/ StartWorker \/ WorkerExit \/ EnterOuter
    \/ SelectParent \/ LeaveInner \/ ProbePatch \/ ProbeRollback
    \/ PlanFails \/ \E p \in PatchOutcomes : PlanSucceeds(p)
    \/ ApplyTaskPatch \/ CommitTaskPatch \/ PinTaskRef \/ TaskRunnerFails
    \/ \E s \in Scores \cup {None} : HarnessReports(s)
    \/ TrajectoryCollected \/ TrajectoryFails \/ EvaluatorFails \/ EvaluatorJudges
    \/ RegisterParent \/ AddNode \/ AppendScore \/ SettleMeta \/ SaveInnerCheckpoint
    \/ NoSelfPatch \/ ApplySelfPatch \/ \E p \in PatchOutcomes \ {"none"} : CommitSelfPatch(p)
    \/ RecordMeta \/ SaveOuterCheckpoint \/ WriteSnapshot

Next == WorkerStep \/ Crash \/ \E m \in Modes : DriverStart(m)

Spec == Init /\ [][Next]_vars

\* The processes are scheduled; nothing forces a crash or an operator.
FairSpec == Spec /\ WF_vars(WorkerStep)
-----------------------------------------------------------------------------
(***************************************************************************)
(* Properties.                                                             *)
(***************************************************************************)
Steps == {"down", "enter", "select", "plan", "plan_probe", "apply", "commit",
          "pin", "harness", "collect", "evaluate", "register", "score", "meta",
          "inner_ckpt", "self", "self_probe", "self_commit", "record",
          "outer_ckpt", "snapshot", "exit"}

CommitIds == 0..Len(commits)

\* Type invariant: ids, commits and program counters stay in their sets.
TypeOK ==
    /\ GenIds(tree) \subseteq Nat
    /\ counter \in Nat /\ outer \in Nat \ {0} /\ inner \in Nat
    /\ noImprove \in Nat /\ seat \in 1..2
    /\ starts \in 0..MaxStarts /\ crashes \in 0..MaxCrashes
    /\ drv \in {"stopped", "running", "done"} /\ mode \in Modes \cup {"fresh"}
    /\ pc \in Steps /\ probed \in BOOLEAN
    /\ head \in CommitIds /\ dirty \subseteq Leftovers
    /\ \A r \in DOMAIN refs : refs[r] \in CommitIds
    /\ \A c \in DOMAIN commits : commits[c].parent \in 0..(c - 1)

\* The worker never reuses an id of the tree it works on, however it was
\* started: the restored counter is ahead of the restored tree, and without a
\* checkpoint it is computed from the replay.
FreshIds ==
    /\ pc # "down" => \A g \in GenIds(tree) : g < counter
    /\ pc \in {"plan", "plan_probe", "apply", "commit", "pin", "harness",
               "collect", "evaluate", "register"} => cur.genid \notin GenIds(tree)

\* The git history is the blood line: whatever was crashed, resumed or forced,
\* a generation's code is its parent's code plus at most its own patch, and
\* the parent is a valid generation.
Lineage ==
    \A g \in GenIds(tree) \ {Initial} :
        LET n == tree.nodes[g]
            p == n.parents[1]
        IN  /\ p \in GenIds(tree) /\ tree.nodes[p].valid
            /\ n.commit # None =>
                 /\ n.base = IF p = Initial THEN refs[OuterRef(n.outer)]
                             ELSE tree.nodes[p].commit
                 /\ \/ n.commit = n.base
                    \/ commits[n.commit] = [parent |-> n.base, by |-> g]

\* No generation is planned, built, run or judged on what a dead process left
\* in the code tree, though neither the crash nor the resume cleans it.
RoundsOnCleanTree == cur # None => dirty = {}

\* An outer that follows the newest snapshot starts from exactly that
\* snapshot: its trees, its counter and its code commit, also after a forced
\* re-run left newer snapshots with smaller indices.
ContinuesNewest ==
    LET newest == NewestOuterSnapshot
    IN  pc = "enter" /\ newest # NoCheckpoint /\ outer = newest.outer + 1 =>
            /\ tree = newest.tree /\ metaTree = newest.metaTree
            /\ counter = newest.counter /\ roleCommits = newest.roleCommits
            /\ head = newest.commit

\* A settled generation is in the score ledger with the score of the tree.
SettledIsScored ==
    \A g \in GenIds(tree) :
        tree.nodes[g].settled =>
            \E row \in scores : /\ row.genid = g
                                /\ row.score = tree.nodes[g].score
                                /\ row.valid = tree.nodes[g].valid

\* A score that was never measured is bounded by scores that were: imputation,
\* chained along imputed parents, invents no value outside the measured range.
ImputedIsGrounded ==
    \A g \in GenIds(tree) :
        tree.nodes[g].scoreStatus = "imputed" =>
            \E l, h \in {m \in GenIds(tree) : Measured(tree.nodes[m])} :
                /\ tree.nodes[l].score <= tree.nodes[g].score
                /\ tree.nodes[g].score <= tree.nodes[h].score

\* No outer snapshot is ever overwritten or deleted.
SnapshotsImmutable ==
    [][\A n \in DOMAIN snapshots :
          n \in DOMAIN snapshots' /\ snapshots'[n] = snapshots[n]]_snapshots

\* Outside a restore the tree only grows, and a generation keeps its parents,
\* its code and its score.
GenerationsKept ==
    [][pc # "down" =>
         \A g \in GenIds(tree) :
            /\ g \in GenIds(tree')
            /\ \A f \in {"parents", "score", "valid", "base", "commit"} :
                 tree'.nodes[g][f] = tree.nodes[g][f]]_tree

\* A started driver comes to an end: every outer terminates, whatever fails.
RunEnds == (drv = "running") ~> (drv # "running")

\* However the worker was killed, resumed or forced, every generation has its
\* parent's code plus its own patch, and its row in the score ledger.
GenerationsSound == Lineage /\ SettledIsScored

\* A worker that starts again continues from the newest snapshot and never
\* works on what a dead one left in the code tree (loop.py:1473, 1449).
ResumesSound == ContinuesNewest /\ RoundsOnCleanTree

\* Failing plans, patches, harnesses, archives and evaluations leave the blood
\* line, the ledger and the imputed scores sound (loop.py:883, 901, 444).
FaultsContained == TypeOK /\ GenerationsSound /\ ImputedIsGrounded
=============================================================================
