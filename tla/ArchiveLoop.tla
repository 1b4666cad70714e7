------------------------------ MODULE ArchiveLoop ------------------------------
(***************************************************************************)
(* The single-loop baseline (src/scripts/dgmh/generate_loop.py with        *)
(* src/utils/gl_utils.py and docker_utils.py): an archive of generations,  *)
(* each produced by running its parent's meta agent inside a container and *)
(* evaluating what it wrote.                                               *)
(*                                                                         *)
(* Every container mounts the same working tree (gen_initial/<repo>) read  *)
(* and write: a generation patches and commits there, and a finally block  *)
(* resets it.  Generations, reports and metadata are files of the output   *)
(* directory; a run may be killed at any step and resumed from them.       *)
(*                                                                         *)
(* A generation is its number; 0 is the starting node ("initial" or 0 in   *)
(* the code).  The patch file of generation g is named g; file 0 is the    *)
(* meta patch given on the command line.  A tree is the sequence of the    *)
(* patches applied to the initial repository.                              *)
(***************************************************************************)
EXTENDS Polyglot, Sequences, SequencesExt

CONSTANTS
    Configs,       \* command lines: see ConfigType
    MaxGen,        \* bound on --max_generation
    MaxAttempts,   \* max_attempts of select_next_parent_container
    MaxRestarts,   \* bound: times a run is resumed
    GivenPatches,  \* patches the dual loop hands to the harness
    Small, Medium, \* the polyglot subsets small.json and medium.json
    Absent, Empty  \* a patch file that is not there, and an empty one

ASSUME BoundsAssumption == MaxGen \in Nat /\ MaxAttempts \in Nat /\ MaxRestarts \in Nat

Gens   == 0 .. MaxGen
Ghost  == MaxGen + 1          \* a number no generation has

ConfigType ==
    [client : {"loop", "gan", "cli"},           \* who runs the harness
     start  : {"initial", "reset", "patched"},  \* kind of starting node
     edit   : BOOLEAN,                          \* --edit_select_parent
     ens    : BOOLEAN,                          \* "ensemble" in optimize_option
     skip   : BOOLEAN,                          \* --skip_staged_eval
     doms   : SUBSET {"dom", "poly"},           \* --domains
     gens   : 0 .. MaxGen,                      \* --max_generation
     method : {"prop", "latest", "best"}]       \* --parent_selection

(* The command lines, the subsets and the patches handed in are what they  *)
(* are called.                                                             *)
ASSUME CallersAssumption ==
    /\ Configs \subseteq ConfigType
    /\ Small \subseteq Instances /\ Medium \subseteq Instances
    /\ GivenPatches \subseteq [Instances -> Patches]

(* A node's record as in metadata.json.                                    *)
Nodes == [parent : Gens \cup {Ghost, None}, prev : Seq(Gens), curr : Seq(Gens),
          ok : BOOLEAN, runEval : BOOLEAN, full : BOOLEAN \cup {None}, can : BOOLEAN,
          valid : BOOLEAN, intr : BOOLEAN]

(* What is absent is told from a number and from a record.                 *)
ASSUME AbsenceAssumption == None \notin Nat /\ None \notin Nodes

VARIABLES
    cfg,       \* the command line
    pc,        \* where the main thread is
    cur,       \* current_genid
    parent,    \* parent_genid
    arch,      \* archive, in memory
    disk,      \* the last record of archive.jsonl
    gen,       \* generate()'s metadata dictionary
    meta,      \* gen_<g>/metadata.json
    patch,     \* gen_<g>/agent_output/model_patch.diff
    rep,       \* gen_<g>/*/report.json
    tree,      \* the shared working tree: committed HEAD and uncommitted edits
    root,      \* root_commit
    tries,     \* attempts left to select a parent
    restarts,  \* times resumed
    att,       \* history: attempts at each generation
    seen,      \* history: the tree each generation was evaluated on
    blamed,    \* history: nodes whose valid_parent was withdrawn
    tainted    \* history: a run ended without resetting the shared tree

fileVars == <<meta, patch, rep>>
history  == <<att, seen, blamed, tainted>>
loopVars == <<cfg, pc, cur, parent, arch, disk, gen, fileVars, tree, root, tries, restarts, history>>
vars     == <<loopVars, polyVars>>

NoReport == [train |-> None, val |-> None, ens |-> None, poly |-> None]
Fresh    == [parent |-> None, prev |-> <<>>, curr |-> <<>>, ok |-> FALSE,
             runEval |-> FALSE, full |-> None, can |-> TRUE, valid |-> FALSE,
             intr |-> FALSE]

MetaOf(g) == IF g \in Gens THEN meta[g] ELSE None

(* get_patch_files(): nothing when the node has no metadata.               *)
Files(g) == IF MetaOf(g) = None THEN <<>> ELSE meta[g].prev \o meta[g].curr

(* What patch -p1 adds to the tree.                                        *)
Contents(files) == [k \in 1 .. Len(files) |-> patch[files[k]]]

(* filter_patch_by_files() turns an empty diff into a line feed, which     *)
(* patch refuses: such a file can be read and not applied.                 *)
Readable(files)  == \A k \in 1 .. Len(files) : patch[files[k]] # Absent
Appliable(files) == \A k \in 1 .. Len(files) : patch[files[k]] \notin {Absent, Empty}

(* get_score() and get_saved_score() on the validation split: the better   *)
(* of agent and ensemble, scaled down unless the full evaluation ran.      *)
FullyEvaluated(g) == /\ g # 0 \/ cfg.start = "patched"
                     /\ MetaOf(g) # None /\ meta[g].full = TRUE

Scores(g, d) == IF d = "poly" THEN {rep[g].poly} \ {None}
                ELSE {rep[g].val, rep[g].ens} \ {None}

SavedScore(g, d) ==
    LET best == CHOOSE s \in Scores(g, d) : \A t \in Scores(g, d) : t <= s
    IN  IF d = "poly" THEN (IF FullyEvaluated(g) THEN 6 ELSE 1) * best
        ELSE (IF FullyEvaluated(g) THEN 60 ELSE 6) * best

(* The candidates of select_parent(): valid parents (a starting node       *)
(* always is one) that have a score in every domain.                       *)
Candidates ==
    {g \in ToSet(arch) :
        /\ g = 0 \/ (MetaOf(g) # None /\ meta[g].valid)
        /\ cfg.doms # {}
        /\ \A d \in cfg.doms : Scores(g, d) # {}}

Mean(g) == (IF "dom" \in cfg.doms THEN SavedScore(g, "dom") ELSE 0)
           + (IF "poly" \in cfg.doms THEN SavedScore(g, "poly") ELSE 0)

(* select_parent(): the first node when there is no candidate; otherwise   *)
(* the latest, the best (the first of equals), or - random, score_prop and *)
(* score_child_prop - any of them.                                         *)
Selected ==
    IF Candidates = {} THEN {arch[1]}
    ELSE CASE cfg.method = "latest" -> {CHOOSE g \in Candidates :
                                           \A h \in Candidates : h <= g}
           [] cfg.method = "best"   -> {CHOOSE g \in Candidates :
                                           \A h \in Candidates :
                                              \/ Mean(h) < Mean(g)
                                              \/ Mean(h) = Mean(g) /\ g <= h}
           [] OTHER                 -> Candidates

-----------------------------------------------------------------------------
(* Starting and resuming.                                                  *)

(* setup_initial_gen(): the initial evaluations are copied, and the        *)
(* repository without what the run must not show its agents is copied and  *)
(* committed.                                                              *)
InitialReport == [NoReport EXCEPT !.train = 1, !.val = 1, !.poly = 5]
InitialTree   == [head |-> <<>>, work |-> <<>>]

(* A starting node with the task agent reset has metadata of its own.      *)
ResetNode == [Fresh EXCEPT !.prev = <<0>>, !.ok = TRUE, !.runEval = TRUE,
                           !.full = FALSE, !.valid = TRUE]

(* Then the starting node is made.  A node 0 with meta patches is archived *)
(* first and evaluated by generate() afterwards.                           *)
SetupInitialGen ==
    /\ pc = "setup"
    /\ cfg.client = "loop"
    /\ rep' = IF cfg.start = "patched" THEN rep ELSE [rep EXCEPT ![0] = InitialReport]
    /\ meta' = IF cfg.start # "reset" THEN meta
               ELSE [meta EXCEPT ![0] = ResetNode]
    /\ arch' = <<0>>
    /\ disk' = <<0>>
    /\ gen' = [Fresh EXCEPT !.runEval = TRUE, !.prev = IF cfg.start = "reset" THEN <<0>>
                                                       ELSE <<>>]
    /\ cur' = 0
    /\ pc' = IF cfg.start = "patched" THEN "build" ELSE "ens"
    /\ UNCHANGED <<cfg, parent, patch, tree, root, tries, restarts, history,
                   polyVars>>

(* --resume_from: the archive is read back and the shared tree's HEAD is   *)
(* taken for the root commit.                                              *)
Resume ==
    /\ pc \in {"down", "died"}
    /\ cfg.client = "loop"
    /\ restarts < MaxRestarts
    /\ disk # <<>>
    /\ restarts' = restarts + 1
    /\ arch' = disk
    /\ gen' = Fresh
    /\ parent' = None
    /\ cur' = 0
    /\ root' = tree.head
    /\ tries' = MaxAttempts
    /\ pc' = "select"
    /\ UNCHANGED <<cfg, disk, fileVars, tree, history, polyVars>>

-----------------------------------------------------------------------------
(* Containers.  All of them mount the one working tree.                    *)

(* build_container() removes a container of the same name and starts one,  *)
(* or returns None - and container.start() then ends the loop.             *)
build_container(next) == pc' = next \/ pc' = "died"

(* copy_from_container(): a source that is not there raises.               *)
copy_from_container(there, copied, raised) == IF there THEN copied ELSE raised

\* Mutant of Applied: the lineage is applied newest first.
Applied_Reversed(files) == [head |-> tree.head \o tree.work \o Reverse(Contents(files)),
                            work |-> <<>>]

(* apply_diffs_container(): the patches are applied one by one, and        *)
(* everything in the tree, leftovers included, is committed.               *)
Applied(files) == [head |-> tree.head \o tree.work \o Contents(files), work |-> <<>>]

(* A patch that cannot be read, copied or applied raises and leaves the    *)
(* earlier ones uncommitted.                                               *)
apply_diffs_container(files, done, raised) ==
    \/ /\ Appliable(files)
       /\ tree' = Applied(files)
       /\ done
    \/ /\ \E k \in 1 .. Len(files) :
             LET before == SubSeq(files, 1, k - 1)
             IN  /\ Appliable(before)
                 /\ tree' = [tree EXCEPT !.work = @ \o Contents(before)]
       /\ raised

(* The finally blocks: reset --hard root_commit and clean -fd, then        *)
(* cleanup_container(), whose failures are swallowed: a container that     *)
(* stays is removed by the next build of the same name.                    *)
Clean == [head |-> root, work |-> <<>>]

CleanUp == tree' = Clean

(* The container is gone when the finally block runs: its exec raises, the *)
(* tree stays as it is and the exception ends the loop.                    *)
CleanUpRaises ==
    /\ pc' = "died"
    /\ tainted' = (tainted \/ tree # Clean)
    /\ UNCHANGED tree

-----------------------------------------------------------------------------
(* generate().                                                             *)

StartContainer ==
    /\ pc = "build"
    /\ build_container("apply")
    /\ gen' = [Fresh EXCEPT !.parent = parent, !.ok = (cur = 0), !.runEval = (cur = 0)]
    /\ att' = [att EXCEPT ![cur] = @ + 1]
    /\ UNCHANGED <<cfg, cur, parent, arch, disk, fileVars, tree, root, tries,
                   restarts, seen, blamed, tainted, polyVars>>

(* An exception anywhere in the try block.                                 *)
Raise == /\ pc' = "finally"
         /\ gen' = [gen EXCEPT !.runEval = FALSE]

(* The starting node gets the meta patches, the others their parent's      *)
(* lineage, which is recorded before it is applied.                        *)
Lineage == IF cur = 0 THEN <<0>> ELSE Files(parent)

ApplyLineage ==
    /\ pc = "apply"
    /\ apply_diffs_container(Lineage,
          /\ gen' = [gen EXCEPT !.prev = Lineage]
          /\ pc' = IF cur = 0 THEN "eval" ELSE "meta",
          /\ gen' = [gen EXCEPT !.prev = IF cur = 0 THEN <<>> ELSE Lineage,
                       !.runEval = FALSE]
          /\ pc' = "finally")
    /\ UNCHANGED <<cfg, cur, parent, arch, disk, fileVars, root, tries,
                   restarts, history, polyVars>>

(* Copying the earlier evaluations into the container fails.               *)
CopyFails ==
    /\ pc = "meta"
    /\ Raise
    /\ UNCHANGED <<cfg, cur, parent, arch, disk, fileVars, tree, root, tries,
                   restarts, history, polyVars>>

(* run_meta_agent.py: the diff against the commit the lineage made.        *)
Diff(edits) == IF edits THEN <<cur, att[cur]>> ELSE Empty

(* The meta agent edits the tree and writes its diff as its last step, so  *)
(* one that fails or times out leaves edits and no diff.  One that was     *)
(* itself rewritten may succeed without a diff, or without the output      *)
(* folder.  The folder is copied over the one of an earlier attempt, whose *)
(* diff is then still there.                                               *)
RunMetaAgent ==
    /\ pc = "meta"
    /\ \E edits \in BOOLEAN :
          /\ tree' = [tree EXCEPT !.work = IF edits THEN <<<<cur, att[cur]>>>> ELSE <<>>]
          /\ \/ Raise /\ UNCHANGED patch
             \/ \E folder, wrote \in BOOLEAN :
                   /\ gen.prev # <<>> \/ (folder /\ wrote)
                   /\ patch' = IF ~ (folder /\ wrote) THEN patch
                               ELSE [patch EXCEPT ![cur] = Diff(edits)]
                   /\ copy_from_container(folder,
                         /\ gen' = [gen EXCEPT !.ok = TRUE, !.curr = <<cur>>,
                                      !.runEval = patch'[cur] \notin {Absent, Empty}]
                         /\ pc' = "check",
                         gen' = [gen EXCEPT !.ok = TRUE] /\ pc' = "finally")
    /\ UNCHANGED <<cfg, cur, parent, arch, disk, meta, rep, root, tries,
                   restarts, history, polyVars>>

(* run_commands_to_check_compilation().                                    *)
CheckCompilation ==
    /\ pc = "check"
    /\ \/ pc' = "eval" /\ UNCHANGED gen
       \/ Raise
    /\ UNCHANGED <<cfg, cur, parent, arch, disk, fileVars, tree, root, tries,
                   restarts, history, polyVars>>

(* eval_produced_agent(): on the training split, then on the validation    *)
(* split, the harness and the report run and the folder is copied out; the *)
(* first that fails raises, and an older report stays where it was.  The   *)
(* training score is only compared with zero.                              *)
EvalProducedAgent(next) ==
    IF "dom" \notin cfg.doms
    THEN UNCHANGED <<rep, seen>> /\ next
    ELSE /\ seen' = [seen EXCEPT ![cur] = tree.head \o tree.work]
         /\ \/ UNCHANGED rep /\ Raise
            \/ \E t \in {0, 1}, val \in BOOLEAN :
                  /\ rep' = [rep EXCEPT ![cur].train = t,
                                        ![cur].val = IF val THEN 1 ELSE @]
                  /\ IF val THEN next ELSE Raise

(* The staged evaluation is on a few samples; the full one only follows    *)
(* when every domain's staged score is above zero.                         *)
StagedEval ==
    /\ pc = "eval"
    /\ gen.runEval
    /\ ~ cfg.skip
    /\ EvalProducedAgent(pc' = "gate" /\ UNCHANGED gen)
    /\ UNCHANGED <<cfg, cur, parent, arch, disk, meta, patch, tree, root,
                   tries, restarts, att, blamed, tainted, polyVars>>

StagedGate ==
    /\ \/ pc = "gate"
       \/ pc = "eval" /\ (~ gen.runEval \/ cfg.skip)
    /\ pc' = IF /\ gen.runEval
                /\ cfg.skip \/ "dom" \notin cfg.doms \/ rep[cur].train \notin {None, 0}
             THEN "full" ELSE "finally"
    /\ UNCHANGED <<cfg, cur, parent, arch, disk, gen, fileVars, tree, root,
                   tries, restarts, history, polyVars>>

FullEval ==
    /\ pc = "full"
    /\ EvalProducedAgent(pc' = "finally" /\ gen' = [gen EXCEPT !.full = TRUE])
    /\ UNCHANGED <<cfg, cur, parent, arch, disk, meta, patch, tree, root,
                   tries, restarts, att, blamed, tainted, polyVars>>

(* Ctrl-C in the try block: the finally block still runs.                  *)
Interrupt ==
    /\ pc \in {"apply", "meta", "check", "eval", "gate", "full"}
    /\ restarts < MaxRestarts
    /\ gen' = [gen EXCEPT !.intr = TRUE]
    /\ pc' = "finally"
    /\ UNCHANGED <<cfg, cur, parent, arch, disk, fileVars, tree, root, tries,
                   restarts, history, polyVars>>

(* The validity of a node: meta_patch_files is a list, never None, when    *)
(* the command line is used, so the missing scores do not count.           *)
EvalSuccessful      == "dom" \in cfg.doms => rep[cur].train # None
MetaPatchFilesGiven == TRUE

FinishGenerate ==
    /\ pc = "finally"
    /\ \/ /\ CleanUp
          /\ meta' = [meta EXCEPT ![cur] =
                        [gen EXCEPT !.valid = /\ gen.runEval
                                              /\ EvalSuccessful \/ MetaPatchFilesGiven]]
          /\ pc' = IF gen.intr THEN "down" ELSE IF cur = 0 THEN "poly" ELSE "save"
          /\ UNCHANGED tainted
       \/ /\ CleanUpRaises
          /\ UNCHANGED meta
    /\ UNCHANGED <<cfg, cur, parent, arch, disk, gen, patch, rep, root, tries,
                   restarts, att, seen, blamed, polyVars>>

-----------------------------------------------------------------------------
(* The rest of a generation.                                               *)

(* update_and_save_archive().                                              *)

SaveArchive ==
    /\ pc = "save"
    /\ arch' = Append(arch, cur)
    /\ disk' = arch'
    /\ pc' = "blame"
    /\ UNCHANGED <<cfg, cur, parent, gen, fileVars, tree, root, tries,
                   restarts, history, polyVars>>

(* The meta agent that failed was the parent's: the parent is withdrawn    *)
(* (update_node_metadata() does nothing for a node without metadata).      *)
\* Mutant of BlameParent: the new node is withdrawn instead of its parent.
BlameParent_Child ==
    /\ pc = "blame"
    /\ IF ~ gen.ok /\ MetaOf(parent) # None
       THEN /\ meta' = [meta EXCEPT ![cur].valid = FALSE]
            /\ blamed' = blamed \cup {parent}
       ELSE UNCHANGED <<meta, blamed>>
    /\ pc' = "poly"
    /\ UNCHANGED <<cfg, cur, parent, arch, disk, gen, patch, rep, tree, root,
                   tries, restarts, att, seen, tainted, polyVars>>

BlameParent ==
    /\ pc = "blame"
    /\ IF ~ gen.ok /\ MetaOf(parent) # None
       THEN /\ meta' = [meta EXCEPT ![parent].valid = FALSE]
            /\ blamed' = blamed \cup {parent}
       ELSE UNCHANGED <<meta, blamed>>
    /\ pc' = "poly"
    /\ UNCHANGED <<cfg, cur, parent, arch, disk, gen, patch, rep, tree, root,
                   tries, restarts, att, seen, tainted, polyVars>>

(* run_harness_polyglot(): small subset, threshold, both subsets.  With    *)
(* --skip_staged_eval the list of small tasks is read before it is set.    *)
StartPolyglot ==
    /\ pc = "poly"
    /\ IF "poly" \notin cfg.doms
       THEN pc' = "ens" /\ UNCHANGED polyVars
       ELSE IF cfg.skip
       THEN pc' = "died" /\ UNCHANGED polyVars
       ELSE /\ pc' = "small"
            /\ Harness(Small, FALSE, [i \in Instances |-> None], Readable(Files(cur)))
    /\ UNCHANGED <<cfg, cur, parent, arch, disk, gen, fileVars, tree, root,
                   tries, restarts, history>>

(* The generation has its own result directory, left behind afterwards.    *)
LeaveDirectory == /\ res' = [i \in Instances |-> None]
                  /\ ent' = [i \in Instances |-> Idle]
                  /\ job' = [job EXCEPT !.st = "idle", !.report = None]
                  /\ UNCHANGED img

PolyglotDied ==
    /\ pc \in {"small", "both"}
    /\ job.st = "raised"
    /\ pc' = "died"
    /\ LeaveDirectory
    /\ UNCHANGED <<cfg, cur, parent, arch, disk, gen, fileVars, tree, root,
                   tries, restarts, history>>

(* run_full_eval is one flag of the node, whatever domain set it before.   *)
SetFull(flag) == IF MetaOf(cur) = None THEN meta
                 ELSE [meta EXCEPT ![cur].full = flag]

SmallDone ==
    /\ pc = "small"
    /\ job.st = "done"
    /\ LET s == PolyglotScore(Cardinality(Small))
       IN  /\ rep' = [rep EXCEPT ![cur].poly = s]
           /\ IF s # None /\ s >= 4
              THEN /\ pc' = "both"
                   /\ Harness(Small \cup Medium, FALSE,
                              [i \in Instances |-> None], TRUE)
                   /\ UNCHANGED meta
              ELSE /\ pc' = "ens"
                   /\ LeaveDirectory
                   /\ meta' = SetFull(FALSE)
    /\ UNCHANGED <<cfg, cur, parent, arch, disk, gen, patch, tree, root,
                   tries, restarts, history>>

BothDone ==
    /\ pc = "both"
    /\ job.st = "done"
    /\ rep' = [rep EXCEPT ![cur].poly = PolyglotScore(Cardinality(Small \cup Medium))]
    /\ meta' = SetFull(TRUE)
    /\ pc' = "ens"
    /\ LeaveDirectory
    /\ UNCHANGED <<cfg, cur, parent, arch, disk, gen, patch, tree, root,
                   tries, restarts, history>>

(* get_ensemble_scores_container(), for domains that can be ensembled: the *)
(* whole output directory is copied in, the archive included.              *)
Ensembled == gen.runEval /\ cfg.ens /\ cfg.doms = {"dom"}

(* parent_genid is cleared and the metadata is not read again.             *)
GenerationOver(over) == /\ parent' = IF over THEN None ELSE parent
                        /\ gen' = IF over THEN Fresh ELSE gen

StartEnsemble ==
    /\ pc = "ens"
    /\ IF Ensembled
       THEN \/ apply_diffs_container(gen.prev \o gen.curr, pc' = "ensrun", pc' = "ensfail")
            \/ pc' = "died" /\ UNCHANGED tree
       ELSE pc' = "select" /\ UNCHANGED tree
    /\ GenerationOver(pc' = "select")
    /\ tries' = MaxAttempts
    /\ UNCHANGED <<cfg, cur, arch, disk, fileVars, root, restarts, history,
                   polyVars>>

(* run_ensemble.py: a row that fails is left blank; the score is printed,  *)
(* or None - and float() then raises.                                      *)
EnsembleScored == IF pc = "ensrun" THEN BOOLEAN ELSE {FALSE}

FinishEnsemble ==
    /\ pc \in {"ensrun", "ensfail"}
    /\ \/ /\ CleanUp
          /\ \E score \in EnsembleScored :
                rep' = IF score THEN [rep EXCEPT ![cur].ens = 1] ELSE rep
          /\ pc' = "select"
          /\ UNCHANGED tainted
       \/ /\ CleanUpRaises
          /\ UNCHANGED rep
    /\ GenerationOver(TRUE)
    /\ UNCHANGED <<cfg, cur, arch, disk, meta, patch, root, tries, restarts, att,
                   seen, blamed, polyVars>>

-----------------------------------------------------------------------------
(* Choosing the parent of the next generation.                             *)

(* for current_genid in range(len(archive), max_generation + 1).           *)
NextGeneration(p) ==
    /\ parent' = p
    /\ IF Len(arch) > cfg.gens THEN pc' = "done" /\ UNCHANGED cur
       ELSE pc' = "build" /\ cur' = Len(arch)

SelectParent ==
    /\ pc = "select"
    /\ ~ cfg.edit
    /\ \E p \in Selected : NextGeneration(p)
    /\ UNCHANGED <<cfg, arch, disk, gen, fileVars, tree, root, tries,
                   restarts, history, polyVars>>

(* get_latest_can_select_parent(): the newest node whose own selection     *)
(* script has not failed; a starting node is always one.                   *)
LatestCanSelect ==
    LET able == {g \in ToSet(arch) : g = 0 \/ (MetaOf(g) # None /\ meta[g].can)}
    IN  CHOOSE g \in able : \A h \in able : h <= g

StartSelectNext ==
    /\ pc = "select"
    /\ cfg.edit
    /\ \/ apply_diffs_container(Files(LatestCanSelect), pc' = "nprun", pc' = "npfail")
       \/ pc' = "died" /\ UNCHANGED tree
    /\ UNCHANGED <<cfg, cur, parent, arch, disk, gen, fileVars, root, tries,
                   restarts, history, polyVars>>

(* What the script of that node may answer: the original one any           *)
(* candidate, an evolved one any number; the argument parser of            *)
(* run_select_next_parent does not know polyglot.                          *)
Answers ==
    IF "poly" \in cfg.doms THEN {}
    ELSE IF Contents(Files(LatestCanSelect)) = <<>> THEN Candidates
    ELSE ToSet(arch) \cup {Ghost}

\* Mutant of SelectFailed: max_attempts is handed on as it is.
SelectFailed_Forever ==
    /\ meta' = IF MetaOf(LatestCanSelect) = None THEN meta
               ELSE [meta EXCEPT ![LatestCanSelect].can = FALSE]
    /\ pc' = "select"
    /\ UNCHANGED tries

(* The except branch withdraws the node as a selector, and the call is     *)
(* repeated until the attempts are used up.                                *)
SelectFailed ==
    /\ meta' = IF MetaOf(LatestCanSelect) = None THEN meta
               ELSE [meta EXCEPT ![LatestCanSelect].can = FALSE]
    /\ pc' = IF tries = 0 THEN "died" ELSE "select"
    /\ tries' = IF tries = 0 THEN 0 ELSE tries - 1

SelectNextParent ==
    /\ pc \in {"nprun", "npfail"}
    /\ \/ /\ pc = "nprun"
          /\ CleanUp
          /\ \E p \in Answers : NextGeneration(p)
          /\ UNCHANGED <<meta, tries, tainted>>
       \/ /\ CleanUp
          /\ SelectFailed
          /\ UNCHANGED <<cur, parent, tainted>>
       \/ /\ CleanUpRaises
          /\ UNCHANGED <<cur, parent, meta, tries>>
    /\ UNCHANGED <<cfg, arch, disk, gen, patch, rep, root, restarts, att, seen,
                   blamed, polyVars>>

-----------------------------------------------------------------------------
(* The two other callers of the harness.                                   *)

(* run_polyglot_eval(): the patches of one evaluation, a fresh directory.  *)
StartGan ==
    /\ pc = "setup"
    /\ cfg.client = "gan"
    /\ \E ps \in GivenPatches : Harness(Instances, TRUE, ps, TRUE)
    /\ pc' = "job"
    /\ UNCHANGED <<cfg, cur, parent, arch, disk, gen, fileVars, tree, root,
                   tries, restarts, history>>

(* harness.py's main(), started again on the same directory.               *)
StartCli ==
    /\ pc = "setup" \/ (pc \in {"down", "died"} /\ restarts < MaxRestarts)
    /\ cfg.client = "cli"
    /\ Harness(Instances, FALSE, [i \in Instances |-> None], TRUE)
    /\ restarts' = IF pc = "setup" THEN restarts ELSE restarts + 1
    /\ pc' = "job"
    /\ UNCHANGED <<cfg, cur, parent, arch, disk, gen, fileVars, tree, root,
                   tries, history>>

JobDone ==
    /\ pc = "job"
    /\ job.st \in {"done", "raised"}
    /\ pc' = IF job.st = "done" THEN "done" ELSE "died"
    /\ UNCHANGED <<cfg, cur, parent, arch, disk, gen, fileVars, tree, root,
                   tries, restarts, history, polyVars>>

HarnessRuns ==
    /\ pc \in {"small", "both", "job"}
    /\ HarnessStep
    /\ UNCHANGED loopVars

(* The process is killed.  Memory is lost, containers and the shared tree  *)
(* stay as they are.                                                       *)
MemoryLost == arch' = <<>> /\ gen' = Fresh /\ parent' = None /\ cur' = 0

Kill ==
    /\ pc \notin {"setup", "done", "died", "down"}
    /\ restarts < MaxRestarts
    /\ cfg.client # "gan"
    /\ pc' = "down"
    /\ tainted' = (tainted \/ tree # Clean)
    /\ IF cfg.client = "loop" THEN LeaveDirectory
       ELSE HarnessKilled /\ UNCHANGED img
    /\ MemoryLost
    /\ UNCHANGED <<cfg, disk, fileVars, tree, root, tries, restarts, att,
                   seen, blamed>>

-----------------------------------------------------------------------------
Init ==
    /\ cfg \in Configs
    /\ pc = "setup"
    /\ cur = 0
    /\ parent = None
    /\ arch = <<>>
    /\ disk = <<>>
    /\ gen = Fresh
    /\ meta = [g \in Gens |-> None]
    /\ patch = [g \in Gens |-> IF g = 0 THEN <<0, 0>> ELSE Absent]
    /\ rep = [g \in Gens |-> NoReport]
    /\ tree = InitialTree
    /\ root = <<>>
    /\ tries = MaxAttempts
    /\ restarts = 0
    /\ att = [g \in Gens |-> 0]
    /\ seen = [g \in Gens |-> None]
    /\ blamed = {}
    /\ tainted = FALSE
    /\ PolyInit

MainStep ==
    \/ SetupInitialGen \/ StartContainer \/ ApplyLineage \/ CopyFails
    \/ RunMetaAgent \/ CheckCompilation \/ StagedEval \/ StagedGate \/ FullEval
    \/ FinishGenerate \/ SaveArchive \/ BlameParent \/ StartPolyglot
    \/ PolyglotDied \/ SmallDone \/ BothDone \/ StartEnsemble \/ FinishEnsemble
    \/ SelectParent \/ StartSelectNext \/ SelectNextParent
    \/ StartGan \/ JobDone \/ HarnessRuns

Next == MainStep \/ StartCli \/ Resume \/ Interrupt \/ Kill

Spec == Init /\ [][Next]_vars

(* The main thread and the pool's threads keep running; nothing is assumed *)
(* of kills, interrupts and restarts.                                      *)
FairSpec == Spec /\ WF_vars(MainStep)

-----------------------------------------------------------------------------
LoopLevel == {"save", "blame", "poly", "small", "both", "ens", "select", "build"}

(* The values of the variables.                                            *)
TypeOK ==
    /\ cfg \in ConfigType
    /\ pc \in LoopLevel \cup {"setup", "apply", "meta", "check", "eval", "gate",
                             "full", "finally", "ensrun", "ensfail", "nprun",
                             "npfail", "job", "done",
                             "died", "down"}
    /\ cur \in Gens
    /\ arch \in Seq(Gens) /\ disk \in Seq(Gens)
    /\ tries \in 0 .. MaxAttempts
    /\ restarts \in 0 .. MaxRestarts
    /\ blamed \subseteq Gens
    /\ tainted \in BOOLEAN
    /\ PolyTypeOK

(* Between two uses of a container the shared working tree is the initial  *)
(* repository again, through every exception and Ctrl-C: the finally       *)
(* blocks of generate, get_ensemble_scores_container and                   *)
(* select_next_parent_container.  (Not after a kill, or when the container *)
(* was gone, while the tree was patched: see the README.)                  *)
CleanBetween ==
    ~ tainted /\ pc \in LoopLevel =>
        tree = InitialTree /\ root = <<>>

(* The code a valid node was evaluated on is what its recorded patch files *)
(* rebuild, so a child starts from the code its parent was scored for: the *)
(* lineage generate() applies, the diff it records and the tree it         *)
(* evaluates agree at every depth.  (For a generation made in one attempt  *)
(* while no run had ended on a patched tree.)                                 *)
CodeIsLineage ==
    \A g \in Gens :
        (/\ ~ tainted /\ att[g] = 1 /\ seen[g] # None
         /\ MetaOf(g) # None /\ meta[g].valid)
        => seen[g] = Contents(Files(g))

(* archive.jsonl numbers the generations without a gap or a repetition     *)
(* over any number of kills and resumes, and a generation in it has its    *)
(* metadata.json: parent selection and lineages rest on both.              *)
ArchiveDurable ==
    \A k \in 1 .. Len(disk) :
        /\ disk[k] = k - 1
        /\ k > 1 => meta[k - 1] # None

(* The ensemble evaluation reads the archive from disk: the node it        *)
(* evaluates is already in it ("need to update and save archive before     *)
(* running ensembling eval").                                              *)
EnsembleSeesNode == pc = "ensrun" => cur \in ToSet(disk)

(* A node that was withdrawn because its meta agent failed is never a      *)
(* parent again, in this run or after a resume (select_parent; a starting  *)
(* node, which is exempt, may be).                                         *)
WithdrawnStaysOut ==
    [][pc = "select" /\ pc' \in {"build", "done"} /\ ~ cfg.edit =>
          parent' = 0 \/ parent' \notin blamed]_vars

(* An exercise runs in a container of an image built from the current env  *)
(* image, itself no older than the base image, whatever was cached, failed *)
(* to build or survived the removal of dependent images.                   *)
ImagesCurrent ==
    \A i \in Instances : ent[i].pc \in {"stage", "score"} =>
        ent[i].image = "fresh" /\ img.env = "fresh"

(* The aggregated report says of every submitted exercise what its result  *)
(* file says, in exactly one of its lists, results of an earlier killed    *)
(* call included.                                                          *)
ReportMatchesFiles ==
    job.st = "done" =>
        /\ job.report.completed = {i \in job.entries : res[i] \in Good}
        /\ job.report.incomplete = {i \in job.entries : res[i] \in Failed}
        /\ job.report.resolved \cup job.report.unresolved \cup job.report.empty
              = job.report.completed
        /\ Cardinality(job.report.resolved) + Cardinality(job.report.unresolved)
              + Cardinality(job.report.empty) = Cardinality(job.report.completed)

(* A result is written once: the second stage over both subsets, and a     *)
(* call started again on the directory, keep every result there is.        *)
ResultsKept ==
    [][\A i \in Instances :
          res[i] \in Results /\ job'.st # "idle" => res'[i] = res[i]]_vars

(* The loop comes to an end from every start and resume: the selection     *)
(* retries run out, the pool empties, the generations are bounded.         *)
LoopEnds == (pc \in {"select", "job"}) ~> (pc \in {"done", "died", "down"})

(* The archive of the baseline is right over kills and resumes: generations *)
(* start from a clean tree, carry their lineage's code, and are recorded    *)
(* without gaps before anything reads them (generate_loop.py, gl_utils.py). *)
ArchiveSound ==
    TypeOK /\ CleanBetween /\ CodeIsLineage /\ ArchiveDurable /\ EnsembleSeesNode

(* A polyglot score is about the current code: images are current and the   *)
(* report agrees with the result files (docker_build.py:245, harness.py).   *)
ScoresSound == ImagesCurrent /\ ReportMatchesFiles

(* What was decided stays decided: no withdrawn node is a parent again and  *)
(* no written result changes (gl_utils.py:134, polyglot/harness.py:46).     *)
NothingRevived == WithdrawnStaysOut /\ ResultsKept
=============================================================================
