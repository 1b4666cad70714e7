------------------------------- MODULE Polyglot -------------------------------
(***************************************************************************)
(* The Polyglot evaluation harness (src/domains/polyglot): one Docker      *)
(* container per exercise, built from a chain of cached images (base, env, *)
(* one image per exercise), a pool of MaxWorkers threads, a result file    *)
(* per exercise and one aggregated report.                                 *)
(*                                                                         *)
(* Three programs call harness(): the single-loop baseline (ArchiveLoop),  *)
(* the dual loop's run_polyglot_eval, which hands in the patches the task  *)
(* agent wrote ("eval_only"), and harness.py's own command line, which may *)
(* be started again on the directory of a run that was killed.             *)
(*                                                                         *)
(* Image creation times are abstracted to what the code compares: an image *)
(* is "stale" when it is older than the image it was built from.           *)
(***************************************************************************)
EXTENDS Naturals, FiniteSets

CONSTANTS
    Instances,     \* the exercises of the dataset
    MaxWorkers,    \* threads of the pool
    None           \* Python's None

ASSUME WorkersAssumption == MaxWorkers \in Nat \ {0} /\ IsFiniteSet(Instances)

VARIABLES
    img,    \* the Docker host's images
    res,    \* <out_dname>/<instance_id>.json
    ent,    \* the future and the container of each exercise
    job     \* the harness() call

polyVars == <<img, res, ent, job>>

ImageStates == {"absent", "stale", "fresh"}

(* What a result file says; the last two are written with success = False. *)
Good     == {"resolved", "unresolved", "empty_patch"}
Failed   == {"error", "incomplete"}
Results  == Good \cup Failed

(* No result is told from any result.                                      *)
ASSUME NoResultAssumption == None \notin Results \cup {"torn"}

(* What a patch does to the exercise: changes its solution files, applies  *)
(* without touching them, or does not apply at all.  None is no patch.     *)
Patches  == {"solution", "elsewhere", "rejected", None}

Idle     == [pc |-> "idle", patch |-> None, out |-> None, ctr |-> FALSE,
             image |-> None]

-----------------------------------------------------------------------------
(* The call.                                                               *)

(* harness(): the model patches are read and rewritten first, so a listed  *)
(* patch file that does not exist ends the call before anything is built.  *)
Harness(tasks, evalOnly, patches, readable) ==
    /\ job.st \in {"idle", "done", "raised"}
    /\ ent' = [i \in Instances |->
                 IF i \in tasks /\ readable THEN [Idle EXCEPT !.pc = "queued"]
                 ELSE [Idle EXCEPT !.ctr = ent[i].ctr]]
    /\ job' = [st |-> IF readable THEN "base" ELSE "raised", entries |-> tasks,
               evalOnly |-> evalOnly, patches |-> patches, report |-> None]
    /\ UNCHANGED <<img, res>>

-----------------------------------------------------------------------------
(* Images.                                                                 *)

(* build_image(): a new image makes what was built from the old one stale. *)
Aged(s) == IF s = "absent" THEN "absent" ELSE "stale"

(* build_base_images(): an existing base image is kept; a failing build    *)
(* leaves harness() with BuildImageError.                                  *)
BuildBase ==
    /\ job.st = "base"
    /\ \/ /\ img.base # "absent"
          /\ job' = [job EXCEPT !.st = "plan"]
          /\ UNCHANGED img
       \/ /\ img.base = "absent"
          /\ img' = [img EXCEPT !.base = "fresh", !.env = Aged(@)]
          /\ job' = [job EXCEPT !.st = "plan"]
       \/ /\ img.base = "absent"
          /\ job' = [job EXCEPT !.st = "raised"]
          /\ UNCHANGED img
    /\ UNCHANGED <<res, ent>>

(* find_dependent_images(): an image is found only when the layer history  *)
(* still names its parent, so any of the exercise images may be missed.    *)
Dependents == SUBSET {i \in Instances : img.inst[i] # "absent"}

(* get_env_configs_to_build(): the env image older than the base image is  *)
(* removed with the images found to depend on it, and listed for building. *)
PlanEnv ==
    /\ job.st = "plan"
    /\ \/ /\ img.env = "fresh"
          /\ job' = [job EXCEPT !.st = "pool"]
          /\ UNCHANGED img
       \/ /\ img.env = "absent"
          /\ job' = [job EXCEPT !.st = "env"]
          /\ UNCHANGED img
       \/ /\ img.env = "stale"
          /\ \E gone \in Dependents :
                img' = [img EXCEPT
                          !.env = "absent",
                          !.inst = [i \in Instances |->
                                      IF i \in gone THEN "absent" ELSE @[i]]]
          /\ job' = [job EXCEPT !.st = "env"]
    /\ UNCHANGED <<res, ent>>

(* build_env_images(): the list of failed builds is returned, and          *)
(* harness() drops it: the exercises run into the missing image one by one.*)
BuildEnv ==
    /\ job.st = "env"
    /\ job' = [job EXCEPT !.st = "pool"]
    /\ \/ img' = [img EXCEPT !.env = "fresh",
                             !.inst = [i \in Instances |-> Aged(@[i])]]
       \/ UNCHANGED img
    /\ UNCHANGED <<res, ent>>

-----------------------------------------------------------------------------
(* process_entry(), one thread per exercise.                               *)

Running == {i \in Instances : ent[i].pc \in {"image", "stage", "score", "clean"}}

(* The result of an earlier call is returned as it is; it is parsed        *)
(* outside the try block, so a torn file raises out of the future.         *)

TakeEntry(i) ==
    /\ job.st = "pool"
    /\ ent[i].pc = "queued"
    /\ Cardinality(Running) < MaxWorkers
    /\ ent' = [ent EXCEPT ![i].pc = IF res[i] = None THEN "image"
                                    ELSE IF res[i] = "torn" THEN "raised"
                                    ELSE "done",
                          ![i].out = IF res[i] \in Results THEN res[i] ELSE None]
    /\ UNCHANGED <<img, res, job>>

(* The except branch: the failure becomes the exercise's result file.      *)
Record(i, out) ==
    /\ res' = [res EXCEPT ![i] = out]
    /\ ent' = [ent EXCEPT ![i].pc = "clean", ![i].out = out]

(* build_instance_image(): refuses without the env image, rebuilds an      *)
(* exercise image that is absent or older than it.                         *)

InstanceImage(i) == IF img.inst[i] = "fresh" THEN img.inst ELSE
                    [img.inst EXCEPT ![i] = "fresh"]

(* build_container() and container.start().                                *)
BuildContainer(i) ==
    /\ job.st = "pool"
    /\ ent[i].pc = "image"
    /\ \/ /\ img.env # "absent"
          /\ img' = [img EXCEPT !.inst = InstanceImage(i)]
          /\ ent' = [ent EXCEPT ![i].pc = "stage", ![i].ctr = TRUE,
                                ![i].image = InstanceImage(i)[i]]
          /\ UNCHANGED res
       \/ /\ Record(i, "incomplete")
          /\ UNCHANGED img
    /\ UNCHANGED job

(* Staging.  With eval_only the given patch is applied; a patch git        *)
(* refuses is logged and the exercise goes on unpatched.  Otherwise the    *)
(* agent's code is copied in and patched (a failing patch raises) and the  *)
(* agent runs: whatever happens to it, its diff is what is there.          *)
ExternalPatch(i) == {job.patches[i]}
AgentPatch       == {"solution", "elsewhere", None}
Staged(i)        == IF job.evalOnly THEN ExternalPatch(i) ELSE AgentPatch

Stage(i) ==
    /\ job.st = "pool"
    /\ ent[i].pc = "stage"
    /\ \/ /\ \E p \in Staged(i) : ent' = [ent EXCEPT ![i].pc = "score", ![i].patch = p]
          /\ UNCHANGED res
       \/ Record(i, "incomplete")
    /\ UNCHANGED <<img, job>>

(* The solution files are stashed, the tests checked out, the stash popped *)
(* and eval.sh run.  With nothing stashed the pop fails, and every exec    *)
(* here raises on a non-zero exit code.                                    *)
Outcomes(p) ==
    CASE p = None       -> {"empty_patch"}
      [] p = "solution" -> {"resolved", "unresolved", "error"}
      [] OTHER          -> {"error"}

Score(i) ==
    /\ job.st = "pool"
    /\ ent[i].pc = "score"
    /\ \E out \in Outcomes(ent[i].patch) : Record(i, out)
    /\ UNCHANGED <<img, job>>

(* The finally block: cleanup_container() stops, kills and removes; with a *)
(* logger it swallows every failure, and the container stays.              *)
Cleanup(i) ==
    /\ job.st = "pool"
    /\ ent[i].pc = "clean"
    /\ \E stays \in IF ent[i].ctr THEN BOOLEAN ELSE {FALSE} :
          ent' = [ent EXCEPT ![i].pc = "done", ![i].ctr = stays]
    /\ UNCHANGED <<img, res, job>>

(* The aggregation of the futures' results, in five disjoint lists.        *)
Ids(outs) == {i \in job.entries : ent[i].out \in outs}

\* Mutant of RunReport: only the exercises that ended in an error are incomplete.
RunReport_ErrorsOnly == [submitted  |-> job.entries,
                         completed  |-> Ids(Good),
                         incomplete |-> Ids({"error"}),
                         resolved   |-> Ids({"resolved"}),
                         unresolved |-> Ids({"unresolved"}),
                         empty      |-> Ids({"empty_patch"})]

RunReport == [submitted  |-> job.entries,
              completed  |-> Ids(Good),
              incomplete |-> Ids(Failed),
              resolved   |-> Ids({"resolved"}),
              unresolved |-> Ids({"unresolved"}),
              empty      |-> Ids({"empty_patch"})]

(* The pool is left when every future has ended; the first one that raised *)
(* raises again, and no report is written.                                 *)
FinishHarness ==
    /\ job.st = "pool"
    /\ \A i \in job.entries : ent[i].pc \in {"done", "raised"}
    /\ job' = IF \E i \in job.entries : ent[i].pc = "raised"
              THEN [job EXCEPT !.st = "raised"]
              ELSE [job EXCEPT !.st = "done", !.report = RunReport]
    /\ UNCHANGED <<img, res, ent>>

HarnessStep ==
    \/ BuildBase \/ PlanEnv \/ BuildEnv \/ FinishHarness
    \/ \E i \in Instances : TakeEntry(i) \/ BuildContainer(i) \/ Stage(i)
                            \/ Score(i) \/ Cleanup(i)

(* The process is killed: threads and memory are gone, containers stay     *)
(* (their names carry the start time: nothing ever finds them again), and  *)
(* a result being written may be left torn.                                *)
HarnessKilled ==
    /\ \E torn \in SUBSET {i \in Instances :
                            ent[i].pc \in {"image", "stage", "score"}} :
          res' = [i \in Instances |-> IF i \in torn THEN "torn" ELSE res[i]]
    /\ ent' = [i \in Instances |-> [Idle EXCEPT !.ctr = ent[i].ctr]]
    /\ job' = [job EXCEPT !.st = "idle", !.report = None]

-----------------------------------------------------------------------------
(* What the callers read.                                                  *)

(* report.py: resolved over the number of tasks the caller expected, in    *)
(* tenths; get_score() is None when no task was evaluated without error.   *)
PolyglotScore(expected) ==
    IF job.report.completed = {} THEN None
    ELSE (10 * Cardinality(job.report.resolved)) \div expected

PolyInit ==
    /\ img \in [base : {"absent", "fresh"}, env : ImageStates,
                inst : [Instances -> ImageStates]]
    /\ img.base = "absent" => img.env # "fresh"
    /\ res = [i \in Instances |-> None]
    /\ ent = [i \in Instances |-> Idle]
    /\ job = [st |-> "idle", entries |-> {}, evalOnly |-> FALSE,
              patches |-> [i \in Instances |-> None], report |-> None]

PolyTypeOK ==
    /\ img \in [base : {"absent", "fresh"}, env : ImageStates,
                inst : [Instances -> ImageStates]]
    /\ res \in [Instances -> Results \cup {None, "torn"}]
    /\ \A i \in Instances :
          /\ ent[i].pc \in {"idle", "queued", "image", "stage", "score",
                            "clean", "done", "raised"}
          /\ ent[i].patch \in Patches
          /\ ent[i].out \in Results \cup {None}
          /\ ent[i].ctr \in BOOLEAN
          /\ ent[i].image \in ImageStates \cup {None}
    /\ job.st \in {"idle", "base", "plan", "env", "pool", "done", "raised"}
    /\ job.entries \subseteq Instances
=============================================================================
