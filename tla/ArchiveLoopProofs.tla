-------------------------- MODULE ArchiveLoopProofs --------------------------
(***************************************************************************)
(* Theorems about ArchiveLoop and the Polyglot harness below it, for every *)
(* value of their constants: what is in the archive, on which code it was  *)
(* scored, and what a score is about, over failures, kills and resumes.    *)
(***************************************************************************)
EXTENDS ArchiveLoop, FiniteSetTheorems, SequenceTheorems, WellFoundedInduction, TLAPS

-----------------------------------------------------------------------------
(*                        The inductive invariant                          *)

\* The steps of the loop, of generate() and of its try block.
GenSteps  == {"build", "apply", "meta", "check", "eval", "gate", "full", "finally"}
Making    == GenSteps \ {"build"}
Listed    == {"blame", "poly", "small", "both", "ens", "ensrun", "ensfail"}
LoopSteps == GenSteps \cup Listed \cup {"save", "select", "nprun", "npfail"}
InContainer ==
    {"meta", "check", "eval", "gate", "full", "finally", "ensrun", "ensfail", "nprun", "npfail"}

Reports == [train : {None, 0, 1}, val : {None, 1}, ens : {None, 1}, poly : Nat \cup {None}]

Types ==
    /\ TypeOK /\ parent \in Gens \cup {Ghost, None}
    /\ gen \in Nodes /\ meta \in [Gens -> Nodes \cup {None}]
    /\ patch = [g \in Gens |-> patch[g]] /\ seen = [g \in Gens |-> seen[g]]
    /\ att \in [Gens -> Nat] /\ rep \in [Gens -> Reports]

\* Nothing is there before the starting node.
Untouched ==
    /\ disk = <<>> /\ blamed = {} /\ ~tainted /\ parent = None /\ cur = 0
    /\ \A g \in Gens : att[g] = 0 /\ seen[g] = None /\ meta[g] = None

\* Where the loop stands in its archive.
Places ==
    /\ pc = "setup" => Untouched
    /\ pc \in LoopSteps => arch = disk /\ disk # <<>>
    /\ pc \in GenSteps => cur = Len(disk) \/ cur = 0
    /\ pc \in {"meta", "check"} => cur # 0
    /\ pc = "save" => cur = Len(disk) /\ meta[cur] # None
    /\ pc \in Listed => cur < Len(disk)
    /\ pc = "full" => gen.runEval
    /\ pc = "small" => job.entries = Small
    /\ pc = "both" => job.entries = Small \cup Medium
    /\ parent \in Gens => parent < Len(disk)

\* A lineage names archived generations, a node at most its own patch besides.
Descends(node, g) ==
    /\ \A i \in DOMAIN node.prev : node.prev[i] < Len(disk)
    /\ node.curr \in {<<>>, <<g>>}

\* Every recorded lineage names archived generations.
LineagesDescend == \A g \in Gens : meta[g] # None => Descends(meta[g], g)

Descended ==
    /\ LineagesDescend
    /\ pc \in Making => Descends(gen, cur)
    /\ pc \in {"apply", "meta"} => gen.curr = <<>>

\* The shared tree, unless a run ended on a patched one.
Trees ==
    ~tainted =>
        /\ root = <<>>
        /\ pc \notin InContainer => tree = InitialTree
        /\ pc = "meta" => tree.head = Contents(gen.prev)
        /\ pc \in {"check", "eval", "gate", "full"} /\ gen.runEval /\ att[cur] = 1 =>
               tree.head \o tree.work = Contents(gen.prev \o gen.curr)

\* A generation that was never tried has left nothing.
Untried ==
    \A g \in Gens : att[g] = 0 =>
        seen[g] = None /\ (g # 0 => patch[g] = Absent /\ meta[g] = None)

\* What a first attempt finds, and leaves until it is recorded.
FirstTry ==
    /\ pc = "build" /\ cur = 0 => att[0] = 0 /\ meta[0] = None
    /\ pc \in Making => att[cur] > 0
    /\ pc \in Making /\ att[cur] = 1 =>
           /\ meta[cur] = None
           /\ pc \in {"apply", "meta"} /\ cur # 0 => patch[cur] = Absent
           /\ pc \in {"apply", "meta", "check", "eval"} => seen[cur] = None
           /\ ~tainted /\ seen[cur] # None => seen[cur] = Contents(gen.prev \o gen.curr)

\* A parent that was withdrawn is in the archive and stays invalid.
Withdrawn == \A g \in blamed \ {0} : g < Len(disk) /\ meta[g] # None /\ ~meta[g].valid

Entries == [pc : {"idle", "queued", "image", "stage", "score", "clean", "done", "raised"},
            patch : Patches, out : Results \cup {None}, ctr : BOOLEAN,
            image : ImageStates \cup {None}]

\* A harness call: where its exercises are, and on which images.
Harnessed ==
    /\ job = [st |-> job.st, entries |-> job.entries, evalOnly |-> job.evalOnly,
              patches |-> job.patches, report |-> job.report]
    /\ job.patches \in [Instances -> Patches] /\ job.evalOnly \in BOOLEAN
    /\ ent \in [Instances -> Entries]
    /\ job.st = "env" => img.env = "absent"
    /\ job.st = "pool" => img.env # "stale"
    /\ \A i \in Instances :
          /\ ent[i].pc # "idle" => i \in job.entries
          /\ job.st # "pool" => ent[i].pc \in {"idle", "queued", "done", "raised"}
          /\ ent[i].pc \in {"image", "stage", "score"} => res[i] = None
          /\ ent[i].pc \in {"clean", "done"} => ent[i].out = res[i] /\ res[i] \in Results

\* What is recorded, and what the loop knows at each of its steps.
History  == ArchiveDurable /\ Untried /\ CodeIsLineage /\ Withdrawn
Position == Places /\ Descended /\ Trees /\ FirstTry

LoopInv == Types /\ History /\ Position

HarnessInv == PolyTypeOK /\ Harnessed /\ ImagesCurrent /\ ReportMatchesFiles

-----------------------------------------------------------------------------
(*                            Numbers and sequences                        *)

\* A nonempty set of naturals has a least element.
LEMMA LeastNatural ==
    ASSUME NEW T, T \subseteq Nat, T # {}
    PROVE  \E x \in T : \A y \in T : x <= y
<1> DEFINE R == OpToRel(<, Nat)
<1>1. \A x, y \in Nat : y < x => <<y, x>> \in R
  BY DEF OpToRel
<1>2. IsWellFoundedOn(R, Nat)
  BY NatLessThanWellFounded
<1> HIDE DEF R
<1>3. PICK x \in T : \A y \in T : <<y, x>> \notin R
  BY <1>2, WFMin
<1>4. \A y \in T : x \in Nat /\ y \in Nat /\ ~(y < x)
  BY <1>3, <1>1
<1>5. \A y \in T : x <= y
  BY <1>4
<1> QED BY <1>5

\* A nonempty bounded set of naturals has a greatest element.
LEMMA GreatestNatural ==
    ASSUME NEW T, T \subseteq Nat, T # {}, NEW b \in Nat, \A x \in T : x <= b
    PROVE  \E x \in T : \A y \in T : y <= x
<1> DEFINE U == {b - x : x \in T}
<1>1. U # {} /\ \A u \in U : u \in Nat
  <2>1. \A x \in T : x \in Nat /\ b - x \in Nat
    OBVIOUS
  <2>2. U # {}
    OBVIOUS
  <2> QED BY <2>1, <2>2
<1>2. PICK u \in U : \A v \in U : u <= v
  <2> HIDE DEF U
  <2>1. U \subseteq Nat
    BY <1>1
  <2> QED BY <1>1, <2>1, LeastNatural
<1>3. PICK x \in T : u = b - x
  BY <1>2
<1>4. ASSUME NEW y \in T PROVE y <= x
  <2>1. u <= b - y
    BY <1>2
  <2> QED BY <2>1, <1>3
<1> QED BY <1>4

-----------------------------------------------------------------------------
(*                               The harness                               *)

\* The types of a call, one by one.
LEMMA HarnessFlat ==
    ASSUME HarnessInv
    PROVE  /\ img = [base |-> img.base, env |-> img.env, inst |-> img.inst]
           /\ img.base \in {"absent", "fresh"} /\ img.env \in ImageStates
           /\ img.inst \in [Instances -> ImageStates]
           /\ res \in [Instances -> Results \cup {None, "torn"}]
           /\ job = [st |-> job.st, entries |-> job.entries, evalOnly |-> job.evalOnly,
                     patches |-> job.patches, report |-> job.report]
           /\ \A i \in Instances : ent[i] \in Entries /\ job.patches[i] \in Patches
  BY DEF HarnessInv, PolyTypeOK, Harnessed

\* The base image is built, or is there: an environment image it replaces is stale.
LEMMA BuildBaseInv ==
    ASSUME HarnessInv, BuildBase
    PROVE  HarnessInv'
<1>1. PolyTypeOK'
  <2>1. img' \in [base : {"absent", "fresh"}, env : ImageStates,
                 inst : [Instances -> ImageStates]]
    <3>1. \/ img' = img
          \/ img' = [img EXCEPT !.base = "fresh", !.env = Aged(@)]
      BY DEF BuildBase
    <3>2. Aged(img.env) \in ImageStates
      BY DEF Aged, ImageStates
    <3>3. \/ img' = img
          \/ img' = [base |-> "fresh", env |-> Aged(img.env), inst |-> img.inst]
      BY <3>1, HarnessFlat
    <3> QED BY <3>2, <3>3, HarnessFlat
  <2> QED BY <2>1, HarnessFlat DEF HarnessInv, PolyTypeOK, BuildBase
<1>2. Harnessed'
  BY DEF HarnessInv, PolyTypeOK, Harnessed, BuildBase
<1>3. ImagesCurrent'
  BY DEF HarnessInv, Harnessed, ImagesCurrent, BuildBase
<1>4. ReportMatchesFiles'
  BY HarnessFlat DEF BuildBase, ReportMatchesFiles
<1> QED BY <1>1, <1>2, <1>3, <1>4 DEF HarnessInv

\* A stale environment image is removed, and with it what depends on it.
LEMMA PlanEnvInv ==
    ASSUME HarnessInv, PlanEnv
    PROVE  HarnessInv'
<1>1. PolyTypeOK'
  <2>1. img' \in [base : {"absent", "fresh"}, env : ImageStates,
                 inst : [Instances -> ImageStates]]
    <3>1. CASE img' = img
      BY <3>1, HarnessFlat
    <3>2. ASSUME NEW gone \in Dependents,
                 img' = [img EXCEPT !.env = "absent",
                                    !.inst = [i \in Instances |->
                                        IF i \in gone THEN "absent" ELSE @[i]]]
          PROVE  img' \in [base : {"absent", "fresh"}, env : ImageStates,
                           inst : [Instances -> ImageStates]]
      <4> DEFINE left == [i \in Instances |-> IF i \in gone THEN "absent" ELSE img.inst[i]]
      <4>1. left \in [Instances -> ImageStates]
        BY HarnessFlat DEF ImageStates
      <4>2. img' = [base |-> img.base, env |-> "absent", inst |-> left]
        BY <3>2, HarnessFlat
      <4> HIDE DEF left
      <4> QED BY <4>1, <4>2, HarnessFlat DEF ImageStates
    <3> QED BY <3>1, <3>2 DEF PlanEnv
  <2> QED BY <2>1, HarnessFlat DEF HarnessInv, PolyTypeOK, PlanEnv
<1>2. Harnessed'
  BY DEF HarnessInv, PolyTypeOK, Harnessed, PlanEnv
<1>3. ImagesCurrent'
  BY DEF HarnessInv, Harnessed, ImagesCurrent, PlanEnv
<1>4. ReportMatchesFiles'
  BY HarnessFlat DEF PlanEnv, ReportMatchesFiles
<1> QED BY <1>1, <1>2, <1>3, <1>4 DEF HarnessInv

\* A new environment image makes the images of the exercises stale.
LEMMA BuildEnvInv ==
    ASSUME HarnessInv, BuildEnv
    PROVE  HarnessInv'
<1>1. PolyTypeOK'
  <2>1. img' \in [base : {"absent", "fresh"}, env : ImageStates,
                 inst : [Instances -> ImageStates]]
    <3>1. CASE img' = img
      BY <3>1, HarnessFlat
    <3>2. CASE img' = [img EXCEPT !.env = "fresh",
                                  !.inst = [i \in Instances |-> Aged(@[i])]]
      <4> DEFINE old == [i \in Instances |-> Aged(img.inst[i])]
      <4>1. old \in [Instances -> ImageStates]
        BY HarnessFlat DEF Aged, ImageStates
      <4>2. img' = [base |-> img.base, env |-> "fresh", inst |-> old]
        BY <3>2, HarnessFlat
      <4> HIDE DEF old
      <4> QED BY <4>1, <4>2, HarnessFlat DEF ImageStates
    <3> QED BY <3>1, <3>2 DEF BuildEnv
  <2> QED BY <2>1, HarnessFlat DEF HarnessInv, PolyTypeOK, BuildEnv
<1>2. Harnessed'
  <2>1. img'.env = "fresh" \/ (img' = img /\ img.env \in ImageStates)
    BY HarnessFlat DEF BuildEnv
  <2>2. job.st = "env" /\ job' = [job EXCEPT !.st = "pool"] /\ UNCHANGED <<res, ent>>
    BY DEF BuildEnv
  <2> QED BY <2>1, <2>2 DEF HarnessInv, Harnessed
<1>3. ImagesCurrent'
  BY DEF HarnessInv, Harnessed, ImagesCurrent, BuildEnv
<1>4. ReportMatchesFiles'
  BY HarnessFlat DEF BuildEnv, ReportMatchesFiles
<1> QED BY <1>1, <1>2, <1>3, <1>4 DEF HarnessInv

\* How a step of one exercise's thread may change it.
LEMMA EntryStep ==
    ASSUME HarnessInv, job.st = "pool", NEW i \in Instances, ent[i].pc # "idle",
           NEW e \in Entries, ent' = [ent EXCEPT ![i] = e], e.pc # "idle",
           NEW r \in Results \cup {None, "torn"}, res' = [res EXCEPT ![i] = r],
           e.pc \in {"image", "stage", "score"} => r = None,
           e.pc \in {"clean", "done"} => e.out = r /\ r \in Results,
           e.pc \in {"stage", "score"} => e.image = "fresh" /\ img'.env = "fresh",
           UNCHANGED job, img'.env = img.env, img'.base = img.base,
           img' = [base |-> img'.base, env |-> img'.env, inst |-> img'.inst],
           img'.inst \in [Instances -> ImageStates]
    PROVE  HarnessInv'
<1>1. ent' \in [Instances -> Entries]
  BY DEF HarnessInv, Harnessed
<1>2. res' \in [Instances -> Results \cup {None, "torn"}]
  BY HarnessFlat
<1>3. img' \in [base : {"absent", "fresh"}, env : ImageStates,
               inst : [Instances -> ImageStates]]
  BY HarnessFlat
<1>4. /\ ent'[i] = e /\ res'[i] = r
      /\ \A j \in Instances : j # i => ent'[j] = ent[j] /\ res'[j] = res[j]
  BY HarnessFlat DEF HarnessInv, Harnessed
<1>5. PolyTypeOK'
  <2>1. \A j \in Instances : ent'[j] \in Entries
    BY <1>1
  <2> QED BY <1>2, <1>3, <2>1 DEF HarnessInv, PolyTypeOK, Entries
<1>6. Harnessed'
  BY <1>1, <1>4 DEF HarnessInv, Harnessed
<1>7. ImagesCurrent'
  BY <1>4 DEF HarnessInv, ImagesCurrent
<1>8. ReportMatchesFiles'
  BY DEF ReportMatchesFiles
<1> QED BY <1>5, <1>6, <1>7, <1>8 DEF HarnessInv

\* A thread takes an exercise: a result that is there is its outcome.
LEMMA TakeEntryInv ==
    ASSUME HarnessInv, NEW i \in Instances, TakeEntry(i)
    PROVE  HarnessInv'
<1> DEFINE e == [ent[i] EXCEPT !.pc = IF res[i] = None THEN "image"
                                      ELSE IF res[i] = "torn" THEN "raised" ELSE "done",
                               !.out = IF res[i] \in Results THEN res[i] ELSE None]
<1>1. ent[i] \in Entries /\ res[i] \in Results \cup {None, "torn"}
  BY HarnessFlat
<1>2. /\ e \in Entries /\ e.pc \in {"image", "raised", "done"}
      /\ e.pc = "image" => res[i] = None
      /\ e.pc = "done" => e.out = res[i] /\ res[i] \in Results
  BY <1>1, NoResultAssumption DEF Entries
<1>3. /\ job.st = "pool" /\ ent[i].pc # "idle" /\ UNCHANGED <<img, res, job>>
      /\ ent' = [ent EXCEPT ![i] = e]
  BY HarnessFlat DEF TakeEntry, HarnessInv, Harnessed
<1>4. res' = [res EXCEPT ![i] = res[i]]
  BY <1>3, HarnessFlat
<1> HIDE DEF e
<1> QED BY <1>1, <1>2, <1>3, <1>4, EntryStep, HarnessFlat

\* A step that records a failure or a score.
LEMMA RecordInv ==
    ASSUME HarnessInv, NEW i \in Instances, job.st = "pool", ent[i].pc # "idle",
           NEW out \in Results, Record(i, out), UNCHANGED <<img, job>>
    PROVE  HarnessInv'
<1> DEFINE e == [ent[i] EXCEPT !.pc = "clean", !.out = out]
<1>1. ent[i] \in Entries
  BY HarnessFlat
<1>2. e \in Entries /\ e.pc = "clean" /\ e.out = out
  BY <1>1 DEF Entries
<1>3. ent' = [ent EXCEPT ![i] = e] /\ res' = [res EXCEPT ![i] = out]
  BY DEF Record
<1> HIDE DEF e
<1> QED BY <1>2, <1>3, EntryStep, HarnessFlat

\* An exercise runs on an image that is fresh when its container starts.
LEMMA BuildContainerInv ==
    ASSUME HarnessInv, NEW i \in Instances, BuildContainer(i)
    PROVE  HarnessInv'
<1>1. job.st = "pool" /\ ent[i].pc = "image" /\ UNCHANGED job
  BY DEF BuildContainer
<1>2. CASE Record(i, "incomplete") /\ UNCHANGED img
  BY <1>1, <1>2, RecordInv DEF Results, Failed
<1>3. CASE /\ img.env # "absent"
           /\ img' = [img EXCEPT !.inst = InstanceImage(i)]
           /\ ent' = [ent EXCEPT ![i].pc = "stage", ![i].ctr = TRUE,
                                 ![i].image = InstanceImage(i)[i]]
           /\ UNCHANGED res
  <2> DEFINE e == [ent[i] EXCEPT !.pc = "stage", !.ctr = TRUE, !.image = "fresh"]
  <2>1. InstanceImage(i) \in [Instances -> ImageStates] /\ InstanceImage(i)[i] = "fresh"
    BY HarnessFlat DEF InstanceImage, ImageStates
  <2>2. img.env = "fresh"
    BY <1>1, <1>3, HarnessFlat DEF HarnessInv, Harnessed, ImageStates
  <2>3. ent' = [ent EXCEPT ![i] = e]
    BY <1>3, <2>1
  <2>4. e \in Entries /\ e.pc = "stage" /\ e.image = "fresh"
    BY HarnessFlat DEF Entries, ImageStates
  <2>5. res' = [res EXCEPT ![i] = res[i]] /\ res[i] = None
    BY <1>1, <1>3, HarnessFlat DEF HarnessInv, Harnessed
  <2>6. img' = [base |-> img.base, env |-> img.env, inst |-> InstanceImage(i)]
    BY <1>3, HarnessFlat
  <2> HIDE DEF e
  <2> QED BY <1>1, <2>1, <2>2, <2>3, <2>4, <2>5, <2>6, EntryStep
<1> QED BY <1>2, <1>3 DEF BuildContainer

\* Staging ends in a patch, or in a recorded failure.
LEMMA StageInv ==
    ASSUME HarnessInv, NEW i \in Instances, Stage(i)
    PROVE  HarnessInv'
<1>1. job.st = "pool" /\ ent[i].pc = "stage" /\ UNCHANGED <<img, job>>
  BY DEF Stage
<1>2. CASE Record(i, "incomplete")
  BY <1>1, <1>2, RecordInv DEF Results, Failed
<1>3. ASSUME NEW p \in Staged(i), ent' = [ent EXCEPT ![i].pc = "score", ![i].patch = p],
             UNCHANGED res
      PROVE  HarnessInv'
  <2> DEFINE e == [ent[i] EXCEPT !.pc = "score", !.patch = p]
  <2>1. p \in Patches
    BY HarnessFlat DEF Staged, ExternalPatch, AgentPatch, Patches
  <2>2. e \in Entries /\ e.pc = "score" /\ e.image = ent[i].image
    BY <2>1, HarnessFlat DEF Entries
  <2>3. ent' = [ent EXCEPT ![i] = e]
    BY <1>3
  <2>4. res' = [res EXCEPT ![i] = res[i]] /\ res[i] = None
    BY <1>1, <1>3, HarnessFlat DEF HarnessInv, Harnessed
  <2>5. ent[i].image = "fresh" /\ img.env = "fresh"
    BY <1>1 DEF HarnessInv, ImagesCurrent
  <2> HIDE DEF e
  <2> QED BY <1>1, <2>2, <2>3, <2>4, <2>5, EntryStep, HarnessFlat
<1> QED BY <1>2, <1>3 DEF Stage

\* Scoring ends in a recorded result.
LEMMA ScoreInv ==
    ASSUME HarnessInv, NEW i \in Instances, Score(i)
    PROVE  HarnessInv'
<1>1. \A p : Outcomes(p) \subseteq Results
  BY DEF Outcomes, Results, Good, Failed
<1>2. PICK out \in Outcomes(ent[i].patch) : Record(i, out)
  BY DEF Score
<1>3. out \in Results /\ job.st = "pool" /\ ent[i].pc = "score" /\ UNCHANGED <<img, job>>
  BY <1>1 DEF Score
<1> QED BY <1>2, <1>3, RecordInv

\* The finally block changes no result.
LEMMA CleanupInv ==
    ASSUME HarnessInv, NEW i \in Instances, Cleanup(i)
    PROVE  HarnessInv'
<1>1. job.st = "pool" /\ ent[i].pc = "clean" /\ UNCHANGED <<img, res, job>>
  BY DEF Cleanup
<1>2. PICK stays \in BOOLEAN : ent' = [ent EXCEPT ![i].pc = "done", ![i].ctr = stays]
  BY DEF Cleanup
<1> DEFINE e == [ent[i] EXCEPT !.pc = "done", !.ctr = stays]
<1>3. e \in Entries /\ e.pc = "done" /\ e.out = ent[i].out
  BY HarnessFlat DEF Entries
<1>4. ent' = [ent EXCEPT ![i] = e]
  BY <1>2
<1>5. /\ res' = [res EXCEPT ![i] = res[i]]
      /\ ent[i].out = res[i] /\ res[i] \in Results
  BY <1>1, HarnessFlat DEF HarnessInv, Harnessed
<1>6. /\ img' = [base |-> img'.base, env |-> img'.env, inst |-> img'.inst]
      /\ img'.inst \in [Instances -> ImageStates] /\ UNCHANGED <<img, job>>
  BY <1>1, HarnessFlat
<1> HIDE DEF e
<1> QED BY <1>1, <1>3, <1>4, <1>5, <1>6, EntryStep

\* A report says what the result files say, when every exercise has ended.
LEMMA FinishHarnessInv ==
    ASSUME HarnessInv, FinishHarness
    PROVE  HarnessInv'
<1>1. /\ job.st = "pool" /\ UNCHANGED <<img, res, ent>>
      /\ \A i \in job.entries : ent[i].pc \in {"done", "raised"}
  BY DEF FinishHarness
<1>2. /\ \A i \in Instances : ent[i].pc \in {"idle", "done", "raised"}
      /\ job.entries \subseteq Instances
  BY <1>1 DEF HarnessInv, PolyTypeOK, Harnessed
<1>3. CASE \E i \in job.entries : ent[i].pc = "raised"
  <2>1. job' = [job EXCEPT !.st = "raised"]
    BY <1>3 DEF FinishHarness
  <2>2. job'.st = "raised" /\ job'.entries = job.entries /\ job'.patches = job.patches
        /\ job'.evalOnly = job.evalOnly
    BY <2>1, HarnessFlat
  <2>3. PolyTypeOK'
    BY <1>1, <2>2 DEF HarnessInv, PolyTypeOK
  <2>4. Harnessed'
    BY <1>1, <1>2, <2>1, <2>2, HarnessFlat DEF HarnessInv, Harnessed
  <2> QED BY <1>1, <2>2, <2>3, <2>4 DEF HarnessInv, ImagesCurrent, ReportMatchesFiles
<1>4. CASE ~ \E i \in job.entries : ent[i].pc = "raised"
  <2>1. job' = [job EXCEPT !.st = "done", !.report = RunReport]
    BY <1>4 DEF FinishHarness
  <2>2. /\ job'.st = "done" /\ job'.entries = job.entries /\ job'.patches = job.patches
        /\ job'.evalOnly = job.evalOnly /\ job'.report = RunReport
    BY <2>1, HarnessFlat
  <2>3. PolyTypeOK'
    BY <1>1, <2>2 DEF HarnessInv, PolyTypeOK
  <2>4. Harnessed'
    BY <1>1, <1>2, <2>1, <2>2, HarnessFlat DEF HarnessInv, Harnessed
  <2>5. ReportMatchesFiles'
    <3>1. \A i \in job.entries : ent[i].out = res[i]
      BY <1>1, <1>2, <1>4 DEF HarnessInv, Harnessed
    <3> DEFINE C == {i \in job.entries : res[i] \in Good}
               R == {i \in job.entries : res[i] = "resolved"}
               U == {i \in job.entries : res[i] = "unresolved"}
               E == {i \in job.entries : res[i] = "empty_patch"}
    <3>2. /\ RunReport.completed = C /\ RunReport.resolved = R
          /\ RunReport.unresolved = U /\ RunReport.empty = E
          /\ RunReport.incomplete = {i \in job.entries : res[i] \in Failed}
      BY <3>1 DEF RunReport, Ids
    <3>3. R \cup U \cup E = C /\ R \cap U = {} /\ (R \cup U) \cap E = {}
      BY DEF Good
    <3>4. IsFiniteSet(job.entries)
      BY <1>2, WorkersAssumption, FS_Subset
    <3>5. IsFiniteSet(R) /\ IsFiniteSet(U) /\ IsFiniteSet(E)
      BY <3>4, FS_Subset
    <3> HIDE DEF C, R, U, E
    <3>6. /\ IsFiniteSet(R \cup U)
          /\ Cardinality(R \cup U) = Cardinality(R) + Cardinality(U) - Cardinality(R \cap U)
      BY <3>5, FS_Union
    <3>7. Cardinality(R \cup U \cup E)
            = Cardinality(R \cup U) + Cardinality(E) - Cardinality((R \cup U) \cap E)
      BY <3>5, <3>6, FS_Union
    <3>8. Cardinality({}) = 0
      BY FS_EmptySet
    <3>9. Cardinality(R) \in Nat /\ Cardinality(U) \in Nat /\ Cardinality(E) \in Nat
      BY <3>5, FS_CardinalityType
    <3>10. Cardinality(R \cap U) = 0 /\ Cardinality((R \cup U) \cap E) = 0
      BY <3>3, <3>8, Zenon
    <3>11. Cardinality(R \cup U \cup E)
             = Cardinality(R) + Cardinality(U) + Cardinality(E)
      BY <3>6, <3>7, <3>9, <3>10
    <3>12. Cardinality(R) + Cardinality(U) + Cardinality(E) = Cardinality(C)
      BY <3>3, <3>11
    <3> QED BY <1>1, <2>2, <3>2, <3>3, <3>12 DEF ReportMatchesFiles, C
  <2> QED BY <1>1, <2>2, <2>3, <2>4, <2>5 DEF HarnessInv, ImagesCurrent
<1> QED BY <1>3, <1>4

\* Every step of the harness keeps its invariant.
LEMMA HarnessStepInv ==
    ASSUME HarnessInv, HarnessStep
    PROVE  HarnessInv'
  BY BuildBaseInv, PlanEnvInv, BuildEnvInv, FinishHarnessInv, TakeEntryInv,
     BuildContainerInv, StageInv, ScoreInv, CleanupInv DEF HarnessStep

\* A new call finds no exercise under way.
LEMMA CallInv ==
    ASSUME HarnessInv, NEW tasks \in SUBSET Instances, NEW evalOnly \in BOOLEAN,
           NEW patches \in [Instances -> Patches], NEW readable \in BOOLEAN,
           Harness(tasks, evalOnly, patches, readable)
    PROVE  HarnessInv' /\ job'.entries = tasks
<1>1. /\ ent' = [i \in Instances |->
                   IF i \in tasks /\ readable THEN [Idle EXCEPT !.pc = "queued"]
                   ELSE [Idle EXCEPT !.ctr = ent[i].ctr]]
      /\ job' = [st |-> IF readable THEN "base" ELSE "raised", entries |-> tasks,
                 evalOnly |-> evalOnly, patches |-> patches, report |-> None]
      /\ UNCHANGED <<img, res>>
  BY DEF Harness
<1>2. ent' \in [Instances -> Entries]
  <2> SUFFICES ASSUME NEW i \in Instances PROVE ent'[i] \in Entries
    BY <1>1
  <2>1. ent[i].ctr \in BOOLEAN
    BY HarnessFlat DEF Entries
  <2> QED BY <1>1, <2>1 DEF Idle, Entries, Patches
<1>3. \A i \in Instances : ent'[i].pc \in {"idle", "queued"} /\ (ent'[i].pc # "idle" => i \in tasks)
  BY <1>1 DEF Idle
<1>4. job'.st \in {"base", "raised"} /\ job'.entries = tasks
  BY <1>1
<1>5. PolyTypeOK'
  <2>1. \A i \in Instances : ent'[i] \in Entries
    BY <1>2
  <2> QED BY <1>1, <1>4, <2>1 DEF HarnessInv, PolyTypeOK, Entries
<1>6. Harnessed'
  BY <1>1, <1>2, <1>3, <1>4 DEF Harnessed
<1> QED BY <1>3, <1>4, <1>5, <1>6 DEF HarnessInv, ImagesCurrent, ReportMatchesFiles

\* After a generation, or a kill, no exercise is under way.
LEMMA LeftInv ==
    ASSUME HarnessInv, job' = [job EXCEPT !.st = "idle", !.report = None],
           res' \in [Instances -> Results \cup {None, "torn"}], UNCHANGED img,
           ent' \in [Instances -> Entries], \A i \in Instances : ent'[i].pc = "idle"
    PROVE  HarnessInv'
<1>1. /\ job'.st = "idle" /\ job'.entries = job.entries /\ job'.patches = job.patches
      /\ job'.evalOnly = job.evalOnly
      /\ job' = [st |-> job'.st, entries |-> job'.entries, evalOnly |-> job'.evalOnly,
                 patches |-> job'.patches, report |-> job'.report]
  BY HarnessFlat
<1>2. PolyTypeOK'
  <2>1. \A i \in Instances : ent'[i] \in Entries
    OBVIOUS
  <2> QED BY <1>1, <2>1 DEF HarnessInv, PolyTypeOK, Entries
<1>3. Harnessed'
  BY <1>1 DEF HarnessInv, Harnessed
<1> QED BY <1>1, <1>2, <1>3 DEF HarnessInv, ImagesCurrent, ReportMatchesFiles

\* The next generation starts with an empty result directory.
LEMMA LeaveInv ==
    ASSUME HarnessInv, LeaveDirectory
    PROVE  HarnessInv'
<1>1. Idle \in Entries /\ Idle.pc = "idle"
  BY DEF Idle, Entries, Patches
<1>2. /\ ent' \in [Instances -> Entries] /\ \A i \in Instances : ent'[i].pc = "idle"
      /\ res' \in [Instances -> Results \cup {None, "torn"}]
  BY <1>1 DEF LeaveDirectory
<1> QED BY <1>2, LeftInv DEF LeaveDirectory

\* A killed call leaves results, whole or torn, and containers.
LEMMA KilledInv ==
    ASSUME HarnessInv, HarnessKilled, UNCHANGED img
    PROVE  HarnessInv'
<1>1. ent' = [i \in Instances |-> [Idle EXCEPT !.ctr = ent[i].ctr]]
  BY DEF HarnessKilled
<1>2. \A i \in Instances : ent'[i] \in Entries /\ ent'[i].pc = "idle"
  <2> SUFFICES ASSUME NEW i \in Instances PROVE ent'[i] \in Entries /\ ent'[i].pc = "idle"
    OBVIOUS
  <2>1. ent[i].ctr \in BOOLEAN
    BY HarnessFlat DEF Entries
  <2> QED BY <1>1, <2>1 DEF Idle, Entries, Patches
<1>3. ent' \in [Instances -> Entries]
  BY <1>1, <1>2
<1>4. res' \in [Instances -> Results \cup {None, "torn"}]
  BY HarnessFlat DEF HarnessKilled
<1>5. job' = [job EXCEPT !.st = "idle", !.report = None]
  BY DEF HarnessKilled
<1> QED BY <1>2, <1>3, <1>4, <1>5, LeftInv

-----------------------------------------------------------------------------
(*                                The loop                                 *)

\* The types of the loop's variables, one by one.
LEMMA LoopFlat ==
    ASSUME LoopInv
    PROVE  /\ MaxGen \in Nat /\ Gens = 0 .. MaxGen /\ 0 \in Gens /\ Ghost \notin Gens
           /\ None \notin Gens /\ cur \in Gens /\ cfg \in ConfigType
           /\ arch \in Seq(Gens) /\ disk \in Seq(Gens) /\ Len(disk) \in Nat
           /\ gen \in Nodes /\ meta \in [Gens -> Nodes \cup {None}]
           /\ \A g \in Gens : meta[g] = None \/ meta[g] \in Nodes
           /\ att \in [Gens -> Nat] /\ rep \in [Gens -> Reports]
           /\ \A k \in DOMAIN disk : disk[k] = k - 1
           /\ \A g \in Gens : g \in ToSet(disk) <=> g < Len(disk)
<1>1. /\ MaxGen \in Nat /\ Gens = 0 .. MaxGen /\ 0 \in Gens /\ Ghost \notin Gens
      /\ None \notin Gens
  BY BoundsAssumption, AbsenceAssumption DEF Gens, Ghost
<1>2. /\ cur \in Gens /\ cfg \in ConfigType
      /\ arch \in Seq(Gens) /\ disk \in Seq(Gens) /\ Len(disk) \in Nat
      /\ gen \in Nodes /\ meta \in [Gens -> Nodes \cup {None}]
      /\ att \in [Gens -> Nat] /\ rep \in [Gens -> Reports]
  BY DEF LoopInv, Types, TypeOK
<1>3. \A g \in Gens : meta[g] = None \/ meta[g] \in Nodes
  BY <1>2
<1>4. \A k \in DOMAIN disk : disk[k] = k - 1
  BY <1>2 DEF LoopInv, History, ArchiveDurable
<1>5. \A g \in Gens : g \in ToSet(disk) <=> g < Len(disk)
  <2> SUFFICES ASSUME NEW g \in Gens PROVE g \in ToSet(disk) <=> g < Len(disk)
    OBVIOUS
  <2>1. DOMAIN disk = 1 .. Len(disk) /\ g \in Nat
    BY <1>1, <1>2
  <2>2. ASSUME g \in ToSet(disk) PROVE g < Len(disk)
    BY <1>4, <2>1, <2>2 DEF ToSet
  <2>3. ASSUME g < Len(disk) PROVE g \in ToSet(disk)
    <3>1. g + 1 \in DOMAIN disk /\ (g + 1) - 1 = g
      BY <1>2, <2>1, <2>3
    <3>2. disk[g + 1] = g
      BY <1>4, <3>1
    <3> QED BY <3>1, <3>2 DEF ToSet
  <2> QED BY <2>2, <2>3
<1> QED BY <1>1, <1>2, <1>3, <1>4, <1>5

\* The code behind a lineage depends on metadata and patches alone.
LEMMA SameCode ==
    ASSUME UNCHANGED patch
    PROVE  \A files : Contents(files)' = Contents(files)
  BY DEF Contents

\* What a step may do to the record of a node: withdraw or annotate it.
SameNodes ==
    \A g \in Gens :
        /\ meta'[g] = None <=> meta[g] = None
        /\ meta[g] # None => /\ meta'[g].prev = meta[g].prev /\ meta'[g].curr = meta[g].curr
                             /\ meta'[g].valid => meta[g].valid

\* A parent that a step blames is in the archive, and withdrawn by the step.
WithdrawnNow ==
    \A g \in blamed' \ blamed :
        g \in Gens /\ g < Len(disk) /\ meta'[g] # None /\ ~meta'[g].valid

\* A step that records no attempt, patch, evaluation or node keeps the history.
LEMMA HistoryKept ==
    ASSUME LoopInv, SameNodes, UNCHANGED <<cfg, patch, att, seen, disk>>, tainted => tainted',
           WithdrawnNow
    PROVE  History' /\ LineagesDescend'
<1>1. ArchiveDurable'
  <2> SUFFICES ASSUME NEW k \in 1 .. Len(disk), k > 1 PROVE meta'[k - 1] # None
    BY DEF LoopInv, History, ArchiveDurable
  <2>1. disk[k] \in Gens /\ disk[k] = k - 1
    BY LoopFlat
  <2> QED BY <2>1 DEF LoopInv, History, ArchiveDurable, SameNodes
<1>2. Untried'
  BY DEF LoopInv, History, Untried, SameNodes
<1>3. CodeIsLineage'
  <2> SUFFICES ASSUME NEW g \in Gens, ~tainted', att'[g] = 1, seen'[g] # None,
                      meta'[g] # None, meta'[g].valid
               PROVE  seen'[g] = Contents(Files(g))'
    BY DEF CodeIsLineage, MetaOf
  <2>1. /\ ~tainted /\ att[g] = 1 /\ seen[g] # None /\ meta[g] # None /\ meta[g].valid
        /\ meta'[g].prev = meta[g].prev /\ meta'[g].curr = meta[g].curr
    BY DEF SameNodes
  <2>2. seen[g] = Contents(Files(g))
    BY <2>1 DEF LoopInv, History, CodeIsLineage, MetaOf
  <2>3. Files(g)' = Files(g)
    BY <2>1 DEF Files, MetaOf
  <2> QED BY <2>2, <2>3 DEF Contents
<1>4. Withdrawn'
  <2>1. \A g \in blamed : g \in Gens
    BY DEF LoopInv, Types, TypeOK
  <2> QED BY <2>1 DEF LoopInv, History, Withdrawn, SameNodes, WithdrawnNow
<1>5. LineagesDescend'
  BY DEF LoopInv, Position, Descended, LineagesDescend, Descends, SameNodes
<1> QED BY <1>1, <1>2, <1>3, <1>4, <1>5 DEF History

\* What a map of the generations makes of a lineage, file by file.
Through(f, files) == [k \in 1 .. Len(files) |-> f[files[k]]]

\* The map of a joined lineage is the maps of its parts, joined.
LEMMA ThroughParts ==
    ASSUME NEW f, NEW p \in Seq(Gens), NEW q \in Seq(Gens)
    PROVE  /\ Through(f, p \o q) = Through(f, p) \o Through(f, q)
           /\ DOMAIN Through(f, p) = 1 .. Len(p) /\ Len(Through(f, p)) = Len(p)
           /\ <<>> \o Through(f, p) = Through(f, p) /\ Through(f, p) \o <<>> = Through(f, p)
<1>1. /\ p \o q \in Seq(Gens) /\ Len(p \o q) = Len(p) + Len(q) /\ Len(p) \in Nat /\ Len(q) \in Nat
      /\ \A k \in 1 .. Len(p) + Len(q) :
            (p \o q)[k] = IF k <= Len(p) THEN p[k] ELSE q[k - Len(p)]
  BY ConcatProperties, LenProperties
<1> DEFINE any == {f[g] : g \in Gens}
<1>2. \A r \in Seq(Gens) : Through(f, r) \in Seq(any) /\ Len(Through(f, r)) = Len(r)
  <2> SUFFICES ASSUME NEW r \in Seq(Gens)
               PROVE  Through(f, r) \in Seq(any) /\ Len(Through(f, r)) = Len(r)
    OBVIOUS
  <2>1. Len(r) \in Nat /\ \A k \in 1 .. Len(r) : r[k] \in Gens
    BY LenProperties, ElementOfSeq
  <2> DEFINE c == [k \in 1 .. Len(r) |-> f[r[k]]]
  <2>2. \A k \in 1 .. Len(r) : f[r[k]] \in any
    BY <2>1
  <2> HIDE DEF any
  <2>3. c \in Seq(any) /\ Len(c) = Len(r)
    BY <2>1, <2>2, IsASeq
  <2> QED BY <2>3 DEF Through
<1> HIDE DEF any
<1>3. /\ Through(f, p) \in Seq(any) /\ Through(f, q) \in Seq(any) /\ Through(f, p \o q) \in Seq(any)
      /\ Len(Through(f, p)) = Len(p) /\ Len(Through(f, q)) = Len(q)
      /\ Len(Through(f, p \o q)) = Len(p) + Len(q)
  BY <1>1, <1>2
<1>4. /\ Through(f, p) \o Through(f, q) \in Seq(any)
      /\ Len(Through(f, p) \o Through(f, q)) = Len(p) + Len(q)
      /\ \A k \in 1 .. Len(p) + Len(q) : (Through(f, p) \o Through(f, q))[k] =
            IF k <= Len(p) THEN Through(f, p)[k] ELSE Through(f, q)[k - Len(p)]
  BY <1>1, <1>3, ConcatProperties
<1>5. ASSUME NEW k \in 1 .. Len(p) + Len(q)
      PROVE  Through(f, p \o q)[k] = (Through(f, p) \o Through(f, q))[k]
  <2>1. Through(f, p \o q)[k] = f[(p \o q)[k]]
    BY <1>1 DEF Through
  <2>2. CASE k <= Len(p)
    <3>1. k \in 1 .. Len(p)
      BY <1>1, <2>2
    <3> QED BY <1>1, <1>4, <2>1, <2>2, <3>1 DEF Through
  <2>3. CASE ~(k <= Len(p))
    <3>1. k - Len(p) \in 1 .. Len(q)
      BY <1>1, <2>3
    <3> QED BY <1>1, <1>4, <2>1, <2>3, <3>1 DEF Through
  <2> QED BY <2>2, <2>3
<1>6. Through(f, p \o q) = Through(f, p) \o Through(f, q)
  BY <1>3, <1>4, <1>5, SeqEqual
<1>7. <<>> \o Through(f, p) = Through(f, p) /\ Through(f, p) \o <<>> = Through(f, p)
  BY <1>3, ConcatEmptySeq
<1> QED BY <1>3, <1>6, <1>7, LenProperties

\* Contents goes through a lineage file by file.
LEMMA ContentsParts ==
    ASSUME NEW p \in Seq(Gens), NEW q \in Seq(Gens)
    PROVE  /\ Contents(p \o q) = Contents(p) \o Contents(q)
           /\ DOMAIN Contents(p) = 1 .. Len(p) /\ Len(Contents(p)) = Len(p)
           /\ <<>> \o Contents(p) = Contents(p) /\ Contents(p) \o <<>> = Contents(p)
<1>1. \A r : Contents(r) = Through(patch, r)
  BY DEF Contents, Through
<1> QED BY <1>1, ThroughParts

\* No file is no code, and one file is its patch.
LEMMA ContentsShort ==
    /\ Contents(<<>>) = <<>>
    /\ \A g \in Gens : Contents(<<g>>) = <<patch[g]>>
  BY DEF Contents

\* A lineage is a sequence of archived generations.
LEMMA FilesArchived ==
    ASSUME LoopInv, NEW g, g \in Gens => g < Len(disk)
    PROVE  Files(g) \in Seq(Gens) /\ \A i \in DOMAIN Files(g) : Files(g)[i] < Len(disk)
<1>1. CASE MetaOf(g) = None
  BY <1>1 DEF Files
<1>2. CASE MetaOf(g) # None
  <2>1. g \in Gens /\ meta[g] # None /\ g < Len(disk)
    BY <1>2 DEF MetaOf
  <2> DEFINE p == meta[g].prev  q == meta[g].curr
  <2>2. p \in Seq(Gens) /\ q \in Seq(Gens)
    BY <2>1, LoopFlat DEF Nodes
  <2>3. (\A i \in DOMAIN p : p[i] < Len(disk)) /\ q \in {<<>>, <<g>>}
    BY <2>1 DEF LoopInv, Position, Descended, LineagesDescend, Descends
  <2>4. \A i \in DOMAIN q : q[i] < Len(disk)
    BY <2>1, <2>3
  <2>5. Files(g) = p \o q
    BY <1>2 DEF Files
  <2> HIDE DEF p, q
  <2>6. /\ Len(p) \in Nat /\ Len(q) \in Nat /\ DOMAIN p = 1 .. Len(p) /\ DOMAIN q = 1 .. Len(q)
        /\ p \o q \in Seq(Gens) /\ Len(p \o q) = Len(p) + Len(q)
        /\ DOMAIN (p \o q) = 1 .. Len(p) + Len(q)
        /\ \A k \in 1 .. Len(p) + Len(q) :
              (p \o q)[k] = IF k <= Len(p) THEN p[k] ELSE q[k - Len(p)]
    BY <2>2, ConcatProperties, LenProperties
  <2>7. ASSUME NEW k \in 1 .. Len(p) + Len(q) PROVE (p \o q)[k] < Len(disk)
    <3>1. k <= Len(p) => k \in DOMAIN p
      BY <2>6
    <3>2. ~(k <= Len(p)) => k - Len(p) \in DOMAIN q
      BY <2>6
    <3> QED BY <2>3, <2>4, <2>6, <3>1, <3>2
  <2> QED BY <2>5, <2>6, <2>7
<1> QED BY <1>1, <1>2

\* The loop's record of a node that is not there yet.
LEMMA FreshNode ==
    ASSUME BoundsAssumption
    PROVE  Fresh \in Nodes /\ None \notin Nodes
  BY AbsenceAssumption DEF Fresh, Nodes, Gens, Ghost

\* Starting a container begins an attempt with nothing recorded.
LEMMA StartContainerInv ==
    ASSUME LoopInv, PolyTypeOK', StartContainer
    PROVE  LoopInv'
<1>1. /\ pc = "build" /\ pc' \in {"apply", "died"}
      /\ gen' = [Fresh EXCEPT !.parent = parent, !.ok = (cur = 0), !.runEval = (cur = 0)]
      /\ att' = [att EXCEPT ![cur] = @ + 1]
      /\ UNCHANGED <<cfg, cur, parent, arch, disk, meta, patch, rep, tree, root, tries,
                     restarts, seen, blamed, tainted>>
  BY DEF StartContainer, build_container, fileVars
<1>2. gen' \in Nodes /\ gen'.prev = <<>> /\ gen'.curr = <<>>
  <2>1. parent \in Gens \cup {Ghost, None}
    BY DEF LoopInv, Types
  <2>2. gen' = [parent |-> parent, prev |-> <<>>, curr |-> <<>>, ok |-> (cur = 0),
                runEval |-> (cur = 0), full |-> None, can |-> TRUE, valid |-> FALSE,
                intr |-> FALSE]
    BY <1>1 DEF Fresh
  <2>3. (cur = 0) \in BOOLEAN /\ <<>> \in Seq(Gens)
    OBVIOUS
  <2> QED BY <2>1, <2>2, <2>3 DEF Nodes
<1>3. att' \in [Gens -> Nat] /\ att'[cur] = att[cur] + 1 /\ att[cur] \in Nat
      /\ \A g \in Gens : g # cur => att'[g] = att[g]
  BY <1>1, LoopFlat
<1>4. Types'
  BY <1>1, <1>2, <1>3 DEF LoopInv, Types, TypeOK, LoopLevel
<1>5. History'
  <2>1. ArchiveDurable' /\ Withdrawn'
    BY <1>1 DEF LoopInv, History, ArchiveDurable, Withdrawn
  <2>2. Untried'
    BY <1>1, <1>3 DEF LoopInv, History, Untried
  <2>3. CodeIsLineage'
    <3> SUFFICES ASSUME NEW g \in Gens, ~tainted', att'[g] = 1, seen'[g] # None,
                        MetaOf(g)' # None, meta'[g].valid
                 PROVE  seen'[g] = Contents(Files(g))'
      BY DEF CodeIsLineage
    <3>1. g # cur
      <4> SUFFICES ASSUME g = cur PROVE FALSE
        OBVIOUS
      <4>1. att[cur] = 0
        BY <1>3
      <4> QED BY <1>1, <4>1, LoopFlat DEF LoopInv, History, Untried
    <3>2. Contents(Files(g))' = Contents(Files(g)) /\ MetaOf(g)' = MetaOf(g)
      BY <1>1 DEF Contents, Files, MetaOf
    <3> QED BY <1>1, <1>3, <3>1, <3>2 DEF LoopInv, History, CodeIsLineage
  <2> QED BY <2>1, <2>2, <2>3 DEF History
<1>6. Places'
  BY <1>1 DEF LoopInv, Position, Places, GenSteps, LoopSteps, Listed
<1>7. Descended'
  BY <1>1, <1>2 DEF LoopInv, Position, Descended, LineagesDescend, Descends
<1>8. Trees'
  BY <1>1 DEF LoopInv, Position, Trees, InContainer
<1>9. FirstTry'
  <2>1. att'[cur] = 1 => meta[cur] = None /\ seen[cur] = None /\ (cur # 0 => patch[cur] = Absent)
    <3> SUFFICES ASSUME att'[cur] = 1
                 PROVE  meta[cur] = None /\ seen[cur] = None /\ (cur # 0 => patch[cur] = Absent)
      OBVIOUS
    <3>1. att[cur] = 0 /\ cur \in Gens
      BY <1>3, LoopFlat
    <3>2. meta[cur] = None
      BY <1>1, <3>1 DEF LoopInv, Position, FirstTry, History, Untried
    <3> QED BY <3>1, <3>2 DEF LoopInv, History, Untried
  <2>2. att'[cur] > 0
    BY <1>3
  <2> QED BY <1>1, <2>1, <2>2 DEF FirstTry, Making, GenSteps
<1> QED BY <1>4, <1>5, <1>6, <1>7, <1>8, <1>9 DEF LoopInv, Position

\* A step within generate() that leaves records, patches and attempts alone.
LEMMA GenerateKeeps ==
    ASSUME LoopInv, PolyTypeOK', pc \in Making, pc' \in Making, gen' \in Nodes,
           rep' \in [Gens -> Reports],
           UNCHANGED <<cfg, cur, parent, arch, disk, meta, patch, root, tries, restarts, att, seen,
                       blamed, tainted>>,
           pc' \in {"meta", "check"} => cur # 0, pc' = "full" => gen'.runEval
    PROVE  Types' /\ History' /\ Places' /\ LineagesDescend'
<1>1. Types'
  BY DEF LoopInv, Types, TypeOK, LoopLevel, Making, GenSteps
<1>2. History' /\ LineagesDescend'
  BY HistoryKept DEF SameNodes, WithdrawnNow
<1>3. Places'
  BY DEF LoopInv, Position, Places, Making, GenSteps, LoopSteps, Listed
<1> QED BY <1>1, <1>2, <1>3

\* The lineage that is applied is the code of archived generations.
LEMMA ApplyLineageInv ==
    ASSUME LoopInv, PolyTypeOK', ApplyLineage
    PROVE  LoopInv'
<1>1. /\ pc = "apply" /\ pc' \in {"eval", "meta", "finally"}
      /\ UNCHANGED <<cfg, cur, parent, arch, disk, meta, patch, rep, root, tries, restarts,
                     att, seen, blamed, tainted>>
  BY DEF ApplyLineage, apply_diffs_container, fileVars, history
<1>2. Lineage \in Seq(Gens) /\ \A i \in DOMAIN Lineage : Lineage[i] < Len(disk)
  <2>1. CASE cur = 0
    <3>1. 0 < Len(disk)
      BY <1>1, LoopFlat DEF LoopInv, Position, Places, LoopSteps, GenSteps
    <3> QED BY <2>1, <3>1, LoopFlat DEF Lineage
  <2>2. CASE cur # 0
    <3>1. parent \in Gens => parent < Len(disk)
      BY DEF LoopInv, Position, Places
    <3> QED BY <2>2, <3>1, FilesArchived DEF Lineage
  <2> QED BY <2>1, <2>2
<1>3. gen \in Nodes /\ gen.curr = <<>>
  BY <1>1 DEF LoopInv, Types, Position, Descended
<1>4. /\ gen' \in Nodes /\ gen'.curr = <<>> /\ gen'.prev \in {<<>>, Lineage}
      /\ pc' \in {"eval", "meta"} => gen'.prev = Lineage
  <2>1. \/ gen' = [gen EXCEPT !.prev = Lineage]
        \/ pc' = "finally" /\ gen' = [gen EXCEPT !.prev = IF cur = 0 THEN <<>> ELSE Lineage,
                                                 !.runEval = FALSE]
    BY DEF ApplyLineage, apply_diffs_container
  <2> QED BY <1>2, <1>3, <2>1 DEF Nodes
<1>5. Types' /\ History' /\ Places' /\ LineagesDescend'
  <2>1. pc' = "meta" => cur # 0
    BY DEF ApplyLineage, apply_diffs_container
  <2> QED BY <1>1, <1>4, <2>1, GenerateKeeps, LoopFlat DEF Making, GenSteps
<1>6. Descended'
  BY <1>1, <1>2, <1>4, <1>5 DEF Descended, Descends
<1>7. Trees'
  <2> SUFFICES ASSUME ~tainted, pc' \in {"eval", "meta"}
               PROVE  /\ tree'.head = Contents(gen.prev)'
                      /\ tree'.head \o tree'.work = Contents(gen.prev \o gen.curr)'
    BY <1>1 DEF LoopInv, Position, Trees, InContainer
  <2>1. tree = InitialTree /\ tree' = Applied(Lineage)
    BY <1>1 DEF LoopInv, Position, Trees, InContainer, ApplyLineage, apply_diffs_container
  <2>2. tree' = [head |-> Contents(Lineage), work |-> <<>>]
    BY <1>2, <2>1, ContentsParts DEF InitialTree, Applied
  <2>3. Contents(Lineage) \o <<>> = Contents(Lineage) /\ Lineage \o <<>> = Lineage
    BY <1>2, ContentsParts, ConcatEmptySeq
  <2>4. gen'.prev = Lineage /\ gen'.curr = <<>>
    BY <1>4
  <2> QED BY <1>1, <2>2, <2>3, <2>4 DEF Contents
<1>8. FirstTry'
  <2>1. /\ att[cur] > 0
        /\ att[cur] = 1 => /\ meta[cur] = None /\ seen[cur] = None
                           /\ cur # 0 => patch[cur] = Absent
    BY <1>1 DEF LoopInv, Position, FirstTry, Making, GenSteps
  <2> QED BY <1>1, <2>1 DEF FirstTry, ApplyLineage, apply_diffs_container
<1> QED BY <1>5, <1>6, <1>7, <1>8 DEF LoopInv, Position

\* A step within generate() that touches neither the tree nor any file.
LEMMA QuietInv ==
    ASSUME LoopInv, PolyTypeOK', pc \in Making,
           \/ pc' = "finally"
           \/ pc = "check" /\ pc' = "eval" /\ gen' = gen
           \/ pc \in {"eval", "gate"} /\ pc' = "full" /\ gen' = gen /\ gen.runEval,
           gen' \in Nodes, gen'.prev = gen.prev, gen'.curr = gen.curr,
           UNCHANGED <<cfg, cur, parent, arch, disk, fileVars, tree, root, tries, restarts, history>>
    PROVE  LoopInv'
<1>1. Types' /\ History' /\ Places' /\ LineagesDescend'
  <2>1. rep \in [Gens -> Reports]
    BY LoopFlat
  <2> QED BY <2>1, GenerateKeeps DEF Making, GenSteps, fileVars, history
<1>2. Descended'
  BY <1>1 DEF LoopInv, Position, Descended, Descends
<1>3. Trees'
  <2>1. Contents(gen.prev)' = Contents(gen.prev)
        /\ Contents(gen.prev \o gen.curr)' = Contents(gen.prev \o gen.curr)
    BY DEF Contents, fileVars
  <2> QED BY <2>1 DEF LoopInv, Position, Trees, InContainer, Making, GenSteps, history
<1>4. FirstTry'
  <2>1. Contents(gen.prev \o gen.curr)' = Contents(gen.prev \o gen.curr)
    BY DEF Contents, fileVars
  <2> QED BY <2>1 DEF LoopInv, Position, FirstTry, Making, GenSteps, fileVars, history
<1> QED BY <1>1, <1>2, <1>3, <1>4 DEF LoopInv, Position

\* The try block fails or is interrupted, the patch compiles, or the gate opens.
LEMMA TryBlockInv ==
    ASSUME LoopInv, PolyTypeOK', CopyFails \/ CheckCompilation \/ StagedGate \/ Interrupt
    PROVE  LoopInv'
<1>1. gen \in Nodes
  BY LoopFlat
<1>2. \/ gen' = gen
      \/ gen' = [gen EXCEPT !.runEval = FALSE]
      \/ gen' = [gen EXCEPT !.intr = TRUE]
  BY DEF CopyFails, CheckCompilation, StagedGate, Interrupt, Raise
<1>3. gen' \in Nodes /\ gen'.prev = gen.prev /\ gen'.curr = gen.curr
  BY <1>1, <1>2 DEF Nodes
<1>4. UNCHANGED <<cfg, cur, parent, arch, disk, fileVars, tree, root, tries, restarts, history>>
  BY DEF CopyFails, CheckCompilation, StagedGate, Interrupt
<1>5. /\ pc \in Making
      /\ \/ pc' = "finally"
         \/ pc = "check" /\ pc' = "eval" /\ gen' = gen
         \/ pc \in {"eval", "gate"} /\ pc' = "full" /\ gen' = gen /\ gen.runEval
  BY DEF CopyFails, CheckCompilation, StagedGate, Interrupt, Raise, Making, GenSteps
<1> QED BY <1>3, <1>4, <1>5, QuietInv

\* A staged or a full evaluation is on the code of the lineage.
LEMMA EvaluationInv ==
    ASSUME LoopInv, PolyTypeOK', StagedEval \/ FullEval
    PROVE  LoopInv'
<1>1. /\ pc \in {"eval", "full"} /\ gen.runEval
      /\ UNCHANGED <<cfg, cur, parent, arch, disk, meta, patch, tree, root, tries, restarts,
                     att, blamed, tainted>>
  BY DEF StagedEval, FullEval, LoopInv, Position, Places
<1>2. pc' \in {"gate", "finally"} /\ (pc' = "gate" => gen' = gen)
  BY DEF StagedEval, FullEval, EvalProducedAgent, Raise
<1>3. \/ gen' = gen
      \/ gen' = [gen EXCEPT !.runEval = FALSE]
      \/ gen' = [gen EXCEPT !.full = TRUE]
  BY DEF StagedEval, FullEval, EvalProducedAgent, Raise
<1>4. gen' \in Nodes /\ gen'.prev = gen.prev /\ gen'.curr = gen.curr
  BY <1>3, LoopFlat DEF Nodes
<1>5. rep' \in [Gens -> Reports]
  <2>1. \/ rep' = rep
        \/ \E t \in {0, 1}, val \in BOOLEAN :
              rep' = [rep EXCEPT ![cur].train = t, ![cur].val = IF val THEN 1 ELSE @]
    BY DEF StagedEval, FullEval, EvalProducedAgent
  <2>2. ASSUME NEW t \in {0, 1}, NEW val \in BOOLEAN,
               rep' = [rep EXCEPT ![cur].train = t, ![cur].val = IF val THEN 1 ELSE @]
        PROVE  rep' \in [Gens -> Reports]
    <3> DEFINE v == IF val THEN 1 ELSE rep[cur].val
    <3>1. rep[cur] \in Reports /\ rep \in [Gens -> Reports]
      BY LoopFlat
    <3>2. rep' = [rep EXCEPT ![cur] = [train |-> t, val |-> v, ens |-> rep[cur].ens,
                                       poly |-> rep[cur].poly]]
      <4>1. rep[cur] = [train |-> rep[cur].train, val |-> rep[cur].val, ens |-> rep[cur].ens,
                        poly |-> rep[cur].poly]
        BY <3>1 DEF Reports
      <4> DEFINE r1 == [rep EXCEPT ![cur].train = t]
      <4>2. r1 = [rep EXCEPT ![cur] = [train |-> t, val |-> rep[cur].val, ens |-> rep[cur].ens,
                                       poly |-> rep[cur].poly]]
        <5>1. [rep[cur] EXCEPT !.train = t] =
                 [train |-> t, val |-> rep[cur].val, ens |-> rep[cur].ens, poly |-> rep[cur].poly]
          BY <4>1
        <5>2. r1 = [rep EXCEPT ![cur] = [rep[cur] EXCEPT !.train = t]]
          BY <3>1, LoopFlat
        <5> HIDE DEF r1
        <5> QED BY <5>1, <5>2
      <4>3. r1[cur] = [train |-> t, val |-> rep[cur].val, ens |-> rep[cur].ens,
                       poly |-> rep[cur].poly]
        BY <3>1, <4>2, LoopFlat
      <4>4. rep' = [r1 EXCEPT ![cur].val = IF val THEN 1 ELSE @]
        BY <2>2
      <4> HIDE DEF r1
      <4>5. rep' = [r1 EXCEPT ![cur] = [train |-> t, val |-> v, ens |-> rep[cur].ens,
                                        poly |-> rep[cur].poly]]
        <5>1. [r1[cur] EXCEPT !.val = v] = [train |-> t, val |-> v, ens |-> rep[cur].ens,
                                            poly |-> rep[cur].poly]
          BY <4>3
        <5>2. cur \in DOMAIN r1 /\ (IF val THEN 1 ELSE r1[cur].val) = v
          BY <3>1, <4>2, <4>3, LoopFlat
        <5>3. rep' = [r1 EXCEPT ![cur] = [r1[cur] EXCEPT !.val = IF val THEN 1 ELSE @]]
          BY <4>4, <5>2
        <5> QED BY <5>1, <5>2, <5>3
      <4> QED BY <3>1, <4>2, <4>5
    <3>3. v \in {None, 1}
      BY <3>1 DEF Reports
    <3> HIDE DEF v
    <3>4. [train |-> t, val |-> v, ens |-> rep[cur].ens, poly |-> rep[cur].poly] \in Reports
      BY <3>1, <3>3 DEF Reports
    <3> QED BY <3>1, <3>2, <3>4
  <2> QED BY <2>1, <2>2, LoopFlat
<1>6. \/ seen' = seen
      \/ seen' = [seen EXCEPT ![cur] = tree.head \o tree.work]
  BY DEF StagedEval, FullEval, EvalProducedAgent
<1>7. /\ \A g \in Gens : g # cur => seen'[g] = seen[g]
      /\ seen'[cur] = seen[cur] \/ seen'[cur] = tree.head \o tree.work
      /\ seen' = [g \in Gens |-> seen'[g]]
  BY <1>6, LoopFlat DEF LoopInv, Types
<1>8. att[cur] > 0 /\ (att[cur] = 1 => meta[cur] = None)
  BY <1>1 DEF LoopInv, Position, FirstTry, Making, GenSteps
<1>9. Types'
  BY <1>1, <1>2, <1>4, <1>5, <1>7 DEF LoopInv, Types, TypeOK, LoopLevel
<1>10. History'
  <2>1. ArchiveDurable' /\ Withdrawn'
    BY <1>1 DEF LoopInv, History, ArchiveDurable, Withdrawn
  <2>2. Untried'
    BY <1>1, <1>7, <1>8 DEF LoopInv, History, Untried
  <2>3. CodeIsLineage'
    <3> SUFFICES ASSUME NEW g \in Gens, ~tainted', att'[g] = 1, seen'[g] # None,
                        MetaOf(g)' # None, meta'[g].valid
                 PROVE  seen'[g] = Contents(Files(g))'
      BY DEF CodeIsLineage
    <3>1. Contents(Files(g))' = Contents(Files(g)) /\ MetaOf(g)' = MetaOf(g)
      BY <1>1 DEF Contents, Files, MetaOf
    <3>2. g # cur
      BY <1>1, <1>8 DEF MetaOf
    <3> QED BY <1>1, <1>7, <3>1, <3>2 DEF LoopInv, History, CodeIsLineage
  <2> QED BY <2>1, <2>2, <2>3 DEF History
<1>11. Places'
  BY <1>1, <1>2 DEF LoopInv, Position, Places, GenSteps, LoopSteps, Listed
<1>12. Descended'
  BY <1>1, <1>2, <1>4 DEF LoopInv, Position, Descended, LineagesDescend, Descends, Making,
     GenSteps
<1>13. Contents(gen.prev \o gen.curr)' = Contents(gen.prev \o gen.curr)
  BY <1>1, <1>4 DEF Contents
<1>14. Trees'
  BY <1>1, <1>2, <1>13 DEF LoopInv, Position, Trees, InContainer
<1>15. FirstTry'
  <2>1. ~tainted /\ att[cur] = 1 => tree.head \o tree.work = Contents(gen.prev \o gen.curr)
    BY <1>1 DEF LoopInv, Position, Trees
  <2> QED BY <1>1, <1>2, <1>7, <1>8, <1>13, <2>1 DEF LoopInv, Position, FirstTry, Making,
      GenSteps
<1> QED BY <1>9, <1>10, <1>11, <1>12, <1>14, <1>15 DEF LoopInv, Position

\* A patch that is not in a lineage does not change the lineage's code.
LEMMA SameLineage ==
    ASSUME NEW files \in Seq(Gens), NEW c, \A i \in DOMAIN files : files[i] # c,
           \A g \in Gens : g # c => patch'[g] = patch[g]
    PROVE  [k \in 1 .. Len(files) |-> patch'[files[k]]] = Contents(files)
<1>1. \A k \in 1 .. Len(files) : files[k] \in Gens /\ files[k] # c
  BY LenProperties, ElementOfSeq
<1> QED BY <1>1 DEF Contents

\* The meta agent's diff is what it left in the tree, or is not evaluated.
LEMMA RunMetaAgentInv ==
    ASSUME LoopInv, PolyTypeOK', RunMetaAgent
    PROVE  LoopInv'
<1>1. /\ pc = "meta" /\ pc' \in {"check", "finally"} /\ cur # 0
      /\ UNCHANGED <<cfg, cur, parent, arch, disk, meta, rep, root, tries, restarts, att, seen,
                     blamed, tainted>>
  BY DEF RunMetaAgent, Raise, copy_from_container, history, LoopInv, Position, Places
<1>2. cur = Len(disk) /\ cur \in Gens /\ gen \in Nodes /\ gen.curr = <<>>
      /\ gen.prev \in Seq(Gens) /\ \A i \in DOMAIN gen.prev : gen.prev[i] < Len(disk)
  <2>1. cur = Len(disk) /\ gen.curr = <<>> /\ Descends(gen, cur)
    BY <1>1 DEF LoopInv, Position, Places, Descended, GenSteps, Making
  <2> QED BY <2>1, LoopFlat DEF Descends, Nodes
<1>3. PICK edits \in BOOLEAN :
        /\ tree' = [tree EXCEPT !.work = IF edits THEN <<<<cur, att[cur]>>>> ELSE <<>>]
        /\ \/ Raise /\ UNCHANGED patch
           \/ \E folder, wrote \in BOOLEAN :
                 /\ patch' = IF ~ (folder /\ wrote) THEN patch
                             ELSE [patch EXCEPT ![cur] = Diff(edits)]
                 /\ \/ /\ gen' = [gen EXCEPT !.ok = TRUE, !.curr = <<cur>>,
                                    !.runEval = patch'[cur] \notin {Absent, Empty}]
                       /\ pc' = "check"
                    \/ gen' = [gen EXCEPT !.ok = TRUE] /\ pc' = "finally"
  BY DEF RunMetaAgent, copy_from_container
<1>4. /\ patch' = [g \in Gens |-> patch'[g]]
      /\ \A g \in Gens : g # cur => patch'[g] = patch[g]
      /\ patch'[cur] \in {patch[cur], Diff(edits)}
  <2>1. patch' = patch \/ patch' = [patch EXCEPT ![cur] = Diff(edits)]
    BY <1>3
  <2>2. patch = [g \in Gens |-> patch[g]]
    BY DEF LoopInv, Types
  <2> QED BY <1>2, <2>1, <2>2
<1>5. /\ gen' \in Nodes /\ gen'.prev = gen.prev /\ gen'.curr \in {<<>>, <<cur>>}
      /\ pc' = "check" => /\ gen'.curr = <<cur>>
                          /\ gen'.runEval => patch'[cur] \notin {Absent, Empty}
  <2>1. <<cur>> \in Seq(Gens) /\ (patch'[cur] \notin {Absent, Empty}) \in BOOLEAN
    BY <1>2
  <2>2. \/ gen' = [gen EXCEPT !.runEval = FALSE] /\ pc' = "finally"
        \/ /\ gen' = [gen EXCEPT !.ok = TRUE, !.curr = <<cur>>,
                                 !.runEval = patch'[cur] \notin {Absent, Empty}]
           /\ pc' = "check"
        \/ gen' = [gen EXCEPT !.ok = TRUE] /\ pc' = "finally"
    BY <1>3 DEF Raise
  <2> QED BY <1>2, <2>1, <2>2 DEF Nodes
<1>6. att[cur] > 0 /\ (att[cur] = 1 => meta[cur] = None /\ patch[cur] = Absent /\ seen[cur] = None)
  BY <1>1 DEF LoopInv, Position, FirstTry, Making, GenSteps
<1>7. Types'
  BY <1>1, <1>4, <1>5 DEF LoopInv, Types, TypeOK, LoopLevel
<1>8. History'
  <2>1. ArchiveDurable' /\ Withdrawn'
    BY <1>1 DEF LoopInv, History, ArchiveDurable, Withdrawn
  <2>2. Untried'
    BY <1>1, <1>4, <1>6 DEF LoopInv, History, Untried
  <2>3. CodeIsLineage'
    <3> SUFFICES ASSUME NEW g \in Gens, ~tainted', att'[g] = 1, seen'[g] # None,
                        MetaOf(g)' # None, meta'[g].valid
                 PROVE  seen'[g] = Contents(Files(g))'
      BY DEF CodeIsLineage
    <3>1. Files(g)' = Files(g) /\ MetaOf(g) = meta[g] /\ meta[g] # None
      BY <1>1 DEF Files, MetaOf
    <3>2. seen[g] = Contents(Files(g))
      BY <1>1, <3>1 DEF LoopInv, History, CodeIsLineage
    <3>3. g # cur
      BY <1>1, <1>6, <3>1
    <3>4. Files(g) \in Seq(Gens) /\ \A i \in DOMAIN Files(g) : Files(g)[i] # cur
      <4> DEFINE p == meta[g].prev  q == meta[g].curr
      <4>1. p \in Seq(Gens) /\ q \in Seq(Gens)
        BY <3>1, LoopFlat DEF Nodes
      <4>2. (\A i \in DOMAIN p : p[i] # cur) /\ (\A i \in DOMAIN q : q[i] # cur)
        <5>1. (\A i \in DOMAIN p : p[i] < Len(disk)) /\ q \in {<<>>, <<g>>}
          BY <3>1 DEF LoopInv, Position, Descended, LineagesDescend, Descends
        <5> QED BY <1>2, <3>3, <5>1, LoopFlat
      <4>3. Files(g) = p \o q
        BY <3>1 DEF Files
      <4> HIDE DEF p, q
      <4>4. /\ Len(p) \in Nat /\ Len(q) \in Nat /\ DOMAIN p = 1 .. Len(p)
            /\ DOMAIN q = 1 .. Len(q)
            /\ p \o q \in Seq(Gens) /\ DOMAIN (p \o q) = 1 .. Len(p) + Len(q)
            /\ \A k \in 1 .. Len(p) + Len(q) :
                  (p \o q)[k] = IF k <= Len(p) THEN p[k] ELSE q[k - Len(p)]
        BY <4>1, ConcatProperties, LenProperties
      <4>5. ASSUME NEW k \in 1 .. Len(p) + Len(q) PROVE (p \o q)[k] # cur
        <5>1. (k <= Len(p) => k \in DOMAIN p) /\ (~(k <= Len(p)) => k - Len(p) \in DOMAIN q)
          BY <4>4
        <5> QED BY <4>2, <4>4, <5>1
      <4> QED BY <4>3, <4>4, <4>5
    <3>5. Contents(Files(g))' = [k \in 1 .. Len(Files(g)) |-> patch'[Files(g)[k]]]
      BY <3>1 DEF Contents
    <3> HIDE DEF Files
    <3>6. Contents(Files(g))' = Contents(Files(g))
      BY <1>4, <3>4, <3>5, SameLineage
    <3> QED BY <1>1, <3>2, <3>6
  <2> QED BY <2>1, <2>2, <2>3 DEF History
<1>9. Places'
  BY <1>1 DEF LoopInv, Position, Places, GenSteps, LoopSteps, Listed
<1>10. Descended'
  BY <1>1, <1>2, <1>5 DEF LoopInv, Position, Descended, LineagesDescend, Descends, Making,
     GenSteps
<1>11. Contents(gen.prev)' = Contents(gen.prev)
  <2>1. \A i \in DOMAIN gen.prev : gen.prev[i] # cur
    BY <1>2, LoopFlat
  <2>2. Contents(gen.prev)' = [k \in 1 .. Len(gen.prev) |-> patch'[gen.prev[k]]]
    BY <1>5 DEF Contents
  <2> QED BY <1>2, <1>4, <2>1, <2>2, SameLineage
<1>12. Trees'
  <2> SUFFICES ASSUME ~tainted, pc' = "check", gen'.runEval, att[cur] = 1
               PROVE  tree'.head \o tree'.work = Contents(gen.prev \o gen.curr)'
    BY <1>1 DEF LoopInv, Position, Trees, InContainer
  <2>1. tree.head = Contents(gen.prev)
    BY <1>1 DEF LoopInv, Position, Trees
  <2>2. edits /\ patch'[cur] = <<cur, att[cur]>>
    BY <1>4, <1>5, <1>6 DEF Diff
  <2>3. tree'.head = Contents(gen.prev) /\ tree'.work = <<patch'[cur]>>
    BY <1>3, <2>1, <2>2
  <2>4. Contents(gen.prev \o gen.curr)' = Contents(gen.prev)' \o Contents(gen.curr)'
    <3>1. gen'.prev \in Seq(Gens) /\ gen'.curr \in Seq(Gens)
      BY <1>5 DEF Nodes
    <3>2. /\ Contents(gen.prev \o gen.curr)' = Through(patch', gen'.prev \o gen'.curr)
          /\ Contents(gen.prev)' = Through(patch', gen'.prev)
          /\ Contents(gen.curr)' = Through(patch', gen'.curr)
      BY DEF Contents, Through
    <3> QED BY <3>1, <3>2, ThroughParts
  <2>5. Contents(gen.curr)' = <<patch'[cur]>>
    <3>1. gen'.curr = <<cur>>
      BY <1>5
    <3> QED BY <3>1 DEF Contents
  <2> QED BY <1>11, <2>3, <2>4, <2>5
<1>13. FirstTry'
  BY <1>1, <1>6 DEF FirstTry, Making, GenSteps
<1> QED BY <1>7, <1>8, <1>9, <1>10, <1>12, <1>13 DEF LoopInv, Position

\* Outside generate() a step that keeps the records keeps the position but for its places.
LEMMA OutsideInv ==
    ASSUME LoopInv, SameNodes, UNCHANGED <<cfg, patch, att, seen, disk>>, WithdrawnNow,
           tainted => tainted', pc' \notin Making, pc' = "build" => cur' # 0,
           Types', Places', Trees'
    PROVE  LoopInv'
<1>1. History' /\ LineagesDescend'
  BY HistoryKept
<1>2. Descended'
  BY <1>1 DEF Descended, Making, GenSteps
<1>3. FirstTry'
  BY DEF FirstTry, Making, GenSteps
<1> QED BY <1>1, <1>2, <1>3 DEF LoopInv, Position

\* The container is gone: the loop ends, and a tree that is left patched is known.
LEMMA CleanUpRaisesInv ==
    ASSUME LoopInv, PolyTypeOK', CleanUpRaises, rep' \in [Gens -> Reports],
           UNCHANGED <<cfg, patch, att, seen, disk, blamed, meta, root, restarts, arch>>,
           cur' = cur, parent' \in {parent, None}, gen' \in Nodes, tries' = tries,
           pc # "setup"
    PROVE  LoopInv'
<1>1. pc' = "died" /\ tainted' = (tainted \/ tree # Clean) /\ tree' = tree
  BY DEF CleanUpRaises
<1>2. Types'
  BY <1>1 DEF LoopInv, Types, TypeOK, LoopLevel
<1>3. Places'
  BY <1>1, LoopFlat DEF LoopInv, Position, Places, GenSteps, LoopSteps, Listed
<1>4. Trees'
  BY <1>1 DEF LoopInv, Position, Trees, InContainer, Clean, InitialTree
<1> QED BY <1>1, <1>2, <1>3, <1>4, OutsideInv DEF SameNodes, WithdrawnNow, Making, GenSteps

\* A finished attempt records the lineage its code was evaluated on.
LEMMA FinishGenerateInv ==
    ASSUME LoopInv, PolyTypeOK', FinishGenerate
    PROVE  LoopInv'
<1>1. /\ pc = "finally"
      /\ UNCHANGED <<cfg, cur, parent, arch, disk, gen, patch, rep, root, tries, restarts, att,
                     seen, blamed>>
  BY DEF FinishGenerate
<1>2. CASE CleanUpRaises /\ UNCHANGED meta
  BY <1>1, <1>2, CleanUpRaisesInv, LoopFlat
<1>3. CASE ~(CleanUpRaises /\ UNCHANGED meta)
  <2>1. /\ tree' = Clean /\ UNCHANGED tainted
        /\ pc' = IF gen.intr THEN "down" ELSE IF cur = 0 THEN "poly" ELSE "save"
        /\ \E b \in BOOLEAN : meta' = [meta EXCEPT ![cur] = [gen EXCEPT !.valid = b]]
    <3>1. (gen.runEval /\ (EvalSuccessful \/ MetaPatchFilesGiven)) \in BOOLEAN
      OBVIOUS
    <3> QED BY <1>3, <3>1 DEF FinishGenerate, CleanUp
  <2>2. cur \in Gens /\ gen \in Nodes /\ Descends(gen, cur)
    BY <1>1, LoopFlat DEF LoopInv, Position, Descended, Making, GenSteps
  <2>3. /\ meta'[cur] \in Nodes /\ meta'[cur] # None
        /\ meta'[cur].prev = gen.prev /\ meta'[cur].curr = gen.curr
        /\ \A g \in Gens : g # cur => meta'[g] = meta[g]
        /\ meta' \in [Gens -> Nodes \cup {None}]
    <3>1. PICK b \in BOOLEAN : meta' = [meta EXCEPT ![cur] = [gen EXCEPT !.valid = b]]
      BY <2>1
    <3>2. /\ [gen EXCEPT !.valid = b] \in Nodes
          /\ [gen EXCEPT !.valid = b].prev = gen.prev /\ [gen EXCEPT !.valid = b].curr = gen.curr
      BY <2>2 DEF Nodes
    <3> QED BY <2>2, <3>1, <3>2, LoopFlat, AbsenceAssumption
  <2>4. cur = Len(disk) \/ cur = 0
    BY <1>1 DEF LoopInv, Position, Places, GenSteps
  <2>5. arch = disk /\ 0 < Len(disk)
    BY <1>1, LoopFlat DEF LoopInv, Position, Places, LoopSteps, GenSteps
  <2>6. Types'
    BY <1>1, <2>1, <2>3 DEF LoopInv, Types, TypeOK, LoopLevel
  <2>7. /\ att[cur] > 0
        /\ att[cur] = 1 /\ ~tainted /\ seen[cur] # None =>
              seen[cur] = Contents(gen.prev \o gen.curr)
    BY <1>1 DEF LoopInv, Position, FirstTry, Making, GenSteps
  <2>8. History'
    <3>1. ArchiveDurable'
      BY <1>1, <2>3, LoopFlat, SMTT(30) DEF LoopInv, History, ArchiveDurable
    <3>2. Withdrawn'
      <4> SUFFICES ASSUME NEW g \in blamed \ {0}
                   PROVE  g < Len(disk) /\ meta'[g] # None /\ ~meta'[g].valid
        BY <1>1 DEF Withdrawn
      <4>1. g < Len(disk) /\ meta[g] # None /\ ~meta[g].valid /\ g \in Gens /\ g # 0
        BY DEF LoopInv, History, Withdrawn, Types, TypeOK
      <4>2. g # cur
        BY <2>4, <4>1, LoopFlat
      <4> QED BY <2>3, <4>1, <4>2
    <3>3. Untried'
      BY <1>1, <2>3, <2>7 DEF LoopInv, History, Untried
    <3>4. CodeIsLineage'
      <4> SUFFICES ASSUME NEW g \in Gens, ~tainted', att'[g] = 1, seen'[g] # None,
                          MetaOf(g)' # None, meta'[g].valid
                   PROVE  seen'[g] = Contents(Files(g))'
        BY DEF CodeIsLineage
      <4>1. CASE g = cur
        <5>1. Files(g)' = gen.prev \o gen.curr
          BY <2>2, <2>3, <4>1 DEF Files, MetaOf
        <5>2. Contents(Files(g))' = Contents(gen.prev \o gen.curr)
          BY <1>1, <5>1 DEF Contents
        <5> QED BY <1>1, <2>1, <2>7, <4>1, <5>2
      <4>2. CASE g # cur
        <5>1. MetaOf(g)' = MetaOf(g) /\ Files(g)' = Files(g) /\ MetaOf(g) = meta[g]
          BY <2>3, <4>2 DEF MetaOf, Files
        <5>2. Contents(Files(g))' = Contents(Files(g))
          BY <1>1, <5>1 DEF Contents
        <5> QED BY <1>1, <2>1, <2>3, <4>2, <5>1, <5>2 DEF LoopInv, History, CodeIsLineage
      <4> QED BY <4>1, <4>2
    <3> QED BY <3>1, <3>2, <3>3, <3>4 DEF History
  <2>9. Places'
    BY <1>1, <2>1, <2>3, <2>4, <2>5 DEF LoopInv, Position, Places, GenSteps, LoopSteps, Listed
  <2>10. Descended'
    <3>1. LineagesDescend'
      <4> SUFFICES ASSUME NEW g \in Gens, meta'[g] # None PROVE Descends(meta[g], g)'
        BY DEF LineagesDescend
      <4> QED BY <1>1, <2>2, <2>3 DEF LoopInv, Position, Descended, LineagesDescend, Descends
    <3> QED BY <2>1, <3>1 DEF Descended, Making, GenSteps
  <2>11. Trees'
    BY <1>1, <2>1 DEF LoopInv, Position, Trees, InContainer, Clean, InitialTree
  <2>12. FirstTry'
    BY <2>1 DEF FirstTry, Making, GenSteps
  <2> QED BY <2>6, <2>8, <2>9, <2>10, <2>11, <2>12 DEF LoopInv, Position
<1> QED BY <1>2, <1>3

\* Saving the archive lists the node whose metadata was just written.
LEMMA SaveArchiveInv ==
    ASSUME LoopInv, PolyTypeOK', SaveArchive
    PROVE  LoopInv'
<1>1. /\ pc = "save" /\ pc' = "blame" /\ arch' = Append(arch, cur) /\ disk' = arch'
      /\ UNCHANGED <<cfg, cur, parent, gen, meta, patch, rep, tree, root, tries, restarts, att,
                     seen, blamed, tainted>>
  BY DEF SaveArchive, fileVars, history
<1>2. arch = disk /\ cur = Len(disk) /\ meta[cur] # None /\ cur \in Gens
  BY <1>1, LoopFlat DEF LoopInv, Position, Places, LoopSteps
<1>3. /\ disk' \in Seq(Gens) /\ Len(disk') = Len(disk) + 1
      /\ \A k \in 1 .. Len(disk) + 1 : disk'[k] = k - 1
  <2>1. disk' = Append(disk, cur) /\ disk \in Seq(Gens) /\ cur \in Gens
    BY <1>1, <1>2, LoopFlat
  <2>2. /\ disk' \in Seq(Gens) /\ Len(disk') = Len(disk) + 1 /\ disk'[Len(disk) + 1] = cur
        /\ \A k \in 1 .. Len(disk) : disk'[k] = disk[k]
    BY <2>1, AppendProperties
  <2>3. Len(disk) \in Nat /\ \A k \in 1 .. Len(disk) : disk[k] = k - 1
    BY LoopFlat DEF LoopInv, History, ArchiveDurable
  <2> QED BY <1>2, <2>2, <2>3
<1>4. Types'
  BY <1>1, <1>3 DEF LoopInv, Types, TypeOK, LoopLevel
<1>5. Len(disk) \in Nat /\ Len(disk) < Len(disk')
  BY <1>3, LoopFlat
<1>6. History'
  <2>1. ArchiveDurable'
    <3>1. \A k \in 1 .. Len(disk) : k > 1 => meta[k - 1] # None
      BY DEF LoopInv, History, ArchiveDurable
    <3> QED BY <1>1, <1>2, <1>3, <1>5, <3>1 DEF ArchiveDurable
  <2>2. Withdrawn'
    <3>1. \A g \in blamed : g \in Nat
      BY LoopFlat DEF LoopInv, Types, TypeOK
    <3> QED BY <1>1, <1>3, <1>5, <3>1 DEF LoopInv, History, Withdrawn
  <2>3. Untried'
    BY <1>1 DEF LoopInv, History, Untried
  <2>4. CodeIsLineage'
    <3>1. \A g \in Gens : MetaOf(g)' = MetaOf(g) /\ Contents(Files(g))' = Contents(Files(g))
      BY <1>1 DEF MetaOf, Files, Contents
    <3> QED BY <1>1, <3>1 DEF LoopInv, History, CodeIsLineage
  <2> QED BY <2>1, <2>2, <2>3, <2>4 DEF History
<1>7. Places'
  <2>1. parent \in Gens => parent < Len(disk')
    BY <1>3, <1>5, LoopFlat DEF LoopInv, Position, Places
  <2>2. disk' # <<>>
    BY <1>3, <1>5
  <2> QED BY <1>1, <1>2, <1>3, <1>5, <2>1, <2>2 DEF Places, GenSteps, LoopSteps, Listed
<1>8. Descended'
  <2>1. ASSUME NEW g \in Gens, meta[g] # None PROVE Descends(meta[g], g)'
    <3>1. meta[g].prev \in Seq(Gens) /\ Descends(meta[g], g)
      BY <2>1, LoopFlat DEF Nodes, LoopInv, Position, Descended, LineagesDescend
    <3>2. \A i \in DOMAIN meta[g].prev : meta[g].prev[i] \in Nat
      BY <3>1, LoopFlat
    <3> QED BY <1>1, <1>3, <1>5, <3>1, <3>2 DEF Descends
  <2> QED BY <1>1, <2>1 DEF Descended, LineagesDescend, Making, GenSteps
<1>9. Trees' /\ FirstTry'
  BY <1>1 DEF LoopInv, Position, Trees, FirstTry, InContainer, Making, GenSteps
<1> QED BY <1>4, <1>6, <1>7, <1>8, <1>9 DEF LoopInv, Position

\* A parent is withdrawn for good.
LEMMA BlameParentInv ==
    ASSUME LoopInv, PolyTypeOK', BlameParent
    PROVE  LoopInv'
<1>1. /\ pc = "blame" /\ pc' = "poly"
      /\ UNCHANGED <<cfg, cur, parent, arch, disk, gen, patch, rep, tree, root, tries, restarts,
                     att, seen, tainted>>
  BY DEF BlameParent
<1>2. \/ UNCHANGED <<meta, blamed>>
      \/ /\ MetaOf(parent) # None /\ blamed' = blamed \cup {parent}
         /\ meta' = [meta EXCEPT ![parent].valid = FALSE]
  BY DEF BlameParent
<1>3. /\ SameNodes /\ WithdrawnNow /\ meta' \in [Gens -> Nodes \cup {None}]
      /\ blamed' \subseteq Gens
  <2>1. CASE UNCHANGED <<meta, blamed>>
    BY <2>1, LoopFlat DEF SameNodes, WithdrawnNow, LoopInv, Types, TypeOK
  <2>2. CASE /\ MetaOf(parent) # None /\ blamed' = blamed \cup {parent}
             /\ meta' = [meta EXCEPT ![parent].valid = FALSE]
    <3>1. parent \in Gens /\ meta[parent] # None /\ parent < Len(disk)
      BY <2>2 DEF MetaOf, LoopInv, Position, Places
    <3> DEFINE node == [meta[parent] EXCEPT !.valid = FALSE]
    <3>2. /\ node \in Nodes /\ ~node.valid
          /\ node.prev = meta[parent].prev /\ node.curr = meta[parent].curr
      BY <3>1, LoopFlat DEF Nodes
    <3>3. meta' = [meta EXCEPT ![parent] = node]
      BY <2>2
    <3> HIDE DEF node
    <3>4. node # None
      BY <3>2, AbsenceAssumption
    <3>5. blamed \subseteq Gens
      BY DEF LoopInv, Types, TypeOK
    <3>6. SameNodes
      BY <3>1, <3>2, <3>3, <3>4, LoopFlat DEF SameNodes
    <3>7. WithdrawnNow
      BY <2>2, <3>1, <3>2, <3>3, <3>4, LoopFlat DEF WithdrawnNow
    <3> QED BY <2>2, <3>1, <3>2, <3>3, <3>5, <3>6, <3>7, LoopFlat
  <2> QED BY <1>2, <2>1, <2>2
<1>4. Types'
  BY <1>1, <1>3 DEF LoopInv, Types, TypeOK, LoopLevel
<1>5. Places'
  BY <1>1 DEF LoopInv, Position, Places, GenSteps, LoopSteps, Listed
<1>6. Trees'
  BY <1>1 DEF LoopInv, Position, Trees, InContainer
<1> QED BY <1>1, <1>3, <1>4, <1>5, <1>6, OutsideInv DEF Making, GenSteps

-----------------------------------------------------------------------------
(*                   Evaluation and selection                              *)

\* A step of the loop itself, between containers or in one of them.
LEMMA LoopLevelInv ==
    ASSUME LoopInv, SameNodes, UNCHANGED <<cfg, patch, att, seen, disk, root, tainted>>,
           WithdrawnNow, pc' \notin Making, pc' = "build" => cur' # 0,
           \/ pc' \in InContainer
           \/ UNCHANGED tree /\ pc \notin InContainer
           \/ tree' = Clean,
           Types', Places'
    PROVE  LoopInv'
<1>1. Trees'
  BY DEF LoopInv, Position, Trees, InContainer, Clean, InitialTree, Making, GenSteps
<1> QED BY <1>1, OutsideInv

\* A flag of a recorded node is set: its lineage stays, and it is not made valid.
LEMMA NodeEdited ==
    ASSUME LoopInv, NEW g, MetaOf(g) # None, NEW node \in Nodes,
           node.prev = meta[g].prev, node.curr = meta[g].curr, node.valid => meta[g].valid,
           meta' = [meta EXCEPT ![g] = node]
    PROVE  SameNodes /\ meta' \in [Gens -> Nodes \cup {None}]
<1>1. g \in Gens /\ meta[g] # None
  BY DEF MetaOf
<1>2. node # None
  BY AbsenceAssumption
<1> QED BY <1>1, <1>2, LoopFlat DEF SameNodes

\* The flags that later steps set.
LEMMA FlagsEdited ==
    ASSUME LoopInv,
           \/ meta' = meta
           \/ \E flag \in BOOLEAN : meta' = SetFull(flag)
           \/ MetaOf(LatestCanSelect) # None /\ meta' = [meta EXCEPT ![LatestCanSelect].can = FALSE]
    PROVE  SameNodes /\ meta' \in [Gens -> Nodes \cup {None}]
<1>1. CASE meta' = meta
  BY <1>1, LoopFlat DEF SameNodes
<1>2. ASSUME NEW flag \in BOOLEAN, MetaOf(cur) # None, meta' = [meta EXCEPT ![cur].full = flag]
      PROVE  SameNodes /\ meta' \in [Gens -> Nodes \cup {None}]
  <2> DEFINE node == [meta[cur] EXCEPT !.full = flag]
  <2>1. meta[cur] \in Nodes
    BY <1>2, LoopFlat DEF MetaOf
  <2>2. /\ node \in Nodes /\ node.prev = meta[cur].prev /\ node.curr = meta[cur].curr
        /\ node.valid => meta[cur].valid
    BY <2>1 DEF Nodes
  <2>3. meta' = [meta EXCEPT ![cur] = node]
    BY <1>2
  <2> HIDE DEF node
  <2> QED BY <1>2, <2>2, <2>3, NodeEdited
<1>3. CASE MetaOf(LatestCanSelect) # None /\ meta' = [meta EXCEPT ![LatestCanSelect].can = FALSE]
  <2> DEFINE g == LatestCanSelect  node == [meta[g] EXCEPT !.can = FALSE]
  <2>1. meta[g] \in Nodes
    <3> HIDE DEF g
    <3> QED BY <1>3, LoopFlat DEF MetaOf, g
  <2>2. /\ node \in Nodes /\ node.prev = meta[g].prev /\ node.curr = meta[g].curr
        /\ node.valid => meta[g].valid
    <3> HIDE DEF g
    <3> QED BY <2>1 DEF Nodes
  <2>3. meta' = [meta EXCEPT ![g] = node] /\ MetaOf(g) # None
    BY <1>3
  <2> HIDE DEF node, g
  <2> QED BY <2>2, <2>3, NodeEdited
<1> QED BY <1>1, <1>2, <1>3 DEF SetFull

\* A score is a number or nothing: somebody was scored when it is a number.
LEMMA ScoreType ==
    ASSUME HarnessInv, job.st = "done"
    PROVE  PolyglotScore(Cardinality(job.entries)) \in Nat \cup {None}
<1>1. CASE job.report.completed = {}
  BY <1>1 DEF PolyglotScore
<1>2. CASE job.report.completed # {}
  <2>1. /\ job.entries \subseteq Instances /\ job.report.completed \subseteq job.entries
        /\ job.report.resolved \subseteq job.report.completed
    BY DEF HarnessInv, PolyTypeOK, ReportMatchesFiles
  <2>2. IsFiniteSet(job.entries) /\ IsFiniteSet(job.report.resolved)
    BY <2>1, WorkersAssumption, FS_Subset
  <2>3. Cardinality(job.entries) \in Nat /\ Cardinality(job.report.resolved) \in Nat
        /\ Cardinality(job.entries) # 0
    BY <1>2, <2>1, <2>2, FS_CardinalityType, FS_EmptySet
  <2> DEFINE n == Cardinality(job.entries)  r == Cardinality(job.report.resolved)
  <2>4. PolyglotScore(n) = (10 * r) \div n
    BY <1>2 DEF PolyglotScore
  <2> HIDE DEF n, r
  <2>5. n \in Nat /\ r \in Nat /\ n > 0
    BY <2>3 DEF n, r
  <2>6. (10 * r) \div n \in Nat
    BY <2>5
  <2> QED BY <2>4, <2>6 DEF n
<1> QED BY <1>1, <1>2

\* Setting up archives the starting node.
LEMMA SetupInitialGenInv ==
    ASSUME LoopInv, PolyTypeOK', SetupInitialGen
    PROVE  LoopInv'
<1>1. /\ pc = "setup" /\ pc' \in {"build", "ens"} /\ arch' = <<0>> /\ disk' = <<0>> /\ cur' = 0
      /\ gen' \in {[Fresh EXCEPT !.runEval = TRUE, !.prev = <<0>>],
                   [Fresh EXCEPT !.runEval = TRUE, !.prev = <<>>]}
      /\ rep' \in {rep, [rep EXCEPT ![0] = InitialReport]}
      /\ meta' = meta \/ (pc' = "ens" /\ meta' = [meta EXCEPT ![0] = ResetNode])
      /\ UNCHANGED <<cfg, parent, patch, tree, root, tries, restarts, att, seen, blamed, tainted>>
  BY DEF SetupInitialGen, history
<1>2. 0 \in Gens /\ <<0>> \in Seq(Gens) /\ <<>> \in Seq(Gens) /\ None \notin Nodes
  BY LoopFlat, AbsenceAssumption
<1>3. gen' \in Nodes /\ ResetNode \in Nodes /\ ResetNode.prev = <<0>> /\ ResetNode.curr = <<>>
  <2>1. Fresh \in Nodes
    BY BoundsAssumption, FreshNode
  <2>2. \A p \in Seq(Gens) : [Fresh EXCEPT !.runEval = TRUE, !.prev = p] \in Nodes
    BY <2>1 DEF Nodes
  <2> QED BY <1>1, <1>2, <2>1, <2>2 DEF ResetNode, Nodes, Fresh
<1>4. Untouched
  BY <1>1 DEF LoopInv, Position, Places
<1>5. rep' \in [Gens -> Reports]
  <2>1. InitialReport \in Reports
    BY DEF InitialReport, NoReport, Reports
  <2> QED BY <1>1, <1>2, <2>1, LoopFlat
<1>6. meta' \in [Gens -> Nodes \cup {None}] /\ \A g \in Gens \ {0} : meta'[g] = None
  BY <1>1, <1>2, <1>3, <1>4, LoopFlat DEF Untouched
<1>7. meta'[0] = None \/ (meta'[0] # None /\ meta'[0].prev = <<0>> /\ meta'[0].curr = <<>>)
  BY <1>1, <1>2, <1>3, <1>4, LoopFlat DEF Untouched
<1>8. Types'
  BY <1>1, <1>2, <1>3, <1>5, <1>6 DEF LoopInv, Types, TypeOK, LoopLevel
<1>9. History'
  <2>1. ArchiveDurable'
    BY <1>1 DEF ArchiveDurable
  <2>2. Untried'
    BY <1>1, <1>6 DEF LoopInv, History, Untried
  <2>3. CodeIsLineage' /\ Withdrawn'
    BY <1>1, <1>4 DEF Untouched, CodeIsLineage, Withdrawn
  <2> QED BY <2>1, <2>2, <2>3 DEF History
<1>10. Places'
  <2>1. Len(disk') = 1 /\ disk' # <<>> /\ parent' = None /\ None \notin Gens
    BY <1>1, <1>4, LoopFlat DEF Untouched
  <2> QED BY <1>1, <2>1 DEF Places, GenSteps, LoopSteps, Listed
<1>11. Descended'
  <2>1. ASSUME NEW g \in Gens, meta'[g] # None PROVE Descends(meta[g], g)'
    <3>1. g = 0 /\ meta'[0].prev = <<0>> /\ meta'[0].curr = <<>> /\ Len(disk') = 1
      BY <1>1, <1>6, <1>7, <2>1
    <3> QED BY <3>1 DEF Descends
  <2> QED BY <1>1, <2>1 DEF Descended, LineagesDescend, Making, GenSteps
<1>12. Trees'
  BY <1>1 DEF LoopInv, Position, Trees, InContainer
<1>13. FirstTry'
  <2>1. pc' = "build" => meta'[0] = None /\ att'[0] = 0
    BY <1>1, <1>2, <1>4 DEF Untouched
  <2> QED BY <1>1, <2>1 DEF FirstTry, Making, GenSteps
<1> QED BY <1>8, <1>9, <1>10, <1>11, <1>12, <1>13 DEF LoopInv, Position

\* A resumed run reads the archive back, and takes the tree's HEAD for the root.
LEMMA ResumeInv ==
    ASSUME LoopInv, PolyTypeOK', Resume
    PROVE  LoopInv'
<1>1. /\ pc \in {"down", "died"} /\ pc' = "select" /\ restarts < MaxRestarts
      /\ restarts' = restarts + 1 /\ disk # <<>> /\ arch' = disk /\ gen' = Fresh /\ parent' = None
      /\ cur' = 0 /\ root' = tree.head /\ tries' = MaxAttempts
      /\ UNCHANGED <<cfg, disk, meta, patch, rep, tree, att, seen, blamed, tainted>>
  BY DEF Resume, fileVars, history
<1>2. Types'
  <2>1. Fresh \in Nodes /\ restarts' \in 0 .. MaxRestarts /\ MaxAttempts \in 0 .. MaxAttempts
    BY <1>1, BoundsAssumption, FreshNode DEF LoopInv, Types, TypeOK
  <2> QED BY <1>1, <2>1, LoopFlat DEF LoopInv, Types, TypeOK, LoopLevel
<1>3. Places'
  BY <1>1, LoopFlat DEF Places, GenSteps, LoopSteps, Listed
<1>4. Trees'
  BY <1>1 DEF LoopInv, Position, Trees, InContainer, InitialTree
<1> QED BY <1>1, <1>2, <1>3, <1>4, OutsideInv DEF SameNodes, WithdrawnNow, Making, GenSteps

\* The harness evaluates the archived node, on the small exercises first.
LEMMA StartPolyglotInv ==
    ASSUME LoopInv, PolyTypeOK', StartPolyglot \/ PolyglotDied
    PROVE  LoopInv'
<1>1. /\ pc \in {"poly", "small", "both"} /\ pc' \in {"ens", "died", "small"}
      /\ pc' = "small" => job'.entries = Small
      /\ UNCHANGED <<cfg, cur, parent, arch, disk, gen, meta, patch, rep, tree, root, tries,
                     restarts, att, seen, blamed, tainted>>
  BY DEF StartPolyglot, PolyglotDied, Harness, fileVars, history
<1>2. Types'
  BY <1>1 DEF LoopInv, Types, TypeOK, LoopLevel
<1>3. Places'
  BY <1>1 DEF LoopInv, Position, Places, GenSteps, LoopSteps, Listed
<1> QED BY <1>1, <1>2, <1>3, LoopLevelInv DEF SameNodes, WithdrawnNow, Making, GenSteps, InContainer

\* The score of a finished call is recorded.
LEMMA PolyglotScoredInv ==
    ASSUME LoopInv, HarnessInv, PolyTypeOK', SmallDone \/ BothDone
    PROVE  LoopInv'
<1>1. /\ pc \in {"small", "both"} /\ pc' \in {"ens", "both"} /\ job.st = "done"
      /\ pc' = "both" => job'.entries = Small \cup Medium
      /\ UNCHANGED <<cfg, cur, parent, arch, disk, gen, patch, tree, root, tries,
                     restarts, att, seen, blamed, tainted>>
      /\ meta' = meta \/ \E flag \in BOOLEAN : meta' = SetFull(flag)
  <2>1. meta' \in {meta, SetFull(TRUE), SetFull(FALSE)}
    BY DEF SmallDone, BothDone
  <2>2. /\ pc \in {"small", "both"} /\ pc' \in {"ens", "both"} /\ job.st = "done"
        /\ UNCHANGED <<cfg, cur, parent, arch, disk, gen, patch, tree, root, tries,
                       restarts, att, seen, blamed, tainted>>
    BY DEF SmallDone, BothDone, history
  <2>3. pc' = "both" => job'.entries = Small \cup Medium
    BY DEF SmallDone, BothDone, Harness
  <2> QED BY <2>1, <2>2, <2>3
<1>2. \E s \in Nat \cup {None} : rep' = [rep EXCEPT ![cur].poly = s]
  <2>1. /\ pc = "small" => job.entries = Small
        /\ pc = "both" => job.entries = Small \cup Medium
    BY DEF LoopInv, Position, Places
  <2>2. rep' = [rep EXCEPT ![cur].poly = PolyglotScore(Cardinality(job.entries))]
    BY <1>1, <2>1 DEF SmallDone, BothDone
  <2> QED BY <1>1, <2>2, ScoreType
<1>3. rep' \in [Gens -> Reports]
  <2>1. PICK s \in Nat \cup {None} : rep' = [rep EXCEPT ![cur].poly = s]
    BY <1>2
  <2>2. rep[cur] \in Reports
    BY LoopFlat
  <2>3. [rep[cur] EXCEPT !.poly = s] \in Reports
    BY <2>2 DEF Reports
  <2> QED BY <2>1, <2>3, LoopFlat
<1>4. SameNodes /\ meta' \in [Gens -> Nodes \cup {None}]
  BY <1>1, FlagsEdited
<1>5. Types'
  BY <1>1, <1>3, <1>4 DEF LoopInv, Types, TypeOK, LoopLevel
<1>6. Places'
  BY <1>1 DEF LoopInv, Position, Places, GenSteps, LoopSteps, Listed
<1> QED BY <1>1, <1>4, <1>5, <1>6, LoopLevelInv DEF WithdrawnNow, Making, GenSteps, InContainer

\* The ensemble runs on the archived node; then the generation is over.
LEMMA EnsembleInv ==
    ASSUME LoopInv, PolyTypeOK', StartEnsemble \/ FinishEnsemble
    PROVE  LoopInv'
<1>1. /\ pc \in {"ens", "ensrun", "ensfail"} /\ pc' \in {"ensrun", "ensfail", "died", "select"}
      /\ tries' \in {tries, MaxAttempts} /\ gen' \in {gen, Fresh} /\ parent' \in {parent, None}
      /\ rep' = rep \/ rep' = [rep EXCEPT ![cur].ens = 1]
      /\ UNCHANGED <<cfg, cur, arch, disk, meta, patch, root, restarts, att, seen, blamed>>
  BY DEF StartEnsemble, FinishEnsemble, CleanUpRaises, apply_diffs_container, GenerationOver,
     fileVars, history
<1>2. \/ tainted' = tainted /\ (pc' \in InContainer \/ (UNCHANGED tree /\ pc \notin InContainer)
                                \/ tree' = Clean)
      \/ CleanUpRaises /\ tries' = tries
  BY DEF StartEnsemble, FinishEnsemble, CleanUp, apply_diffs_container, fileVars, history,
     InContainer
<1>3. gen' \in Nodes /\ rep' \in [Gens -> Reports]
  <2>1. Fresh \in Nodes /\ gen \in Nodes /\ rep \in [Gens -> Reports] /\ rep[cur] \in Reports
    BY BoundsAssumption, FreshNode, LoopFlat
  <2>2. [rep[cur] EXCEPT !.ens = 1] \in Reports
    BY <2>1 DEF Reports
  <2> QED BY <1>1, <2>1, <2>2
<1>4. Places'
  BY <1>1, LoopFlat DEF LoopInv, Position, Places, GenSteps, LoopSteps, Listed
<1>5. CASE CleanUpRaises /\ tries' = tries
  BY <1>1, <1>3, <1>5, CleanUpRaisesInv
<1>6. CASE ~(CleanUpRaises /\ tries' = tries)
  <2>1. tainted' = tainted /\ (pc' \in InContainer \/ (UNCHANGED tree /\ pc \notin InContainer)
                                \/ tree' = Clean)
    BY <1>2, <1>6
  <2>2. Types'
    BY <1>1, <1>3, <2>1, BoundsAssumption DEF LoopInv, Types, TypeOK, LoopLevel
  <2> QED BY <1>1, <1>4, <2>1, <2>2, LoopLevelInv DEF SameNodes, WithdrawnNow, Making, GenSteps
<1> QED BY <1>5, <1>6

\* Among finitely many scored generations there is a best one, the first of equals.
LEMMA BestOfScored ==
    ASSUME NEW n \in Nat, NEW C, C \subseteq 0 .. n, C # {}, NEW f, \A c \in C : f[c] \in Nat
    PROVE  \E g \in C : \A h \in C : f[h] < f[g] \/ (f[h] = f[g] /\ g <= h)
<1> DEFINE Below(k) == {c \in C : c < k}
           HasBest(k) == \E g \in Below(k) : \A h \in Below(k) :
                            f[h] < f[g] \/ (f[h] = f[g] /\ g <= h)
           Bad == {k \in Nat : Below(k) # {} /\ ~HasBest(k)}
<1>1. C \subseteq Nat /\ Below(n + 1) = C /\ n + 1 \in Nat
  <2>1. \A c \in C : c \in Nat /\ c < n + 1
    OBVIOUS
  <2>2. C = {c \in C : c < n + 1}
    BY <2>1
  <2>3. C \subseteq Nat
    BY <2>1
  <2> QED BY <2>2, <2>3
<1>2. Bad = {}
  <2> SUFFICES ASSUME Bad # {} PROVE FALSE
    OBVIOUS
  <2>1. PICK k \in Bad : \A j \in Bad : k <= j
    <3> HIDE DEF Below, HasBest
    <3>1. Bad \subseteq Nat
      OBVIOUS
    <3> HIDE DEF Bad
    <3> QED BY <3>1, LeastNatural
  <2>2. k \in Nat /\ Below(k) # {} /\ ~HasBest(k)
    BY <2>1
  <2>3. k # 0 /\ k - 1 \in Nat /\ k - 1 \notin Bad
    <3>1. k # 0
      <4>1. PICK c \in Below(k) : TRUE
        BY <2>2
      <4>2. c \in Nat /\ c < k
        BY <1>1
      <4> QED BY <2>2, <4>2
    <3> HIDE DEF Bad, Below, HasBest
    <3> QED BY <2>1, <2>2, <3>1 DEF Bad
  <2>4. \A c \in Below(k) : c \in Below(k - 1) \/ c = k - 1
    BY <1>1, <2>2, <2>3
  <2>5. \A c \in Below(k - 1) : c \in Below(k) /\ c < k - 1 /\ c \in Nat
    BY <1>1, <2>2, <2>3
  <2>6. CASE Below(k - 1) = {}
    <3>1. k - 1 \in Below(k) /\ \A h \in Below(k) : h = k - 1
      <4>1. PICK c \in Below(k) : TRUE
        BY <2>2
      <4> HIDE DEF Below
      <4> QED BY <2>4, <2>6, <4>1
    <3>2. f[k - 1] = f[k - 1] /\ k - 1 <= k - 1
      BY <2>3
    <3>3. \A h \in Below(k) : f[h] = f[k - 1] /\ k - 1 <= h
      BY <3>1, <3>2
    <3> QED BY <2>2, <3>1, <3>3
  <2>7. CASE Below(k - 1) # {}
    <3>1. HasBest(k - 1)
      BY <2>3, <2>7
    <3>2. PICK g \in Below(k - 1) : \A h \in Below(k - 1) :
             f[h] < f[g] \/ (f[h] = f[g] /\ g <= h)
      BY <3>1
    <3>3. g \in Below(k) /\ g < k - 1 /\ f[g] \in Nat /\ g \in Nat
      BY <2>5, <3>2
    <3>4. CASE k - 1 \notin C
      <4>1. \A h \in Below(k) : h \in Below(k - 1)
        BY <2>4, <3>4
      <4> QED BY <2>2, <3>2, <3>3, <4>1
    <3>5. CASE k - 1 \in C
      <4>1. f[k - 1] \in Nat /\ k - 1 \in Below(k)
        BY <2>3, <3>5
      <4>2. CASE f[g] < f[k - 1]
        <5>1. ASSUME NEW h \in Below(k) PROVE f[h] < f[k - 1] \/ (f[h] = f[k - 1] /\ k - 1 <= h)
          <6>1. h \in Below(k - 1) => f[h] < f[g] \/ f[h] = f[g]
            BY <3>2
          <6>2. f[h] \in Nat
            OBVIOUS
          <6>3. CASE h = k - 1
            BY <2>3, <4>1, <6>3
          <6>4. CASE h \in Below(k - 1)
            <7> HIDE DEF Below
            <7> QED BY <3>3, <4>1, <4>2, <6>1, <6>2, <6>4
          <6> QED BY <2>4, <6>3, <6>4
        <5> QED BY <2>2, <4>1, <5>1
      <4>3. CASE ~(f[g] < f[k - 1])
        <5>1. ASSUME NEW h \in Below(k) PROVE f[h] < f[g] \/ (f[h] = f[g] /\ g <= h)
          <6>1. CASE h \in Below(k - 1)
            BY <3>2, <6>1
          <6>2. CASE h = k - 1
            <7>1. f[k - 1] < f[g] \/ f[k - 1] = f[g]
              <8>1. \A a, b \in Nat : ~(a < b) => b < a \/ b = a
                OBVIOUS
              <8>2. f[g] \in Nat /\ f[k - 1] \in Nat /\ ~(f[g] < f[k - 1])
                BY <3>3, <4>1, <4>3
              <8> QED BY <8>1, <8>2
            <7>2. g <= k - 1
              BY <2>3, <3>3
            <7> QED BY <6>2, <7>1, <7>2
          <6> QED BY <2>4, <6>1, <6>2
        <5> QED BY <2>2, <3>3, <5>1
      <4> QED BY <4>2, <4>3
    <3> QED BY <3>4, <3>5
  <2> QED BY <2>6, <2>7
<1>3. HasBest(n + 1)
  <2>1. n + 1 \notin Bad
    BY <1>2
  <2> QED BY <1>1, <2>1
<1> QED BY <1>1, <1>3

\* Every candidate has a number for its score.
LEMMA MeanType ==
    ASSUME LoopInv, NEW g \in Gens, g \in Candidates
    PROVE  Mean(g) \in Nat
<1>1. rep[g] \in Reports /\ \A d \in cfg.doms : Scores(g, d) # {}
  BY LoopFlat DEF Candidates
<1>2. "dom" \in cfg.doms => SavedScore(g, "dom") \in Nat
  <2> SUFFICES ASSUME "dom" \in cfg.doms PROVE SavedScore(g, "dom") \in Nat
    OBVIOUS
  <2>1. Scores(g, "dom") = {1}
    BY <1>1 DEF Scores, Reports
  <2> DEFINE s == CHOOSE s \in Scores(g, "dom") : \A t \in Scores(g, "dom") : t <= s
  <2>2. s = 1
    BY <2>1
  <2>3. SavedScore(g, "dom") \in {60 * s, 6 * s}
    BY DEF SavedScore
  <2> HIDE DEF s
  <2> QED BY <2>2, <2>3
<1>3. "poly" \in cfg.doms => SavedScore(g, "poly") \in Nat
  <2> SUFFICES ASSUME "poly" \in cfg.doms PROVE SavedScore(g, "poly") \in Nat
    OBVIOUS
  <2>1. rep[g].poly \in Nat /\ Scores(g, "poly") = {rep[g].poly}
    BY <1>1 DEF Scores, Reports
  <2> DEFINE s == CHOOSE s \in Scores(g, "poly") : \A t \in Scores(g, "poly") : t <= s
  <2>2. \E v \in Scores(g, "poly") : \A t \in Scores(g, "poly") : t <= v
    BY <2>1
  <2>3. s = rep[g].poly
    BY <2>1, <2>2
  <2>4. SavedScore(g, "poly") \in {6 * s, 1 * s}
    BY DEF SavedScore
  <2> HIDE DEF s
  <2> QED BY <2>1, <2>3, <2>4
<1> QED BY <1>2, <1>3 DEF Mean

\* What select_parent() answers is in the archive, and valid unless a starting node.
LEMMA SelectedArchived ==
    ASSUME LoopInv, arch = disk, disk # <<>>, NEW p \in Selected
    PROVE  /\ p \in Gens /\ p < Len(disk)
           /\ p = 0 \/ (meta[p] # None /\ meta[p].valid)
<1>1. \A c \in Candidates : /\ c \in Gens /\ c < Len(disk)
                            /\ c = 0 \/ (meta[c] # None /\ meta[c].valid)
  <2>1. \A c \in ToSet(disk) : c \in Gens
    BY LoopFlat DEF ToSet
  <2> QED BY <2>1, LoopFlat DEF Candidates, MetaOf
<1>2. CASE Candidates = {}
  <2>1. p = disk[1] /\ 1 \in DOMAIN disk
    BY <1>2, LoopFlat DEF Selected
  <2> QED BY <2>1, LoopFlat
<1>3. CASE Candidates # {}
  <2>1. Gens = 0 .. MaxGen /\ MaxGen \in Nat /\ Candidates \subseteq 0 .. MaxGen
    BY <1>1, LoopFlat
  <2>2. p \in Candidates
    <3>1. CASE cfg.method = "latest"
      <4>1. \E g \in Candidates : \A h \in Candidates : h <= g
        <5>1. Candidates \subseteq Nat /\ \A h \in Candidates : h <= MaxGen
          BY <2>1
        <5> QED BY <1>3, <2>1, <5>1, GreatestNatural
      <4>2. p = CHOOSE g \in Candidates : \A h \in Candidates : h <= g
        BY <1>3, <3>1 DEF Selected
      <4> HIDE DEF Candidates
      <4> QED BY <4>1, <4>2
    <3>2. CASE cfg.method = "best"
      <4> DEFINE f == [h \in Gens |-> Mean(h)]
      <4>1. \A h \in Candidates : f[h] = Mean(h) /\ f[h] \in Nat
        BY <1>1, MeanType
      <4> HIDE DEF f
      <4>2. \E g \in Candidates : \A h \in Candidates : f[h] < f[g] \/ (f[h] = f[g] /\ g <= h)
        BY <1>3, <2>1, <4>1, BestOfScored
      <4>3. \E g \in Candidates : \A h \in Candidates :
               Mean(h) < Mean(g) \/ (Mean(h) = Mean(g) /\ g <= h)
        BY <4>1, <4>2
      <4>4. p = CHOOSE g \in Candidates : \A h \in Candidates :
                    Mean(h) < Mean(g) \/ (Mean(h) = Mean(g) /\ g <= h)
        BY <1>3, <3>2 DEF Selected
      <4> QED BY <4>3, <4>4
    <3>3. CASE cfg.method \notin {"latest", "best"}
      BY <1>3, <3>3 DEF Selected
    <3> QED BY <3>1, <3>2, <3>3
  <2> QED BY <1>1, <2>2
<1> QED BY <1>2, <1>3

\* The next generation has a number of its own, and a parent from the archive or none.
LEMMA NextGenerationInv ==
    ASSUME LoopInv, PolyTypeOK', pc \in LoopSteps, pc \notin Making,
           NEW p, NextGeneration(p), p \in Gens \cup {Ghost}, p \in Gens => p < Len(disk),
           UNCHANGED <<cfg, arch, disk, gen, meta, patch, rep, root, restarts, att, seen, blamed,
                       tainted, tries>>,
           (UNCHANGED tree /\ pc \notin InContainer) \/ tree' = Clean
    PROVE  LoopInv'
<1>1. /\ arch = disk /\ disk # <<>> /\ parent' = p /\ pc' \in {"done", "build"}
      /\ pc' = "done" => cur' = cur
      /\ pc' = "build" => cur' = Len(arch) /\ ~(Len(arch) > cfg.gens)
  <2>1. arch = disk /\ disk # <<>>
    BY DEF LoopInv, Position, Places
  <2>2. parent' = p /\ pc' \in {"done", "build"}
    BY DEF NextGeneration
  <2>3. /\ pc' = "done" => cur' = cur
        /\ pc' = "build" => cur' = Len(arch) /\ ~(Len(arch) > cfg.gens)
    BY DEF NextGeneration
  <2> QED BY <2>1, <2>2, <2>3
<1>2. cur' \in Gens /\ (pc' = "build" => cur' = Len(disk) /\ cur' # 0)
  <2>1. cfg.gens \in 0 .. MaxGen
    BY LoopFlat DEF ConfigType
  <2>2. Len(disk) \in Nat /\ Len(disk) # 0 /\ Gens = 0 .. MaxGen /\ MaxGen \in Nat /\ cur \in Gens
    BY <1>1, LoopFlat
  <2> QED BY <1>1, <2>1, <2>2
<1>3. Types'
  BY <1>1, <1>2 DEF LoopInv, Types, TypeOK, LoopLevel
<1>4. Places'
  BY <1>1, <1>2 DEF Places, GenSteps, LoopSteps, Listed
<1> QED BY <1>1, <1>2, <1>3, <1>4, LoopLevelInv DEF SameNodes, WithdrawnNow, Making, GenSteps

\* The parent is selected by the loop or by a node's own script.
LEMMA SelectionInv ==
    ASSUME LoopInv, PolyTypeOK', SelectParent \/ StartSelectNext \/ SelectNextParent
    PROVE  LoopInv'
<1>1. CASE SelectParent
  <2>1. /\ pc = "select" /\ \E p \in Selected : NextGeneration(p)
        /\ UNCHANGED <<cfg, arch, disk, gen, meta, patch, rep, tree, root, restarts, att, seen,
                       blamed, tainted, tries>>
    BY <1>1 DEF SelectParent, fileVars, history
  <2>2. PICK p \in Selected : NextGeneration(p)
    BY <2>1
  <2>3. p \in Gens /\ p < Len(disk)
    <3>1. arch = disk /\ disk # <<>>
      BY <2>1 DEF LoopInv, Position, Places, LoopSteps
    <3> QED BY <3>1, SelectedArchived
  <2> QED BY <2>1, <2>2, <2>3, NextGenerationInv DEF LoopSteps, Making, GenSteps, InContainer
<1>2. CASE StartSelectNext
  <2>1. /\ pc = "select" /\ pc' \in {"nprun", "npfail", "died"}
        /\ UNCHANGED <<cfg, cur, parent, arch, disk, gen, meta, patch, rep, root, tries, restarts,
                       att, seen, blamed, tainted>>
        /\ pc' = "died" => UNCHANGED tree
    BY <1>2 DEF StartSelectNext, apply_diffs_container, fileVars, history
  <2>2. Types'
    BY <2>1 DEF LoopInv, Types, TypeOK, LoopLevel
  <2>3. Places'
    BY <2>1 DEF LoopInv, Position, Places, GenSteps, LoopSteps, Listed
  <2> QED BY <2>1, <2>2, <2>3, LoopLevelInv DEF SameNodes, WithdrawnNow, Making, GenSteps,
      InContainer
<1>3. CASE SelectNextParent
  <2>1. /\ pc \in {"nprun", "npfail"}
        /\ UNCHANGED <<cfg, arch, disk, gen, patch, rep, root, restarts, att, seen, blamed>>
    BY <1>3 DEF SelectNextParent
  <2>2. arch = disk /\ disk # <<>>
    BY <2>1 DEF LoopInv, Position, Places, LoopSteps
  <2>3. CASE CleanUp /\ (\E p \in Answers : NextGeneration(p)) /\ UNCHANGED <<meta, tries, tainted>>
    <3>1. PICK p \in Answers : NextGeneration(p)
      BY <2>3
    <3>2. p \in Gens \cup {Ghost} /\ (p \in Gens => p < Len(disk))
      <4>1. \A c \in ToSet(disk) : c \in Gens /\ c < Len(disk)
        <5>1. \A c \in ToSet(disk) : c \in Gens
          BY LoopFlat DEF ToSet
        <5> QED BY <5>1, LoopFlat
      <4>2. p \in ToSet(disk) \/ p = Ghost
        BY <2>2 DEF Answers, Candidates
      <4> QED BY <4>1, <4>2, LoopFlat
    <3> QED BY <2>1, <2>3, <3>1, <3>2, NextGenerationInv DEF LoopSteps, Making, GenSteps, CleanUp
  <2>4. CASE CleanUp /\ SelectFailed /\ UNCHANGED <<cur, parent, tainted>>
    <3>1. /\ pc' \in {"died", "select"} /\ tree' = Clean
          /\ tries' = IF tries = 0 THEN 0 ELSE tries - 1
          /\ meta' = IF MetaOf(LatestCanSelect) = None THEN meta
                     ELSE [meta EXCEPT ![LatestCanSelect].can = FALSE]
      BY <2>4 DEF CleanUp, SelectFailed
    <3>2. SameNodes /\ meta' \in [Gens -> Nodes \cup {None}]
      BY <3>1, FlagsEdited
    <3>3. tries' \in 0 .. MaxAttempts
      BY <3>1, BoundsAssumption DEF LoopInv, Types, TypeOK
    <3>4. Types'
      BY <2>1, <2>4, <3>1, <3>2, <3>3 DEF LoopInv, Types, TypeOK, LoopLevel
    <3>5. Places'
      BY <2>1, <2>4, <3>1 DEF LoopInv, Position, Places, GenSteps, LoopSteps, Listed
    <3> QED BY <2>1, <2>4, <3>1, <3>2, <3>4, <3>5, LoopLevelInv DEF WithdrawnNow, Making, GenSteps
  <2>5. CASE CleanUpRaises /\ UNCHANGED <<cur, parent, meta, tries>>
    BY <2>1, <2>5, CleanUpRaisesInv, LoopFlat
  <2> QED BY <1>3, <2>3, <2>4, <2>5 DEF SelectNextParent
<1> QED BY <1>1, <1>2, <1>3

\* The other callers of the harness, and the harness at work.
LEMMA OtherCallersInv ==
    ASSUME LoopInv, HarnessInv, PolyTypeOK', StartGan \/ StartCli \/ JobDone \/ HarnessRuns
    PROVE  LoopInv'
<1>1. CASE StartGan \/ StartCli \/ JobDone
  <2>1. /\ pc \in {"setup", "job", "down", "died"} /\ pc' \in {"job", "done", "died"}
        /\ restarts' = restarts \/ (restarts < MaxRestarts /\ restarts' = restarts + 1)
        /\ UNCHANGED <<cfg, cur, parent, arch, disk, gen, meta, patch, rep, tree, root, tries, att,
                       seen, blamed, tainted>>
    BY <1>1 DEF StartGan, StartCli, JobDone, fileVars, history
  <2>2. restarts' \in 0 .. MaxRestarts
    BY <2>1, BoundsAssumption DEF LoopInv, Types, TypeOK
  <2>3. Types'
    BY <2>1, <2>2 DEF LoopInv, Types, TypeOK, LoopLevel
  <2>4. Places'
    BY <2>1 DEF LoopInv, Position, Places, GenSteps, LoopSteps, Listed
  <2> QED BY <2>1, <2>3, <2>4, LoopLevelInv DEF SameNodes, WithdrawnNow, Making, GenSteps,
      InContainer
<1>2. CASE HarnessRuns
  <2>1. /\ pc \in {"small", "both", "job"}
        /\ UNCHANGED <<cfg, pc, cur, parent, arch, disk, gen, meta, patch, rep, tree, root, tries,
                       restarts, att, seen, blamed, tainted>>
    BY <1>2 DEF HarnessRuns, loopVars, fileVars, history
  <2>2. job'.entries = job.entries
    <3>1. \/ job' = job
          \/ \E s : job' = [job EXCEPT !.st = s]
          \/ job' = [job EXCEPT !.st = "done", !.report = RunReport]
      BY <1>2 DEF HarnessRuns, HarnessStep, BuildBase, PlanEnv, BuildEnv, FinishHarness, TakeEntry,
         BuildContainer, Stage, Score, Cleanup
    <3> QED BY <3>1, HarnessFlat
  <2>3. Types'
    BY <2>1 DEF LoopInv, Types, TypeOK, LoopLevel
  <2>4. Places'
    BY <2>1, <2>2 DEF LoopInv, Position, Places, GenSteps, LoopSteps, Listed
  <2> QED BY <2>1, <2>3, <2>4, LoopLevelInv DEF SameNodes, WithdrawnNow, Making, GenSteps,
      InContainer
<1> QED BY <1>1, <1>2

\* A kill at any step leaves what the next run starts from.
LEMMA KillInv ==
    ASSUME LoopInv, PolyTypeOK', Kill
    PROVE  LoopInv'
<1>1. /\ pc' = "down" /\ pc # "setup" /\ tainted' = (tainted \/ tree # Clean)
      /\ arch' = <<>> /\ gen' = Fresh /\ parent' = None /\ cur' = 0
      /\ UNCHANGED <<cfg, disk, meta, patch, rep, tree, root, tries, restarts, att, seen, blamed>>
  BY DEF Kill, MemoryLost, fileVars
<1>2. Types'
  <2>1. Fresh \in Nodes /\ <<>> \in Seq(Gens) /\ 0 \in Gens
    BY BoundsAssumption, FreshNode, LoopFlat
  <2> QED BY <1>1, <2>1 DEF LoopInv, Types, TypeOK, LoopLevel
<1>3. Places'
  BY <1>1, LoopFlat DEF Places, GenSteps, LoopSteps, Listed
<1>4. Trees'
  BY <1>1 DEF LoopInv, Position, Trees, InContainer, Clean, InitialTree
<1> QED BY <1>1, <1>2, <1>3, <1>4, OutsideInv DEF SameNodes, WithdrawnNow, Making, GenSteps

-----------------------------------------------------------------------------
(*                              Theorems                                   *)

\* A run starts with nothing archived and no exercise under way.
LEMMA InitialInv == Init => LoopInv /\ HarnessInv
<1> SUFFICES ASSUME Init PROVE LoopInv /\ HarnessInv
  OBVIOUS
<1>1. /\ pc = "setup" /\ cur = 0 /\ parent = None /\ arch = <<>> /\ disk = <<>> /\ gen = Fresh
      /\ meta = [g \in Gens |-> None] /\ rep = [g \in Gens |-> NoReport]
      /\ patch = [g \in Gens |-> IF g = 0 THEN <<0, 0>> ELSE Absent]
      /\ tree = InitialTree /\ root = <<>> /\ tries = MaxAttempts /\ restarts = 0
      /\ att = [g \in Gens |-> 0] /\ seen = [g \in Gens |-> None] /\ blamed = {} /\ tainted = FALSE
      /\ cfg \in ConfigType
  BY CallersAssumption DEF Init
<1>2. Gens = 0 .. MaxGen /\ MaxGen \in Nat /\ 0 \in Gens /\ None \notin Gens /\ Len(<<>>) = 0
  BY BoundsAssumption, AbsenceAssumption DEF Gens
<1>3. PolyTypeOK
  BY DEF Init, PolyInit, PolyTypeOK, Idle, Patches
<1>4. HarnessInv
  <2>1. job.st = "idle" /\ \A i \in Instances : ent[i] = Idle /\ Idle.pc = "idle" /\ Idle \in Entries
    BY DEF Init, PolyInit, Idle, Entries, Patches
  <2>2. ent \in [Instances -> Entries]
    BY <2>1 DEF Init, PolyInit
  <2>3. Harnessed
    <3>1. job.patches \in [Instances -> Patches] /\ job.evalOnly \in BOOLEAN
      BY DEF Init, PolyInit, Patches
    <3>2. job = [st |-> job.st, entries |-> job.entries, evalOnly |-> job.evalOnly,
                 patches |-> job.patches, report |-> job.report]
      BY DEF Init, PolyInit
    <3> QED BY <2>1, <2>2, <3>1, <3>2 DEF Harnessed
  <2> QED BY <1>3, <2>1, <2>3 DEF HarnessInv, ImagesCurrent, ReportMatchesFiles
<1>5. Types
  <2>1. Fresh \in Nodes /\ NoReport \in Reports
    BY BoundsAssumption, FreshNode DEF NoReport, Reports
  <2>2. <<>> \in Seq(Gens) /\ 0 \in 0 .. MaxRestarts /\ MaxAttempts \in 0 .. MaxAttempts
    BY BoundsAssumption
  <2>3. TypeOK
    BY <1>1, <1>2, <1>3, <2>2 DEF TypeOK, LoopLevel
  <2> QED BY <1>1, <1>2, <2>1, <2>3 DEF Types
<1>6. History
  BY <1>1, <1>2 DEF History, ArchiveDurable, Untried, CodeIsLineage, Withdrawn
<1>7. Places
  BY <1>1, <1>2 DEF Places, Untouched, GenSteps, LoopSteps, Listed
<1>8. Descended /\ Trees /\ FirstTry
  BY <1>1, <1>2 DEF Descended, LineagesDescend, Trees, FirstTry, Making, GenSteps, InContainer
<1> QED BY <1>4, <1>5, <1>6, <1>7, <1>8 DEF LoopInv, Position

\* The harness is called, left, killed or let run as it expects to be.
LEMMA HarnessNext ==
    ASSUME LoopInv, HarnessInv, [Next]_vars
    PROVE  HarnessInv'
<1> DEFINE none == [i \in Instances |-> None]
<1>1. none \in [Instances -> Patches] /\ Small \in SUBSET Instances
      /\ Small \cup Medium \in SUBSET Instances /\ Instances \in SUBSET Instances
      /\ TRUE \in BOOLEAN /\ FALSE \in BOOLEAN
  BY CallersAssumption DEF Patches
<1>2. \/ UNCHANGED polyVars
      \/ \E readable \in BOOLEAN : Harness(Small, FALSE, none, readable)
      \/ Harness(Small \cup Medium, FALSE, none, TRUE)
      \/ Harness(Instances, FALSE, none, TRUE)
      \/ \E ps \in GivenPatches : Harness(Instances, TRUE, ps, TRUE)
      \/ LeaveDirectory
      \/ HarnessStep
      \/ HarnessKilled /\ UNCHANGED img
  <2>1. CASE UNCHANGED vars
    BY <2>1 DEF vars
  <2>2. CASE StartPolyglot
    BY <2>2 DEF StartPolyglot, Readable
  <2>3. CASE SmallDone
    BY <2>3 DEF SmallDone
  <2>4. CASE PolyglotDied \/ BothDone \/ Kill
    BY <2>4 DEF PolyglotDied, BothDone, Kill
  <2>5. CASE StartGan \/ StartCli
    BY <2>5 DEF StartGan, StartCli
  <2>6. CASE HarnessRuns
    BY <2>6 DEF HarnessRuns
  <2>7. CASE \/ SetupInitialGen \/ StartContainer \/ ApplyLineage \/ CopyFails
             \/ RunMetaAgent \/ CheckCompilation \/ StagedEval \/ StagedGate \/ FullEval
             \/ FinishGenerate \/ SaveArchive \/ BlameParent \/ StartEnsemble \/ FinishEnsemble
             \/ SelectParent \/ StartSelectNext \/ SelectNextParent \/ JobDone \/ Resume \/ Interrupt
    BY <2>7 DEF SetupInitialGen, StartContainer, ApplyLineage, CopyFails, RunMetaAgent,
       CheckCompilation, StagedEval, StagedGate, FullEval, FinishGenerate, SaveArchive,
       BlameParent, StartEnsemble, FinishEnsemble, SelectParent, StartSelectNext,
       SelectNextParent, JobDone, Resume, Interrupt
  <2> QED BY <2>1, <2>2, <2>3, <2>4, <2>5, <2>6, <2>7 DEF Next, MainStep
<1> HIDE DEF none
<1>3. CASE UNCHANGED polyVars
  BY <1>3 DEF polyVars, HarnessInv, PolyTypeOK, Harnessed, ImagesCurrent, ReportMatchesFiles
<1>4. ASSUME NEW readable \in BOOLEAN, Harness(Small, FALSE, none, readable) PROVE HarnessInv'
  BY <1>1, <1>4, CallInv
<1>5. CASE Harness(Small \cup Medium, FALSE, none, TRUE)
  BY <1>1, <1>5, CallInv
<1>6. CASE Harness(Instances, FALSE, none, TRUE)
  BY <1>1, <1>6, CallInv
<1>7. ASSUME NEW ps \in GivenPatches, Harness(Instances, TRUE, ps, TRUE) PROVE HarnessInv'
  <2>1. ps \in [Instances -> Patches]
    BY CallersAssumption
  <2> QED BY <1>1, <1>7, <2>1, CallInv
<1>8. CASE LeaveDirectory
  BY <1>8, LeaveInv
<1>9. CASE HarnessStep
  BY <1>9, HarnessStepInv
<1>10. CASE HarnessKilled /\ UNCHANGED img
  BY <1>10, KilledInv
<1> QED BY <1>2, <1>3, <1>4, <1>5, <1>6, <1>7, <1>8, <1>9, <1>10

\* The invariant is inductive.
LEMMA LoopNext == LoopInv /\ HarnessInv /\ [Next]_vars => LoopInv' /\ HarnessInv'
<1> SUFFICES ASSUME LoopInv, HarnessInv, [Next]_vars PROVE LoopInv' /\ HarnessInv'
  OBVIOUS
<1>1. HarnessInv' /\ PolyTypeOK'
  <2>1. HarnessInv'
    BY HarnessNext
  <2> QED BY <2>1 DEF HarnessInv
<1>2. CASE UNCHANGED vars
  <2>1. UNCHANGED <<cfg, pc, cur, parent, arch, disk, gen, meta, patch, rep, tree, root, tries,
                    restarts, att, seen, blamed, tainted, job>>
    BY <1>2 DEF vars, loopVars, fileVars, history, polyVars
  <2>2. Types'
    BY <1>1, <2>1 DEF LoopInv, Types, TypeOK, LoopLevel
  <2>3. History'
    BY <2>1, HistoryKept DEF SameNodes, WithdrawnNow
  <2>4. Places' /\ Descended'
    BY <2>1 DEF LoopInv, Position, Places, Untouched, Descended, LineagesDescend, Descends
  <2>5. Trees' /\ FirstTry'
    <3>1. /\ Contents(gen.prev)' = Contents(gen.prev)
          /\ Contents(gen.prev \o gen.curr)' = Contents(gen.prev \o gen.curr)
      BY <2>1 DEF Contents
    <3> QED BY <2>1, <3>1 DEF LoopInv, Position, Trees, FirstTry
  <2> QED BY <1>1, <2>2, <2>3, <2>4, <2>5 DEF LoopInv, Position
<1>3. CASE Next
  <2>1. CASE SetupInitialGen \/ StartContainer \/ ApplyLineage \/ RunMetaAgent \/ FinishGenerate
             \/ SaveArchive \/ BlameParent \/ Resume \/ Kill
    BY <1>1, <2>1, SetupInitialGenInv, StartContainerInv, ApplyLineageInv, RunMetaAgentInv,
       FinishGenerateInv, SaveArchiveInv, BlameParentInv, ResumeInv, KillInv
  <2>2. CASE CopyFails \/ CheckCompilation \/ StagedGate \/ Interrupt
    BY <1>1, <2>2, TryBlockInv
  <2>3. CASE StagedEval \/ FullEval
    BY <1>1, <2>3, EvaluationInv
  <2>4. CASE StartPolyglot \/ PolyglotDied
    BY <1>1, <2>4, StartPolyglotInv
  <2>5. CASE SmallDone \/ BothDone
    BY <1>1, <2>5, PolyglotScoredInv
  <2>6. CASE StartEnsemble \/ FinishEnsemble
    BY <1>1, <2>6, EnsembleInv
  <2>7. CASE SelectParent \/ StartSelectNext \/ SelectNextParent
    BY <1>1, <2>7, SelectionInv
  <2>8. CASE StartGan \/ StartCli \/ JobDone \/ HarnessRuns
    BY <1>1, <2>8, OtherCallersInv
  <2> QED BY <1>1, <1>3, <2>1, <2>2, <2>3, <2>4, <2>5, <2>6, <2>7, <2>8 DEF Next, MainStep
<1> QED BY <1>2, <1>3

\* Every reachable state satisfies it.
LEMMA AlwaysLoopInv == Spec => [](LoopInv /\ HarnessInv)
BY InitialInv, LoopNext, PTL DEF Spec

\* Over any number of generations, failures, kills and resumes, a generation
\* starts on the initial tree, a node that was scored in one attempt was scored
\* on the code its lineage rebuilds, and the archive numbers the generations
\* without a gap and before the ensemble reads it (generate_loop.py).
THEOREM ArchiveStaysSound == Spec => []ArchiveSound
<1>1. LoopInv => ArchiveSound
  <2> SUFFICES ASSUME LoopInv PROVE ArchiveSound
    OBVIOUS
  <2>1. CleanBetween
    BY DEF LoopInv, Position, Trees, CleanBetween, LoopLevel, InContainer
  <2>2. EnsembleSeesNode
    BY LoopFlat DEF LoopInv, Position, Places, Listed, EnsembleSeesNode
  <2> QED BY <2>1, <2>2 DEF LoopInv, Types, History, ArchiveSound
<1> QED BY <1>1, AlwaysLoopInv, PTL

\* For any exercises, pool size, image cache and build failures an exercise runs
\* on current images, and the report agrees with the result files (polyglot).
THEOREM ScoresStaySound == Spec => []ScoresSound
<1>1. HarnessInv => ScoresSound
  BY DEF HarnessInv, ScoresSound
<1> QED BY <1>1, AlwaysLoopInv, PTL

\* No withdrawn parent is selected again by the loop (select_parent).
LEMMA SelectsNoWithdrawn ==
    ASSUME LoopInv, Next, pc = "select", pc' \in {"build", "done"}, ~cfg.edit
    PROVE  parent' = 0 \/ parent' \notin blamed
<1>1. SelectParent
  <2>1. CASE SetupInitialGen \/ StartContainer \/ ApplyLineage \/ CopyFails
             \/ RunMetaAgent \/ CheckCompilation \/ StagedEval \/ StagedGate \/ FullEval
             \/ FinishGenerate \/ SaveArchive \/ BlameParent \/ StartPolyglot
             \/ PolyglotDied \/ SmallDone \/ BothDone \/ StartEnsemble \/ FinishEnsemble
    BY <2>1 DEF SetupInitialGen, StartContainer, ApplyLineage, CopyFails, RunMetaAgent,
       CheckCompilation, StagedEval, StagedGate, FullEval, FinishGenerate, SaveArchive,
       BlameParent, StartPolyglot, PolyglotDied, SmallDone, BothDone, StartEnsemble, FinishEnsemble
  <2>2. CASE StartSelectNext \/ SelectNextParent \/ StartGan \/ JobDone \/ HarnessRuns \/ StartCli
             \/ Resume \/ Interrupt \/ Kill
    BY <2>2 DEF StartSelectNext, SelectNextParent, StartGan, JobDone, HarnessRuns, StartCli, Resume,
       Interrupt, Kill
  <2> QED BY <2>1, <2>2 DEF Next, MainStep
<1>2. PICK p \in Selected : parent' = p
  BY <1>1 DEF SelectParent, NextGeneration
<1>3. arch = disk /\ disk # <<>>
  BY DEF LoopInv, Position, Places, LoopSteps
<1>4. p \in Gens /\ (p = 0 \/ (meta[p] # None /\ meta[p].valid))
  BY <1>3, SelectedArchived
<1> QED BY <1>2, <1>4 DEF LoopInv, History, Withdrawn

\* A result is written for an exercise that has none (process_entry).
LEMMA KeepsResults ==
    ASSUME HarnessInv, [Next]_vars, NEW i \in Instances, res[i] \in Results, job'.st # "idle"
    PROVE  res'[i] = res[i]
<1>1. \/ UNCHANGED res
      \/ \E j \in Instances : \E out : ent[j].pc \in {"image", "stage", "score"} /\ Record(j, out)
      \/ LeaveDirectory \/ HarnessKilled
  <2>1. CASE UNCHANGED vars
    BY <2>1 DEF vars, polyVars
  <2>2. CASE \/ SetupInitialGen \/ StartContainer \/ ApplyLineage \/ CopyFails
             \/ RunMetaAgent \/ CheckCompilation \/ StagedEval \/ StagedGate \/ FullEval
             \/ FinishGenerate \/ SaveArchive \/ BlameParent \/ StartEnsemble \/ FinishEnsemble
             \/ SelectParent \/ StartSelectNext \/ SelectNextParent \/ JobDone \/ Resume \/ Interrupt
    BY <2>2 DEF SetupInitialGen, StartContainer, ApplyLineage, CopyFails, RunMetaAgent,
       CheckCompilation, StagedEval, StagedGate, FullEval, FinishGenerate, SaveArchive,
       BlameParent, StartEnsemble, FinishEnsemble, SelectParent, StartSelectNext,
       SelectNextParent, JobDone, Resume, Interrupt, polyVars
  <2>3. CASE StartPolyglot \/ SmallDone \/ StartGan \/ StartCli
    BY <2>3 DEF StartPolyglot, SmallDone, StartGan, StartCli, Harness, polyVars
  <2>4. CASE PolyglotDied \/ BothDone \/ Kill
    BY <2>4 DEF PolyglotDied, BothDone, Kill
  <2>5. CASE HarnessRuns
    <3>1. CASE BuildBase \/ PlanEnv \/ BuildEnv \/ FinishHarness
      BY <3>1 DEF BuildBase, PlanEnv, BuildEnv, FinishHarness
    <3>2. ASSUME NEW j \in Instances, TakeEntry(j) \/ Cleanup(j)
          PROVE  UNCHANGED res
      BY <3>2 DEF TakeEntry, Cleanup
    <3>3. ASSUME NEW j \in Instances, BuildContainer(j)
          PROVE  UNCHANGED res \/ (ent[j].pc = "image" /\ Record(j, "incomplete"))
      BY <3>3 DEF BuildContainer
    <3>4. ASSUME NEW j \in Instances, Stage(j)
          PROVE  UNCHANGED res \/ (ent[j].pc = "stage" /\ Record(j, "incomplete"))
      BY <3>4 DEF Stage
    <3>5. ASSUME NEW j \in Instances, Score(j)
          PROVE  \E out : ent[j].pc = "score" /\ Record(j, out)
      BY <3>5 DEF Score
    <3> QED BY <2>5, <3>1, <3>2, <3>3, <3>4, <3>5 DEF HarnessRuns, HarnessStep
  <2> QED BY <2>1, <2>2, <2>3, <2>4, <2>5 DEF Next, MainStep
<1>2. ASSUME NEW j \in Instances, NEW out, ent[j].pc \in {"image", "stage", "score"}, Record(j, out)
      PROVE  res'[i] = res[i]
  <2>1. res[j] = None
    BY <1>2 DEF HarnessInv, Harnessed
  <2>2. i # j
    BY <2>1, NoResultAssumption
  <2> QED BY <1>2, <2>2 DEF Record
<1>3. CASE LeaveDirectory \/ HarnessKilled
  <2>1. job'.st = "idle"
    BY <1>3, HarnessFlat DEF LeaveDirectory, HarnessKilled
  <2> QED BY <2>1
<1> QED BY <1>1, <1>2, <1>3

\* A node that was withdrawn is not a parent again, and a result that was
\* written stays, over kills and resumes (gl_utils.py, polyglot/harness.py).
THEOREM NothingIsRevived == Spec => NothingRevived
<1> DEFINE A == pc = "select" /\ pc' \in {"build", "done"} /\ ~ cfg.edit =>
                   parent' = 0 \/ parent' \notin blamed
           B == \A i \in Instances : res[i] \in Results /\ job'.st # "idle" => res'[i] = res[i]
<1>1. LoopInv /\ HarnessInv /\ [Next]_vars => [A]_vars /\ [B]_vars
  <2> SUFFICES ASSUME LoopInv, HarnessInv, [Next]_vars, vars' # vars PROVE A /\ B
    OBVIOUS
  <2>1. A
    BY SelectsNoWithdrawn
  <2>2. B
    BY KeepsResults
  <2> QED BY <2>1, <2>2
<1>2. NothingRevived <=> [][A]_vars /\ [][B]_vars
  BY DEF NothingRevived, WithdrawnStaysOut, ResultsKept
<1> HIDE DEF A, B
<1> QED BY <1>1, <1>2, AlwaysLoopInv, PTL DEF Spec

=============================================================================
