----------------------------- MODULE Evaluation -----------------------------
(***************************************************************************)
(* The evaluation of one generation: DomainTaskRunner (task_runner.py)     *)
(* applies the task patch, heals and persists the design, assembles the    *)
(* run directory, leases it to the sandbox user, runs the harness          *)
(* (domains/harness.py) whose thread pool asks one sandboxed agent         *)
(* (domains/task_worker.py) per question, and turns predictions.csv into   *)
(* a report and a scored node.  The harness can also be started by hand    *)
(* and resumed after a kill (kind "direct").                               *)
(*                                                                         *)
(* An answer is the question it was given for and whether it is right;     *)
(* texts, paths, hashes and timings are left out.                          *)
(***************************************************************************)
EXTENDS Integers, Sequences, FiniteSets, SequencesExt, FiniteSetsExt

CONSTANTS
    None,
    PoolSize,       \* questions in the dataset, in file order
    NumSamples,     \* num_samples, positive
    Workers,        \* num_workers of the thread pool
    SaveInterval,   \* a checkpoint is written at every SaveInterval-th row
    MaxStarts,      \* bound on the starts of a direct harness run
    FileCap, TotalCap,  \* knowledge_max_file_chars, knowledge_max_total_chars
    Jobs            \* the jobs examined, a subset of Job

ASSUME EvaluationAssumption ==
    /\ {PoolSize, NumSamples, Workers, SaveInterval, MaxStarts} \subseteq Nat \ {0}
    /\ {FileCap, TotalCap} \subseteq Nat

(* Python's None is no module name, reason, number or answer.              *)
ASSUME NoneAssumption ==
    /\ None \notin {"good", "refused", "legacy", "harness_failed", "no_report"}
    /\ None \notin Nat
    /\ None \notin [of : Int, right : BOOLEAN]

-----------------------------------------------------------------------------
(* What an evaluation is given.                                            *)

Kinds == {"parent", "polyglot", "existing", "direct"}
CmName == {None, "good", "refused"}  \* refused: a reserved or missing name, or the AST gate
PolicyName == CmName \cup {"legacy"}  \* unnamed, but the first file of the directory passes
Tools == {"base", "fresh", "ghost", "write_file"}
Design == [mode : {"passthrough", "slice", "custom"}, asm : CmName, pol : PolicyName,
           tools : SUBSET Tools]
Job == [kind : Kinds, seeded : BOOLEAN, anchors : SUBSET (1..PoolSize),
        patch : {"none", "lands", "fails"}, design : Design, notes : Seq(Nat)]

ASSUME JobsAssumption == Jobs \subseteq Job

(* Only some jobs run under the root broker and its ACL lease.             *)
Brokered(j) == j.kind # "direct"

VARIABLES
    job,        \* the plan and domain configuration of this evaluation
    stage,      \* where DomainTaskRunner.__call__ is
    gen,        \* what the runner has prepared so far
    granted,    \* ACL entries held by the sandbox user on the run's own trees
    refs, acl,  \* _TASK_TRAVERSE_REFS and the entry on the shared ancestor
    other,      \* a launch of an earlier generation that is still running
    rows,       \* the harness's dataset: question positions, in order
    labels,     \* the index labels of these rows
    preds, calls, consumed, failures, written,  \* the harness's memory
    starts, csv, failLog,  \* starts so far; predictions.csv; eval_failures.jsonl
    sidecar,    \* cm_events.jsonl of the run directory
    events, node

prepVars == <<job, gen>>
leaseVars == <<granted, refs, acl, other>>
memVars == <<rows, labels, preds, calls, consumed, failures, written>>
fileVars == <<starts, csv, failLog>>
outVars == <<sidecar, events, node>>
vars == <<job, stage, gen, granted, refs, acl, other, rows, labels, preds, calls,
          consumed, failures, written, starts, csv, failLog, sidecar, events, node>>

-----------------------------------------------------------------------------
(* Choosing the questions.                                                 *)

FirstOf(S, n) == {p \in S : Cardinality({q \in S : q <= p}) <= n}

(* The anchors that are kept: in file order, at most half of the budget.   *)
AnchorCore(anchors) == FirstOf(anchors \cap 1..PoolSize, NumSamples \div 2)

(* Every sample select_samples can return; one seed gives one of them.     *)
Samples(seeded, anchors) ==
    IF ~seeded THEN {FirstOf(1..PoolSize, NumSamples)}
    ELSE LET core == AnchorCore(anchors)
             rest == (1..PoolSize) \ core
             n == Min({NumSamples - Cardinality(core), Cardinality(rest)})
         IN {core \cup drawn : drawn \in kSubset(n, rest)}

Increasing(s) == \A i, j \in DOMAIN s : i < j => s[i] < s[j]
InFileOrder(S) == CHOOSE s \in [1..Cardinality(S) -> S] : Increasing(s)

(* The knowledge notes that fit: a note over the file cap, or one that     *)
(* would exceed the total, is skipped and the next one is tried.           *)
KnowledgeStep(total, size) ==
    IF size > FileCap \/ total + size > TotalCap THEN total ELSE total + size
KnowledgeTotals(notes) ==
    LET total[i \in 0..Len(notes)] ==
            IF i = 0 THEN 0 ELSE KnowledgeStep(total[i - 1], notes[i])
    IN total
KnowledgeTotal(notes) == KnowledgeTotals(notes)[Len(notes)]

-----------------------------------------------------------------------------
(* Preparing the generation.                                               *)

Registered(code) == {"base", "write_file"} \cup (IF code = "patched" THEN {"fresh"} ELSE {})

Blank == [of |-> 0, right |-> FALSE]
Answer(q, ok) == [of |-> q, right |-> ok]
Cut == [of |-> -1, right |-> FALSE]  \* a text that was cut by a kill during the save
Done(p) == p # None /\ p # Blank

NoGen == [code |-> "base", rejected |-> FALSE, tools |-> {}, persisted |-> {},
          pol |-> None, asm |-> None, skipped |-> {}, knowledge |-> 0]

Init ==
    /\ job \in Jobs
    /\ stage = IF Brokered(job) THEN "reconcile" ELSE "start"
    /\ gen = NoGen
    /\ granted \in IF Brokered(job) THEN {{}, {"run", "output"}} ELSE {{}}
    /\ other \in IF Brokered(job) /\ granted = {} THEN {"none", "live"} ELSE {"none"}
    /\ refs = IF other = "live" THEN 1 ELSE 0
    /\ acl = (other = "live" \/ granted # {})
    /\ rows = <<>> /\ labels = <<>> /\ preds = <<>> /\ calls = <<>>
    /\ consumed = 0 /\ failures = <<>> /\ written = 0
    /\ starts = 0 /\ csv = None /\ failLog = <<>>
    /\ sidecar = None /\ events = {} /\ node = None

(* register_outer of the broker first revokes what a killed broker left on *)
(* the work trees; an entry it cannot remove fails the registration.       *)
Reconcile ==
    /\ stage = "reconcile"
    /\ \/ granted' = {} /\ stage' = "patch"
       \/ granted # {} /\ UNCHANGED granted /\ stage' = "raised"
    /\ UNCHANGED <<prepVars, refs, acl, other, memVars, fileVars, outVars>>

(* The task patch is committed on the parent's code or rolled back to it.  *)
ApplyTaskPatch ==
    /\ stage = "patch"
    /\ gen' = [gen EXCEPT !.code = IF job.patch = "lands" THEN "patched" ELSE "base",
                          !.rejected = (job.patch = "fails"),
                          !.tools = job.design.tools \cup
                              (IF job.kind = "polyglot" THEN {"write_file"} ELSE {})]
    /\ stage' = "heal"
    /\ UNCHANGED <<job, leaseVars, memVars, fileVars, outVars>>

(* heal_design_slots only removes: what the committed registry resolves is *)
(* kept, in every role's design alike.                                     *)
Healed(tools, code) == tools \cap Registered(code)

(* The design is healed against the code it will run on, then persisted.   *)
HealAndPersist ==
    /\ stage = "heal"
    /\ LET kept == Healed(gen.tools, gen.code)
       IN /\ gen' = [gen EXCEPT !.tools = kept, !.persisted = kept]
          /\ events' = events \cup
                 (IF kept # gen.tools THEN {"design_dangling_stripped"} ELSE {})
    /\ stage' = "assemble"
    /\ UNCHANGED <<job, leaseVars, memVars, fileVars, sidecar, node>>

(* The named context-management modules that reach the run directory.      *)
Snapshot(d) ==
    IF d.mode = "passthrough"
    THEN [pol |-> None, asm |-> None, skipped |-> IF d.asm # None THEN {"asm"} ELSE {}]
    ELSE [asm |-> IF d.asm = "good" THEN "good" ELSE None,
          pol |-> IF d.mode = "custom" /\ d.pol \in {"good", "legacy"} THEN d.pol ELSE None,
          skipped |-> (IF d.asm = "refused" THEN {"asm"} ELSE {}) \cup
                      (IF d.mode = "custom" /\ d.pol \in {None, "refused"} THEN {"pol"} ELSE {})]

(* prepare_run_dir starts from an empty directory, so no predictions of an *)
(* earlier attempt survive.                                                *)
FreshRunDir == csv' = None /\ failLog' = <<>>

(* The sandbox-visible assets are copied into it and the audit sidecar is  *)
(* created (or cannot be).                                                 *)
AssembleRunDir ==
    /\ stage = "assemble"
    /\ LET s == Snapshot(job.design)
       IN gen' = [gen EXCEPT !.pol = s.pol, !.asm = s.asm, !.skipped = s.skipped,
                             !.knowledge = KnowledgeTotal(job.notes)]
    /\ sidecar' \in {None, {}}
    /\ FreshRunDir
    /\ events' = events \cup {"task_toolset_assembled"}
    /\ stage' = "lease"
    /\ UNCHANGED <<job, leaseVars, memVars, starts, node>>

-----------------------------------------------------------------------------
(* The ACL lease of the run directory.                                     *)

(* No sandbox user, a caller that is root outside the broker, a profile or *)
(* tool that is missing: the launch is refused before anything is leased.  *)
LaunchRefused ==
    /\ stage = "lease" /\ stage' = "raised"
    /\ UNCHANGED <<prepVars, leaseVars, memVars, fileVars, outVars>>

(* The ancestor's entry is set by the first holder, then counted.          *)
AcquireTraverse ==
    /\ stage = "lease"
    /\ \/ /\ refs' = refs + 1 /\ acl' = TRUE
          /\ stage' = "grant"
       \/ /\ refs = 0  \* only then is setfacl called, and may fail
          /\ stage' = "raised" /\ UNCHANGED <<refs, acl>>
    /\ UNCHANGED <<prepVars, granted, other, memVars, fileVars, outVars>>

(* A failing walk closes the lease again without complaint.                *)
GrantTrees ==
    /\ stage = "grant"
    /\ \/ granted' = {"run", "output"} /\ stage' = "preflight"
       \/ \E part \in {{}, {"run"}} : granted' = part /\ stage' = "abandon"
    /\ UNCHANGED <<prepVars, refs, acl, other, memVars, fileVars, outVars>>

Preflight ==
    /\ stage = "preflight"
    /\ stage' \in {"start", "reclaim_failed"}
    /\ UNCHANGED <<prepVars, leaseVars, memVars, fileVars, outVars>>

(* Mutant: every holder that leaves removes the entry.                     *)
ReleaseTraverse_Always(held) == refs' = refs - 1 /\ acl' \in {FALSE, acl}

(* Dropping a reference; the last holder removes the entry, or fails to.   *)
ReleaseTraverse(held) ==
    /\ refs' = refs - 1
    /\ acl' \in IF held = 1 THEN {FALSE, acl} ELSE {acl}

(* close(): the trees, then the traverse entries; an entry that cannot be  *)
(* removed is reported once everything else has been tried.                *)
CloseLease(next) ==
    /\ granted' \in {{}} \cup {g \in SUBSET granted : g # {}}
    /\ ReleaseTraverse(refs)
    /\ stage' = IF granted' # {} \/ (refs = 1 /\ acl') THEN "raised" ELSE next

Abandon ==
    /\ stage \in {"abandon", "reclaim_failed", "reclaim"}
    /\ CloseLease(IF stage = "reclaim" THEN "score" ELSE "raised")
    /\ UNCHANGED <<prepVars, other, memVars, fileVars, outVars>>

OtherEnds ==
    /\ other = "live"
    /\ ReleaseTraverse(refs)
    /\ other' = IF refs = 1 /\ acl' THEN "leaked" ELSE "none"
    /\ UNCHANGED <<prepVars, stage, granted, memVars, fileVars, outVars>>

-----------------------------------------------------------------------------
(* The harness process.                                                    *)

(* The questions file holds the sample already; with a dataset the harness *)
(* draws itself and keeps the dataset's index unless it merges earlier     *)
(* predictions, which renumbers the rows.                                  *)
Drawn(sample) == InFileOrder(sample)
OwnDraw == job.kind \in {"existing", "direct"}
(* Mutant: the rows of a questions file keep the dataset's index too.      *)
LabelsOf_NoReset(sample) ==
    IF csv = None THEN Drawn(sample) ELSE [i \in 1..Cardinality(sample) |-> i]

LabelsOf(sample) ==
    IF OwnDraw /\ csv = None THEN Drawn(sample)
    ELSE [i \in 1..Cardinality(sample) |-> i]

(* Mutant: earlier predictions are not merged into the dataset.            *)
Earlier_Lost(q) == None

Earlier(q) ==
    IF csv = None THEN None
    ELSE LET hit == {i \in DOMAIN csv : csv[i][1] = q}
         IN IF hit = {} THEN None ELSE csv[CHOOSE i \in hit : TRUE][2]

HarnessStarts ==
    /\ stage = "start"
    /\ starts < MaxStarts
    /\ \E sample \in Samples(job.seeded, job.anchors) :
        /\ starts > 0 => sample = ToSet(rows)  \* the same seed draws the same rows
        /\ rows' = Drawn(sample)
        /\ labels' = LabelsOf(sample)
    /\ preds' = [i \in DOMAIN rows' |-> Earlier(rows'[i])]
    /\ calls' = [i \in DOMAIN rows' |-> IF Done(preds'[i]) THEN "skip" ELSE "queued"]
    /\ consumed' = 0 /\ failures' = <<>> /\ written' = 0
    /\ starts' = starts + 1
    /\ stage' = "run"
    /\ UNCHANGED <<prepVars, leaseVars, csv, failLog, outVars>>

Running == {i \in DOMAIN calls : calls[i] = "running"}

(* The pool takes the submitted questions in order.                        *)
TakeQuestion ==
    /\ stage = "run"
    /\ Cardinality(Running) < Workers
    /\ \E i \in DOMAIN calls :
        /\ calls[i] = "queued" /\ \A k \in 1..(i - 1) : calls[k] # "queued"
        /\ calls' = [calls EXCEPT ![i] = "running"]
    /\ UNCHANGED <<prepVars, stage, leaseVars, rows, labels, preds, consumed, failures,
                   written, fileVars, outVars>>

(* The seam session of the agent child: what runs, and whether a gap       *)
(* between the design's claim and what was delivered is audited.           *)
SeamOf(d, g) ==
    LET lost == d.mode = "custom" /\ g.pol = None
        gap == lost \/ (d.asm # None /\ g.asm = None)
    IN [mode |-> IF lost THEN "passthrough" ELSE d.mode,
        lines |-> IF gap THEN {"view", "cm_session_degraded"} ELSE {"view"}]

(* A worker's agent answers, answers nothing, or fails: a timeout, a       *)
(* non-zero exit, no result or an invalid one.  Its seam session appends   *)
(* to the sidecar, if it got that far.                                     *)
AgentReturns ==
    /\ stage = "run"
    /\ \E i \in Running :
        /\ \E r \in {"right", "wrong", "blank", "failed"} :
            calls' = [calls EXCEPT ![i] = r]
        /\ \/ sidecar' = IF sidecar = None THEN None
                         ELSE sidecar \cup SeamOf(job.design, gen).lines
           \/ calls'[i] = "failed" /\ UNCHANGED sidecar
    /\ UNCHANGED <<prepVars, stage, leaseVars, rows, labels, preds, consumed, failures,
                   written, fileVars, events, node>>

Returned(i) == calls[i] \in {"right", "wrong", "blank", "failed"}
PredictionOf(i) ==
    IF calls[i] \in {"right", "wrong"} THEN Answer(rows[i], calls[i] = "right") ELSE Blank

NextFuture == {i \in DOMAIN calls : i > consumed /\ calls[i] # "skip"}

(* Mutant: a question whose agent failed is waited for.                    *)
ConsumeFuture_Waits ==
    /\ stage = "run"
    /\ NextFuture # {} /\ calls[Min(NextFuture)] \in {"right", "wrong", "blank"}
    /\ LET i == Min(NextFuture)
       IN /\ failures' = IF calls[i] = "failed" THEN Append(failures, rows[i]) ELSE failures
          /\ IF labels[i] > Len(preds)
             THEN stage' = "crash" /\ UNCHANGED <<preds, consumed>>
             ELSE /\ preds' = [preds EXCEPT ![labels[i]] = PredictionOf(i)]
                  /\ consumed' = i
                  /\ stage' = IF labels[i] % SaveInterval = 0 THEN "save" ELSE "run"
    /\ UNCHANGED <<prepVars, leaseVars, rows, labels, calls, written, fileVars, outVars>>

(* The main thread waits for the futures in order.  It stores the          *)
(* prediction under the row's index LABEL: beyond the list this raises,    *)
(* and the harness dies without a save.                                    *)
ConsumeFuture ==
    /\ stage = "run"
    /\ NextFuture # {} /\ Returned(Min(NextFuture))
    /\ LET i == Min(NextFuture)
       IN /\ failures' = IF calls[i] = "failed" THEN Append(failures, rows[i]) ELSE failures
          /\ IF labels[i] > Len(preds)
             THEN stage' = "crash" /\ UNCHANGED <<preds, consumed>>
             ELSE /\ preds' = [preds EXCEPT ![labels[i]] = PredictionOf(i)]
                  /\ consumed' = i
                  /\ stage' = IF labels[i] % SaveInterval = 0 THEN "save" ELSE "run"
    /\ UNCHANGED <<prepVars, leaseVars, rows, labels, calls, written, fileVars, outVars>>

AllConsumed == NextFuture = {}
EndSave == stage = "run" /\ AllConsumed

Table == [i \in DOMAIN rows |-> <<rows[i], IF preds[i] = None THEN Blank ELSE preds[i]>>]

SaveTable ==
    /\ stage = "save" \/ EndSave
    /\ csv' = Table
    /\ stage' = IF stage = "save" THEN "append" ELSE "append_last"
    /\ UNCHANGED <<prepVars, leaseVars, memVars, starts, failLog, outVars>>

(* append_pending_failures: only what has not been written yet.            *)
AppendFailures ==
    /\ stage \in {"append", "append_last"}
    /\ failLog' = failLog \o [k \in 1..(Len(failures) - written) |->
                                <<starts, failures[written + k]>>]
    /\ written' = Len(failures)
    /\ stage' = IF stage = "append" THEN "run" ELSE "exit"
    /\ UNCHANGED <<prepVars, leaseVars, rows, labels, preds, calls, consumed, failures,
                   starts, csv, outVars>>

InHarness == stage \in {"run", "save", "append", "append_last"}

(* The harness is killed, or runs out of its own time.                     *)
HarnessKilled ==
    /\ InHarness
    /\ stage' \in IF job.kind = "direct" THEN {"crash"} ELSE {"crash", "timeout"}
    /\ UNCHANGED <<prepVars, leaseVars, memVars, fileVars, outVars>>

(* Killed while predictions.csv is being rewritten: a prefix of the rows   *)
(* stays, the last of them without its prediction or with a part of it.    *)
TornSave ==
    /\ stage = "save" \/ EndSave
    /\ \E n \in 1..Len(rows), last \in {Blank, Cut} :
        csv' = [i \in 1..n |-> IF i = n THEN <<rows[i], last>> ELSE Table[i]]
    /\ stage' = "crash"
    /\ UNCHANGED <<prepVars, leaseVars, memVars, starts, failLog, outVars>>

(* subprocess.run returns a code, or raises on its timeout; either way the *)
(* lease is closed next.  A direct run is simply started again, or its     *)
(* report made.                                                            *)
HarnessGone ==
    /\ stage \in {"exit", "crash", "timeout"}
    /\ events' = events \cup {IF stage = "exit" THEN "rc_zero" ELSE "rc_nonzero"}
    /\ stage' = IF Brokered(job)
                THEN IF stage = "timeout" THEN "reclaim_failed" ELSE "reclaim"
                ELSE IF stage = "exit" \/ starts = MaxStarts THEN "score" ELSE "start"
    /\ calls' = [i \in DOMAIN calls |-> "skip"]  \* the children die with it
    /\ UNCHANGED <<prepVars, leaseVars, rows, labels, preds, consumed, failures, written,
                   fileVars, sidecar, node>>

-----------------------------------------------------------------------------
(* The report and the node.                                                *)

ValidRows == {i \in DOMAIN csv : Done(csv[i][2])}
RightRows == {i \in ValidRows : csv[i][2].right /\ csv[i][2].of = csv[i][1]}

(* Label domains drop the rows without a prediction.                       *)
LabelReport == [right |-> Cardinality(RightRows), total |-> Cardinality(ValidRows)]

(* The container evaluation runs the patches of the non-blank rows and     *)
(* divides by the whole task list of the domain.                           *)
PolyglotReport == [right |-> Cardinality(RightRows), total |-> PoolSize]

(* Without predictions.csv there is no report; the other domains' own      *)
(* report programs grade the rows they find.                               *)
Report(kind) ==
    IF csv = None THEN None
    ELSE IF kind = "polyglot" THEN PolyglotReport ELSE LabelReport

(* The mean of no row is NaN, and NaN is no score.                         *)
ScoreOf(r) == IF r = None \/ (r # None /\ r.total = 0) THEN None ELSE r.right
CoverageOf(r) == IF r = None THEN None ELSE r.total

StatusOf(r) ==
    IF ScoreOf(r) = None THEN "failed"
    ELSE IF CoverageOf(r) < NumSamples THEN "partial" ELSE "ok"

MakeNode(r) == [score |-> ScoreOf(r), status |-> StatusOf(r), coverage |-> CoverageOf(r),
                reason |-> IF ScoreOf(r) # None \/ r # None THEN None
                           ELSE IF "rc_nonzero" \in events THEN "harness_failed"
                           ELSE "no_report"]

(* Scoring may raise, which leaves no report.                              *)
ScoreRun ==
    /\ stage = "score"
    /\ \/ node' = MakeNode(Report(job.kind)) /\ UNCHANGED events
       \/ /\ node' = MakeNode(None)
          /\ events' = events \cup {"scoring_failed"}
    /\ stage' = IF Brokered(job) THEN "ingest" ELSE "done"
    /\ UNCHANGED <<prepVars, leaseVars, memVars, fileVars, sidecar>>

(* The sidecar is folded into the event log, its absence or emptiness too. *)
IngestSeamEvents ==
    /\ stage = "ingest"
    /\ events' = events \cup
           (IF sidecar \in {None, {}} THEN {"cm_events_ingest_empty"}
            ELSE sidecar \cup {"cm_events_ingested"})
    /\ sidecar' = None
    /\ stage' = "done"
    /\ UNCHANGED <<prepVars, leaseVars, memVars, fileVars, node>>

-----------------------------------------------------------------------------
Over == stage \in {"done", "raised"}
Ended == Over /\ other # "live" /\ UNCHANGED vars

RunnerStep == Reconcile \/ ApplyTaskPatch \/ HealAndPersist \/ AssembleRunDir
              \/ LaunchRefused \/ AcquireTraverse \/ GrantTrees \/ Preflight \/ Abandon
              \/ ScoreRun \/ IngestSeamEvents
HarnessStep == HarnessStarts \/ TakeQuestion \/ AgentReturns \/ ConsumeFuture
               \/ SaveTable \/ AppendFailures \/ HarnessGone

Next == RunnerStep \/ HarnessStep \/ HarnessKilled \/ TornSave \/ OtherEnds \/ Ended

Spec == Init /\ [][Next]_vars
FairSpec == Spec /\ WF_vars(RunnerStep) /\ WF_vars(HarnessStep) /\ WF_vars(OtherEnds)
-----------------------------------------------------------------------------
(* Correctness.                                                            *)

Stages == {"reconcile", "patch", "heal", "assemble", "lease", "grant", "preflight",
           "abandon", "start", "run", "save", "append", "append_last", "exit", "crash",
           "timeout", "reclaim", "reclaim_failed", "score", "ingest", "done", "raised"}
Prediction == {None, Blank, Cut} \cup [of : 1..PoolSize, right : BOOLEAN]

(* Types, and the pool never runs more agents than it has workers.         *)
TypeOK ==
    /\ job \in Jobs /\ stage \in Stages
    /\ granted \subseteq {"run", "output"} /\ refs \in 0..2 /\ acl \in BOOLEAN
    /\ other \in {"none", "live", "leaked"}
    /\ ToSet(rows) \subseteq 1..PoolSize /\ Len(rows) <= NumSamples
    /\ Len(labels) = Len(rows) /\ ToSet(labels) \subseteq 1..PoolSize
    /\ ToSet(preds) \subseteq Prediction
    /\ Cardinality(Running) <= Workers
    /\ starts \in 0..MaxStarts /\ written \in 0..Len(failures)

(* The harness's rows are exactly the requested number of distinct         *)
(* questions (all of a smaller pool), and every anchor the budget has room *)
(* for is among them whatever the seed (select_samples).                   *)
SampleComplete ==
    stage = "run" =>
        /\ Len(rows) = Min({NumSamples, PoolSize}) /\ IsInjective(rows)
        /\ job.seeded => AnchorCore(job.anchors) \subseteq ToSet(rows)

(* The design that is persisted, and inherited by the next generation,     *)
(* names only tools the committed code of THIS generation can deliver,     *)
(* whether its patch landed or was rolled back.                            *)
PersistedResolves ==
    stage \notin {"reconcile", "patch", "heal", "raised"} =>
        /\ gen.persisted \subseteq Registered(gen.code)
        /\ gen.persisted = gen.tools
        /\ job.kind = "polyglot" => "write_file" \in gen.persisted

(* Each note of the delivered knowledge fits, their total too, and a note  *)
(* that does not fit hides no later one that does.                         *)
KnowledgeFits ==
    gen.knowledge > 0 =>
        /\ gen.knowledge <= TotalCap
        /\ \A i \in DOMAIN job.notes :
               LET before == KnowledgeTotals(job.notes)[i - 1]
               IN job.notes[i] <= FileCap /\ before + job.notes[i] <= TotalCap
                      => gen.knowledge >= before + job.notes[i]

(* Whenever a brokered harness is running, the sandbox user can reach and  *)
(* read its trees, however the launch of an earlier generation ends        *)
(* meanwhile (_task_release_traverse keeps the count under one lock).      *)
HarnessHasAccess ==
    Brokered(job) /\ (InHarness \/ stage \in {"start", "exit", "crash", "timeout"}) =>
        acl /\ granted = {"run", "output"}

(* An evaluation that reached scoring has given its whole lease back: no   *)
(* entry is left on its trees, and one on the shared ancestor only while   *)
(* another launch holds it or has failed to remove it.                     *)
LeaseReturned ==
    Brokered(job) /\ stage \in {"score", "ingest", "done"} =>
        granted = {} /\ (acl => refs > 0 \/ other = "leaked") /\ refs = (IF other = "live" THEN 1 ELSE 0)

(* With questions given in a file, or drawn without a seed, each           *)
(* prediction stands in the row of the question it was given for.          *)
RowsKeepTheirAnswers ==
    csv # None /\ ~(OwnDraw /\ job.seeded) =>
        \A i \in DOMAIN csv : csv[i][2] \in {Blank, Cut} \/ csv[i][2].of = csv[i][1]

(* eval_failures.jsonl has each failure of a start once, however the       *)
(* checkpoints fall, and all of them when the start has ended well; then a *)
(* row without a prediction is one whose agent failed or answered nothing. *)
FailuresExact ==
    /\ IsInjective(failLog)
    /\ stage = "exit" => \A k \in DOMAIN failures : <<starts, failures[k]>> \in ToSet(failLog)
    /\ stage = "exit" => \A i \in DOMAIN csv :
           csv[i][2] = Blank => \E k \in DOMAIN rows :
               rows[k] = csv[i][1] /\ calls[k] \in {"failed", "blank"}

(* A node with status ok was scored on every question that was asked for;  *)
(* a node without a score names the reason (score_status).  The container  *)
(* evaluation divides by its task list and is left out.                    *)
OkMeansComplete ==
    node # None /\ job.kind # "polyglot" =>
        /\ node.status = "ok" =>
               Cardinality(ValidRows) = NumSamples /\ \A i \in DOMAIN csv : Done(csv[i][2])
        /\ node.status = "failed" =>
               node.reason # None \/ ValidRows = {}

(* A design that asks for a policy or an assembly which did not reach the  *)
(* child leaves a trace in the generation's events or toolset report, and  *)
(* the seam then runs what was delivered, never a half-configured session. *)
ClaimGapAudited ==
    stage = "done" /\ Brokered(job) =>
        /\ (job.design.mode = "custom" /\ gen.pol = None) =>
               "pol" \in gen.skipped /\ SeamOf(job.design, gen).mode = "passthrough"
        /\ (job.design.asm # None /\ gen.asm = None) => "asm" \in gen.skipped
        /\ {"cm_events_ingest_empty", "cm_events_ingested"} \cap events # {}
        /\ ("cm_events_ingested" \in events /\ gen.skipped # {}) =>
               "cm_session_degraded" \in events

(* Resuming never loses or changes an answer that is on disk: only a kill  *)
(* in the middle of a save can.                                            *)
AnswersKept ==
    [][ (csv # None /\ csv' # None /\ ~(OwnDraw /\ job.seeded) /\ ~TornSave) =>
        \A i \in DOMAIN csv : Done(csv[i][2]) =>
            \E k \in DOMAIN csv' : csv'[k] = csv[i] ]_vars

(* Every evaluation ends: each agent call is bounded by the question       *)
(* timeout, so the harness and the runner keep taking steps.               *)
EvaluationEnds == <>Over

\* The report of a generation is right: it is about the sample that was drawn,
\* under a design that resolves, every row holds the answer given to its own
\* question, failures and unclaimed work are listed exactly, and "ok" means
\* complete (harness.py, task_execution.py; the parts above).
AnswersSound ==
    /\ TypeOK /\ SampleComplete /\ PersistedResolves /\ KnowledgeFits
    /\ RowsKeepTheirAnswers /\ FailuresExact /\ OkMeansComplete /\ ClaimGapAudited

\* Overlapping evaluations never take the code tree away from a running
\* harness, and no lease outlives its evaluation (task_execution.py:1062, 1301).
HarnessIsolated == HarnessHasAccess /\ LeaseReturned
=============================================================================
