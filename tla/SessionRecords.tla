--------------------------- MODULE SessionRecords ---------------------------
(***************************************************************************)
(* What a run keeps of its sessions, and what is read back from it: the   *)
(* JSONL trajectories with rotation, redaction and quarantine             *)
(* (utils/trajectory_log.py, gan/framework/trajectory.py,                 *)
(* gan/roles/base_role.py), the structural index over them                *)
(* (gan/framework/cm/traj_index.py), and the cost ledger that sets them   *)
(* against the proxy's audit (gan/framework/cost_ledger.py, loop.py).     *)
(*                                                                         *)
(* One outer of the loop is the driver of it all: a plan session, the     *)
(* task child, its archive, an evaluate session per generation, then both *)
(* roles' self-improve sessions in parallel.  A session may be killed at  *)
(* any point, the loop may die at any point and is then started again     *)
(* from the generation counter of its last checkpoint, which reuses       *)
(* generation ids and therefore files.                                    *)
(*                                                                         *)
(* A row is [n, kind, raw]: its number among the rows of its file, whether *)
(* it is a model's answer ("output", one token) or the context seam's     *)
(* record of the turn ("cm_view", no segment), and whether its text is    *)
(* still unredacted.  The rotated parts of a file are kept as one         *)
(* sequence, oldest row first: no reader tells them apart.                *)
(***************************************************************************)
EXTENDS Naturals, Sequences, FiniteSets, SequencesExt

CONSTANTS
    None,
    MaxGen,       \* generations of the outer
    MaxCalls,     \* model calls of one run of a session
    MaxTaskCalls, \* model calls of one task child
    MaxPlanRuns, MaxEvalRuns, MaxSelfRuns, \* runs of one session of that seat
    RotateAt,     \* rows at which a file is rotated (DEFAULT_MAX_BYTES)
    MaxCrashes,   \* deaths of the loop
    MaxFaults,    \* killed sessions, failing file operations, and calls that are
                  \* billed and not answered
    Layouts       \* {TRUE}: seat workers' layout, {FALSE}: in-process layout

ASSUME BoundsAssumption ==
    /\ MaxGen \in Nat \ {0} /\ MaxCalls \in Nat \ {0} /\ MaxTaskCalls \in Nat
    /\ {MaxPlanRuns, MaxEvalRuns, MaxSelfRuns} \subseteq Nat \ {0}
    /\ RotateAt \in Nat \ {0} /\ MaxCrashes \in Nat /\ MaxFaults \in Nat
    /\ Layouts \subseteq BOOLEAN /\ Layouts # {}

Gens     == 1 .. MaxGen
Attempts == 1 .. MaxCrashes + 1
Roles    == {"planner", "evaluator"}

(* paths.session_traj_file: one file per (seat, role, genid or attempt).  The
   generation seats are keyed by genid, self-improve by the loop's attempt. *)
PlanFile(g)    == <<"plan", "planner", g>>
EvalFile(g)    == <<"evaluate", "evaluator", g>>
TaskFile(g)    == <<"task", "task", g>>
SelfFile(r, a) == <<"self_improve", r, a>>
GenFile(r, g)  == IF r = "planner" THEN PlanFile(g) ELSE EvalFile(g)
GenFiles       == {GenFile(r, g) : r \in Roles, g \in Gens}
SelfFiles      == {SelfFile(r, a) : r \in Roles, a \in Attempts}
Files          == GenFiles \cup SelfFiles \cup {TaskFile(g) : g \in Gens}

Rows == [n : Nat, kind : {"output", "cm_view"}, raw : BOOLEAN]
Costs == [key : Files, tok : Nat \cup {None}]
Stages == {"open", "redact", "drop", "quarantine", "closed", "dead"}
Sessions == [file : Files, st : Stages, calls : Nat, runs : Nat, try : Nat, err : BOOLEAN]

\* What is absent is told from any value.
ASSUME NoneAssumption ==
    None \notin Nat /\ None \notin Seq(Rows) /\ None \notin Costs /\ None \notin Sessions

VARIABLES
    seated,    \* GAN_ROLE_SEAT: roles write below roles/<role>/<seat>/
    files,     \* file |-> [main, parts, quar, wrote]
    audit,     \* file |-> calls the proxy billed to the session behind it
    ledger,    \* logs/cost_sessions.jsonl
    cards,     \* generation |-> runs/<genid>/cost.json
    report,    \* the cost_reconciliation event of this outer
    told,      \* the cost statements the current sessions opened with
    index,     \* role |-> segments materialized when its self session opened
    run,       \* role |-> the session in progress
    chat,      \* task rows in the work directory of this generation
    pc, gen, att, saved, crashes, faults,
    unsettled, \* files whose last run did not get to its end: alive or killed
    left,      \* files whose merged parts could not be removed
    stuck,     \* files that could be neither redacted nor quarantined
    torn,      \* files that lost or doubled rows, for a named reason
    lost       \* file |-> calls billed to a session that went on unanswered

disk == <<files, audit, ledger, cards, saved>>
ghosts == <<unsettled, left, stuck, torn, lost>>
vars == <<seated, files, audit, ledger, cards, report, told, index, run, chat,
          pc, gen, att, saved, crashes, faults, unsettled, left, stuck, torn, lost>>

-----------------------------------------------------------------------------
(*                        The files of a session                           *)

\* Nothing written yet; wrote counts the rows ever written.
NoFile == [main |-> None, parts |-> <<>>, quar |-> <<>>, wrote |-> 0]
Exists(f) == files[f].main # None

\* trajectory_log.read_all: the rotated parts, oldest first, then the file.
ReadAll(f) == IF Exists(f) THEN files[f].parts \o files[f].main ELSE files[f].parts

\* trajectory_log.append: a file at its limit becomes the next part, and the
\* row starts a fresh one.
Append1(file, row) ==
    IF file.main # None /\ Len(file.main) >= RotateAt
      THEN [file EXCEPT !.parts = @ \o file.main, !.main = <<row>>]
      ELSE [file EXCEPT !.main = IF @ = None THEN <<row>> ELSE Append(@, row)]

\* trajectory_log.reset, by the constructor of every AgentSystem.
Reset(file) == [file EXCEPT !.main = <<>>, !.parts = <<>>]

\* Mutant: the redacted record keeps no usage.
Redacted_NoUsage(rows) ==
    [i \in DOMAIN rows |-> [rows[i] EXCEPT !.raw = FALSE, !.kind = "cm_view"]]

\* trajectory.redact_record over the rows: the content is rewritten, kind and
\* usage stay.
Redacted(rows) == [i \in DOMAIN rows |-> [rows[i] EXCEPT !.raw = FALSE]]

RawIn(rows) == \E i \in DOMAIN rows : rows[i].raw

-----------------------------------------------------------------------------
(*                           What is read back                             *)

\* trajectory.read_session for one generation (and read_trajectory for a task
\* file): the rendered rows, "unavailable" for a quarantined session, "" for
\* nothing.  Both layouts resolve to the one file a run writes.
ReadSession(f) ==
    IF Exists(f) THEN [kind |-> "rows", rows |-> ReadAll(f)]
    ELSE [kind |-> IF files[f].quar # <<>> THEN "unavailable" ELSE "none", rows |-> <<>>]

\* trajectory._read_outer_sessions: every self-improve file of the role that is
\* still under its name, newest attempt first, as one text.
ReadOuterSessions(r) ==
    LET f(i) == SelfFile(r, MaxCrashes + 2 - i)
    IN  FlattenSeq([i \in Attempts |-> IF Exists(f(i)) THEN ReadAll(f(i)) ELSE <<>>])

\* trajectory.outer_session_index: what the role is told exists.
SessionIndex(r) ==
    {[gen |-> g, quarantined |-> ~Exists(GenFile(r, g))] :
        g \in {h \in Gens : ReadSession(GenFile(r, h)).kind # "none"}}

\* trajectory.session_universe: canonical (legacy) paths of the listed
\* generations only, so nothing below roles/<role>/<seat>/ is in it.
SessionUniverse(r) ==
    {GenFile(r, e.gen) : e \in {x \in SessionIndex(r) : ~seated /\ ~x.quarantined}}

\* traj_index._classify: rows of other kinds are no segments.
IsSegment(row) == row.kind = "output"

\* Mutant: addresses count the yielded rows instead of the file's lines.
Scan_YieldedRows(f) ==
    LET segs == SelectSeq(files[f].main, IsSegment)
    IN  {[file |-> f, line |-> i, n |-> segs[i].n] : i \in DOMAIN segs}

\* traj_index._scan_file: the segments of the main file, each under its
\* physical line.
Scan(f) ==
    {[file |-> f, line |-> i, n |-> files[f].main[i].n] :
        i \in {j \in DOMAIN files[f].main : IsSegment(files[f].main[j])}}

\* loop._traj_materialization_files / _materialize_traj for the self seat: the
\* outer's task archives and the role's own session files.
Materialized(r) ==
    UNION {Scan(f) : f \in SessionUniverse(r)
                             \cup {t \in {TaskFile(g) : g \in Gens} : Exists(t)}}

\* traj_index.segment_entry: the row at an address, or a miss.
SegmentEntry(f, line) ==
    IF Exists(f) /\ line \in DOMAIN files[f].main /\ IsSegment(files[f].main[line])
      THEN files[f].main[line].n ELSE None

\* read_session_trajectory._session_entries: what its fetch may address.  A
\* seat worker has no fetch, only the whole text.
SessionEntries(r) ==
    {f \in {GenFile(r, e.gen) : e \in SessionIndex(r)} : ~seated /\ Exists(f)}

\* The fetch of read_session_trajectory and read_trajectory, in a session that
\* built its index itself: the file must be among the visible ones now.
Fetch(r, f, line) ==
    IF f \in SessionEntries(r) \/ (~seated /\ f[1] = "task")
      THEN SegmentEntry(f, line) ELSE None

-----------------------------------------------------------------------------
(*                            The cost ledger                              *)

\* cost_ledger._sum_usage: None when no row carries usage.
Usage(rows) ==
    LET n == Cardinality({i \in DOMAIN rows : rows[i].kind = "output"})
    IN  IF n = 0 THEN None ELSE n

\* session_cost_from_file on the path without a seat, which a seat worker
\* never writes; None when there is no such file.
SessionCost(f) ==
    IF Exists(f) /\ (f[1] = "task" \/ ~seated)
      THEN [key |-> f, tok |-> Usage(ReadAll(f))] ELSE None

\* self_session_costs(...)[0]: sorted by path, so the newest attempt that is
\* still there.
SelfCost(r) ==
    LET there == {a \in Attempts : SessionCost(SelfFile(r, a)) # None}
    IN  IF there = {} THEN None
        ELSE SessionCost(SelfFile(r, CHOOSE a \in there : \A b \in there : b <= a))

\* The compact records of a role's self-improve sessions of this outer.
OwnSessions(r) == {SessionCost(SelfFile(r, a)) : a \in Attempts} \ {None}

\* loop._record_session_cost and append_session_cost: one record per key, the
\* first one stays.
Recorded(rec) ==
    IF rec = None \/ \E i \in DOMAIN ledger : ledger[i].key = rec.key
      THEN ledger ELSE Append(ledger, rec)

\* latest_session_cost: the newest record of the seat, of another generation
\* when one is excluded.
LatestCost(seat, role, exclude) ==
    LET hits == {i \in DOMAIN ledger :
                    /\ ledger[i].key[1] = seat /\ ledger[i].key[2] = role
                    /\ ledger[i].key[3] # exclude}
    IN  IF hits = {} THEN None
        ELSE ledger[CHOOSE i \in hits : \A j \in hits : j <= i]

\* task_cost_for_gen / task_costs_for_gens: from the proxy's audit alone.
TaskCost(g) == IF g \notin Gens \/ audit[TaskFile(g)] = 0 THEN None ELSE audit[TaskFile(g)]

\* The generations of this outer before g.
Earlier(g) == 1 .. g - 1

\* loop._cost_statement_plan with render_plan_statement: what the planner is
\* told before it plans g.
PlanStatement(g) ==
    [seat |-> "plan", gen |-> g, task |-> TaskCost(g - 1),
     own |-> LatestCost("plan", "planner", None),
     history |-> {[gen |-> h, tok |-> TaskCost(h)] :
                    h \in {k \in Earlier(g) : TaskCost(k) # None}}]

\* loop._cost_statement_eval with render_evaluate_statement.
EvalStatement(g) ==
    [seat |-> "evaluate", gen |-> g, task |-> TaskCost(g),
     own |-> LatestCost("evaluate", "evaluator", g), history |-> {}]

\* loop._cost_statement_self with render_self_statement: the only sessions a
\* role is shown are the attempts at this one.
SelfStatement(r) ==
    [seat |-> "self_improve", gen |-> att, task |-> None,
     own |-> LatestCost("self_improve", r, None), history |-> OwnSessions(r)]

\* loop._write_gen_cost.
Card(g) ==
    [task |-> TaskCost(g), traj |-> SessionCost(TaskFile(g)),
     plan |-> SessionCost(PlanFile(g)), eval |-> SessionCost(EvalFile(g))]

\* cost_ledger.reconcile: both sides per role and per task child.  A session
\* without usage counts as 0, and as unattributed.
CostKeys == Roles \cup {TaskFile(g) : g \in Gens}
FilesOf(k) == IF k \in Roles THEN {f \in GenFiles \cup SelfFiles : f[2] = k} ELSE {k}
FineFiles(k) == {f \in FilesOf(k) : SessionCost(f) # None}
FineCost(f) ==
    IF SessionCost(f) = None \/ SessionCost(f).tok = None THEN 0 ELSE SessionCost(f).tok
AuditOf(k) == SumFunction([f \in FilesOf(k) |-> audit[f]])
FineOf(k) == SumFunction([f \in FilesOf(k) |-> FineCost(f)])
Reconcile ==
    LET both == {k \in CostKeys : AuditOf(k) # 0 /\ FineFiles(k) # {}}
    IN  [checked |-> both, mismatches |-> {k \in both : AuditOf(k) # FineOf(k)},
         unattributed |-> {f \in Files : SessionCost(f) # None /\ SessionCost(f).tok = None}]

-----------------------------------------------------------------------------
(*                              Sessions                                   *)

NoRun == None
Begun(f) == [file |-> f, st |-> "open", calls |-> 0, runs |-> 1, try |-> 1, err |-> FALSE]

Init ==
    /\ seated \in Layouts
    /\ files = [f \in Files |-> NoFile]
    /\ audit = [f \in Files |-> 0]
    /\ ledger = <<>> /\ cards = [g \in Gens |-> None]
    /\ report = None /\ told = {} /\ index = [r \in Roles |-> {}]
    /\ run = [r \in Roles |-> NoRun] /\ chat = 0
    /\ pc = "down" /\ gen = 0 /\ att = 0 /\ saved = 1
    /\ crashes = 0 /\ faults = 0
    /\ unsettled = {} /\ left = {} /\ stuck = {} /\ torn = {}
    /\ lost = [f \in Files |-> 0]

In(r, st) == run[r] # NoRun /\ run[r].st = st
Fault == faults < MaxFaults /\ faults' = faults + 1

loopState == <<seated, ledger, cards, report, told, index, chat, pc, gen, att,
               saved, crashes>>

Written(file, kind) ==
    [Append1(file, [n |-> file.wrote + 1, kind |-> kind, raw |-> TRUE]) EXCEPT !.wrote = @ + 1]

\* What the proxy bills for one answer: the call, and maybe an earlier one of
\* the same question that its client had given up on (get_response_from_llm
\* calls again after a timeout or a broken connection).
Billed(f) ==
    \/ audit' = [audit EXCEPT ![f] = @ + 1] /\ UNCHANGED <<lost, faults>>
    \/ /\ Fault
       /\ audit' = [audit EXCEPT ![f] = @ + 2] /\ lost' = [lost EXCEPT ![f] = @ + 1]

\* One turn of the chat loop: the context seam's row, the model call, which the
\* proxy bills, and the row of its answer.
Turn(r) ==
    /\ In(r, "open") /\ run[r].calls < MaxCalls
    /\ LET f == run[r].file IN
       /\ Billed(f)
       /\ files' = [files EXCEPT ![f] = Written(Written(@, "cm_view"), "output")]
    /\ run' = [run EXCEPT ![r].calls = @ + 1]
    /\ UNCHANGED <<loopState, unsettled, left, stuck, torn>>

\* chat_with_agent returns; Role.run goes on to redact_file.
EndRun(r) ==
    /\ In(r, "open") /\ run[r].calls > 0
    /\ run' = [run EXCEPT ![r].st = "redact"]
    /\ UNCHANGED <<loopState, files, audit, faults, ghosts>>

\* redact_file: parts and file merged, redacted, put in place atomically.
Redact(r) ==
    /\ In(r, "redact")
    /\ LET f == run[r].file
       IN  files' = [files EXCEPT ![f].main = Redacted(ReadAll(f))]
    /\ run' = [run EXCEPT ![r].st = "drop"]
    /\ UNCHANGED <<loopState, audit, faults, ghosts>>

\* The write raises: one retry, which may raise for the same reason, then
\* quarantine.
RedactFails(r) ==
    /\ In(r, "redact")
    /\ IF run[r].try = 1 THEN Fault ELSE UNCHANGED faults
    /\ run' = [run EXCEPT ![r].err = TRUE, ![r].try = 2,
                          ![r].st = IF run[r].try = 1 THEN "redact" ELSE "quarantine"]
    /\ UNCHANGED <<loopState, files, audit, ghosts>>

\* The end of Role.run: without a failed try the session is settled, redacted.
EndRedaction(r) ==
    /\ unsettled' = IF run[r].err THEN unsettled ELSE unsettled \ {run[r].file}
    /\ stuck' = IF run[r].err THEN stuck ELSE stuck \ {run[r].file}
    /\ run' = [run EXCEPT ![r].st = IF run[r].err THEN "quarantine" ELSE "closed"]
    /\ UNCHANGED <<loopState, audit, lost>>

\* Mutant: the parts are left where they are.
DropParts_Keep(r) ==
    /\ In(r, "drop") /\ EndRedaction(r)
    /\ UNCHANGED <<files, faults, left, torn>>

\* The end of redact_file: the merged parts go, best effort; it returns normally
\* also when they stay.  Role.run quarantines when any try failed, the one that
\* then succeeded included.
DropParts(r) ==
    /\ In(r, "drop") /\ EndRedaction(r)
    /\ LET f == run[r].file IN
       \/ /\ files' = [files EXCEPT ![f].parts = <<>>]
          /\ left' = left \ {f}
          /\ UNCHANGED <<faults, torn>>
       \/ /\ files[f].parts # <<>> /\ Fault
          /\ left' = left \cup {f} /\ torn' = torn \cup {f}
          /\ UNCHANGED files

\* quarantine_unredacted: the main file is renamed away.  The rename may fail for
\* the reason the redaction failed for, and then the file stays: it is reported.
\* Rotated parts stay where they are.
Quarantine(r) ==
    /\ In(r, "quarantine")
    /\ LET f == run[r].file IN
       /\ \/ /\ files' = [files EXCEPT ![f].quar = @ \o files[f].main, ![f].main = None]
             /\ stuck' = stuck \ {f} /\ torn' = torn \cup {f}
          \/ stuck' = stuck \cup {f} /\ UNCHANGED <<files, torn>>
       /\ unsettled' = unsettled \ {f}
    /\ run' = [run EXCEPT ![r].st = "closed"]
    /\ UNCHANGED <<loopState, audit, faults, left, lost>>

SeatRuns == [plan |-> MaxPlanRuns, evaluate |-> MaxEvalRuns, self_improve |-> MaxSelfRuns]

\* Planner.plan and Role._self_improve_session run the session again on the same
\* file when its patch is refused (patch_retry_k), Evaluator.evaluate to reveal
\* the score.
RunAgain(r) ==
    /\ In(r, "closed")
    /\ run[r].runs < SeatRuns[run[r].file[1]]
    /\ run' = [run EXCEPT ![r] = [Begun(run[r].file) EXCEPT !.runs = run[r].runs + 1]]
    /\ unsettled' = unsettled \cup {run[r].file}
    /\ UNCHANGED <<loopState, files, audit, faults, left, stuck, torn, lost>>

\* A death in the middle of a turn: the seam's row is written, the call is
\* billed, and its answer is lost.
CutOff(r, alsoTorn) ==
    LET f == run[r].file IN
    /\ audit' = [audit EXCEPT ![f] = @ + 1]
    /\ files' = [files EXCEPT ![f] = Written(@, "cm_view")]
    /\ torn' = torn \cup {f} \cup alsoTorn

\* A death in redact_file may leave parts that were merged, not yet removed.
Doubled(r) == IF In(r, "drop") /\ files[run[r].file].parts # <<>> THEN {run[r].file} ELSE {}

\* The seat worker is killed, or the chat loop raises: no redaction.
SessionDies(r) ==
    /\ run[r] # NoRun /\ run[r].st \notin {"closed", "dead"}
    /\ Fault
    /\ run' = [run EXCEPT ![r].st = "dead"]
    /\ \/ torn' = torn \cup Doubled(r) /\ UNCHANGED <<files, audit>>
       \/ In(r, "open") /\ run[r].calls < MaxCalls /\ CutOff(r, {})
    /\ UNCHANGED <<loopState, unsettled, left, stuck, lost>>

SessionStep(r) ==
    \/ Turn(r) \/ EndRun(r) \/ Redact(r) \/ RedactFails(r)
    \/ DropParts(r) \/ Quarantine(r) \/ RunAgain(r) \/ SessionDies(r)

-----------------------------------------------------------------------------
(*                          The outer's loop                               *)

sessionFiles == <<files, audit>>

\* Role.__init__ of both roles resets the self-improve file of this attempt.
Constructed(a) ==
    files' = [f \in Files |-> IF f \in {SelfFile(r, a) : r \in Roles}
                                THEN Reset(files[f]) ELSE files[f]]

\* The next thing the loop does when generation g would be next.
OpenPlan(g) ==
    /\ pc' = "plan" /\ gen' = g
    /\ run' = [r \in Roles |-> IF r = "planner" THEN Begun(PlanFile(g)) ELSE NoRun]
    /\ unsettled' = unsettled \cup {PlanFile(g)}
    /\ told' = {PlanStatement(g)}
    /\ UNCHANGED <<files, index>>

\* Both self-improve sessions; a seat worker's constructor resets its file now.
OpenSelf ==
    /\ pc' = "self"
    /\ told' = {SelfStatement(r) : r \in Roles}
    /\ run' = [r \in Roles |-> Begun(SelfFile(r, att))]
    /\ unsettled' = unsettled \cup {SelfFile(r, att) : r \in Roles}
    /\ index' = [r \in Roles |-> Materialized(r)]
    /\ IF seated THEN Constructed(att) ELSE UNCHANGED files
    /\ UNCHANGED gen

\* Checkpoint with the generation counter, then the next round.
NextRound ==
    /\ saved' = gen + 1
    /\ IF gen < MaxGen THEN OpenPlan(gen + 1) ELSE OpenSelf

\* The loop starts, or starts again: roles are constructed (which resets the
\* in-process self-improve file of this attempt), the counter is restored.
Boot ==
    /\ pc = "down" /\ att < MaxCrashes + 1
    /\ att' = att + 1
    /\ pc' = "boot" /\ gen' = saved - 1
    /\ IF seated THEN UNCHANGED files ELSE Constructed(att + 1)
    /\ UNCHANGED <<seated, audit, ledger, cards, report, told, index, run, chat, saved,
                   crashes, faults, ghosts>>

FirstRound ==
    /\ pc = "boot" /\ NextRound
    /\ UNCHANGED <<seated, audit, ledger, cards, report, chat, att, crashes, faults,
                   left, stuck, torn, lost>>

\* The plan session is over: its cost is recorded and the task child starts.
PlanSettled ==
    /\ pc = "plan" /\ In("planner", "closed")
    /\ ledger' = Recorded(SessionCost(PlanFile(gen)))
    /\ pc' = "task" /\ chat' = 0 /\ told' = {}
    /\ run' = [run EXCEPT !["planner"] = NoRun]
    /\ torn' = IF audit[TaskFile(gen)] > 0 THEN torn \cup {TaskFile(gen)} ELSE torn
    /\ UNCHANGED <<seated, sessionFiles, cards, report, index, gen, att, saved, crashes,
                   faults, unsettled, left, stuck, lost>>

\* planner_failed, task_runner_failed, trajectory_archive_failed, evaluator_failed:
\* the generation is archived as invalid and the loop goes on.
Invalid(gone) ==
    /\ NextRound
    /\ torn' = torn \cup gone
    /\ UNCHANGED <<seated, audit, ledger, cards, report, chat, att, crashes,
                   left, stuck, lost>>

PlanFailed == pc = "plan" /\ In("planner", "dead") /\ Invalid({}) /\ UNCHANGED faults

\* The task child talks to the model; its rows lie in the work directory.  A
\* question that is given up (question_timeout_s) leaves a call under way, which
\* is billed and has no row.
TaskCall ==
    /\ pc = "task" /\ chat < MaxTaskCalls
    /\ audit' = [audit EXCEPT ![TaskFile(gen)] = @ + 1]
    /\ \/ chat' = chat + 1 /\ UNCHANGED <<lost, faults>>
       \/ Fault /\ lost' = [lost EXCEPT ![TaskFile(gen)] = @ + 1] /\ UNCHANGED chat
    /\ UNCHANGED <<seated, files, ledger, cards, report, told, index, run, pc, gen, att,
                   saved, crashes, unsettled, left, stuck, torn>>

TaskFailed == pc = "task" /\ Fault /\ Invalid({TaskFile(gen)})

\* trajectory.collect: the chat histories, redacted, in one atomic replace; no
\* record at all raises.
Collect ==
    /\ pc = "task" /\ chat > 0
    /\ files' = [files EXCEPT ![TaskFile(gen)] =
            [@ EXCEPT !.main = [i \in 1 .. chat |-> [n |-> i, kind |-> "output", raw |-> FALSE]],
                      !.wrote = chat]]
    /\ pc' = "eval" /\ told' = {EvalStatement(gen)}
    /\ run' = [run EXCEPT !["evaluator"] = Begun(EvalFile(gen))]
    /\ unsettled' = unsettled \cup {EvalFile(gen)}
    /\ UNCHANGED <<seated, audit, ledger, cards, report, index, chat, gen, att, saved,
                   crashes, faults, left, stuck, torn, lost>>

CollectFails ==
    /\ pc = "task"
    /\ \/ chat = 0 /\ UNCHANGED faults
       \/ chat > 0 /\ Fault
    /\ Invalid({TaskFile(gen)})

EvalFailed == pc = "eval" /\ In("evaluator", "dead") /\ Invalid({}) /\ UNCHANGED faults

\* The evaluate session is over: recorded, then cost.json; the checkpoint
\* follows in a step of its own.
EvalSettled ==
    /\ pc = "eval" /\ In("evaluator", "closed")
    /\ ledger' = Recorded(SessionCost(EvalFile(gen)))
    /\ cards' = [cards EXCEPT ![gen] = Card(gen)]
    /\ pc' = "settled" /\ told' = {}
    /\ run' = [run EXCEPT !["evaluator"] = NoRun]
    /\ UNCHANGED <<seated, sessionFiles, report, index, chat, gen, att, saved, crashes,
                   faults, ghosts>>

Settle == pc = "settled" /\ Invalid({}) /\ UNCHANGED faults

\* Each self-improve thread records its own session; a dead one records none.
SelfSettled(r) ==
    /\ pc = "self" /\ (In(r, "closed") \/ In(r, "dead"))
    /\ ledger' = IF In(r, "closed") THEN Recorded(SelfCost(r)) ELSE ledger
    /\ run' = [run EXCEPT ![r] = NoRun]
    /\ UNCHANGED <<seated, sessionFiles, cards, report, told, index, chat, pc, gen, att,
                   saved, crashes, faults, ghosts>>

\* After the join: reconciliation, and the outer's checkpoint.
OuterDone ==
    /\ pc = "self" /\ run = [r \in Roles |-> NoRun]
    /\ report' = Reconcile
    /\ pc' = "done"
    /\ UNCHANGED <<seated, sessionFiles, ledger, cards, told, index, run, chat, gen, att,
                   saved, crashes, faults, ghosts>>

\* The outer worker dies; what is on disk stays.
Crash ==
    /\ pc \notin {"down", "done"} /\ crashes < MaxCrashes
    /\ crashes' = crashes + 1
    /\ LET doubled == UNION {Doubled(r) : r \in Roles} IN
       \/ torn' = torn \cup doubled /\ UNCHANGED sessionFiles
       \/ \E r \in Roles : In(r, "open") /\ run[r].calls < MaxCalls /\ CutOff(r, doubled)
    /\ pc' = "down" /\ told' = {} /\ index' = [r \in Roles |-> {}] /\ chat' = 0
    /\ run' = [r \in Roles |-> NoRun]
    /\ UNCHANGED <<seated, ledger, cards, report, gen, att, saved, faults, unsettled,
                   left, stuck, lost>>

Loop ==
    \/ Boot \/ FirstRound \/ PlanSettled \/ PlanFailed \/ TaskCall \/ TaskFailed
    \/ Collect \/ CollectFails \/ EvalFailed \/ EvalSettled \/ Settle
    \/ OuterDone \/ \E r \in Roles : SelfSettled(r)

Next == Loop \/ Crash \/ \E r \in Roles : SessionStep(r)

Spec == Init /\ [][Next]_vars

-----------------------------------------------------------------------------
(*                              Properties                                 *)

\* Types of what a run leaves on disk, and of what the loop keeps.
TypeOK ==
    /\ seated \in BOOLEAN
    /\ \A f \in Files : audit[f] \in Nat /\ files[f].wrote \in Nat
    /\ pc \in {"down", "boot", "plan", "task", "eval", "settled", "self", "done"}
    /\ gen \in 0 .. MaxGen /\ att \in 0 .. MaxCrashes + 1 /\ saved \in 1 .. MaxGen + 1
    /\ crashes \in 0 .. MaxCrashes /\ faults \in 0 .. MaxFaults
    /\ unsettled \subseteq Files /\ torn \subseteq Files
    /\ left \subseteq Files /\ stuck \subseteq Files /\ \A f \in Files : lost[f] \in Nat
    /\ \A st \in told : st.seat \in {"plan", "evaluate", "self_improve"}

\* Every row of the parts is, redacted, a row of the main file.
Merged(part, main) ==
    /\ Len(part) <= Len(main)
    /\ \A i \in DOMAIN part : main[i] = [part[i] EXCEPT !.raw = FALSE]

\* Where unredacted rows of a settled session are served from: a file that could
\* not even be quarantined, or merged parts that could not be removed, next to a
\* main file that is redacted and has those rows too.
Uncovered(f) ==
    \/ f \in stuck
    \/ f \in left /\ ~RawIn(files[f].main) /\ Merged(files[f].parts, files[f].main)

\* Once a session's last run is at its end, nobody is served an unredacted row of
\* it: not through rotated parts, not after a retry of the redaction, not when
\* the generation id is used again.  Two failures are exceptions: the rename of
\* the quarantine, which is reported, and the removal of a merged part, which is
\* not and of which the code says that it "cannot leak anything" although read_all
\* reads the parts first (base_role.py:395, 424; trajectory.py:398, 431, 444).
ServedClean ==
    /\ \A f \in (Files \ SelfFiles) \ unsettled :
          RawIn(ReadSession(f).rows) => Uncovered(f)
    /\ \A r \in Roles : RawIn(ReadOuterSessions(r)) =>
          \E a \in Attempts : SelfFile(r, a) \in unsettled \/ Uncovered(SelfFile(r, a))

\* A session that lost nothing to a kill, a crash or a quarantine is served
\* whole: every row once, in the order it was written, whatever was rotated,
\* merged and appended again (trajectory_log.py:56, 85; trajectory.py:398).
ServedWhole ==
    \A f \in Files \ (unsettled \cup torn) :
        LET rows == ReadSession(f).rows
        IN  Len(rows) = files[f].wrote /\ \A i \in DOMAIN rows : rows[i].n = i

\* The evaluator of a generation reads exactly the rows of the task run it
\* evaluates, not of an earlier run under the same id, and never works without
\* (trajectory.collect; loop.py:1738).
EvidenceServed ==
    pc = "eval" =>
        LET rows == ReadSession(TaskFile(gen)).rows
        IN  chat > 0 /\ Len(rows) = chat

\* While a self-improve session runs, every address of the index it was given
\* still resolves to the row that was indexed, for the framework and, where it
\* has one, through its fetch (traj_index.py:85, 212; session.materialize_traj;
\* read_session_trajectory.py:153, 349).
AddressesBind ==
    \A r \in Roles : \A seg \in index[r] :
        {seg.n} = {SegmentEntry(seg.file, seg.line)}
                    \cup (IF seated THEN {} ELSE {Fetch(r, seg.file, seg.line)})

\* A statement tells a session what was measured before it: the planner only
\* earlier generations of the outer, the evaluator the task it judges and never
\* its own earlier session on the same generation, a self-improve session
\* nothing of itself (loop.py:596, 627, 645; cost_ledger.py:382).
StatementLooksBack(st) ==
    CASE st.seat = "plan" ->
            /\ st.task = TaskCost(st.gen - 1)
            /\ \A h \in st.history : h.gen < st.gen /\ h.tok = TaskCost(h.gen)
      [] st.seat = "evaluate" ->
            /\ st.task = TaskCost(st.gen)
            /\ st.own # None => st.own.key[3] # st.gen
      [] st.seat = "self_improve" ->
            /\ st.own # None => st.own.key[3] # st.gen
            /\ \A h \in st.history : h.key[3] = st.gen => h.tok = None
StatementsLookBack == \A st \in told : StatementLooksBack(st)

\* What a session is given to read is what was: its evidence, the addresses of
\* its index and its cost statement (the three parts above).
ReadersAgree == EvidenceServed /\ AddressesBind /\ StatementsLookBack

OnRecord(f) == \E i \in DOMAIN ledger : ledger[i].key = f
Quarantined(f) == files[f].quar # <<>>

\* No session is recorded twice, by no restart and by neither of the parallel
\* threads (loop.py:517, cost_ledger.py:347).
OneRecordPerSession ==
    \A i, j \in DOMAIN ledger : ledger[i].key = ledger[j].key => i = j

\* And each that the loop settled is recorded, crash or not, unless its file was
\* quarantined: both sessions of every generation with a card, and at the end
\* both self-improve sessions of the last attempt that were not killed.  This
\* is so in the in-process layout alone: below roles/<role>/<seat>/ the loop
\* looks for no session file, and records none (loop.py:502).
SettledOnRecord ==
    IF seated THEN ledger = <<>> ELSE
    /\ \A g \in Gens : cards[g] # None =>
          \A f \in {PlanFile(g), EvalFile(g)} : OnRecord(f) \/ Quarantined(f)
    /\ pc = "done" => \A f \in {SelfFile(r, att) : r \in Roles} :
          f \in unsettled \/ OnRecord(f) \/ Quarantined(f)

\* Reconciliation raises no false alarm: some session of the key lost or doubled
\* rows, or was billed a call that it never got the answer of.  A key without a
\* number on one side should be "unattributed, never a mismatch"; the code sums
\* sessions without usage to 0 and compares, and then no call of theirs came
\* back, or they lost rows (cost_ledger.py:398, 403, 452, 487).
NoFalseAlarm ==
    report # None => \A k \in report.mismatches :
        /\ \E f \in FilesOf(k) : f \in torn \/ lost[f] > 0
        /\ \A f \in FilesOf(k) \cap report.unattributed : f \in torn \/ audit[f] = lost[f]

\* In the in-process layout the ledger counts every settled session, and counts
\* it once; reconciliation alarms where something was lost (the parts above).
LedgerSound == OneRecordPerSession /\ SettledOnRecord /\ NoFalseAlarm

\* What a session cost is what it was billed, but for the calls it got no answer
\* of; no usage at all is None, never 0.
Spent(f, tok) ==
    \/ f \in torn
    \/ tok # 0 /\ audit[f] = lost[f] + (IF tok = None THEN 0 ELSE tok)

\* A cost is only ever recorded as what the proxy billed to that session for the
\* answers it got, and the generation's card agrees with the audit on all three
\* sessions, unless rows were lost (loop.py:488, 552).
CostsAreSpent ==
    [][/\ ledger' # ledger => LET new == ledger'[Len(ledger')] IN Spent(new.key, new.tok)
       /\ \A g \in Gens : cards'[g] # cards[g] =>
            \A c \in {cards'[g].traj, cards'[g].plan, cards'[g].eval} :
                c = None \/ Spent(c.key, c.tok)]_vars

\* What a session wrote is served whole and redacted (the parts above).
SessionsServed == TypeOK /\ ServedClean /\ ServedWhole

\* Costs are recorded as they were billed for what was answered, each settled
\* session once, and reconciled without a false alarm (the parts above).
CostsSound == CostsAreSpent /\ []LedgerSound
=============================================================================
