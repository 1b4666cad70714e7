# A TLA+ verification project for RSI-GAN

RSI-GAN improves a task agent by a dual loop. An *inner* loop lets a planner edit
the task agent's code, runs a benchmark and lets an evaluator judge the result; an
*outer* loop lets planner and evaluator edit themselves. Code states are git
commits, generations are nodes of a version DAG, and a driver runs one worker
process per outer generation, so that a run survives crashes. Roles, agents and
benchmarks run in sandboxes behind brokers. The language model is nondeterministic
input; what can be right or wrong is the bookkeeping around it. This project models
that bookkeeping.

Paths are relative to the repository root (`src/` in `PROJECT.json`).

## 1. Inventory

| Component | State | Operations | What makes it correct | Module |
|---|---|---|---|---|
| Task tree, `gan/framework/tree/store.py` | node table, insertion order, `tree.jsonl` | `add_node`, `update`, `load`, `select_parents`, reset | replay = memory; limits count real children; a rooted DAG | `TreeOps`, `TreeStore`, `AtomicTree` |
| Checkpoints, `checkpoint.py` | `checkpoint.json`, `ckpt/outer_<N>[_<ms>].json` | save, load, newest snapshot, capture/restore of trees | snapshots are immutable; resume continues the newest by time | `GanLoop` |
| Dual loop, `loop.py` | round, id counter, stagnation, role commits | one round, its failure paths, the outer's end | fresh ids, git history = blood line, ledger agrees with tree | `GanLoop` |
| Driver and worker, `driver.py`, `outer_worker.py` | mode, current outer | start / resume / force, spawn, wait | a started run ends; a crash loses at most one outer | `GanLoop`, `TaskBroker`, `RoleSeats` |
| Code repository, `code_repo.py` | HEAD, branches, work tree, `_TREE_LOCK` | `check_patch`, `apply_code_patch`, `ensure_branch`, `checkout_base`, `_hard_rollback` | clean tree between dry runs; registries never get worse | `CodeRepo`, `GanLoop` |
| LLM proxy, `llm_proxy.py` | scopes, budgets, in-flight counts, connection slots | issue, revoke, completion, close | budgets and counters exact under concurrency; every paid call recorded | `LlmProxy` |
| Task broker, `task_broker.py` | outers, budgets, used scopes, handler threads | register, activate, release, launch | the honest worker is never refused; capabilities end with the launch | `TaskBroker` |
| Role broker and process, `role_broker.py`, `role_process.py` | scopes, tokens, ACL counts, handler threads, the channel of a call | activate, launch, relay, reap, call, access request, release | running workers keep access, replies match calls, tokens end with the outer | `RoleSeats` |
| Task execution and runner, `task_execution.py`, `task_runner.py` | run directory, toolset, design, ACL lease | apply, heal, assemble, lease, run, score | the scored node tells exactly what was run | `Evaluation` |
| Harness and task worker, `domains/harness.py`, `task_worker.py` | sample, thread pool, `predictions.csv`, failures | sample, dispatch, time out, checkpoint, resume | every question has its own answer, nothing on disk is lost | `Evaluation` |
| Agent runtime, `agent/llm_withtools.py`, `agent/llm.py` | history, budgets, tool threads, redirected output | call, dispatch, time out, stop | the loop ends, late threads stay contained | `AgentLoop` |
| Context management, `cm/` | blocks, view, breakers | assemble, drop, pin, compact, fail open | lineages are trees, pins hold, failures are audited | `ContextView`, `AgentLoop` |
| Access broker and write surface, `access.py`, `patch.py`, `frozen.py`, `tools/deep`, `tools/design` | grants, workspace, overlay, recorded operations | grant, edit, register, select, build patch | a commit holds exactly what the session wrote, within its seat | `WriteSurface` |
| Registries, designs, preflight, `registries/loader.py`, `design/`, `preflight.py` | registry, modules, saved design | parse, select, deliver, heal, repair | a saved design names components that are delivered | `WriteSurface` |
| Trajectories, `utils/trajectory_log.py`, `trajectory.py`, `roles/base_role.py` | file, rotated parts, quarantine | append, rotate, redact, quarantine, collect | what is served is whole and redacted | `SessionRecords` |
| Cost ledger, `cost_ledger.py`, index, `cm/traj_index.py` | ledger, cards, statements, segments | settle, reconcile, state, index, fetch | each session once, as billed; addresses keep their rows | `SessionRecords` |
| Single-loop baseline, `scripts/dgmh`, `utils/gl_utils.py` | archive, metadata, patches, shared tree | generate, select, blame, resume, ensemble | generations start clean and carry their lineage | `ArchiveLoop` |
| Polyglot harness, `domains/polyglot` | image cache, containers, result files | build, run, report | current images; the report is what the files say | `Polyglot` |
| LLM relay, rewards, agent tools, domains, other baselines, analysis, scripts | | byte forwarding, arithmetic, third-party environments, plots | | not modelled, reasons in `PROJECT.json` |

How they interact. The driver starts the LLM proxy and the brokers, then one outer
worker per outer generation. The worker replays the trees, restores a checkpoint
and runs `GanLoop.run(only_outer=O)`. In a round it selects a parent, aligns the
code tree, lets the planner (a sandboxed `RoleProcess` started by the role broker)
make a patch on its write surface, commits it, asks the task broker for an
evaluation (a sandbox with a token of the proxy, in which the harness starts one
agent per question), collects the trajectory, lets the evaluator judge it and
writes tree, ledger and checkpoint. At the end of the outer both roles run a
self-improve session in parallel threads; their patches are applied after the join.
The processes share the output directory and the code tree; driver and brokers talk
over pipes, workers and brokers over Unix sockets. The baseline is a program of its
own that shares the agent, the harnesses and the containers.

What is hard: a process may die between any two durable writes; three start modes
meet whatever is on disk; two sessions share one work tree; a child's code must
come from its parent although HEAD is elsewhere; handler threads share counters and
ACL entries; client, harness, tool and token time out independently; a worker asks
before it is activated; a path is granted, edited and granted again; a design names
what the next commit may no longer deliver; files are rotated, redacted and reused
under the ids of a discarded generation. `PROJECT.json` lists these hazards at their
lines, with the properties that would catch them.

## 2. Modules

`TreeOps` defines the DAG as a value: the table, the three log events with their
replay (`ApplyEvent`, i.e. `_apply`), candidates and selection. The UCB value is
floating point and becomes an arbitrary ranking; `latest` and `best` are exact.

`TreeStore` is one store with its log. `load()` folds `_apply` over the file, so
the file is represented by that fold (`disk`), beside the tree in memory (`mem`).
`add_node` is several appends and the process may die between them. `AtomicTree` is
what a reader may assume: whole nodes appear below eligible parents, whose limit
counts their real children. The refinement mapping forgets the child counters and
takes the log's replay for the table (`ImplementsAtomicTree`); a checkpoint that
was never written is an empty table.

`GanLoop` composes the worker, the driver, the tree, the ledger, the checkpoints
and the git operations, one action per stretch between two durable writes. `Crash`
may happen anywhere and leaves tracked or untracked files behind if a patch was in
the tree; `DriverStart` then continues in any mode. A round may fail in any of its
stages (`Faults`), and a patch may be good, bad or missing (`PatchOutcomes`).
`MCGanLoop` gives the limits (rounds, children, depth) that TLC examines.

`CodeRepo` looks into what `GanLoop` takes as one step: the two self-improve
threads with `check_patch` step by step under `_TREE_LOCK`, the retry loop, the
join and the commits. Files are reduced to the health of each role's registry,
because the roles' paths are disjoint and the gate reads every registry. A role is
either an object in the loop's process or (`sandboxed`) a `RoleProcess` on a
read-only copy without git, which is what `gan/build.py` builds.

`LlmProxy` has one program counter per connection with an action for every
critical section, `MCLlmProxy` adds the symmetry of connections (they are
interchangeable in the initial state, in every action and in every property, and
all properties checked with it are safety properties).

`TaskBroker` has the driver, the worker and one handler thread per launch. The
harness is opaque there: it may end at any time or never.

`RoleSeats` has the broker, one handler thread per launch of a seat (grants in order,
spawn, relay, reap, drops in reverse), the sandbox, the outer worker's `RoleProcess`
with its connection attempts, handshake and calls, and the driver's control pipe with
its poll timeout. The relay's write to the sandbox's input is a step of its own that may
never return (`RelayBlocks`, `RelayWrote`). Messages carry the number of the call they
were sent in. Every failure is a constant choice (`FaultSets`), so that TLC combines
only those that can meet. Two roles share nothing but the connection slots, so one role
is modelled and a slot may be taken.

`Evaluation` follows one `DomainTaskRunner` call: patch, healing and persisting of
the design, the run directory, the lease with reference counts beside an earlier
launch that still runs, the harness and its pool, the rows, the report, the node.
The same module has the harness started by hand, killed at any time and started
again. An answer is the question it was given for. A sample becomes a table by
`InFileOrder`, the increasing sequence of its positions; `KnowledgeTotals` is the
size of the delivered knowledge after each note.

`ContextView` is one context-management session as a record and its methods as
operators; a text is an identity, a length and a quoted block marker, which is all the
code looks at. What `render` makes of an entry is its form, and what the client puts on
the wire of it (`Wire`) depends on the keys the entry carries: that is code of
`agent/llm.py`, which pops keys from the history it was given, so a retry sends less.
`AgentLoop` is `chat_with_agent` with that session below it, and with a bounded executor
whose abandoned threads run on. `MCAgentLoop` splits the instances: sessions without a
context manager on all replies, budgets and hanging tools, sessions with one on the
operations on its view.

`WriteSurface` is the life of one role's files: a session's workspace with its
grants (file, directory, glob, with or without overwriting), the tools that change
it, the patch built from it, the gate, the commit, the persisted design and the
startup checks of the next session. A module is a member of a small set with a
content; the registry is a sequence of entries or garbage.

`SessionRecords` is one outer seen from its files: plan, task, evaluate and both
self-improve sessions append rows, are redacted or quarantined, are settled into the
ledger and are read back as evidence, statements and index. Sessions may be killed,
file operations may fail, a call may be billed and never answered (its client gave up
and asked again), and the loop may die once and starts again from the generation
counter of its checkpoint, which reuses generation ids and files. What was lost on the
way is kept in variables that no step reads (`left`, `stuck`, `torn`, `lost`), so that
the properties can name the failure behind every exception.

`Polyglot` is one harness call over an image cache; `ArchiveLoop` EXTENDS it with
the baseline's loop, its archive and metadata files, the shared work tree and the
other two programs that call the harness.

| Code | Model |
|---|---|
| `TreeStore.nodes`, `.order` / `tree.jsonl` | `mem` / `disk`, `tree` |
| `GanLoop._gen_counter`, `_role_commits` | `counter`, `roleCommits` |
| `checkpoint.json`, `ckpt/outer_*.json` | `latest`, `snapshots` |
| HEAD, branches, uncommitted changes | `head`, `refs`, `dirty` (`GanLoop`); `head`, `work` (`CodeRepo`) |
| `_TREE_LOCK` | `lock` |
| `_tokens`, `remaining_calls`, `_inflight`, connection slots | `status`, `remaining`, `inflight`, `slots` |
| `TaskBroker._outers`, `_used_scopes`, handler threads | `budget`, `active`, `used`, `launch`, `answer` |
| `RoleBroker._scopes`, `_active`, `_traverse_refs`; `RoleProcess._seat`, call id | `scope`, `refs`, `acl`; `seat`, `callId` |
| `_TASK_TRAVERSE_REFS`; `predictions.csv`, `eval_failures.jsonl` | `refs`, `acl`; `csv`, `failLog` |
| `_meta["wedges"]`, redirected `sys.stdout`; `CMSession` | `wedges`, `sysout`; `cm` |
| workspace, `granted_paths`, recorded operations, saved design | `ws`, `wsDir`, `grants`, `told`, `saved` |
| `archive.jsonl`, `metadata.json`, `model_patch.diff`; images, result files | `disk`, `meta`, `patch`; `img`, `res` |
| session files and parts, `cost_sessions.jsonl`, `cost.json` | `files`, `ledger`, `cards` |

A `Mutant` operator is a variant of the definition it is named after with a
plausible bug; the runs find each of them through the property it is paired with in
`PROJECT.json`.

## 3. Runs

A property that a run checks is the conjunction of the named parts above it in its
module; each part has its own comment.

| Run | Question and result |
|---|---|
| `tree_store` | Adds with two parents, all selection rules, a checkpoint and crashes between appends: memory equals replay, limits and lineage hold for the real children (`LogSound`), the log implements `AtomicTree`. |
| `loop_restart` | Three driver starts in any mode around a death at any durable write: an outer that follows a snapshot starts from exactly that snapshot and works on a clean tree (`ResumesSound`), ids are fresh, git history is the blood line and settled generations are in the ledger (`GenerationsSound`), snapshots and recorded generations are never altered. |
| `loop_faults` | Every stage may fail and every patch outcome occur: blood line, ledger and imputed scores stay right (`FaultsContained`), and the run ends, by rounds, by stagnation or because no candidate is left. |
| `self_improve` | Two outers, both roles, both arrangements, damaged registries, git faults: dry runs do not interfere, no commit worsens a registry or is made on an unclean tree, and every round ends with what passed committed (`RoundCompletes`). |
| `proxy` | Several connections of a budgeted and an unbudgeted token with revocation, expiry and shutdown: budget, counters, slots and records are exact (`CallsAccounted`), a revoked token starts no call. |
| `task_broker` | Late activation, lost control calls, hung harnesses, crashes: the worker is never denied and an earlier outer never served (`LaunchesSound`), a reported generation has no live token, the driver ends. |
| `role_seats` | Two outers of two seats with failing ACL calls, launches, boots, events, calls, revocations and control replies: a running sandbox keeps its access and a call reads its own answer (`WorkersServed`), tokens die with their outer, and a sandbox without a client is reaped unless its handler stays for ever in a write to it (`OrphanReaped`). |
| `evaluation` | Every kind of job, design, patch and notes, with agent failures and question timeouts, a kill and a torn save: the report is right (`AnswersSound`), leases are exact (`HarnessIsolated`), no answer on disk is lost, every evaluation ends. |
| `agent` | Hanging and abandoned tools, malformed, cut and repeated replies, both budgets; presets, named assemblies and policies that fail, agent edits in any order: `ToolsContained`, `SeamSound`, `PromisesKept`, and the session ends unless policy or assembly code never returns (`SessionEnds`). |
| `write_surface` | Two sessions of any seat and arm with grants of every kind, edits, component and design tools, refused and retried patches, a crash before persist and in the startup repair: commits carry the session's edits and, but for modules that a skipped copy left out, nothing else (`EditsSound`), components and designs stay usable (`ComponentsSound`), sessions end. |
| `baseline` | Eight command lines, two generations, three exercises on two threads, one restart: `ArchiveSound`, `ScoresSound`, `NothingRevived`, and the loop ends. |
| `records` | Two generations and both self-improve sessions in both path layouts, with a killed session, a failing file operation or an unanswered call and a death of the loop: served files are whole and, but for two failures that the property names, redacted (`SessionsServed`), readers agree with what was measured (`ReadersAgree`), costs are recorded as billed for what was answered, and in the in-process layout each settled session is recorded once (`CostsSound`). |

Bounds. The interesting interleavings need two actors and one or two repetitions:
two parents per node; two outers with one round for crash placement, so that a
third start meets what a crash and a resumed or forced second run left; three
rounds for imputation, with room for three children (two measured siblings of a
failed one) or for two (no candidate left); one retry and two outers for sessions; a
budget, a concurrency limit and a slot count smaller than the number of
connections, so that each limit is hit; two outers of two launches or seats with
fewer slots than launches; three of four questions, a checkpoint every second row
and two workers, so that a kill falls between checkpoints; a window of two rounds
and up to three edits of the view, so that a derived block is compacted again; two
modules, one of which shadows an always-on tool, and a helper beside them that no
request names, so that a directory granted after a file leaves it out; two sessions, so
that the second meets what the first committed; two generations and one restart of the
baseline; a rotation at every row, one fault and one crash for the records. Every
bound is a CONSTANT and is named in its module.

Deadlock checking is off where the system may stop: a run that is complete, a
driver that may not be started again, connections that are all closed. `RoleSeats`,
`Evaluation`, `AgentLoop` and `TreeStore` have an explicit end instead and are
checked for deadlock.

Fairness. `GanLoop!FairSpec` assumes that a running worker takes its next step, not that
anybody restarts it or that it crashes. `CodeRepo!FairRepoSpec` assumes weak fairness of
the main thread and strong fairness of each session, because a thread waiting for
`_TREE_LOCK` finds it free again and again and `RLock` hands it on; a session step
includes the end of the language model's turn, whose calls have timeouts.
`TaskBroker!FairSpec` assumes that driver and worker are scheduled and that the client's
socket timeout fires; nothing is assumed of the broker's threads or of the harness.
`RoleSeats!FairSpec` assumes only that the broker's handler threads run: the relay
notices a closed socket and terminates the process by signal, whatever driver, worker
and sandbox do. It assumes nothing of a write to the sandbox's input: `OrphanReaped` is
(running and without a client) ~> (not running, or for ever in that write).
`Evaluation!FairSpec` assumes the runner, the harness and the end of the earlier launch;
an agent's answer is part of the harness because `future.result` has a timeout.
`AgentLoop!FairSpec` assumes the main thread, and tool threads only in the sessions
whose tools do not hang: the executor's timeout covers the others. Policy and assembly
code may take the main thread for good (`AgentCodeHangs`, then `hung`), which is not an
end of the session. `WriteSurface!SurfaceFairSpec` assumes the framework code and the
end of a chat (`AgentLoop`), `ArchiveLoop!FairSpec` the main thread and the pool; kills
and restarts are never assumed. `TreeStore`, `LlmProxy` and `SessionRecords` have safety
properties only.

## 4. What is proved

TLAPS proves the following for every value of the constants allowed by the named
assumptions (`LimitsAssumption`, `LoopAssumption`, `RepoAssumption`, `SeatAssumption`,
`BrokerAssumption`, `ProxyAssumption`, `EvaluationAssumption`, `AgentAssumption`,
`ContextAssumption`, `SurfaceAssumption`, `BoundsAssumption`). They give limits and
counts their type. `NoneAssumption` of `TreeStore`, `Evaluation` and `SessionRecords`
and `NoResultAssumption` and `AbsenceAssumption` of the baseline say that `None` is a
value of its own, `JobsAssumption` that the jobs are jobs, `CallersAssumption` that
command lines, subsets and patches are what they are called, `WorkersAssumption` that a
harness call has threads and finitely many exercises.

Where a proof needs induction over numbers it takes the least counterexample
(`LeastNatural`); the greatest element of a bounded set (`GreatestNatural`) gives the
deepest parent, for the median the next smaller score, and of a session the latest
record in the ledger.

`TreeStoreProofs`: `LogIsSound` and `LogImplementsTree`. A log in the middle of
`add_node` has counters that are ahead of the children it holds, so the limit on
real children is not inductive. `StoreInv` therefore says of every tree, in the log
and in the checkpoint, that its counters are at least its children and that its
nodes have eligible shapes below "initial", and of an `add_node` in progress which
parents are registered (`AddUnderWay`): their counters are one ahead until the node
is there. A crash keeps the counters and drops the node, which only makes the limit
stricter. That a lineage is a DAG follows from the depths: a child is one deeper
than its deepest parent. Each step is then matched with `Add`, `Settle`, `Save`,
`Return` or a stutter of `AtomicTree`.

`GanLoopProofs`: `FreshIdsHold` and `SnapshotsStayImmutable`. `FreshIds` is not
inductive: a counter restored from a checkpoint is ahead of the restored tree only
if that was so when the checkpoint was written. `FreshInv` therefore adds the same
relation between counter and tree for `latest` and for every snapshot, and that
the generation in progress was numbered below the counter and is not yet in the
tree. Immutability needs `SnapshotsOrdered`: every archival time stamp is below
`Now`, so a new name is really new.

The same module proves `GenerationsStaySound`, `ResumesStaySound`, `FaultsStayContained`
and `GenerationsAreKept`, that is all safety properties of the two runs of the loop,
from `LoopInv`. Blood line, ledger and grounded imputation must hold of trees that come
back: so `DiskInv` states them (`SoundTree`) of the tree, of `checkpoint.json` and of
every snapshot, against today's branches, commits and rows. They stay true there because
commits, branches and rows are only added and the branch of an outer, from which its
first generations start, is never moved. `CommitLog` is the type of the history,
`RoundInv` what a round has established at each of its steps, `CleanInv` that the work
tree is clean in a round. `ResumeInv` carries the agreement of `checkpoint.json`, newest
snapshot and HEAD from the end of one outer, over any crash, to the start of the next.
Imputation is a median of measured siblings or the score of a parent that is grounded
itself; `Grounded` is preserved because the median lies between two members and nodes
keep their scores.

`RoleProofs`, about `CodeRepo`: `TypeCorrect`, `TreeCleanWhenFree`,
`VerdictsAreSolitary`, `RegistriesNeverWorsen`, `CommitsNeedCleanTree`. `TypeCorrect`
combines the shapes in the invariant below with `Counters`, which is inductive alone.
The inductive invariant says who holds the lock (`Exclusive`: exactly the session
between entering and leaving `check_patch`, nobody after the join), what the tree is at
rest (`TreeAtRest`), and what a session knows at each of its steps (`Knows`: before
applying, the work tree is HEAD; when comparing, it is HEAD with its own patch; an
accepted patch passes on HEAD). Commits happen only after the join, where the lock is
free and the tree is therefore HEAD; with the acceptance test this gives the last two.
`PassedPatchesAreCommitted` is the safety part of `RoundCompletes`: what is still due
passes on HEAD as it is now (`DuePasses`), because a patch accepted on a tree is
accepted there after the other role's accepted patch as well (`AcceptedAfterOther`; if a
registry was unparseable, strict mode let the first patch by only if it left none).

`RoleProofs`, about `RoleSeats`: `TokensDie`. `TokensDieWithOuter` alone is not
inductive: the driver moves on because of what it reads from the control pipe.
`TokenInv` says what the pipe holds at each step of the driver (`PipeKnown`: nothing,
its own request, or one answer), that the broker knows every seat of the outer from its
registration until its release (`Registered`), so a release collects every token still
accepted, and that while the tokens are revoked those still accepted are among the
remaining ones; a positive answer then means that none is left. An answer that came too
late is read only by the release of a failing driver, which goes on to no further outer.

It also proves `SeatsServe`, that is `WorkersServed`, from its type invariant
and three inductive parts. `LaunchOnce`: a seat is launched once,
because a scope that is free has no handler; a registration request, answered late
or never, is only pending while no client of its outer exists. `Access`: while the
broker runs, each reference count is the number of handlers between the grant and
its reclaim (`Holders`), and a running sandbox has a handler that holds both entries;
a failing `setfacl -x` leaves an entry and never takes one. `Sync`: what waits in the
channel follows from the steps of client and worker (`Turns`): before the last
message of a call only events wait, and a worker that is not dead owes exactly one
answer or has sent it. A reply read by the next call would need a channel that
outlives a failed call, and `CallFails` gives up the seat.

`AccessProofs`, about `TaskBroker`: `BrokerServes` and `RevokedBeforeReported`. The
broker never denies its own worker because the budget of the current outer is `Imax`
less the number of used scopes (`BudgetExact`) and the scope asked for is not among
them: scopes are reached in order (`WorkerPlace`), and one is asked for again only after
an answer "retry", which leaves it unused (`LaunchShape`). A handler whose client timed
out may still reserve, so the worker's own count of its requests would not do.
`TokenShape` says that a return code is sent, and recorded by the worker, only for a
capability that is dead.

`AccessProofs`, about `LlmProxy`: `BooksExact` and `RevokedOnlyDrains`, for any number
of tokens, connections and slots. The counters of the proxy equal the numbers of
handlers at the steps between the line that takes and the line that gives back
(`CallBudget`, `InflightExact`, `SlotsConserved`, `Accounted`); a handler's step moves
one connection from one of these sets to another (`AtMoves`). `Carried` adds what a
handler holds at each step, `AuditBounded` that a connection sends and records once at
most. No handler starts to act for a token after its revocation, so its calls only
drain.

`AccessProofs`, about `WriteSurface`: `SurfaceStaysSound` and `CommitsCarryTheEdits`,
from one inductive invariant `SurfaceInv`, for any modules, texts, edits, requests and
numbers of calls. The properties speak of commits and startups; the invariant says what
is true in between.

* `GrantsHeld`: a grant for modification lies in the seat's write roots, and none is
  given in an arm without deep access. A copied module or a grant on one implies that
  the component directory was copied (`wsDir`), so a request for the directory does not
  copy it over an edit.
* `WorkspaceKnown`: while a session runs, what its last call on a file said is in the
  workspace and under a grant, and a file that differs from the committed tree differs
  by such a call or is a module that a granted directory's skipped copy left out, which
  the step that skips it records (`LeftOut`). `PatchKnown` says the same of the patch
  from the end of the session to the commit: a patch holds granted paths only, so an
  edit outside them would be lost.
* `Whole`: the committed tree is one that the startup checks accept (`TreeSound`: the
  registry parses, names agree with stems, no name is held twice or by a tool that is
  always on, no module is left unregistered). The gate compares two reports, so a
  clean tree stays clean (`CommitSound`). That the first tree is clean is
  the assumption that its tools have distinct stems (`InitialTreeSound`).
* `OutcomeKnown`, `DesignKnown`, `PromptKnown`: how a session can have ended, that a
  saved design is there once the first startup is over, and that a prompt that was
  evolved is on disk or in the file set aside.

The catalogs of a registry are sets of positions (`Named`), and the entries without one
name are given by their ranks (`Without`, `RankExists`): the prover has no definition
of the filter of a sequence.

`EvaluationProofs`: `HarnessesStayIsolated`, `AnswersStaySound`, `AnswersAreKept`.
`LeaseInv` counts: the references are those of the earlier launch and of this one
(`RefsExact`), and while there is one the entry is set (`HeldIsSet`), so whichever
launch ends first leaves the other its access. `EvaluationInv` goes along the
evaluation. `DesignInv`: what healing keeps resolves in the committed code, and the run
directory delivers that. `HarnessInv`: the labels of the rows are their positions
(`RowsInv`, which fails without the reset of the index; a seeded draw of the harness
itself keeps the questions' labels and is excluded where the property excludes it), so
the answer written at a label belongs to the question at that position (`AnswersInv`);
futures are consumed once and in order, and a consumed one has its prediction
(`ConsumedInv`); the last save is of everything (`SavedInv`), and the failures of a
start are on disk once each, up to the number written (`FailuresInv`); `NodeInv` takes
this to status and coverage. `AuditInv` follows the seam's events. A harness started
again reads the file back by question, and `KeptInv` says that what it holds in memory
contains what is on disk; with it every later save contains it too. The helpers on data
are lemmas: a finite set of positions has an increasing enumeration (`SortedExists`), a
drawn sample has the size it should have and contains its anchors (`SampleFacts`), the
totals of the knowledge notes exist, grow and stay below the cap.

`SessionRecordsProofs`: `SessionsServedAlways`, `ReadersAgreeAlways` and
`CostsSoundAlways`. That a settled file is clean and whole (`Clean`, `Whole`) is not
inductive by itself. While a session is between the replacement of its file and the
removal of the merged parts, every row is on disk twice, so `Whole` looks at the file
alone there (`Holds`), and `Running` says for each step of a session what it knows of
its file: that it is not settled yet, that it exists once a call was made, that the file
is redacted and has the rows of its parts when these are dropped. `Seats` ties each
session to the one file of its seat, so a step of one session leaves every other file
alone (`SessionFrame`) and the proof of a session's step is a proof about one file.
Parts that could not be removed stay beside a main file that is redacted and has their
rows (`Covered`), also after the file is merged again; only a file in `stuck` is served
raw itself. The calls a file was billed are its answers and those in `lost`, so a cost
read from a whole file is known without induction over its rows. `Recording` says which
sessions of the generation in progress are already in the ledger, from which every card
follows; `Reported` that the reconciliation is the last step of an outer. What comes
back after a crash needs three more parts: `Archived` (a task archive is written in one
piece, after the calls it records), `Working` and `Evidence` (the rows of the task that
is judged are those of this child, although a restarted loop reuses its generation id),
and `Fresh` with `Unrecorded` (the self-improve files and ledger keys of an attempt that
has not come yet are unused, so no later session is recorded twice). `Indexed` says that
an address resolves to its row and leads to no self-improve file, the only files written
while an index is in use. The sums of the reconciliation differ only if one of their
files does (`FineIsBilled`), and a whole file costs what was billed but for what was
lost; induction over the files of a key is not needed.

`ArchiveLoopProofs`: `ArchiveStaysSound`, `ScoresStaySound` and `NothingIsRevived`,
from two inductive invariants. `HarnessInv` goes along a call of the Polyglot harness:
an exercise under way has no result and one that is done has its result as outcome
(`Harnessed`), so the report, made of the outcomes, says what the files say, and a
result is only written where none is; an exercise is started only after the plan, which
leaves no stale environment image. `LoopInv` goes along the baseline. Neither the clean
tree nor the lineage of a node is inductive. `Trees` says what the shared tree holds at
each step of `generate()`: the applied lineage before the meta agent, the lineage with
the own patch after it; only a run that ended on a patched tree breaks it, which
`tainted` records. `FirstTry` and `Untried` say that a first attempt finds no diff and
no metadata of an earlier one, so what is recorded at the end is what was evaluated;
`Descended` that lineages name only archived generations, so no later diff changes the
code of an earlier node (`SameLineage`, `SameCode`); `Withdrawn` that an
invalid node is never made valid, because metadata is written anew only for a
generation that is not archived yet. That the selection answers with a candidate
(`SelectedArchived`) needs that the best score exists among finitely many
(`BestOfScored`); it holds for all four methods, and the type of the Polyglot score
follows because a score is only computed of a call with a finished exercise.

`AgentLoopProofs`: `ToolsAreContained`, `SeamIsSound` and `PromisesAreKept`, from one
inductive invariant `IInv` over the loop, its tool threads and the view.

* Threads. `Redirected`: each call's proxy wraps an older one, a thread puts back a
  proxy that exists, and only the call the loop waits for captures. So once the loop
  goes on, the chain from `sys.stdout` passes through, by least counterexample over the
  chain. `Wedged`: the breaker counts at least the abandoned calls of each tool
  (`GivenUp`). A call in the queue belongs to a tool with a wedge to spare, so the
  abandoned calls are fewer than the wedges of all tools (`Sorted`, an injection of the
  calls into pairs of a tool and a number), which the pool has room for.
* View. `ViewOK` has the form of the blocks and `ConsumedOnce`: a derived block that a
  compaction consumed is pinned, nothing points to it, and no second block consumes it.
  Every method but `Consume` changes blocks one by one (`Touched`) and registers new
  ones (`Newborn`), for which one lemma suffices (`Evolves`); `MergeKeeps` is the
  argument for `Consume`. The attempt to prove it showed that an earlier version of
  `Consume` did not pin a consumed derived block that is itself the host, as
  `ops.py:190` does. `PinsKept` is a statement about two views, proved along.
* Books. `Books` ties the two breakers, the refusals and the briefs to the step the loop
  is at: a policy runs only while it is on, an assembly only while it is given and on.
* Window. `WindowIsSent` speaks of what `render` makes of the blocks, which says nothing
  of the next turn. `Mirror` says it of the blocks: those of a session that was not
  edited are the entries of the history in their order and the outgoing text, and a
  block older than `WindowK` rounds is elided. It needs `Heard`: a reply is told from
  every other text, so each is registered once; the loop's own texts may repeat.
  `register_history` is proved for such sessions to append the one entry no block stands
  for (`RegisteredMirror`). `Keyed` says which keys an entry of the history carries, from
  which `Wire` follows: a reply carries its text twice and goes out in full.
* `Steps` says what the loop knows: a call is only awaited under budget, and after a
  stop only the summary is left. `NothingAfterStop` follows step by step.

`AgentAssumption` asks for a finite, nonempty set of tools, positive pool and wedge
limit; the sessions may be any of `SessionKinds`. `PinsKept` and `PinRespected` are
about pins of the state before the step, as the property is.

Every invariant and action property of the runs is stated by one of these theorems,
except that `PassedIsCommitted` is checked as a part of `RoundCompletes`. Only
model-checked: the liveness properties (`RunEnds`, `RoundEnds`, `OrphanReaped`,
`EvaluationEnds`, `SessionEnds`, `LoopEnds`), which are out of the prover's reach, and
the numeric result of `DerivedLen`, of which the proofs use nothing.

## 5. Where code and comments differ

Met while modelling and visible in the models. Where a property would not hold of the
code as its comments have it, the property says what does hold and names the exception,
its comment says so at its place in the module, and the disagreement is listed here.

Dual loop and code repository:

* A generation whose trajectory cannot be archived gets no score row
  (`loop.py:1740`, against `loop.py:885`); an evaluator failure writes an invalid
  row that carries a score (`loop.py:1867`).
* After a resume, reused ids find the branch of the discarded generation and
  `ensure_branch` does not move it (`code_repo.py:195`, against 626). A crash in
  outer 1 leaves no snapshot, and a resume keeps its generations
  (`checkpoint.py:196`, against `outer_worker.py:24`).
* A registry without its `components` key makes the report raise between apply and
  rollback (`code_repo.py:570`, against 540); the strict clause rejects the other
  role's patches while one registry is unparseable (`code_repo.py:495`, against
  489); a sandboxed session's `check_patch` finds no git repository and raises the
  error that aborts the run (`base_role.py:530`, against `code_repo.py:354`).
* The driver's resume restores tracked files only, and only when HEAD differs; a
  role's commit sits on one task branch and is not in the code of a later parent on
  another. A torn last line of `tree.jsonl` makes `load()` raise (`store.py:86`).
  A call in flight when the driver exits is paid for and not recorded
  (`llm_proxy.py:393`).

Role seats: ACL entries of handlers that are daemon threads survive a close
(`role_broker.py:967`); the design tree's entry has no reference count (397, 655); a
seat consumed by a failed call is denied to later calls of the outer (626); a failed
launch leaves its token live until the outer is released. The relay writes to the
sandbox's input with a blocking `write` and `flush` (447-448): a sandbox that never takes
its input, from a client that has sent more than the pipe holds, keeps the handler there
after the client is gone, and only the end of the broker ends both.

Evaluation: a non-positive `num_samples` leaves the coverage undefined and the
generation "ok"; the polyglot coverage divides by the report's total and leaves out
empty patches; answers that read "NA" or "None" come back from the CSV as missing;
a table saved without a reset index keeps the original labels (`harness.py:506`).

Agent and context management:

* A reply is kept under `content` and `text` (`llm.py:220-223`). `render` puts the
  placeholder or excerpt into `content` (`session.py:995`), and the client overwrites
  `content` by what it pops from `text` (`llm.py:185-188`). So the first attempt of a
  call sends every old reply in full, although `window_defaults` promises "older
  turn/tool blocks -> placeholder" (`session.py:733`); only user turns are elided.
* The client pops `text` from the very entries it was given. A retry by `backoff` finds
  it gone: it sends replies in the form `render` gave them and of the user turns only
  the first, and in a custom session whose operation failed, and which is therefore sent
  raw, the text of the canonical history is lost (`Transient`).
* `count_ops` looks at the first `max_ops_per_turn` records only: refusals of a policy
  past the cap are not counted as violations (`session.py:850`, 869).
* The execution budgets of policies and assemblies do not bind a thread that never
  returns: leaving the executor's `with` block waits for it (`assembly.py:336`,
  `failopen.py:9`). `SessionEnds` is therefore stated for sessions in which this does
  not happen, and for replies that are not cut off for ever, because cut replies are
  retried without a bound of their own.
* A failed assembly is replayed and registers the outgoing text twice; a reply that
  quotes a block marker is bound to that block; unpinning a consumed derived block
  allows a second consumer.

Write surface: overlapping grants, such as the glob that `register_component.py:207`
recommends, repeat a hunk and the patch never applies (`patch.py:183`); a file grant
followed by its directory's skips the copy (`access.py:262`), and the patch then deletes
the neighbours that were never copied (`patch.py:216-221`), against its docstring, which
takes an absent file for one "removed from the workspace, e.g. by
``unregister_component``" (`patch.py:169`); such a file is marked `Skipped` in the model
and is the one kind of deletion without a call behind it that `OnlyToldContent` admits;
`list_components` lets the last duplicate win and the registry the first; a crash in
`repair_dangling_designs` leaves the design only in the file set aside
(`preflight.py:362`, against "lossless" in 324); healing keeps a key whose consumer is
gone.

Records:

* Parts left by a failed removal are served first and raw: `read_all` concatenates them
  before the redacted file, although `trajectory.py:432` says that a leftover part
  "cannot leak anything -- the readers always resolve the main file first". The session
  is settled and nothing is reported. `ServedClean` admits exactly these rows
  (`Uncovered`), and those of a file that could be neither redacted nor quarantined,
  which stays under its name and is reported (`base_role.py:424`).
* `last_err` is not cleared when the redaction retry succeeds, so the session is
  quarantined (`base_role.py:406`); a session that raises or is killed is never redacted.
* The ledger, the reconciliation and the index look for the legacy paths only
  (`loop.py:502`): in the seat layout no role session is recorded, reconciled or indexed,
  which `SettledOnRecord` states. Every session is counted once in the in-process layout.
* "either side `None` -> `unattributed`, reported but never a mismatch"
  (`cost_ledger.py:403`), but the sum of sessions without usage is 0 and is compared
  (452, 487). `NoFalseAlarm` says when that happens: no call of those sessions was
  answered, or they lost rows.
* A call may be billed without a row: a question times out while its client
  still waits (300 s against 600 s), or `get_response_from_llm` asks again
  (`llm.py:166`). The reconciliation then reports a mismatch that is real; `Spent` and
  `NoFalseAlarm` count such calls in `lost`.
* A generation that is run again under the same id keeps its first ledger record
  (`cost_ledger.py:347`). The statement of a self-improve session lists self-improve
  attempts only; the driver's roll-up starts at time 0 again after a restart.

Baseline: `skip_staged_eval` leaves a list undefined (`generate_loop.py:92`); the
choice of the next parent ignores scores for validity and has no polyglot entry;
any exception before the meta agent ends blames the parent; a retried generation
keeps its stale diff and report; a resume takes the shared tree's HEAD for the root
commit; a missing `model_patch.diff` ends the polyglot harness and the loop; failed
results are final on a rerun; the harness filters the parents' patch files and writes
them back with one more newline in every call (`polyglot/harness.py:331`), which the
model does not have;
`polyglot/harness.py:72` says that a failed apply
proceeds unpatched while the exercise ends in an error.

## 6. Abstractions and what is not modelled

File contents, prompts, scores as floats, timings and identities are left out.
Appends and file replacements are atomic unless a module says otherwise
(`Evaluation!TornSave`, the parts in `SessionRecords`). Time is the order of
snapshots. Restoring the three trees is one step: the resets are idempotent and a
crash between them is followed by the same restore. `Crash` of `GanLoop` stands for
the death of worker or driver and for any exception that leaves `run()`. Role
sessions in `GanLoop` are those of roles in the loop's process.

Narrower than the code: an answer is billed in the turn that it ends, so a bill that
arrives after its session was settled is not modelled. A proxy without an upstream
(`llm_proxy.py:442`) is not. The branch of `_finalize_child` for a child that already is
"invalid" (`loop.py:470`) is left out: no runner returns such a child. `Evaluation`
leaves an unreadable sidecar out, excludes a draw the harness seeds itself from the
labels' property and polyglot, which has no coverage of its own, from `OkMeansComplete`;
its question timeout is that of the sandboxed agent, an agent called in the harness's
own process has none (`harness.py:438`). `WedgesAreOwn` assumes a pool with room for the
wedges the breaker admits; the code's pool has four workers and a limit of two, so more
than two tools that hang may fill it, and in-process sessions that share a pool are not
modelled. `ReadersAgree` is about the main file, one outer. `NoSilentDrop` is about
sessions that use up their retries, and `EvolvedPromptKept` counts a prompt in the file
set aside as kept. `RoundEnds` counts an aborted run as an end, as the code raises
there.

Not modelled: the LLM relay (bytes only), rewards (arithmetic no control reads), the
bash and editor tools and the simulator and grader domains (third-party or opaque to
the loops), `set_param`, removal of images after a run, plots, other baselines and
command-line wrappers; the reason for each is in `PROJECT.json`.

## 7. Plan

1. An abstract specification of a seat (started, serving, gone) that `RoleSeats`
   implements, and of the proxy's token that `TaskBroker` and `RoleSeats` share.
2. The reward table and the clamping of cost keys as operators checked against a
   reference definition.
