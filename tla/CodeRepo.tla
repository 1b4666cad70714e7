------------------------------ MODULE CodeRepo ------------------------------
(***************************************************************************)
(* The two self-improve sessions of an outer on the shared code tree:      *)
(* gan/framework/code_repo.py (check_patch, apply_code_patch, the registry *)
(* gate), gan/roles/base_role.py (the dry-run/retry loop of a session) and *)
(* the join-then-apply part of gan/framework/loop.py.                      *)
(*                                                                         *)
(* The sessions run in parallel threads.  Each dry-runs its patch in the   *)
(* one work tree: apply, compile, compare the registry reports, roll back, *)
(* all under _TREE_LOCK.  After the join the patches that passed are       *)
(* applied and committed, evaluator first.                                 *)
(*                                                                         *)
(* A role is either an object of the loop's process, so that its session   *)
(* works on the run's tree, or a RoleProcess (build.py), whose session     *)
(* runs in a sandbox on a read-only copy of the tree without .git.         *)
(*                                                                         *)
(* Of the tree only the health of the registries is kept: frozen.py gives  *)
(* the two sessions disjoint paths, and registry_report reads the registry *)
(* and the components of every role.                                       *)
(***************************************************************************)
EXTENDS Integers, FiniteSets, Sequences

CONSTANTS
    Nothing,        \* Python's None
    Sessions,       \* the roles with a self-improve session, none ablated
    Files,          \* the roles that own a registry, Sessions and "task"
    InitialHealth,  \* bound: registry states the repository may start with
    RetryK,         \* loop.patch_retry_k
    MaxRounds,      \* bound: number of outers
    InfraFaults,    \* whether the git layer may fail
    Arrangements    \* values of sandboxed to start with

ASSUME RepoAssumption ==
    /\ Sessions \subseteq Files /\ Sessions \subseteq {"evaluator", "planner"}
    /\ Nothing \notin Files
    /\ RetryK \in Nat /\ MaxRounds \in Nat \ {0} /\ InfraFaults \in BOOLEAN
    /\ InitialHealth \subseteq {"ok", "invalid", "clash", "unparseable"}
    /\ Arrangements \subseteq BOOLEAN

\* The states of one role's registry and components: sound, an invalid entry,
\* a duplicate, orphan, colliding or schema problem, unparseable JSON, or an
\* object without its "components" list.
Health == {"ok", "invalid", "clash", "unparseable", "keyless"}

\* What a patch does: it leaves the role's own registry in a state, or it is
\* refused: by frozen.py, by the appliers, by py_compile or the AST policy.
Outside  == "outside"
NoApply  == "noapply"
NoCompile == "nocompile"
Patch == Health \cup {Outside, NoApply, NoCompile}

VARIABLES
    head,      \* registry states at HEAD
    work,      \* registry states in the work tree
    lock,      \* holder of _TREE_LOCK, or Nothing
    pc,        \* per session: next step
    patch,     \* per session: the patch of the attempt, Nothing when there is none
    before,    \* per session: the report read before applying
    attempts,  \* per session: rejected attempts so far
    broken,    \* a RepoIntegrityError was raised
    phase,     \* "sessions", "apply", "ended" or "aborted"
    todo,      \* roles whose patch is still to be applied
    refused,   \* roles whose patch passed the dry run and was refused
    rounds,    \* outers so far
    sandboxed  \* the roles are RoleProcesses

dryRun == <<pc, patch, before, attempts>>
repoVars == <<head, work, lock, dryRun, broken, phase, todo, refused, rounds,
              sandboxed>>

-----------------------------------------------------------------------------
(* The registry gate.                                                      *)

Unparseable(tree) == {f \in Files : tree[f] = "unparseable"}
Invalid(tree)     == {f \in Files : tree[f] = "invalid"}
Clash(tree)       == {f \in Files : tree[f] = "clash"}

\* Mutant of Worsened: duplicates, orphans and collisions are not compared.
Worsened_NoClash(b, a) ==
    \/ ~ (Unparseable(a) \subseteq Unparseable(b))
    \/ Unparseable(b) # {} /\ (Unparseable(a) # {} \/ Invalid(a) # {})
    \/ ~ (Invalid(a) \subseteq Invalid(b))

\* _registry_worsened in strict mode, the only mode used: new problems, or a
\* registry that was unparseable and is not entirely sound afterwards.
Worsened(b, a) ==
    \/ ~ (Unparseable(a) \subseteq Unparseable(b))
    \/ Unparseable(b) # {} /\ (Unparseable(a) # {} \/ Invalid(a) # {})
    \/ ~ (Invalid(a) \subseteq Invalid(b))
    \/ ~ (Clash(a) \subseteq Clash(b))

\* parse_registry_file: an object without "components" passes the check of its
\* default and raises KeyError on the next line, out of registry_report.
ReportRaises(tree) == \E f \in Files : tree[f] = "keyless"

With(tree, r, h) == [tree EXCEPT ![r] = h]

\* Whether patch p of role r passes every check on a tree nobody else touches.
Accepts(tree, r, p) ==
    /\ p \in Health /\ ~ReportRaises(tree) /\ ~ReportRaises(With(tree, r, p))
    /\ ~Worsened(tree, With(tree, r, p))

-----------------------------------------------------------------------------
RepoInit ==
    /\ head \in [Files -> InitialHealth] /\ work = head
    /\ lock = Nothing
    /\ pc = [s \in Sessions |-> "edit"]
    /\ patch = [s \in Sessions |-> Nothing]
    /\ before = [s \in Sessions |-> Nothing]
    /\ attempts = [s \in Sessions |-> 0]
    /\ broken = FALSE /\ phase = "sessions" /\ todo = <<>> /\ refused = {}
    /\ rounds = 1 /\ sandboxed \in Arrangements

GoTo(s, step) == pc' = [pc EXCEPT ![s] = step]

\* The agent has edited its workspace and a patch is built from it.
ProposePatch(s, p) ==
    /\ phase = "sessions" /\ pc[s] = "edit"
    /\ patch' = [patch EXCEPT ![s] = p]
    /\ GoTo(s, "acquire")
    /\ UNCHANGED <<head, work, lock, before, attempts, broken, phase, todo,
                   refused, rounds, sandboxed>>

\* No deep write, or the session raised: there is nothing to apply.
EndWithoutPatch(s) ==
    /\ phase = "sessions" /\ pc[s] = "edit"
    /\ GoTo(s, "ended")
    /\ UNCHANGED <<head, work, lock, patch, before, attempts, broken, phase,
                   todo, refused, rounds, sandboxed>>

\* Mutant of AcquireLock: the dry run does not wait for the lock.
AcquireLock_Free(s) ==
    /\ pc[s] = "acquire" /\ ~sandboxed
    /\ lock' = s
    /\ GoTo(s, IF patch[s] = Outside THEN "leave" ELSE "report")
    /\ UNCHANGED <<head, work, patch, before, attempts, broken, phase, todo,
                   refused, rounds, sandboxed>>

\* check_patch enters the lock; a path that is not the role's ends it there.
AcquireLock(s) ==
    /\ pc[s] = "acquire" /\ lock = Nothing /\ ~sandboxed
    /\ lock' = s
    /\ GoTo(s, IF patch[s] = Outside THEN "leave" ELSE "report")
    /\ UNCHANGED <<head, work, patch, before, attempts, broken, phase, todo,
                   refused, rounds, sandboxed>>

ReadReport(s) ==
    /\ pc[s] = "report" /\ ~ReportRaises(work)
    /\ before' = [before EXCEPT ![s] = work]
    /\ GoTo(s, "apply")
    /\ UNCHANGED <<head, work, lock, patch, attempts, broken, phase, todo,
                   refused, rounds, sandboxed>>

\* git apply is all or nothing, the patch(1) fallback is not: a refused patch
\* may leave the role's files in any state.  What a patch that does not
\* compile leaves there is any state as well.
ApplyPatch(s) ==
    /\ pc[s] = "apply"
    /\ IF patch[s] \in Health
       THEN work' = With(work, s, patch[s]) /\ GoTo(s, "compare")
       ELSE \E h \in Health : work' = With(work, s, h) /\ GoTo(s, "reject")
    /\ UNCHANGED <<head, lock, patch, before, attempts, broken, phase, todo,
                   refused, rounds, sandboxed>>

\* The second report, compared with the first.
Compare(s) ==
    /\ pc[s] = "compare" /\ ~ReportRaises(work)
    /\ GoTo(s, IF Worsened(before[s], work) THEN "reject" ELSE "accept")
    /\ UNCHANGED <<head, work, lock, patch, before, attempts, broken, phase,
                   todo, refused, rounds, sandboxed>>

\* Mutant of Conclude: a rejected session always gets another attempt.
Conclude_NoLimit(s, passed) ==
    /\ before' = [before EXCEPT ![s] = Nothing]
    /\ patch' = [patch EXCEPT ![s] = IF passed THEN @ ELSE Nothing]
    /\ GoTo(s, IF passed THEN "ended" ELSE "edit") /\ UNCHANGED attempts

\* After check_patch: an accepted patch ends the session; a rejected one is
\* tried again until patch_retry_k, or until the agent repeats it.
Conclude(s, passed) ==
    /\ before' = [before EXCEPT ![s] = Nothing]
    /\ patch' = [patch EXCEPT ![s] = IF passed THEN @ ELSE Nothing]
    /\ \/ GoTo(s, "ended") /\ UNCHANGED attempts
       \/ /\ ~passed /\ attempts[s] < RetryK
          /\ attempts' = [attempts EXCEPT ![s] = @ + 1]
          /\ GoTo(s, "edit")

\* Mutant of Rollback: an accepted dry run stays in the tree.
Rollback_KeepsAccepted(s) ==
    /\ pc[s] \in {"accept", "reject"}
    /\ work' = IF pc[s] = "accept" THEN work ELSE head
    /\ lock' = Nothing
    /\ Conclude(s, pc[s] = "accept")
    /\ UNCHANGED <<head, broken, phase, todo, refused, rounds, sandboxed>>

\* _hard_rollback, the end of every dry run that touched the tree.
Rollback(s) ==
    /\ pc[s] \in {"accept", "reject"}
    /\ work' = head /\ lock' = Nothing
    /\ Conclude(s, pc[s] = "accept")
    /\ UNCHANGED <<head, broken, phase, todo, refused, rounds, sandboxed>>

\* The path check's early return: nothing was applied, nothing is rolled back.
LeaveUntouched(s) ==
    /\ pc[s] = "leave"
    /\ lock' = Nothing
    /\ Conclude(s, FALSE)
    /\ UNCHANGED <<head, work, broken, phase, todo, refused, rounds, sandboxed>>

\* The report raises inside check_patch: the lock is released, nothing is
\* rolled back and the session ends in self_improve_error.
SessionRaises(s) ==
    /\ pc[s] \in {"report", "compare"} /\ ReportRaises(work)
    /\ lock' = Nothing
    /\ patch' = [patch EXCEPT ![s] = Nothing]
    /\ before' = [before EXCEPT ![s] = Nothing]
    /\ GoTo(s, "ended")
    /\ UNCHANGED <<head, work, attempts, broken, phase, todo, refused, rounds, sandboxed>>

\* RepoIntegrityError: the applier or the rollback failed for reasons of the
\* infrastructure.  The session's thread ends and the tree stays as it is.
IntegrityError(s) ==
    /\ InfraFaults /\ pc[s] \in {"apply", "accept", "reject"}
    /\ \E h \in Health : work' = IF pc[s] = "apply" THEN With(work, s, h) ELSE work
    /\ lock' = Nothing /\ broken' = TRUE
    /\ patch' = [patch EXCEPT ![s] = Nothing]
    /\ before' = [before EXCEPT ![s] = Nothing]
    /\ GoTo(s, "ended")
    /\ UNCHANGED <<head, attempts, phase, todo, refused, rounds, sandboxed>>

\* check_patch in the sandbox, under a lock of that process alone: after the
\* path check current_commit finds no repository, and the RepoIntegrityError
\* is relayed to the session's thread.  The run's tree is not touched.
SandboxedDryRun(s) ==
    /\ pc[s] = "acquire" /\ sandboxed
    /\ IF patch[s] = Outside
       THEN Conclude(s, FALSE) /\ UNCHANGED broken
       ELSE /\ broken' = TRUE
            /\ patch' = [patch EXCEPT ![s] = Nothing]
            /\ GoTo(s, "ended") /\ UNCHANGED <<before, attempts>>
    /\ UNCHANGED <<head, work, lock, phase, todo, refused, rounds, sandboxed>>

\* The session raises, or its role process dies, after the dry run passed.
LoseResult(s) ==
    /\ phase = "sessions" /\ pc[s] = "ended" /\ patch[s] # Nothing
    /\ patch' = [patch EXCEPT ![s] = Nothing]
    /\ UNCHANGED <<head, work, lock, pc, before, attempts, broken, phase, todo,
                   refused, rounds, sandboxed>>

-----------------------------------------------------------------------------
\* The patch of role r, if its session ended with one, and both in order.
Due(r) == IF r \in Sessions /\ patch[r] # Nothing THEN <<r>> ELSE <<>>
DueInOrder == Due("evaluator") \o Due("planner")

\* Mutant of Join: an integrity error of a session is only logged.
Join_Tolerant ==
    /\ phase = "sessions" /\ \A s \in Sessions : pc[s] = "ended"
    /\ phase' = "apply"
    /\ todo' = DueInOrder
    /\ UNCHANGED <<head, work, lock, dryRun, broken, refused, rounds, sandboxed>>

\* Both threads joined: abort on an integrity error, else apply in order.
Join ==
    /\ phase = "sessions" /\ \A s \in Sessions : pc[s] = "ended"
    /\ phase' = IF broken THEN "aborted" ELSE "apply"
    /\ todo' = DueInOrder
    /\ UNCHANGED <<head, work, lock, dryRun, broken, refused, rounds, sandboxed>>

\* apply_code_patch through _apply_self_patch: the same checks again on the
\* tree as it is now, then commit, or roll back and go on.
CommitPatch ==
    /\ phase = "apply" /\ todo # <<>> /\ ~ReportRaises(work)
    /\ LET r == Head(todo)
       IN  IF Accepts(work, r, patch[r])
           THEN /\ head' = With(work, r, patch[r]) /\ work' = head'
                /\ UNCHANGED refused
           ELSE work' = head /\ refused' = refused \cup {r} /\ UNCHANGED head
    /\ todo' = Tail(todo)
    /\ UNCHANGED <<lock, dryRun, broken, phase, rounds, sandboxed>>

\* The first report of apply_code_patch raises on what a session left in the
\* tree: no handler catches it and the outer worker exits.
CommitRaises ==
    /\ phase = "apply" /\ todo # <<>> /\ ReportRaises(work)
    /\ phase' = "aborted"
    /\ UNCHANGED <<head, work, lock, dryRun, broken, todo, refused, rounds, sandboxed>>

\* The git layer fails while a patch is applied, rolled back or committed.
CommitFails ==
    /\ InfraFaults /\ phase = "apply" /\ todo # <<>>
    /\ \E h \in Health : work' = With(work, Head(todo), h)
    /\ broken' = TRUE /\ phase' = "aborted"
    /\ UNCHANGED <<head, lock, dryRun, todo, refused, rounds, sandboxed>>

EndRound ==
    /\ phase = "apply" /\ todo = <<>>
    /\ phase' = "ended"
    /\ UNCHANGED <<head, work, lock, dryRun, broken, todo, refused, rounds, sandboxed>>

\* The next outer: checkout_base and clean before its first generation.
NextOuter ==
    /\ phase = "ended" /\ rounds < MaxRounds
    /\ phase' = "sessions" /\ rounds' = rounds + 1
    /\ pc' = [s \in Sessions |-> "edit"]
    /\ patch' = [s \in Sessions |-> Nothing]
    /\ attempts' = [s \in Sessions |-> 0]
    /\ work' = head
    /\ UNCHANGED <<head, lock, before, broken, todo, refused, sandboxed>>

SessionStep(s) ==
    \/ \E p \in Patch : ProposePatch(s, p)
    \/ EndWithoutPatch(s) \/ AcquireLock(s) \/ ReadReport(s) \/ ApplyPatch(s)
    \/ Compare(s) \/ Rollback(s) \/ LeaveUntouched(s)
    \/ SessionRaises(s) \/ IntegrityError(s) \/ SandboxedDryRun(s) \/ LoseResult(s)

MainStep == Join \/ CommitPatch \/ CommitRaises \/ CommitFails \/ EndRound

RepoNext == (\E s \in Sessions : SessionStep(s)) \/ MainStep \/ NextOuter

RepoSpec == RepoInit /\ [][RepoNext]_repoVars

\* Threads are scheduled; a waiting thread gets the lock when it is free.
FairRepoSpec == RepoSpec /\ WF_repoVars(MainStep) /\ \A s \in Sessions : SF_repoVars(SessionStep(s))

-----------------------------------------------------------------------------
SessionSteps == {"edit", "acquire", "leave", "report", "apply", "compare",
                 "accept", "reject", "ended"}

\* Type invariant of the dry runs, the lock and the tree of code_repo.py.
RepoTypeOK ==
    /\ head \in [Files -> Health] /\ work \in [Files -> Health]
    /\ lock \in Sessions \cup {Nothing}
    /\ pc \in [Sessions -> SessionSteps]
    /\ patch \in [Sessions -> Patch \cup {Nothing}]
    /\ before \in [Sessions -> [Files -> Health] \cup {Nothing}]
    /\ attempts \in [Sessions -> 0..RetryK]
    /\ broken \in BOOLEAN /\ rounds \in 1..MaxRounds
    /\ phase \in {"sessions", "apply", "ended", "aborted"}
    /\ todo \in Seq(Sessions) /\ refused \subseteq Sessions
    /\ sandboxed \in BOOLEAN

\* Whenever no dry run is under way the work tree is HEAD: no session leaves
\* its patch behind, whichever check it failed, unless the git layer broke or
\* the registry report raised.
CleanWhenFree == lock = Nothing /\ ~broken /\ ~ReportRaises(work) => work = head

\* Two sessions never read each other's patch: the verdict of a dry run is
\* that of a dry run alone on HEAD.
VerdictIsSolitary ==
    phase = "sessions" /\ ~broken =>
        \A s \in Sessions :
            pc[s] = "ended" /\ patch[s] # Nothing => Accepts(head, s, patch[s])

\* A patch that passed its dry run is still accepted when its turn to be
\* committed comes, though the other role's commit was made in between.
PassedIsCommitted == refused = {}

\* No sequence of accepted patches makes the registries worse.
HealthNeverWorse ==
    [][/\ Unparseable(head') \subseteq Unparseable(head)
       /\ Invalid(head') \subseteq Invalid(head)
       /\ Clash(head') \subseteq Clash(head)]_head

\* Every commit is made on a work tree that was HEAD, and none after the git
\* layer failed in any session.
CommitsOnCleanTree == [][~broken /\ work = head]_head

\* Every outer's self-improvement comes to its end, with or without patches.
RoundEnds == (phase = "sessions") ~> (phase \in {"ended", "aborted"})

\* Every outer's self-improvement comes to its end, and no patch that passed its
\* dry run is refused at the commit (loop.py:1066, code_repo.py:536).
RoundCompletes == RoundEnds /\ []PassedIsCommitted
=============================================================================
