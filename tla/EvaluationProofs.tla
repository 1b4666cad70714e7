--------------------------- MODULE EvaluationProofs ---------------------------
(***************************************************************************)
(* Proofs about one evaluation (Evaluation).  The ACL lease of its run     *)
(* directory is never taken from a running harness and is given back whole *)
(* before scoring, however the launch of an earlier generation ends.       *)
(* Every row of the report holds the answer to its own question, whatever  *)
(* fails, times out or is killed, and no answer on disk is lost.           *)
(***************************************************************************)
EXTENDS Evaluation, Integers, FiniteSetTheorems, SequenceTheorems, WellFoundedInduction, TLAPS

\* A nonempty set of naturals has a least element.
LEMMA LeastNatural ==
    ASSUME NEW T, T \subseteq Nat, T # {}
    PROVE  \E x \in T : \A y \in T : x <= y
<1> DEFINE R == OpToRel(<, Nat)
<1>1. \A x, y \in Nat : y < x => <<y, x>> \in R
  BY DEF OpToRel
<1>2. IsWellFoundedOn(R, Nat)
  BY NatLessThanWellFounded
<1> HIDE DEF R
<1>3. PICK x \in T : \A y \in T : <<y, x>> \notin R
  BY <1>2, WFMin
<1>4. \A y \in T : x \in Nat /\ y \in Nat /\ ~(y < x)
  BY <1>3, <1>1
<1>5. \A y \in T : x <= y
  BY <1>4
<1> QED BY <1>5

\* A nonempty bounded set of naturals has a greatest element.
LEMMA GreatestNatural ==
    ASSUME NEW T, T \subseteq Nat, T # {}, NEW b \in Nat, \A x \in T : x <= b
    PROVE  \E x \in T : \A y \in T : y <= x
<1> DEFINE U == {b - x : x \in T}
<1>1. U # {} /\ \A u \in U : u \in Nat
  <2>1. \A x \in T : x \in Nat /\ b - x \in Nat
    OBVIOUS
  <2>2. U # {}
    OBVIOUS
  <2> QED BY <2>1, <2>2
<1>2. PICK u \in U : \A v \in U : u <= v
  <2> HIDE DEF U
  <2>1. U \subseteq Nat
    BY <1>1
  <2> QED BY <1>1, <2>1, LeastNatural
<1>3. PICK x \in T : u = b - x
  BY <1>2
<1>4. ASSUME NEW y \in T PROVE y <= x
  <2>1. u <= b - y
    BY <1>2
  <2> QED BY <2>1, <1>3
<1> QED BY <1>4

(* The stages in which this evaluation holds a reference on the ancestor.  *)
Holding == {"grant", "preflight", "abandon", "start", "run", "save", "append",
            "append_last", "exit", "crash", "timeout", "reclaim", "reclaim_failed"}

(* Those in which both trees are granted.                                  *)
Delivered == Holding \ {"grant", "abandon"}

(* Those in which the sandbox user has no entry on the trees.              *)
Private == {"patch", "heal", "assemble", "lease", "score", "ingest", "done"}

Scored == {"score", "ingest", "done"}

LeaseTypes == stage \in Stages /\ acl \in BOOLEAN /\ other \in {"none", "live", "leaked"}

(* _TASK_TRAVERSE_REFS counts exactly the launches that hold the ancestor. *)
RefsExact ==
    refs = (IF other = "live" THEN 1 ELSE 0) + (IF stage \in Holding THEN 1 ELSE 0)

(* While one of them holds it, the entry is there: only the last removes   *)
(* it, and the first sets it before it counts.                             *)
HeldIsSet == refs > 0 => acl

TreesFollowStage ==
    /\ stage \in Delivered => granted = {"run", "output"}
    /\ stage \in Private => granted = {}

NothingLeft == stage \in Scored => (acl => refs > 0 \/ other = "leaked")

LeaseInv ==
    /\ LeaseTypes
    /\ Brokered(job) => RefsExact /\ HeldIsSet /\ TreesFollowStage /\ NothingLeft

-----------------------------------------------------------------------------
(* An evaluation starts without a lease of its own; the launch of an       *)
(* earlier generation may still hold the ancestor.                         *)
LEMMA LeaseInit == Init => LeaseInv
<1> SUFFICES ASSUME Init PROVE LeaseInv
  OBVIOUS
<1>1. other \in {"none", "live"} /\ stage \in {"reconcile", "start"}
  BY DEF Init
<1>2. acl \in BOOLEAN
  BY DEF Init
<1>3. refs > 0 => acl
  <2>1. refs > 0 => other = "live"
    BY SMT DEF Init
  <2>2. other = "live" => acl
    BY Zenon DEF Init
  <2> QED
    BY <2>1, <2>2, Zenon
<1>4. ASSUME Brokered(job) PROVE stage = "reconcile"
  BY <1>4 DEF Init
<1> QED
  BY <1>1, <1>2, <1>3, <1>4 DEF Init, LeaseInv, LeaseTypes, RefsExact, HeldIsSet,
     TreesFollowStage, NothingLeft, Stages, Holding, Delivered, Private, Scored

(* A step that leaves the lease alone keeps the invariant when it moves    *)
(* between stages that hold the same of it.                                *)
LEMMA SameHoldings ==
    ASSUME LeaseInv, job' = job, UNCHANGED leaseVars, stage' \in Stages,
           Brokered(job) =>
               /\ stage' \in Holding <=> stage \in Holding
               /\ stage' \in Delivered => stage \in Delivered
               /\ stage' \in Private => stage \in Private
               /\ stage' \in Scored => stage \in Scored
    PROVE  LeaseInv'
<1>1. granted' = granted /\ refs' = refs /\ acl' = acl /\ other' = other
  BY DEF leaseVars
<1>2. Brokered(job)' <=> Brokered(job)
  BY DEF Brokered
<1>3. LeaseTypes'
  BY <1>1, Zenon DEF LeaseInv, LeaseTypes
<1>4. ASSUME Brokered(job) PROVE (RefsExact /\ HeldIsSet /\ TreesFollowStage /\ NothingLeft)'
  <2>1. RefsExact'
    BY <1>1, <1>4 DEF LeaseInv, RefsExact
  <2>2. HeldIsSet'
    BY <1>1, <1>4, Zenon DEF LeaseInv, HeldIsSet
  <2>3. TreesFollowStage'
    BY <1>1, <1>4, Zenon DEF LeaseInv, TreesFollowStage
  <2>4. NothingLeft'
    BY <1>1, <1>4, Zenon DEF LeaseInv, NothingLeft
  <2> QED
    BY <2>1, <2>2, <2>3, <2>4, Zenon
<1> QED
  BY <1>2, <1>3, <1>4, Zenon DEF LeaseInv

(* The runner's and the harness's own steps touch no lease.                *)
LEMMA PlainRunnerSteps ==
    ASSUME LeaseInv,
           ApplyTaskPatch \/ HealAndPersist \/ AssembleRunDir \/ LaunchRefused
               \/ Preflight \/ ScoreRun \/ IngestSeamEvents
    PROVE  LeaseInv'
<1> USE DEF Stages, Holding, Delivered, Private, Scored
<1>1. CASE ApplyTaskPatch
  BY <1>1, SameHoldings DEF ApplyTaskPatch
<1>2. CASE HealAndPersist
  BY <1>2, SameHoldings DEF HealAndPersist
<1>3. CASE AssembleRunDir
  BY <1>3, SameHoldings DEF AssembleRunDir
<1>4. CASE LaunchRefused
  BY <1>4, SameHoldings DEF LaunchRefused, prepVars
<1>5. CASE Preflight
  BY <1>5, SameHoldings DEF Preflight, prepVars
<1>6. CASE ScoreRun
  BY <1>6, SameHoldings DEF ScoreRun, prepVars
<1>7. CASE IngestSeamEvents
  BY <1>7, SameHoldings DEF IngestSeamEvents, prepVars
<1> QED
  BY <1>1, <1>2, <1>3, <1>4, <1>5, <1>6, <1>7

LEMMA PlainHarnessSteps ==
    ASSUME LeaseInv, HarnessStep \/ HarnessKilled \/ TornSave
    PROVE  LeaseInv'
<1> USE DEF Stages, Holding, Delivered, Private, Scored
<1>1. CASE HarnessStarts
  BY <1>1, SameHoldings DEF HarnessStarts, prepVars
<1>2. CASE TakeQuestion
  BY <1>2, SameHoldings DEF TakeQuestion, prepVars
<1>3. CASE AgentReturns
  BY <1>3, SameHoldings DEF AgentReturns, prepVars
<1>4. CASE ConsumeFuture
  <2>1. stage' \in {"run", "save", "crash"}
    BY <1>4 DEF ConsumeFuture
  <2> QED
    BY <1>4, <2>1, SameHoldings DEF ConsumeFuture, prepVars
<1>5. CASE SaveTable
  BY <1>5, SameHoldings DEF SaveTable, EndSave, prepVars
<1>6. CASE AppendFailures
  BY <1>6, SameHoldings DEF AppendFailures, prepVars
<1>7. CASE HarnessGone
  <2>1. Brokered(job) => stage' \in {"reclaim", "reclaim_failed"}
    BY <1>7 DEF HarnessGone
  <2>2. stage' \in Stages
    BY <1>7 DEF HarnessGone
  <2> QED
    BY <1>7, <2>1, <2>2, SameHoldings DEF HarnessGone, prepVars
<1>8. CASE HarnessKilled
  <2>1. stage' \in {"crash", "timeout"}
    BY <1>8 DEF HarnessKilled
  <2> QED
    BY <1>8, <2>1, SameHoldings DEF HarnessKilled, InHarness, prepVars
<1>9. CASE TornSave
  BY <1>9, SameHoldings DEF TornSave, EndSave, prepVars
<1> QED
  BY <1>1, <1>2, <1>3, <1>4, <1>5, <1>6, <1>7, <1>8, <1>9 DEF HarnessStep

-----------------------------------------------------------------------------
(* The steps that take, fill and return the lease.                         *)

(* Revoking what a killed broker left empties the trees or ends the run.   *)
LEMMA ReconcileStep ==
    ASSUME LeaseInv, Reconcile
    PROVE  LeaseInv'
<1>1. /\ job' = job /\ refs' = refs /\ acl' = acl /\ other' = other
      /\ stage = "reconcile"
  BY Zenon DEF Reconcile, prepVars
<1>2. stage' = "raised" \/ (stage' = "patch" /\ granted' = {})
  BY Zenon DEF Reconcile
<1>3. LeaseTypes'
  BY <1>1, <1>2, Zenon DEF LeaseInv, LeaseTypes, Stages
<1>4. ASSUME Brokered(job) PROVE (RefsExact /\ HeldIsSet /\ TreesFollowStage /\ NothingLeft)'
  <2>1. RefsExact'
    BY <1>1, <1>2, <1>4 DEF LeaseInv, RefsExact, Holding
  <2>2. HeldIsSet'
    BY <1>1, <1>4, Zenon DEF LeaseInv, HeldIsSet
  <2>3. TreesFollowStage' /\ stage' \notin Scored
    BY <1>2 DEF TreesFollowStage, Delivered, Holding, Private, Scored
  <2> QED
    BY <2>1, <2>2, <2>3, Zenon DEF NothingLeft
<1> QED
  BY <1>1, <1>3, <1>4, Zenon DEF LeaseInv, Brokered

(* Taking the reference sets the entry before it is counted.               *)
LEMMA AcquireStep ==
    ASSUME LeaseInv, AcquireTraverse
    PROVE  LeaseInv'
<1>1. /\ job' = job /\ granted' = granted /\ other' = other /\ stage = "lease"
  BY Zenon DEF AcquireTraverse, prepVars
<1>2. CASE refs' = refs + 1 /\ acl' = TRUE /\ stage' = "grant"
  <2>1. LeaseTypes'
    BY <1>1, <1>2, Zenon DEF LeaseInv, LeaseTypes, Stages
  <2>2. Brokered(job) => RefsExact'
    BY <1>1, <1>2 DEF LeaseInv, LeaseTypes, RefsExact, Holding
  <2>3. HeldIsSet'
    BY <1>2, Zenon DEF HeldIsSet
  <2>4. stage' \notin Delivered /\ stage' \notin Private /\ stage' \notin Scored
    BY <1>2 DEF Delivered, Holding, Private, Scored
  <2> QED
    BY <1>1, <2>1, <2>2, <2>3, <2>4, Zenon
       DEF LeaseInv, Brokered, TreesFollowStage, NothingLeft
<1>3. CASE stage' = "raised" /\ UNCHANGED <<refs, acl>>
  BY <1>1, <1>3, SameHoldings
     DEF leaseVars, Stages, Holding, Delivered, Private, Scored
<1> QED
  BY <1>2, <1>3, Zenon DEF AcquireTraverse

(* Only a walk that granted both trees lets the launch go on.              *)
LEMMA GrantStep ==
    ASSUME LeaseInv, GrantTrees
    PROVE  LeaseInv'
<1>1. /\ job' = job /\ refs' = refs /\ acl' = acl /\ other' = other
      /\ stage = "grant"
  BY Zenon DEF GrantTrees, prepVars
<1>2. stage' = "abandon" \/ (stage' = "preflight" /\ granted' = {"run", "output"})
  BY Zenon DEF GrantTrees
<1>3. LeaseTypes'
  BY <1>1, <1>2, Zenon DEF LeaseInv, LeaseTypes, Stages
<1>4. ASSUME Brokered(job) PROVE (RefsExact /\ HeldIsSet /\ TreesFollowStage /\ NothingLeft)'
  <2>1. RefsExact'
    BY <1>1, <1>2, <1>4 DEF LeaseInv, RefsExact, Holding
  <2>2. HeldIsSet'
    BY <1>1, <1>4, Zenon DEF LeaseInv, HeldIsSet
  <2>3. TreesFollowStage' /\ stage' \notin Scored
    BY <1>2 DEF TreesFollowStage, Delivered, Holding, Private, Scored
  <2> QED
    BY <2>1, <2>2, <2>3, Zenon DEF NothingLeft
<1> QED
  BY <1>1, <1>3, <1>4, Zenon DEF LeaseInv, Brokered

(* Giving the reference back: the entry goes only with the last holder, so *)
(* a launch that still runs keeps it; scoring is reached only when every   *)
(* entry of the lease is gone.                                             *)
LEMMA AbandonStep ==
    ASSUME LeaseInv, Abandon
    PROVE  LeaseInv'
<1>1. /\ job' = job /\ other' = other
      /\ stage \in {"abandon", "reclaim_failed", "reclaim"}
      /\ refs' = refs - 1
      /\ acl' \in IF refs = 1 THEN {FALSE, acl} ELSE {acl}
  BY Zenon DEF Abandon, CloseLease, ReleaseTraverse, prepVars
<1>2. \/ stage' = "raised"
      \/ stage' = "score" /\ granted' = {} /\ ~(refs = 1 /\ acl')
  <2>1. stage' = IF granted' # {} \/ (refs = 1 /\ acl') THEN "raised"
                 ELSE IF stage = "reclaim" THEN "score" ELSE "raised"
    BY Zenon DEF Abandon, CloseLease
  <2> QED
    BY <2>1, Zenon
<1>3. LeaseTypes'
  <2>1. stage' \in Stages
    BY <1>2 DEF Stages
  <2>2. acl' \in BOOLEAN
    BY <1>1, Zenon DEF LeaseInv, LeaseTypes
  <2> QED
    BY <1>1, <2>1, <2>2, Zenon DEF LeaseInv, LeaseTypes
<1>4. ASSUME Brokered(job) PROVE (RefsExact /\ HeldIsSet /\ TreesFollowStage /\ NothingLeft)'
  <2>1. RefsExact' /\ refs \in 1..2 /\ refs' \in 0..1
    BY <1>1, <1>2, <1>4 DEF LeaseInv, LeaseTypes, RefsExact, Holding
  <2>2. HeldIsSet'
    <3>1. refs' > 0 => refs # 1 /\ refs > 0
      BY <1>1, <2>1
    <3>2. refs > 0 => acl
      BY <1>4, Zenon DEF LeaseInv, HeldIsSet
    <3> QED
      BY <1>1, <3>1, <3>2, Zenon DEF HeldIsSet
  <2>3. TreesFollowStage'
    BY <1>2 DEF TreesFollowStage, Delivered, Holding, Private
  <2>4. NothingLeft'
    <3>1. refs = 1 \/ refs' > 0
      BY <1>1, <2>1
    <3>2. stage' \in Scored => stage' # "raised"
      BY DEF Scored
    <3> QED
      BY <1>2, <3>1, <3>2, Zenon DEF NothingLeft
  <2> QED
    BY <2>1, <2>2, <2>3, <2>4, Zenon
<1> QED
  BY <1>1, <1>3, <1>4, Zenon DEF LeaseInv, Brokered

(* The earlier generation's launch ends the same way: with this one still  *)
(* holding the ancestor the entry stays.                                   *)
LEMMA OtherEndsStep ==
    ASSUME LeaseInv, OtherEnds
    PROVE  LeaseInv'
<1>1. /\ job' = job /\ stage' = stage /\ granted' = granted /\ other = "live"
      /\ refs' = refs - 1
      /\ acl' \in IF refs = 1 THEN {FALSE, acl} ELSE {acl}
      /\ other' = IF refs = 1 /\ acl' THEN "leaked" ELSE "none"
  BY Zenon DEF OtherEnds, ReleaseTraverse, prepVars
<1>2. other' \in {"leaked", "none"} /\ other' # "live"
  BY <1>1
<1>3. LeaseTypes'
  <2>1. acl' \in BOOLEAN
    BY <1>1, Zenon DEF LeaseInv, LeaseTypes
  <2> QED
    BY <1>1, <1>2, <2>1, Zenon DEF LeaseInv, LeaseTypes
<1>4. ASSUME Brokered(job) PROVE (RefsExact /\ HeldIsSet /\ TreesFollowStage /\ NothingLeft)'
  <2>1. RefsExact' /\ refs \in 1..2 /\ refs' \in 0..1
    BY <1>1, <1>2, <1>4 DEF LeaseInv, LeaseTypes, RefsExact
  <2>2. HeldIsSet'
    <3>1. refs' > 0 => refs # 1 /\ refs > 0
      BY <1>1, <2>1
    <3>2. refs > 0 => acl
      BY <1>4, Zenon DEF LeaseInv, HeldIsSet
    <3> QED
      BY <1>1, <3>1, <3>2, Zenon DEF HeldIsSet
  <2>3. TreesFollowStage'
    BY <1>1, <1>4, Zenon DEF LeaseInv, TreesFollowStage
  <2>4. NothingLeft'
    <3>1. refs = 1 \/ refs' > 0
      BY <1>1, <2>1
    <3> QED
      BY <1>1, <3>1, Zenon DEF NothingLeft
  <2> QED
    BY <2>1, <2>2, <2>3, <2>4, Zenon
<1> QED
  BY <1>1, <1>3, <1>4, Zenon DEF LeaseInv, Brokered

-----------------------------------------------------------------------------
(* Overlapping launches never take the trees from a running harness, and   *)
(* none is left behind (task_execution.py: _task_acquire_traverse,         *)
(* _task_release_traverse, _TaskSandboxAclLease).                          *)
LEMMA LeaseStep ==
    ASSUME LeaseInv, [Next]_vars
    PROVE  LeaseInv'
<1>1. CASE Reconcile
  BY <1>1, ReconcileStep
<1>2. CASE AcquireTraverse
  BY <1>2, AcquireStep
<1>3. CASE GrantTrees
  BY <1>3, GrantStep
<1>4. CASE Abandon
  BY <1>4, AbandonStep
<1>5. CASE OtherEnds
  BY <1>5, OtherEndsStep
<1>6. CASE ApplyTaskPatch \/ HealAndPersist \/ AssembleRunDir \/ LaunchRefused
           \/ Preflight \/ ScoreRun \/ IngestSeamEvents
  BY <1>6, PlainRunnerSteps
<1>7. CASE HarnessStep \/ HarnessKilled \/ TornSave
  BY <1>7, PlainHarnessSteps
<1>8. CASE UNCHANGED vars
  <2>1. job' = job /\ stage' = stage /\ UNCHANGED leaseVars
    BY <1>8 DEF vars, leaseVars
  <2>2. stage' \in Stages
    BY <2>1 DEF LeaseInv, LeaseTypes
  <2> QED
    BY <2>1, <2>2, SameHoldings
<1> QED
  BY <1>1, <1>2, <1>3, <1>4, <1>5, <1>6, <1>7, <1>8, Zenon
     DEF Next, RunnerStep, Ended

LEMMA LeaseInvariant == Spec => []LeaseInv
<1>1. LeaseInv /\ [Next]_vars => LeaseInv'
  BY LeaseStep
<1> QED
  BY <1>1, LeaseInit, PTL DEF Spec

(* A running harness has its trees and the way to them, and an evaluation  *)
(* that reached scoring has given its whole lease back.                    *)
THEOREM HarnessesStayIsolated == Spec => []HarnessIsolated
<1>1. LeaseInv => HarnessIsolated
  <2> SUFFICES ASSUME LeaseInv PROVE HarnessIsolated
    OBVIOUS
  <2>1. HarnessHasAccess
    <3> SUFFICES ASSUME Brokered(job),
                        InHarness \/ stage \in {"start", "exit", "crash", "timeout"}
                 PROVE  acl /\ granted = {"run", "output"}
      BY Zenon DEF HarnessHasAccess
    <3>1. stage \in Delivered /\ stage \in Holding
      BY DEF InHarness, Delivered, Holding
    <3>2. refs > 0
      BY <3>1 DEF LeaseInv, RefsExact
    <3> QED
      BY <3>1, <3>2, Zenon DEF LeaseInv, HeldIsSet, TreesFollowStage
  <2>2. LeaseReturned
    <3> SUFFICES ASSUME Brokered(job), stage \in Scored
                 PROVE  /\ granted = {} /\ (acl => refs > 0 \/ other = "leaked")
                        /\ refs = (IF other = "live" THEN 1 ELSE 0)
      BY Zenon DEF LeaseReturned, Scored
    <3>1. stage \in Private /\ stage \notin Holding
      BY DEF Private, Scored, Holding
    <3>2. refs = (IF other = "live" THEN 1 ELSE 0)
      BY <3>1 DEF LeaseInv, RefsExact
    <3> QED
      BY <3>1, <3>2, Zenon DEF LeaseInv, TreesFollowStage, NothingLeft
  <2> QED
    BY <2>1, <2>2 DEF HarnessIsolated
<1> QED
  BY <1>1, LeaseInvariant, PTL

-----------------------------------------------------------------------------
(* Drawing the questions.                                                  *)

LEMMA PositionsFinite ==
    ASSUME NEW b \in Nat, NEW S \in SUBSET (1..b)
    PROVE  IsFiniteSet(S) /\ Cardinality(S) \in Nat /\ Cardinality(S) <= b
<1>1. IsFiniteSet(1..b) /\ Cardinality(1..b) = b
  BY FS_Interval
<1>2. IsFiniteSet(S) /\ Cardinality(S) <= b
  BY <1>1, FS_Subset
<1> QED BY <1>2, FS_CardinalityType

(* A finite set of positions can be listed in file order.                  *)
LEMMA SortedExists ==
    ASSUME NEW b \in Nat, NEW S \in SUBSET (1..b)
    PROVE  \E s \in [1..Cardinality(S) -> S] : Increasing(s)
<1> DEFINE Listed(T, k) == \E s \in [1..k -> T] : Increasing(s)
           Bad == {k \in Nat : \E T \in SUBSET (1..b) : Cardinality(T) = k /\ ~Listed(T, k)}
<1>1. \A T \in SUBSET (1..b) : IsFiniteSet(T) /\ Cardinality(T) \in Nat
  BY PositionsFinite
<1>2. ASSUME Bad # {} PROVE FALSE
  <2>1. PICK k \in Bad : \A j \in Bad : k <= j
    <3> HIDE DEF Bad
    <3>1. Bad \subseteq Nat
      BY DEF Bad
    <3> QED BY <1>2, <3>1, LeastNatural
  <2>2. PICK T \in SUBSET (1..b) : Cardinality(T) = k /\ ~Listed(T, k)
    OBVIOUS
  <2>3. k \in Nat
    OBVIOUS
  <2>4. CASE k = 0
    <3>1. T = {}
      BY <1>1, <2>2, <2>4, FS_EmptySet
    <3>2. [i \in 1..k |-> i] \in [1..k -> T] /\ Increasing([i \in 1..k |-> i])
      BY <2>4, <3>1 DEF Increasing
    <3> QED BY <2>2, <3>2
  <2>5. CASE k > 0
    <3>1. T # {} /\ T \subseteq Nat /\ \A x \in T : x <= b
      BY <2>2, <2>5, FS_EmptySet
    <3>2. PICK m \in T : \A y \in T : y <= m
      BY <3>1, GreatestNatural
    <3>3. Cardinality(T \ {m}) = k - 1 /\ T \ {m} \in SUBSET (1..b) /\ k - 1 \in Nat
      BY <1>1, <2>2, <2>3, <2>5, FS_RemoveElement
    <3>4. Listed(T \ {m}, k - 1)
      <4>1. k - 1 \notin Bad
        BY <2>1, <2>3, <3>3
      <4> QED BY <3>3, <4>1
    <3>5. PICK t \in [1..(k - 1) -> T \ {m}] : Increasing(t)
      BY <3>4
    <3> DEFINE s == [i \in 1..k |-> IF i = k THEN m ELSE t[i]]
    <3>6. s \in [1..k -> T]
      BY <2>3, <3>5
    <3>7. Increasing(s)
      <4> SUFFICES ASSUME NEW i \in 1..k, NEW j \in 1..k, i < j PROVE s[i] < s[j]
        BY DEF Increasing
      <4>1. CASE j = k
        <5>1. s[i] = t[i] /\ t[i] \in T \ {m} /\ s[j] = m
          BY <2>3, <4>1, <3>5
        <5>2. t[i] \in Nat /\ m \in Nat /\ t[i] <= m /\ t[i] # m
          BY <5>1, <3>1, <3>2
        <5> QED BY <5>1, <5>2
      <4>2. CASE j # k
        <5>1. i \in 1..(k - 1) /\ j \in 1..(k - 1) /\ s[i] = t[i] /\ s[j] = t[j]
          BY <2>3, <4>2
        <5> QED BY <5>1, <3>5 DEF Increasing
      <4> QED BY <4>1, <4>2
    <3> HIDE DEF s
    <3> QED BY <2>2, <3>6, <3>7
  <2> QED BY <2>3, <2>4, <2>5
<1>3. Cardinality(S) \notin Bad
  <2> HIDE DEF Bad
  <2> QED BY <1>2
<1> QED BY <1>1, <1>3

LEMMA IncreasingIsInjective ==
    ASSUME NEW n \in Nat, NEW b \in Nat, NEW s \in [1..n -> 1..b], Increasing(s)
    PROVE  IsInjective(s)
<1> SUFFICES ASSUME NEW i \in 1..n, NEW j \in 1..n, s[i] = s[j], i # j PROVE FALSE
  BY DEF IsInjective
<1>1. i < j \/ j < i
  OBVIOUS
<1>2. s[i] < s[j] \/ s[j] < s[i]
  BY <1>1 DEF Increasing
<1>3. s[i] \in Nat
  OBVIOUS
<1> QED BY <1>2, <1>3

(* ... and the listing has every question once.                            *)
LEMMA DrawnFacts ==
    ASSUME NEW b \in Nat, NEW S \in SUBSET (1..b)
    PROVE  /\ Cardinality(S) \in Nat
           /\ Drawn(S) \in [1..Cardinality(S) -> S] /\ Increasing(Drawn(S))
           /\ ToSet(Drawn(S)) = S
<1> DEFINE n == Cardinality(S)
           s == Drawn(S)
<1>1. IsFiniteSet(S) /\ n \in Nat
  BY PositionsFinite
<1>2. s \in [1..n -> S] /\ Increasing(s)
  BY SortedExists DEF Drawn, InFileOrder
<1> HIDE DEF s
<1>3. IsInjective(s)
  <2>1. s \in [1..n -> 1..b]
    BY <1>2
  <2> QED BY <1>1, <1>2, <2>1, IncreasingIsInjective
<1>4. s \in Surjection(1..n, S)
  <2>1. s \in Injection(1..n, S)
    BY <1>2, <1>3 DEF Injection
  <2>2. IsFiniteSet(1..n) /\ Cardinality(1..n) = n
    BY <1>1, FS_Interval
  <2> QED BY <1>1, <2>1, <2>2, FS_Injection
<1>5. ToSet(s) = S
  BY <1>2, <1>4 DEF ToSet, Surjection
<1> QED BY <1>1, <1>2, <1>5 DEF s

(* A listing that fits into its own length is the identity.                *)
LEMMA IncreasingIsIdentity ==
    ASSUME NEW n \in Nat, NEW s \in [1..n -> Nat \ {0}], Increasing(s),
           \A i \in 1..n : s[i] <= n
    PROVE  s = [i \in 1..n |-> i]
<1>1. \A i \in 1..n : s[i] >= i
  <2> DEFINE Low == {i \in 1..n : s[i] < i}
  <2> SUFFICES ASSUME Low # {} PROVE FALSE
    OBVIOUS
  <2>1. PICK i \in Low : \A j \in Low : i <= j
    <3>1. Low \subseteq Nat
      OBVIOUS
    <3> HIDE DEF Low
    <3> QED BY <3>1, LeastNatural
  <2>2. i \in 1..n /\ s[i] \in Nat \ {0} /\ s[i] < i
    OBVIOUS
  <2>3. i - 1 \in 1..n /\ i - 1 < i
    BY <2>2
  <2>4. s[i - 1] \in Nat /\ s[i - 1] >= i - 1
    BY <2>1, <2>3
  <2>5. s[i - 1] < s[i]
    BY <2>2, <2>3 DEF Increasing
  <2> QED BY <2>2, <2>4, <2>5
<1>2. \A i \in 1..n : s[i] <= i
  <2> DEFINE High == {i \in 1..n : s[i] > i}
  <2> SUFFICES ASSUME High # {} PROVE FALSE
    OBVIOUS
  <2>1. PICK i \in High : \A j \in High : j <= i
    <3>1. High \subseteq Nat /\ \A j \in High : j <= n
      OBVIOUS
    <3> HIDE DEF High
    <3> QED BY <3>1, GreatestNatural
  <2>2. i \in 1..n /\ s[i] \in Nat /\ s[i] > i /\ s[i] <= n
    OBVIOUS
  <2>3. i + 1 \in 1..n /\ i < i + 1
    BY <2>2
  <2>4. s[i + 1] \in Nat /\ s[i + 1] <= i + 1
    BY <2>1, <2>3
  <2>5. s[i] < s[i + 1]
    BY <2>2, <2>3 DEF Increasing
  <2> QED BY <2>2, <2>4, <2>5
<1>3. \A i \in 1..n : s[i] = i
  BY <1>1, <1>2
<1> QED BY <1>3

(* The smaller of two naturals.                                            *)
LEMMA MinOfTwo ==
    ASSUME NEW a \in Nat, NEW b \in Nat
    PROVE  /\ Min({a, b}) \in {a, b}
           /\ Min({a, b}) <= a /\ Min({a, b}) <= b
<1>1. \E x \in {a, b} : \A y \in {a, b} : x <= y
  <2>1. a <= b \/ b <= a
    OBVIOUS
  <2> QED BY <2>1
<1> DEFINE m == CHOOSE x \in {a, b} : \A y \in {a, b} : x <= y
<1>2. m \in {a, b} /\ \A y \in {a, b} : m <= y
  BY <1>1
<1>3. Min({a, b}) = m
  BY DEF Min
<1> HIDE DEF m
<1> QED BY <1>2, <1>3

(* The first n of a set of questions.                                      *)
LEMMA FirstOfBound ==
    ASSUME NEW b \in Nat, NEW S \in SUBSET (1..b), NEW n \in Nat
    PROVE  FirstOf(S, n) \subseteq S /\ Cardinality(FirstOf(S, n)) <= n
<1> DEFINE F == FirstOf(S, n)
           Below(p) == {q \in S : q <= p}
<1>1. F \subseteq S
  BY DEF FirstOf
<1>2. \A p \in F : Cardinality(Below(p)) <= n
  BY DEF FirstOf
<1>3. CASE F = {}
  BY <1>1, <1>3, FS_EmptySet
<1>4. CASE F # {}
  <2> HIDE DEF F
  <2>1. F \subseteq Nat /\ \A p \in F : p <= b
    <3>1. \A p \in F : p \in 1..b
      BY <1>1
    <3> QED BY <3>1
  <2>2. PICK m \in F : \A p \in F : p <= m
    BY <1>4, <2>1, GreatestNatural
  <2>3. F \subseteq Below(m) /\ Below(m) \in SUBSET (1..b)
    BY <1>1, <2>2
  <2> HIDE DEF Below
  <2>4. Cardinality(F) <= Cardinality(Below(m)) /\ Cardinality(Below(m)) <= n
        /\ Cardinality(F) \in Nat /\ Cardinality(Below(m)) \in Nat
    <3>1. IsFiniteSet(Below(m)) /\ Cardinality(Below(m)) \in Nat
      BY <2>3, PositionsFinite
    <3>2. F \in SUBSET (1..b)
      BY <2>3
    <3>3. Cardinality(F) <= Cardinality(Below(m))
      BY <2>3, <3>1, FS_Subset
    <3>4. Cardinality(F) \in Nat
      BY <3>2, PositionsFinite
    <3> QED BY <1>2, <2>2, <3>1, <3>3, <3>4
  <2>5. Cardinality(F) <= n
    BY <2>4
  <2> QED BY <1>1, <2>5 DEF F
<1> QED BY <1>3, <1>4

LEMMA FirstOfRange ==
    ASSUME NEW b \in Nat, NEW n \in Nat
    PROVE  FirstOf(1..b, n) = 1..Min({n, b})
<1>1. \A p \in 1..b : Cardinality({q \in 1..b : q <= p}) = p
  <2> TAKE p \in 1..b
  <2>1. {q \in 1..b : q <= p} = 1..p
    OBVIOUS
  <2>2. Cardinality(1..p) = p
    BY FS_Interval
  <2> QED BY <2>1, <2>2
<1>2. FirstOf(1..b, n) = {p \in 1..b : p <= n}
  BY <1>1 DEF FirstOf
<1>3. Min({n, b}) \in {n, b} /\ Min({n, b}) <= n /\ Min({n, b}) <= b
  BY MinOfTwo
<1>4. \A p \in 1..b : p <= n <=> p <= Min({n, b})
  BY <1>3
<1>5. \A p : p \in 1..b /\ p <= n <=> p \in 1..Min({n, b})
  BY <1>3, <1>4
<1> QED BY <1>2, <1>5

(* The number of rows of a harness.                                        *)
Asked == Min({NumSamples, PoolSize})

LEMMA AskedFacts ==
    /\ Asked \in Nat /\ Asked >= 1 /\ Asked <= NumSamples /\ Asked <= PoolSize
    /\ NumSamples \in Nat /\ PoolSize \in Nat
<1>1. NumSamples \in Nat \ {0} /\ PoolSize \in Nat \ {0}
  BY EvaluationAssumption
<1> QED BY <1>1, MinOfTwo DEF Asked

(* select_samples returns the asked number of distinct questions, the      *)
(* anchors of a seeded draw among them; without a seed the first ones.     *)
LEMMA SampleFacts ==
    ASSUME NEW seeded \in BOOLEAN, NEW anchors \in SUBSET (1..PoolSize),
           NEW sample \in Samples(seeded, anchors)
    PROVE  /\ sample \in SUBSET (1..PoolSize) /\ Cardinality(sample) = Asked
           /\ seeded => AnchorCore(anchors) \subseteq sample
           /\ ~seeded => sample = 1..Asked
<1>1. CASE ~seeded
  <2>1. sample = 1..Asked
    BY <1>1, AskedFacts, FirstOfRange DEF Samples, Asked
  <2> QED BY <1>1, <2>1, AskedFacts, FS_Interval
<1>2. CASE seeded
  <2> DEFINE core == AnchorCore(anchors)
             rest == (1..PoolSize) \ core
             n == Min({NumSamples - Cardinality(core), Cardinality(rest)})
  <2>1. PICK drawn \in kSubset(n, rest) : sample = core \cup drawn
    BY <1>2 DEF Samples
  <2>2. core \subseteq 1..PoolSize /\ Cardinality(core) \in Nat
        /\ Cardinality(core) <= NumSamples
    <3>1. NumSamples \div 2 \in Nat /\ NumSamples \div 2 <= NumSamples
      BY AskedFacts
    <3>2. core \subseteq anchors \cap 1..PoolSize
          /\ Cardinality(core) <= NumSamples \div 2
      BY <3>1, AskedFacts, FirstOfBound DEF AnchorCore
    <3>3. core \in SUBSET (1..PoolSize)
      BY <3>2
    <3>4. Cardinality(core) \in Nat
      BY <3>3, AskedFacts, PositionsFinite
    <3> HIDE DEF core
    <3> QED BY <3>1, <3>2, <3>3, <3>4, AskedFacts
  <2>3. Cardinality(rest) = PoolSize - Cardinality(core)
        /\ Cardinality(rest) \in Nat /\ IsFiniteSet(rest) /\ IsFiniteSet(core)
    <3>1. IsFiniteSet(1..PoolSize) /\ Cardinality(1..PoolSize) = PoolSize
      BY AskedFacts, FS_Interval
    <3>2. (1..PoolSize) \cap core = core
      BY <2>2
    <3> HIDE DEF core
    <3>3. /\ Cardinality(rest) = Cardinality(1..PoolSize) - Cardinality((1..PoolSize) \cap core)
          /\ IsFiniteSet(rest)
      BY <3>1, FS_Difference
    <3>4. IsFiniteSet(core) /\ Cardinality(rest) \in Nat
      BY <2>2, <3>1, <3>3, FS_CardinalityType, FS_Subset
    <3> QED BY <3>1, <3>2, <3>3, <3>4
  <2>4. drawn \subseteq rest /\ Cardinality(drawn) = n
    BY <2>1 DEF kSubset
  <2>5. Cardinality(core \cup drawn) = Cardinality(core) + n
    <3>1. IsFiniteSet(drawn) /\ core \cap drawn = {}
      BY <2>3, <2>4, FS_Subset
    <3>2. n \in Nat
      BY <2>4, <3>1, FS_CardinalityType
    <3> HIDE DEF core, n
    <3>3. Cardinality(core \cup drawn)
            = Cardinality(core) + Cardinality(drawn) - Cardinality(core \cap drawn)
      BY <2>3, <3>1, FS_Union
    <3>4. Cardinality(core \cap drawn) = 0
      BY <3>1, FS_EmptySet
    <3> QED BY <2>2, <2>4, <3>2, <3>3, <3>4
  <2>6. Cardinality(core) + n = Asked
    <3> DEFINE a == NumSamples - Cardinality(core)
               b == Cardinality(rest)
    <3>1. a \in Nat /\ b \in Nat
      BY <2>2, <2>3, AskedFacts
    <3>2. n \in {a, b} /\ n <= a /\ n <= b
      <4> HIDE DEF a, b
      <4> QED BY <3>1, MinOfTwo DEF a, b
    <3>3. Asked \in {NumSamples, PoolSize} /\ Asked <= NumSamples /\ Asked <= PoolSize
      BY AskedFacts, MinOfTwo DEF Asked
    <3> HIDE DEF core, n, rest
    <3> QED BY <2>2, <2>3, <3>1, <3>2, <3>3, AskedFacts
  <2> HIDE DEF core, n
  <2>7. sample \in SUBSET (1..PoolSize) /\ core \subseteq sample
    BY <2>1, <2>2, <2>4
  <2>8. Cardinality(sample) = Asked
    BY <2>1, <2>5, <2>6
  <2> QED BY <1>2, <2>7, <2>8 DEF core
<1> QED BY <1>1, <1>2

-----------------------------------------------------------------------------
(* The knowledge notes.                                                    *)

(* The totals are defined: each is the step of the one before it.          *)
LEMMA TotalsDefined ==
    ASSUME NEW notes \in Seq(Nat)
    PROVE  /\ DOMAIN KnowledgeTotals(notes) = 0..Len(notes)
           /\ KnowledgeTotals(notes)[0] = 0
           /\ \A i \in 1..Len(notes) :
                KnowledgeTotals(notes)[i] =
                    KnowledgeStep(KnowledgeTotals(notes)[i - 1], notes[i])
<1> DEFINE Rec(f, k) == f = [i \in 0..k |-> IF i = 0 THEN 0
                                            ELSE KnowledgeStep(f[i - 1], notes[i])]
           Bad == {k \in Nat : ~\E f : Rec(f, k)}
<1>1. ASSUME Bad # {} PROVE FALSE
  <2>1. PICK k \in Bad : \A j \in Bad : k <= j
    <3> HIDE DEF Bad
    <3>1. Bad \subseteq Nat
      BY DEF Bad
    <3> QED BY <1>1, <3>1, LeastNatural
  <2>2. k \in Nat /\ ~\E f : Rec(f, k)
    OBVIOUS
  <2>3. CASE k = 0
    <3> DEFINE f == [i \in 0..0 |-> 0]
    <3>1. Rec(f, k)
      BY <2>3
    <3> QED BY <2>2, <3>1
  <2>4. CASE k > 0
    <3>1. k - 1 \in Nat /\ k - 1 < k
      BY <2>2, <2>4
    <3>2. PICK g : Rec(g, k - 1)
      <4>1. ~(k <= k - 1)
        BY <3>1
      <4>2. k - 1 \notin Bad
        <5> HIDE DEF Bad
        <5> QED BY <2>1, <4>1
      <4>3. \E f : Rec(f, k - 1)
        BY <3>1, <4>2
      <4> QED BY <4>3
    <3> DEFINE f == [i \in 0..k |-> IF i = k THEN KnowledgeStep(g[k - 1], notes[k])
                                    ELSE g[i]]
    <3>3. ASSUME NEW i \in 0..k
          PROVE  f[i] = IF i = 0 THEN 0 ELSE KnowledgeStep(f[i - 1], notes[i])
      <4>1. CASE i = 0
        BY <2>4, <3>1, <3>2, <4>1
      <4>2. CASE i = k
        <5>1. f[i - 1] = g[k - 1]
          BY <2>2, <2>4, <3>1, <4>2
        <5> QED BY <2>4, <4>2, <5>1
      <4>3. CASE i \in 1..(k - 1)
        <5>1. f[i] = g[i] /\ f[i - 1] = g[i - 1] /\ i # 0 /\ i \in 0..(k - 1)
          BY <2>2, <2>4, <4>3
        <5>2. g[i] = KnowledgeStep(g[i - 1], notes[i])
          BY <3>2, <5>1
        <5> QED BY <5>1, <5>2
      <4> QED BY <2>2, <4>1, <4>2, <4>3
    <3>4. Rec(f, k)
      <4>1. f = [i \in 0..k |-> f[i]]
        OBVIOUS
      <4> HIDE DEF f
      <4> QED BY <3>3, <4>1
    <3> QED BY <2>2, <3>4
  <2> QED BY <2>2, <2>3, <2>4
<1>2. Len(notes) \in Nat
  OBVIOUS
<1>3. \E f : Rec(f, Len(notes))
  <2>1. Len(notes) \notin Bad
    BY <1>1
  <2> QED BY <1>2, <2>1
<1>4. Rec(KnowledgeTotals(notes), Len(notes))
  BY <1>3 DEF KnowledgeTotals
<1> QED BY <1>2, <1>4

(* They stay below the total cap and never fall.                           *)
LEMMA TotalsBounded ==
    ASSUME NEW notes \in Seq(Nat)
    PROVE  \A i \in 0..Len(notes) : KnowledgeTotals(notes)[i] \in 0..TotalCap
<1> DEFINE T == KnowledgeTotals(notes)
           Bad == {i \in 0..Len(notes) : T[i] \notin 0..TotalCap}
<1>1. TotalCap \in Nat /\ FileCap \in Nat /\ Len(notes) \in Nat
  BY EvaluationAssumption
<1>2. T[0] = 0 /\ \A i \in 1..Len(notes) : T[i] = KnowledgeStep(T[i - 1], notes[i])
  BY TotalsDefined
<1> HIDE DEF T
<1>3. ASSUME Bad # {} PROVE FALSE
  <2>1. PICK i \in Bad : \A j \in Bad : i <= j
    <3>1. Bad \subseteq Nat
      OBVIOUS
    <3> HIDE DEF Bad
    <3> QED BY <1>3, <3>1, LeastNatural
  <2>2. i \in 0..Len(notes) /\ T[i] \notin 0..TotalCap /\ i # 0
    BY <1>1, <1>2
  <2>3. T[i - 1] \in 0..TotalCap /\ notes[i] \in Nat /\ i \in 1..Len(notes)
    BY <2>1, <2>2
  <2>4. T[i] = KnowledgeStep(T[i - 1], notes[i])
    BY <1>2, <2>3
  <2> QED BY <1>1, <2>2, <2>3, <2>4 DEF KnowledgeStep
<1> QED BY <1>3 DEF T

LEMMA TotalsGrow ==
    ASSUME NEW notes \in Seq(Nat), NEW i \in 0..Len(notes)
    PROVE  \A j \in i..Len(notes) : KnowledgeTotals(notes)[i] <= KnowledgeTotals(notes)[j]
<1> DEFINE T == KnowledgeTotals(notes)
           Bad == {j \in i..Len(notes) : ~(T[i] <= T[j])}
<1>1. Len(notes) \in Nat
  OBVIOUS
<1>2. \A j \in 1..Len(notes) : T[j] = KnowledgeStep(T[j - 1], notes[j])
  BY TotalsDefined
<1>3. \A j \in 0..Len(notes) : T[j] \in Nat
  BY TotalsBounded, EvaluationAssumption
<1> HIDE DEF T
<1>4. ASSUME Bad # {} PROVE FALSE
  <2>1. PICK j \in Bad : \A k \in Bad : j <= k
    <3>1. Bad \subseteq Nat
      OBVIOUS
    <3> HIDE DEF Bad
    <3> QED BY <1>4, <3>1, LeastNatural
  <2>2. j \in i..Len(notes) /\ ~(T[i] <= T[j]) /\ j # i
    BY <1>1, <1>3
  <2>3. /\ j - 1 \in i..Len(notes) /\ j - 1 \in 0..Len(notes) /\ j \in 1..Len(notes)
        /\ notes[j] \in Nat
    BY <2>2
  <2>4. T[i] <= T[j - 1]
    BY <2>1, <2>2, <2>3
  <2>5. T[j] = KnowledgeStep(T[j - 1], notes[j])
    BY <1>2, <2>3
  <2>6. T[j - 1] <= T[j]
    BY <1>3, <2>3, <2>5 DEF KnowledgeStep
  <2> QED BY <1>3, <2>2, <2>3, <2>4, <2>6
<1> QED BY <1>4 DEF T

(* A note that fits behind those before it is counted.                     *)
LEMMA KnowledgeBound ==
    ASSUME NEW notes \in Seq(Nat)
    PROVE  /\ KnowledgeTotal(notes) <= TotalCap
           /\ \A i \in DOMAIN notes :
                notes[i] <= FileCap /\ KnowledgeTotals(notes)[i - 1] + notes[i] <= TotalCap
                    => KnowledgeTotal(notes) >= KnowledgeTotals(notes)[i - 1] + notes[i]
<1> DEFINE T == KnowledgeTotals(notes)
<1>1. Len(notes) \in Nat /\ DOMAIN notes = 1..Len(notes)
  OBVIOUS
<1>2. \A i \in 0..Len(notes) : T[i] \in 0..TotalCap
  BY TotalsBounded
<1>3. ASSUME NEW i \in DOMAIN notes, notes[i] <= FileCap, T[i - 1] + notes[i] <= TotalCap
      PROVE  T[Len(notes)] >= T[i - 1] + notes[i]
  <2>1. i \in 1..Len(notes) /\ i \in 0..Len(notes) /\ i - 1 \in 0..Len(notes)
        /\ notes[i] \in Nat
    BY <1>1
  <2>2. T[i] <= T[Len(notes)]
    BY <1>1, <2>1, TotalsGrow
  <2>3. T[i] = KnowledgeStep(T[i - 1], notes[i])
    BY <2>1, TotalsDefined
  <2> HIDE DEF T
  <2>4. T[i - 1] \in Nat /\ FileCap \in Nat /\ TotalCap \in Nat
    BY <1>2, <2>1, EvaluationAssumption
  <2>5. T[i] = T[i - 1] + notes[i]
    BY <1>3, <2>1, <2>3, <2>4 DEF KnowledgeStep
  <2> QED BY <2>2, <2>5
<1>4. T[Len(notes)] <= TotalCap
  BY <1>1, <1>2, EvaluationAssumption
<1> QED BY <1>3, <1>4 DEF KnowledgeTotal

-----------------------------------------------------------------------------
(* What an evaluation remembers, in parts.                                 *)

(* The types, and the stages of a harness that is started by hand: it has  *)
(* neither a lease nor an overlapping launch.                              *)
DirectStages == {"start", "run", "save", "append", "append_last", "exit", "crash",
                 "score", "done"}

(* The stages between a start of the harness and its orderly end.          *)
InStart == InHarness \/ stage = "exit"

TypeInv ==
    /\ job \in Jobs /\ granted \subseteq {"run", "output"}
    /\ ~Brokered(job) => refs = 0 /\ other = "none" /\ stage \in DirectStages
    /\ starts \in 0..MaxStarts
    /\ InStart => starts > 0

(* The rows are drawn in file order, and a label is the row's position or, *)
(* for a draw of the harness itself, the question's.                       *)
Same == [i \in 1..Asked |-> i]

RowsInv ==
    /\ starts = 0 => rows = <<>> /\ labels = <<>>
    /\ starts > 0 =>
        /\ rows \in [1..Asked -> 1..PoolSize] /\ Increasing(rows)
        /\ job.seeded => AnchorCore(job.anchors) \subseteq ToSet(rows)
        /\ ~job.seeded => rows = Same
        /\ labels = Same \/ (OwnDraw /\ labels = rows)

CallState == {"skip", "queued", "running", "right", "wrong", "blank", "failed"}
CallsInv ==
    /\ starts = 0 => calls = <<>> /\ preds = <<>>
    /\ starts > 0 => calls \in [1..Asked -> CallState] /\ preds \in [1..Asked -> Prediction]

PoolInv == Cardinality(Running) <= Workers

(* predictions.csv has at most as many rows as were asked for.             *)
CsvInv ==
    csv # None =>
        /\ \E n \in 0..Asked : DOMAIN csv = 1..n
        /\ \A i \in DOMAIN csv : csv[i] \in (1..PoolSize) \X (Prediction \ {None})

(* Unless labels and positions may differ, an answer is kept beside its    *)
(* own question, in memory and on disk.                                    *)
Own(p, q) == p \in {None, Blank, Cut} \/ p.of = q
AnswersInv ==
    ~(OwnDraw /\ job.seeded) =>
        /\ \A i \in DOMAIN preds : Own(preds[i], rows[i])
        /\ csv # None => \A i \in DOMAIN csv : Own(csv[i][2], csv[i][1])

(* A question is skipped only for an answer it has, and one that has been  *)
(* consumed has its prediction under its label.                            *)
Stored(i) == Returned(i) /\ labels[i] <= Asked /\ preds[labels[i]] = PredictionOf(i)
ConsumedInv ==
    /\ consumed \in Nat
    /\ InStart =>
        /\ \A i \in DOMAIN calls : calls[i] = "skip" => labels = Same /\ Done(preds[i])
        /\ \A i \in DOMAIN calls : calls[i] # "skip" /\ i <= consumed => Stored(i)

(* The last save is of everything.                                         *)
SavedInv == stage \in {"append_last", "exit"} => csv = Table /\ AllConsumed

(* The failures of a start are listed once each, on disk up to written.    *)
FailuresInv ==
    /\ failures \in Seq(Nat) /\ written \in 0..Len(failures)
    /\ failLog \in Seq(Nat \X Nat) /\ IsInjective(failLog)
    /\ \A k \in DOMAIN failLog : failLog[k][1] <= starts
    /\ stage = "exit" => written = Len(failures)
    /\ InStart =>
        /\ IsInjective(failures)
        /\ \A k \in DOMAIN failures : \E i \in 1..Asked : i <= consumed /\ failures[k] = rows[i]
        /\ \A k \in DOMAIN failLog : failLog[k][1] = starts =>
               \E j \in 1..written : failLog[k][2] = failures[j]
        /\ \A j \in 1..written : <<starts, failures[j]>> \in ToSet(failLog)

NodeInv == (node # None => stage \in {"ingest", "done"}) /\ OkMeansComplete

(* The design of the generation: what is persisted resolves, what is       *)
(* delivered is the snapshot of the design, and what is missing is audited.*)
Persisted == Stages \ {"reconcile", "patch", "heal", "raised"}
Assembled == Persisted \ {"assemble"}

GenFields ==
    gen = [code |-> gen.code, rejected |-> gen.rejected, tools |-> gen.tools,
           persisted |-> gen.persisted, pol |-> gen.pol, asm |-> gen.asm,
           skipped |-> gen.skipped, knowledge |-> gen.knowledge]
DesignInv ==
    /\ GenFields
    /\ stage = "heal" /\ job.kind = "polyglot" => "write_file" \in gen.tools
    /\ PersistedResolves
    /\ gen.knowledge \in {0, KnowledgeTotal(job.notes)}
    /\ Brokered(job) /\ stage \in Assembled =>
           LET s == Snapshot(job.design)
           IN gen.pol = s.pol /\ gen.asm = s.asm /\ gen.skipped = s.skipped

AuditInv ==
    /\ Brokered(job) /\ stage \in Assembled \ {"done"} =>
           (sidecar \notin {None, {}} /\ gen.skipped # {} => "cm_session_degraded" \in sidecar)
    /\ stage # "done" => "cm_events_ingested" \notin events
    /\ ClaimGapAudited

HarnessInv == /\ RowsInv /\ CallsInv /\ PoolInv /\ CsvInv /\ AnswersInv
              /\ ConsumedInv /\ SavedInv /\ FailuresInv /\ NodeInv

EvaluationInv == LeaseInv /\ TypeInv /\ HarnessInv /\ DesignInv /\ AuditInv

-----------------------------------------------------------------------------
(* Which steps touch what.                                                 *)

LEMMA WhatChanges ==
    ASSUME [Next]_vars
    PROVE  /\ job' = job
           /\ HarnessStarts \/ UNCHANGED <<rows, labels, starts>>
           /\ HarnessStarts \/ ConsumeFuture \/ UNCHANGED <<preds, consumed, failures>>
           /\ HarnessStarts \/ TakeQuestion \/ AgentReturns \/ HarnessGone \/ UNCHANGED calls
           /\ AssembleRunDir \/ SaveTable \/ TornSave \/ UNCHANGED csv
           /\ AssembleRunDir \/ AppendFailures \/ UNCHANGED failLog
           /\ HarnessStarts \/ AppendFailures \/ UNCHANGED written
           /\ ScoreRun \/ UNCHANGED node
           /\ ApplyTaskPatch \/ HealAndPersist \/ AssembleRunDir \/ UNCHANGED gen
<1> USE DEF prepVars, leaseVars, memVars, fileVars, outVars
<1>1. CASE Reconcile
  BY <1>1 DEF Reconcile
<1>2. CASE ApplyTaskPatch
  BY <1>2 DEF ApplyTaskPatch
<1>3. CASE HealAndPersist
  BY <1>3 DEF HealAndPersist
<1>4. CASE AssembleRunDir
  BY <1>4 DEF AssembleRunDir
<1>5. CASE LaunchRefused
  BY <1>5 DEF LaunchRefused
<1>6. CASE AcquireTraverse
  BY <1>6 DEF AcquireTraverse
<1>7. CASE GrantTrees
  BY <1>7 DEF GrantTrees
<1>8. CASE Preflight
  BY <1>8 DEF Preflight
<1>9. CASE Abandon
  BY <1>9 DEF Abandon
<1>10. CASE ScoreRun
  BY <1>10 DEF ScoreRun
<1>11. CASE IngestSeamEvents
  BY <1>11 DEF IngestSeamEvents
<1>12. CASE HarnessStarts
  BY <1>12 DEF HarnessStarts
<1>13. CASE TakeQuestion
  BY <1>13 DEF TakeQuestion
<1>14. CASE AgentReturns
  BY <1>14 DEF AgentReturns
<1>15. CASE ConsumeFuture
  BY <1>15 DEF ConsumeFuture
<1>16. CASE SaveTable
  BY <1>16 DEF SaveTable
<1>17. CASE AppendFailures
  BY <1>17 DEF AppendFailures
<1>18. CASE HarnessGone
  BY <1>18 DEF HarnessGone
<1>19. CASE HarnessKilled
  BY <1>19 DEF HarnessKilled
<1>20. CASE TornSave
  BY <1>20 DEF TornSave
<1>21. CASE OtherEnds
  BY <1>21 DEF OtherEnds
<1>22. CASE UNCHANGED vars
  BY <1>22 DEF vars
<1> QED
  BY <1>1, <1>2, <1>3, <1>4, <1>5, <1>6, <1>7, <1>8, <1>9, <1>10, <1>11, <1>12, <1>13,
     <1>14, <1>15, <1>16, <1>17, <1>18, <1>19, <1>20, <1>21, <1>22, Zenon
     DEF Next, RunnerStep, HarnessStep, Ended

(* How the runner and the harness move on.                                 *)
LEMMA WhereStepsGo ==
    ASSUME LeaseInv, TypeInv, [Next]_vars
    PROVE  /\ InStart' => InStart \/ HarnessStarts
           /\ stage' = "exit" => stage = "exit" \/ (stage = "append_last" /\ AppendFailures)
           /\ stage' = "append_last" => stage = "append_last" \/ (EndSave /\ SaveTable)
           /\ stage \in {"ingest", "done"} => stage' \in {"ingest", "done"}
           /\ stage' \in {"ingest", "done"} => stage \in {"ingest", "done"} \/ ScoreRun
           /\ stage' = "heal" => stage = "heal" \/ ApplyTaskPatch
           /\ stage' \in Persisted =>
                 stage \in Persisted \/ HealAndPersist
           /\ Brokered(job) /\ stage' \in Assembled => stage \in Assembled \/ AssembleRunDir
           /\ Brokered(job) /\ stage' = "done" => stage = "done" \/ IngestSeamEvents
           /\ stage = "done" => stage' = "done"
<1> USE DEF InStart, InHarness, Stages, Persisted, Assembled
<1>0. stage \in Stages
  BY DEF LeaseInv, LeaseTypes
<1>1. CASE Reconcile
  BY <1>1 DEF Reconcile
<1>2. CASE ApplyTaskPatch
  BY <1>2 DEF ApplyTaskPatch
<1>3. CASE HealAndPersist
  BY <1>3 DEF HealAndPersist
<1>4. CASE AssembleRunDir
  BY <1>4 DEF AssembleRunDir
<1>5. CASE LaunchRefused
  BY <1>5 DEF LaunchRefused
<1>6. CASE AcquireTraverse
  BY <1>6 DEF AcquireTraverse
<1>7. CASE GrantTrees
  BY <1>7 DEF GrantTrees
<1>8. CASE Preflight
  BY <1>8 DEF Preflight
<1>9. CASE Abandon
  <2>1. stage \in {"abandon", "reclaim_failed", "reclaim"} /\ stage' \in {"raised", "score"}
    BY <1>9 DEF Abandon, CloseLease
  <2> QED BY <2>1
<1>10. CASE ScoreRun
  BY <1>10 DEF ScoreRun
<1>11. CASE IngestSeamEvents
  BY <1>11 DEF IngestSeamEvents
<1>12. CASE HarnessStarts
  BY <1>12 DEF HarnessStarts
<1>13. CASE TakeQuestion
  BY <1>13 DEF TakeQuestion
<1>14. CASE AgentReturns
  BY <1>14 DEF AgentReturns
<1>15. CASE ConsumeFuture
  <2>1. stage = "run" /\ stage' \in {"run", "save", "crash"}
    BY <1>15 DEF ConsumeFuture
  <2> QED BY <2>1
<1>16. CASE SaveTable
  BY <1>16 DEF SaveTable, EndSave
<1>17. CASE AppendFailures
  BY <1>17 DEF AppendFailures
<1>18. CASE HarnessGone
  BY <1>18 DEF HarnessGone
<1>19. CASE HarnessKilled
  <2>1. InHarness /\ stage' \in {"crash", "timeout"}
    BY <1>19 DEF HarnessKilled
  <2> QED BY <2>1
<1>20. CASE TornSave
  BY <1>20 DEF TornSave, EndSave
<1>21. CASE OtherEnds
  BY <1>21 DEF OtherEnds
<1>22. CASE UNCHANGED vars
  BY <1>22 DEF vars
<1> QED
  BY <1>1, <1>2, <1>3, <1>4, <1>5, <1>6, <1>7, <1>8, <1>9, <1>10, <1>11, <1>12, <1>13,
     <1>14, <1>15, <1>16, <1>17, <1>18, <1>19, <1>20, <1>21, <1>22, Zenon
     DEF Next, RunnerStep, HarnessStep, Ended

-----------------------------------------------------------------------------
(* The types and the draw.                                                 *)

LEMMA JobType ==
    ASSUME TypeInv
    PROVE  /\ job \in Job /\ job.seeded \in BOOLEAN /\ job.anchors \in SUBSET (1..PoolSize)
           /\ job.notes \in Seq(Nat) /\ job.kind \in Kinds
           /\ job.design.mode \in {"passthrough", "slice", "custom"}
           /\ job.design.asm \in CmName /\ job.design.pol \in PolicyName
<1>1. job \in Job
  BY JobsAssumption DEF TypeInv
<1>2. job.design \in Design
  BY <1>1 DEF Job
<1> QED BY <1>1, <1>2 DEF Job, Design

LEMMA TypeStep ==
    ASSUME LeaseInv, TypeInv, [Next]_vars
    PROVE  TypeInv'
<1>1. job' = job /\ (HarnessStarts \/ starts' = starts)
      /\ (InStart' => InStart \/ HarnessStarts)
  BY WhatChanges, WhereStepsGo
<1>2. job' \in Jobs /\ (Brokered(job)' <=> Brokered(job))
  BY <1>1 DEF TypeInv, Brokered
<1>3. starts' \in 0..MaxStarts /\ (InStart' => starts' > 0)
  <2>1. CASE HarnessStarts
    BY <2>1, EvaluationAssumption DEF HarnessStarts, TypeInv
  <2>2. CASE ~HarnessStarts
    BY <1>1, <2>2 DEF TypeInv
  <2> QED BY <2>1, <2>2
<1>4. granted' \subseteq {"run", "output"}
  <2> USE DEF TypeInv, leaseVars
  <2>1. CASE UNCHANGED granted
    BY <2>1
  <2>2. CASE Reconcile
    BY <2>2 DEF Reconcile
  <2>3. CASE GrantTrees
    BY <2>3 DEF GrantTrees
  <2>4. CASE Abandon
    BY <2>4 DEF Abandon, CloseLease
  <2>5. ASSUME ~Reconcile, ~GrantTrees, ~Abandon PROVE UNCHANGED granted
    <3>1. CASE RunnerStep
      BY <2>5, <3>1 DEF RunnerStep, ApplyTaskPatch, HealAndPersist, AssembleRunDir,
         LaunchRefused, AcquireTraverse, Preflight, ScoreRun, IngestSeamEvents
    <3>2. CASE HarnessStep
      BY <3>2 DEF HarnessStep, HarnessStarts, TakeQuestion, AgentReturns, ConsumeFuture,
         SaveTable, AppendFailures, HarnessGone
    <3>3. CASE HarnessKilled \/ TornSave \/ OtherEnds
      BY <3>3 DEF HarnessKilled, TornSave, OtherEnds
    <3>4. CASE UNCHANGED vars
      BY <3>4 DEF vars
    <3> QED BY <3>1, <3>2, <3>3, <3>4 DEF Next, Ended
  <2> QED BY <2>1, <2>2, <2>3, <2>4, <2>5
<1>5. ASSUME ~Brokered(job) PROVE refs' = 0 /\ other' = "none" /\ stage' \in DirectStages
  <2>0. refs = 0 /\ other = "none" /\ stage \in DirectStages /\ job.kind = "direct"
    BY <1>5 DEF TypeInv, Brokered
  <2> USE <2>0 DEF DirectStages, leaseVars
  <2>1. CASE RunnerStep
    BY <1>5, <2>1 DEF RunnerStep, Reconcile, ApplyTaskPatch, HealAndPersist, AssembleRunDir,
       LaunchRefused, AcquireTraverse, GrantTrees, Preflight, Abandon, ScoreRun,
       IngestSeamEvents
  <2>2. CASE HarnessStep
    <3>1. UNCHANGED leaseVars
      BY <2>2 DEF HarnessStep, HarnessStarts, TakeQuestion, AgentReturns, ConsumeFuture,
         SaveTable, AppendFailures, HarnessGone
    <3>2. CASE HarnessStarts \/ TakeQuestion \/ AgentReturns \/ SaveTable \/ AppendFailures
      BY <3>1, <3>2 DEF HarnessStarts, TakeQuestion, AgentReturns, SaveTable, AppendFailures
    <3>3. CASE ConsumeFuture
      <4>1. stage' \in {"run", "save", "crash"}
        BY <3>3 DEF ConsumeFuture
      <4> QED BY <3>1, <4>1
    <3>4. CASE HarnessGone
      BY <1>5, <3>1, <3>4 DEF HarnessGone
    <3> QED BY <2>2, <3>2, <3>3, <3>4 DEF HarnessStep
  <2>3. CASE HarnessKilled \/ TornSave
    BY <2>3 DEF HarnessKilled, TornSave
  <2>4. CASE OtherEnds
    BY <2>4 DEF OtherEnds
  <2>5. CASE UNCHANGED vars
    BY <2>5 DEF vars
  <2> QED BY <2>1, <2>2, <2>3, <2>4, <2>5 DEF Next, Ended
<1> QED
  BY <1>2, <1>3, <1>4, <1>5, Zenon DEF TypeInv

(* A start of the harness draws the rows of its job.                       *)
LEMMA DrawStep ==
    ASSUME TypeInv, HarnessStarts
    PROVE  /\ rows' \in [1..Asked -> 1..PoolSize] /\ Increasing(rows')
           /\ job.seeded => AnchorCore(job.anchors) \subseteq ToSet(rows')
           /\ ~job.seeded => rows' = Same
           /\ labels' = Same \/ (OwnDraw /\ labels' = rows')
<1>1. PICK sample \in Samples(job.seeded, job.anchors) :
        rows' = Drawn(sample) /\ labels' = LabelsOf(sample)
  BY DEF HarnessStarts
<1>2. /\ sample \in SUBSET (1..PoolSize) /\ Cardinality(sample) = Asked
      /\ job.seeded => AnchorCore(job.anchors) \subseteq sample
      /\ ~job.seeded => sample = 1..Asked
  BY JobType, SampleFacts
<1>3. /\ Drawn(sample) \in [1..Asked -> sample] /\ Increasing(Drawn(sample))
      /\ ToSet(Drawn(sample)) = sample
  BY <1>2, AskedFacts, DrawnFacts
<1>4. ASSUME ~job.seeded PROVE Drawn(sample) = Same
  <2>1. Drawn(sample) \in [1..Asked -> Nat \ {0}]
        /\ \A i \in 1..Asked : Drawn(sample)[i] <= Asked
    BY <1>2, <1>3, <1>4, AskedFacts
  <2> QED BY <1>3, <2>1, AskedFacts, IncreasingIsIdentity DEF Same
<1>5. LabelsOf(sample) = Same \/ (OwnDraw /\ LabelsOf(sample) = Drawn(sample))
  BY <1>2 DEF LabelsOf, Same
<1>6. Drawn(sample) \in [1..Asked -> 1..PoolSize]
  BY <1>2, <1>3
<1> QED BY <1>1, <1>2, <1>3, <1>4, <1>5, <1>6

LEMMA RowsStep ==
    ASSUME TypeInv, RowsInv, [Next]_vars
    PROVE  RowsInv'
<1>1. job' = job
  BY WhatChanges
<1>2. CASE HarnessStarts
  <2>1. starts' > 0 /\ starts' \in Nat
    BY <1>2, EvaluationAssumption DEF HarnessStarts, TypeInv
  <2>2. Same' = Same /\ (OwnDraw' <=> OwnDraw)
    BY <1>1 DEF Same, OwnDraw
  <2> QED BY <1>1, <1>2, <2>1, <2>2, DrawStep DEF RowsInv
<1>3. CASE ~HarnessStarts
  <2>1. UNCHANGED <<rows, labels, starts>>
    BY <1>3, WhatChanges
  <2> QED BY <1>1, <2>1 DEF RowsInv, Same, OwnDraw
<1> QED BY <1>2, <1>3

(* What the later steps need to know of a running start.                   *)
LEMMA StartFacts ==
    ASSUME TypeInv, RowsInv, CallsInv, starts > 0
    PROVE  /\ rows \in [1..Asked -> 1..PoolSize] /\ labels \in [1..Asked -> 1..PoolSize]
           /\ preds \in [1..Asked -> Prediction] /\ calls \in [1..Asked -> CallState]
           /\ Increasing(labels) /\ IsInjective(rows) /\ IsInjective(labels)
           /\ DOMAIN rows = 1..Asked /\ DOMAIN labels = 1..Asked
           /\ DOMAIN preds = 1..Asked /\ DOMAIN calls = 1..Asked
           /\ Len(rows) = Asked /\ Len(labels) = Asked /\ Len(preds) = Asked
<1>1. rows \in [1..Asked -> 1..PoolSize] /\ Increasing(rows)
      /\ (labels = Same \/ labels = rows)
  BY DEF RowsInv
<1>2. Same \in [1..Asked -> 1..PoolSize] /\ Increasing(Same)
  BY AskedFacts DEF Same, Increasing
<1>3. labels \in [1..Asked -> 1..PoolSize] /\ Increasing(labels)
  BY <1>1, <1>2
<1>4. IsInjective(rows) /\ IsInjective(labels)
  BY <1>1, <1>3, AskedFacts, IncreasingIsInjective
<1>5. preds \in [1..Asked -> Prediction] /\ calls \in [1..Asked -> CallState]
  BY DEF CallsInv
<1>6. Len(rows) = Asked /\ Len(labels) = Asked /\ Len(preds) = Asked
  BY <1>1, <1>3, <1>5, AskedFacts
<1> QED BY <1>1, <1>3, <1>4, <1>5, <1>6

-----------------------------------------------------------------------------
(* The harness's memory and predictions.csv.                               *)

LEMMA Distinct ==
    /\ Blank # None /\ Cut # None /\ Blank # Cut
    /\ Blank \in Prediction \ {None} /\ Cut \in Prediction \ {None}
    /\ \A q \in 1..PoolSize, ok \in BOOLEAN :
           Answer(q, ok) \in Prediction \ {None, Blank, Cut} /\ Answer(q, ok).of = q
<1>1. Blank \in [of : Int, right : BOOLEAN] /\ Cut \in [of : Int, right : BOOLEAN]
      /\ Blank.of = 0 /\ Cut.of = -1
  BY DEF Blank, Cut
<1>2. \A q \in 1..PoolSize, ok \in BOOLEAN :
        /\ Answer(q, ok) \in [of : Int, right : BOOLEAN] /\ Answer(q, ok).of = q
        /\ Answer(q, ok) \in [of : 1..PoolSize, right : BOOLEAN]
  BY DEF Answer
<1>3. None \notin [of : Int, right : BOOLEAN]
  BY NoneAssumption
<1>4. Blank # Cut /\ Blank # None /\ Cut # None
  BY <1>1, <1>3
<1>5. ASSUME NEW q \in 1..PoolSize, NEW ok \in BOOLEAN
      PROVE  Answer(q, ok) \in Prediction \ {None, Blank, Cut} /\ Answer(q, ok).of = q
  <2>1. Answer(q, ok) # None /\ Answer(q, ok).of = q
        /\ Answer(q, ok) \in [of : 1..PoolSize, right : BOOLEAN]
    BY <1>2, <1>3
  <2>2. q # 0 /\ q # -1
    BY AskedFacts
  <2> QED BY <1>1, <2>1, <2>2 DEF Prediction
<1> QED BY <1>4, <1>5 DEF Prediction

(* An answer found on disk.                                                *)
LEMMA EarlierFacts ==
    ASSUME CsvInv, AnswersInv, NEW q \in 1..PoolSize
    PROVE  /\ Earlier(q) \in Prediction
           /\ csv = None => Earlier(q) = None
           /\ ~(OwnDraw /\ job.seeded) => Own(Earlier(q), q)
<1>1. CASE csv = None
  BY <1>1 DEF Earlier, Prediction, Own
<1>2. CASE csv # None
  <2> DEFINE hit == {i \in DOMAIN csv : csv[i][1] = q}
  <2>1. CASE hit = {}
    BY <1>2, <2>1 DEF Earlier, Prediction, Own
  <2>2. CASE hit # {}
    <3>1. PICK i \in hit : Earlier(q) = csv[i][2]
      <4>1. Earlier(q) = csv[CHOOSE i \in hit : TRUE][2]
        BY <1>2, <2>2 DEF Earlier
      <4>2. (CHOOSE i \in hit : TRUE) \in hit
        BY <2>2
      <4> HIDE DEF hit
      <4> QED BY <4>1, <4>2
    <3>2. i \in DOMAIN csv /\ csv[i][1] = q
      OBVIOUS
    <3> HIDE DEF hit
    <3>3. Earlier(q) \in Prediction
      BY <1>2, <3>1, <3>2 DEF CsvInv
    <3> QED BY <1>2, <3>1, <3>2, <3>3 DEF AnswersInv
  <2> QED BY <2>1, <2>2
<1> QED BY <1>1, <1>2

LEMMA PredictionType ==
    ASSUME TypeInv, RowsInv, CallsInv, starts > 0, NEW i \in 1..Asked
    PROVE  /\ PredictionOf(i) \in Prediction \ {None, Cut}
           /\ PredictionOf(i) = Blank \/ PredictionOf(i).of = rows[i]
           /\ PredictionOf(i) = Blank => calls[i] \notin {"right", "wrong"}
<1>1. rows[i] \in 1..PoolSize
  BY StartFacts
<1> QED BY <1>1, Distinct DEF PredictionOf

(* The future that is waited for next.                                     *)
LEMMA FutureFacts ==
    ASSUME TypeInv, RowsInv, CallsInv, starts > 0, NextFuture # {}
    PROVE  /\ Min(NextFuture) \in 1..Asked
           /\ Min(NextFuture) > consumed /\ calls[Min(NextFuture)] # "skip"
           /\ \A j \in NextFuture : Min(NextFuture) <= j
<1> DEFINE m == CHOOSE x \in NextFuture : \A y \in NextFuture : x <= y
<1>1. NextFuture \subseteq Nat
  BY StartFacts, AskedFacts DEF NextFuture
<1>2. m \in NextFuture /\ \A y \in NextFuture : m <= y
  BY <1>1, LeastNatural
<1>3. Min(NextFuture) = m
  BY DEF Min
<1> HIDE DEF m
<1> QED BY <1>2, <1>3, StartFacts DEF NextFuture

LEMMA CallsStep ==
    ASSUME TypeInv, RowsInv, CallsInv, CsvInv, AnswersInv, [Next]_vars
    PROVE  CallsInv'
<1> USE DEF CallState
<1>0. starts \in Nat /\ (InStart => starts > 0)
  BY EvaluationAssumption DEF TypeInv
<1>1. CASE HarnessStarts
  <2>1. DOMAIN rows' = 1..Asked /\ \A i \in 1..Asked : rows'[i] \in 1..PoolSize
    BY <1>1, DrawStep
  <2>2. preds' = [i \in 1..Asked |-> Earlier(rows'[i])]
    BY <1>1, <2>1 DEF HarnessStarts
  <2>3. preds' \in [1..Asked -> Prediction]
    BY <2>1, <2>2, EarlierFacts
  <2>4. calls' = [i \in 1..Asked |-> IF Done(preds'[i]) THEN "skip" ELSE "queued"]
    BY <1>1, <2>1 DEF HarnessStarts
  <2>5. starts' = starts + 1
    BY <1>1 DEF HarnessStarts
  <2> QED BY <1>0, <2>3, <2>4, <2>5 DEF CallsInv
<1>2. CASE TakeQuestion \/ AgentReturns
  <2>1. starts > 0 /\ starts' = starts /\ UNCHANGED preds
    BY <1>0, <1>2 DEF TakeQuestion, AgentReturns, InStart, InHarness, fileVars
  <2>2. \E i \in DOMAIN calls, r \in CallState : calls' = [calls EXCEPT ![i] = r]
    BY <1>2 DEF TakeQuestion, AgentReturns, Running
  <2> QED BY <2>1, <2>2 DEF CallsInv
<1>3. CASE ConsumeFuture
  <2>1. starts > 0 /\ starts' = starts /\ UNCHANGED calls
    BY <1>0, <1>3 DEF ConsumeFuture, InStart, InHarness, fileVars
  <2> DEFINE i == Min(NextFuture)
  <2>2. preds' = preds \/ (i \in 1..Asked /\ preds' = [preds EXCEPT ![labels[i]] = PredictionOf(i)])
    <3>1. i \in 1..Asked
      BY <1>3, <2>1, FutureFacts DEF ConsumeFuture
    <3> QED BY <1>3, <3>1 DEF ConsumeFuture
  <2>3. preds' \in [1..Asked -> Prediction]
    <3> HIDE DEF i
    <3> QED BY <2>1, <2>2, PredictionType DEF CallsInv
  <2> QED BY <2>1, <2>3 DEF CallsInv
<1>4. CASE HarnessGone
  <2>1. starts' = starts /\ UNCHANGED preds /\ calls' = [i \in DOMAIN calls |-> "skip"]
    BY <1>4 DEF HarnessGone, fileVars
  <2> QED BY <2>1 DEF CallsInv
<1>5. ASSUME ~HarnessStarts, ~TakeQuestion, ~AgentReturns, ~ConsumeFuture, ~HarnessGone
      PROVE  UNCHANGED <<preds, calls, starts>>
  BY <1>5, WhatChanges
<1> QED BY <1>1, <1>2, <1>3, <1>4, <1>5 DEF CallsInv

(* The pool never runs more agents than it has workers.                    *)
LEMMA PoolStep ==
    ASSUME TypeInv, RowsInv, CallsInv, PoolInv, [Next]_vars
    PROVE  PoolInv'
<1>0. Workers \in Nat /\ starts \in Nat /\ (InStart => starts > 0)
  BY EvaluationAssumption DEF TypeInv
<1>1. CASE HarnessStarts \/ HarnessGone
  <2>1. \A i \in DOMAIN calls' : calls'[i] # "running"
    BY <1>1 DEF HarnessStarts, HarnessGone
  <2>2. Running' = {}
    BY <2>1 DEF Running
  <2> QED BY <1>0, <2>2, FS_EmptySet DEF PoolInv
<1>2. CASE TakeQuestion \/ AgentReturns
  <2>1. starts > 0
    BY <1>0, <1>2 DEF TakeQuestion, AgentReturns, InStart, InHarness
  <2>2. calls \in [1..Asked -> CallState] /\ Asked \in Nat
    BY <2>1, AskedFacts DEF CallsInv
  <2>3. Running \in SUBSET (1..Asked)
    BY <2>2 DEF Running
  <2>4. IsFiniteSet(Running) /\ Cardinality(Running) \in Nat
    BY <2>2, <2>3, PositionsFinite
  <2>5. CASE TakeQuestion
    <3>1. PICK i \in DOMAIN calls : calls' = [calls EXCEPT ![i] = "running"]
      BY <2>5 DEF TakeQuestion
    <3>2. Running' = Running \cup {i}
      BY <2>2, <3>1 DEF Running
    <3>3. Cardinality(Running) < Workers
      BY <2>5 DEF TakeQuestion
    <3>4. Cardinality(Running \cup {i}) <= Cardinality(Running) + 1
      BY <2>4, FS_AddElement
    <3>5. Cardinality(Running \cup {i}) \in Nat
      BY <2>4, FS_AddElement, FS_CardinalityType
    <3> QED BY <1>0, <2>4, <3>2, <3>3, <3>4, <3>5 DEF PoolInv
  <2>6. CASE AgentReturns
    <3>1. PICK i \in Running, r \in {"right", "wrong", "blank", "failed"} :
            calls' = [calls EXCEPT ![i] = r]
      BY <2>6 DEF AgentReturns
    <3>2. Running' \subseteq Running
      BY <2>2, <3>1 DEF Running
    <3>3. Cardinality(Running') <= Cardinality(Running) /\ Cardinality(Running') \in Nat
      BY <2>4, <3>2, FS_Subset, FS_CardinalityType
    <3> QED BY <1>0, <2>4, <3>3 DEF PoolInv
  <2> QED BY <1>2, <2>5, <2>6
<1>3. ASSUME ~HarnessStarts, ~TakeQuestion, ~AgentReturns, ~HarnessGone
      PROVE  UNCHANGED calls
  BY <1>3, WhatChanges
<1> QED BY <1>1, <1>2, <1>3 DEF PoolInv, Running

LEMMA TableType ==
    ASSUME TypeInv, RowsInv, CallsInv, starts > 0
    PROVE  /\ DOMAIN Table = 1..Asked
           /\ \A i \in 1..Asked :
                /\ Table[i] \in (1..PoolSize) \X (Prediction \ {None})
                /\ Table[i][1] = rows[i]
                /\ Table[i][2] = IF preds[i] = None THEN Blank ELSE preds[i]
<1>1. DOMAIN rows = 1..Asked
  BY StartFacts
<1>2. \A i \in 1..Asked : rows[i] \in 1..PoolSize /\ preds[i] \in Prediction
  BY StartFacts
<1> QED BY <1>1, <1>2, Distinct DEF Table

LEMMA CsvStep ==
    ASSUME TypeInv, RowsInv, CallsInv, CsvInv, [Next]_vars
    PROVE  CsvInv'
<1>0. InStart => starts > 0
  BY DEF TypeInv
<1>1. CASE AssembleRunDir
  BY <1>1 DEF AssembleRunDir, FreshRunDir, CsvInv
<1>2. CASE SaveTable
  <2>1. starts > 0 /\ csv' = Table
    BY <1>0, <1>2 DEF SaveTable, EndSave, InStart, InHarness
  <2> QED BY <2>1, TableType, AskedFacts DEF CsvInv
<1>3. CASE TornSave
  <2>1. starts > 0 /\ Len(rows) = Asked
    BY <1>0, <1>3, StartFacts DEF TornSave, EndSave, InStart, InHarness
  <2>2. PICK n \in 1..Asked, last \in {Blank, Cut} :
          csv' = [i \in 1..n |-> IF i = n THEN <<rows[i], last>> ELSE Table[i]]
    BY <1>3, <2>1 DEF TornSave
  <2>3. \A i \in 1..n : csv'[i] \in (1..PoolSize) \X (Prediction \ {None})
    <3> TAKE i \in 1..n
    <3>1. i \in 1..Asked /\ rows[i] \in 1..PoolSize
      BY <2>1, <2>2, StartFacts, AskedFacts
    <3> QED BY <2>1, <2>2, <3>1, TableType, Distinct
  <2>4. DOMAIN csv' = 1..n /\ n \in 0..Asked
    BY <2>2, AskedFacts
  <2> QED BY <2>3, <2>4 DEF CsvInv
<1>4. ASSUME ~AssembleRunDir, ~SaveTable, ~TornSave PROVE UNCHANGED csv
  BY <1>4, WhatChanges
<1> QED BY <1>1, <1>2, <1>3, <1>4 DEF CsvInv

(* Where every row is labelled with its position.                          *)
LEMMA OwnLabels ==
    ASSUME RowsInv, starts > 0, ~(OwnDraw /\ job.seeded)
    PROVE  labels = Same
BY DEF RowsInv

LEMMA AnswersStep ==
    ASSUME TypeInv, RowsInv, CallsInv, CsvInv, AnswersInv, [Next]_vars
    PROVE  AnswersInv'
<1>0. job' = job /\ (OwnDraw' <=> OwnDraw) /\ (InStart => starts > 0)
  BY WhatChanges DEF OwnDraw, TypeInv
<1> SUFFICES ASSUME ~(OwnDraw /\ job.seeded)
             PROVE  /\ \A i \in DOMAIN preds' : Own(preds'[i], rows'[i])
                    /\ csv' # None => \A i \in DOMAIN csv' : Own(csv'[i][2], csv'[i][1])
  BY <1>0 DEF AnswersInv, Own
<1>1. /\ \A i \in DOMAIN preds : Own(preds[i], rows[i])
      /\ csv # None => \A i \in DOMAIN csv : Own(csv[i][2], csv[i][1])
  BY DEF AnswersInv
<1>2. \A i \in DOMAIN preds' : Own(preds'[i], rows'[i])
  <2>1. CASE HarnessStarts
    <3>1. DOMAIN rows' = 1..Asked /\ \A i \in 1..Asked : rows'[i] \in 1..PoolSize
      BY <2>1, DrawStep
    <3>2. preds' = [i \in 1..Asked |-> Earlier(rows'[i])]
      BY <2>1, <3>1 DEF HarnessStarts
    <3> QED BY <3>1, <3>2, EarlierFacts
  <2>2. CASE ConsumeFuture
    <3>1. starts > 0 /\ UNCHANGED rows
      BY <1>0, <2>2 DEF ConsumeFuture, InStart, InHarness
    <3> DEFINE i == Min(NextFuture)
    <3>2. i \in 1..Asked
      BY <2>2, <3>1, FutureFacts DEF ConsumeFuture
    <3>3. labels[i] = i
      BY <3>1, <3>2, OwnLabels DEF Same
    <3>4. preds' = preds \/ preds' = [preds EXCEPT ![i] = PredictionOf(i)]
      BY <2>2, <3>3 DEF ConsumeFuture
    <3>5. Own(PredictionOf(i), rows[i])
      BY <3>1, <3>2, PredictionType DEF Own
    <3> HIDE DEF i
    <3> QED BY <1>1, <3>1, <3>4, <3>5
  <2>3. ASSUME ~HarnessStarts, ~ConsumeFuture PROVE UNCHANGED <<rows, preds>>
    BY <2>3, WhatChanges
  <2> QED BY <1>1, <2>1, <2>2, <2>3
<1>3. ASSUME csv' # None PROVE \A i \in DOMAIN csv' : Own(csv'[i][2], csv'[i][1])
  <2>0. starts > 0 => \A i \in 1..Asked : Own(Table[i][2], Table[i][1])
    <3> SUFFICES ASSUME starts > 0, NEW i \in 1..Asked PROVE Own(Table[i][2], Table[i][1])
      OBVIOUS
    <3>1. i \in DOMAIN preds
      BY StartFacts
    <3> QED BY <1>1, <3>1, TableType DEF Own
  <2>1. CASE AssembleRunDir
    BY <1>3, <2>1 DEF AssembleRunDir, FreshRunDir
  <2>2. CASE SaveTable
    <3>1. starts > 0 /\ csv' = Table
      BY <1>0, <2>2 DEF SaveTable, EndSave, InStart, InHarness
    <3> QED BY <2>0, <3>1, TableType
  <2>3. CASE TornSave
    <3>1. starts > 0 /\ Len(rows) = Asked
      BY <1>0, <2>3, StartFacts DEF TornSave, EndSave, InStart, InHarness
    <3>2. PICK n \in 1..Asked, last \in {Blank, Cut} :
            csv' = [i \in 1..n |-> IF i = n THEN <<rows[i], last>> ELSE Table[i]]
      BY <2>3, <3>1 DEF TornSave
    <3>3. \A i \in 1..n : i \in 1..Asked
      BY <3>2, AskedFacts
    <3> QED BY <2>0, <3>1, <3>2, <3>3 DEF Own
  <2>4. ASSUME ~AssembleRunDir, ~SaveTable, ~TornSave PROVE UNCHANGED csv
    BY <2>4, WhatChanges
  <2> QED BY <1>1, <1>3, <2>1, <2>2, <2>3, <2>4
<1> QED BY <1>2, <1>3

(* Rows that come back from disk keep their place.                         *)
LEMMA SkippedLabels ==
    ASSUME HarnessStarts, TypeInv, csv # None
    PROVE  labels' = Same
<1>1. PICK sample \in Samples(job.seeded, job.anchors) : labels' = LabelsOf(sample)
  BY DEF HarnessStarts
<1>2. Cardinality(sample) = Asked
  BY JobType, SampleFacts
<1> QED BY <1>1, <1>2 DEF LabelsOf, Same

LEMMA ConsumedStep ==
    ASSUME LeaseInv, TypeInv, RowsInv, CallsInv, CsvInv, AnswersInv, ConsumedInv, [Next]_vars
    PROVE  ConsumedInv'
<1>0. InStart => starts > 0
  BY DEF TypeInv
<1>1. consumed \in Nat /\ (InStart' => InStart \/ HarnessStarts)
  BY WhereStepsGo DEF ConsumedInv
<1>2. CASE HarnessStarts
  <2>1. DOMAIN rows' = 1..Asked /\ \A i \in 1..Asked : rows'[i] \in 1..PoolSize
    BY <1>2, DrawStep
  <2>2. preds' = [i \in 1..Asked |-> Earlier(rows'[i])] /\ consumed' = 0
        /\ calls' = [i \in 1..Asked |-> IF Done(preds'[i]) THEN "skip" ELSE "queued"]
    BY <1>2, <2>1 DEF HarnessStarts
  <2>3. ASSUME NEW i \in 1..Asked, calls'[i] = "skip" PROVE labels' = Same /\ Done(preds'[i])
    <3>1. Done(preds'[i])
      BY <2>2, <2>3
    <3>2. csv # None
      BY <2>1, <2>2, <3>1, EarlierFacts DEF Done
    <3> QED BY <1>2, <3>1, <3>2, SkippedLabels
  <2>4. DOMAIN calls' = 1..Asked /\ \A i \in 1..Asked : ~(i <= consumed')
    BY <2>2, AskedFacts
  <2> QED BY <2>2, <2>3, <2>4 DEF ConsumedInv, Same, Done
<1>3. CASE ~HarnessStarts /\ InStart'
  <2>0. /\ InStart /\ starts > 0 /\ UNCHANGED <<rows, labels>>
        /\ \A i \in DOMAIN calls : calls[i] = "skip" => labels = Same /\ Done(preds[i])
        /\ \A i \in DOMAIN calls : calls[i] # "skip" /\ i <= consumed => Stored(i)
    BY <1>0, <1>1, <1>3, WhatChanges DEF ConsumedInv
  <2>1. CASE TakeQuestion \/ AgentReturns
    <3>1. PICK i \in 1..Asked, r \in CallState \ {"skip"} :
            calls' = [calls EXCEPT ![i] = r] /\ calls[i] \in {"queued", "running"}
      BY <2>0, <2>1, StartFacts DEF TakeQuestion, AgentReturns, Running, CallState
    <3>2. UNCHANGED <<preds, consumed>>
      BY <2>1 DEF TakeQuestion, AgentReturns
    <3>3. ~(i <= consumed) /\ calls[i] # "skip"
      BY <2>0, <3>1, StartFacts DEF Stored, Returned
    <3>4. ASSUME NEW j \in DOMAIN calls', calls'[j] = "skip"
          PROVE  labels = Same /\ Done(preds[j])
      BY <2>0, <3>1, <3>4, StartFacts
    <3>5. ASSUME NEW j \in DOMAIN calls', calls'[j] # "skip", j <= consumed
          PROVE  Stored(j)'
      <4>1. j # i /\ calls'[j] = calls[j] /\ j \in DOMAIN calls
        BY <2>0, <3>1, <3>3, <3>5, StartFacts
      <4>2. Stored(j)
        BY <2>0, <3>5, <4>1
      <4> QED BY <2>0, <3>2, <4>1, <4>2 DEF Stored, Returned, PredictionOf
    <3> QED BY <1>1, <2>0, <3>2, <3>4, <3>5 DEF ConsumedInv, Same, Done
  <2>2. CASE ConsumeFuture
    <3> DEFINE i == Min(NextFuture)
    <3>1. i \in 1..Asked /\ i > consumed /\ calls[i] # "skip" /\ Returned(i)
          /\ \A j \in NextFuture : i <= j
      BY <2>0, <2>2, FutureFacts DEF ConsumeFuture
    <3>2. stage' # "crash"
      BY <1>3 DEF InStart, InHarness
    <3>3. /\ UNCHANGED calls /\ consumed' = i /\ ~(labels[i] > Len(preds))
          /\ preds' = [preds EXCEPT ![labels[i]] = PredictionOf(i)]
      BY <2>2, <3>2 DEF ConsumeFuture
    <3> HIDE DEF i
    <3>4. labels[i] \in 1..Asked
      <4>1. labels[i] \in 1..PoolSize /\ Len(preds) = Asked
        BY <2>0, <3>1, StartFacts
      <4> QED BY <3>3, <4>1, AskedFacts
    <3>5. ASSUME NEW j \in DOMAIN calls, calls[j] = "skip"
          PROVE  labels = Same /\ Done(preds'[j])
      <4>1. labels = Same /\ Done(preds[j]) /\ j \in 1..Asked /\ j # i
        BY <2>0, <3>1, <3>5, StartFacts
      <4>2. labels[i] = i
        BY <3>1, <4>1 DEF Same
      <4> QED BY <2>0, <3>3, <4>1, <4>2, StartFacts
    <3>6. ASSUME NEW j \in DOMAIN calls, calls[j] # "skip", j <= i
          PROVE  Stored(j)'
      <4>1. j \in 1..Asked /\ PredictionOf(j)' = PredictionOf(j) /\ (Returned(j)' <=> Returned(j))
        BY <2>0, <3>3, StartFacts DEF PredictionOf, Returned
      <4>2. CASE j = i
        <5>1. preds'[labels[i]] = PredictionOf(i) /\ labels[i] <= Asked
          BY <2>0, <3>3, <3>4, StartFacts
        <5> QED BY <2>0, <3>1, <4>1, <4>2, <5>1 DEF Stored
      <4>3. CASE j # i
        <5>1. j <= consumed
          <6>1. j \notin NextFuture
            BY <3>1, <3>6, <4>1, <4>3, AskedFacts
          <6> QED BY <1>1, <3>6, <4>1, <6>1 DEF NextFuture
        <5>2. Stored(j)
          BY <2>0, <3>6, <5>1
        <5>3. labels[j] # labels[i]
          BY <2>0, <3>1, <4>1, <4>3, StartFacts DEF IsInjective
        <5>4. preds'[labels[j]] = preds[labels[j]]
          <6>1. labels[j] \in 1..Asked
            BY <2>0, <4>1, <5>2, StartFacts, AskedFacts DEF Stored
          <6> QED BY <2>0, <3>3, <5>3, <6>1, StartFacts
        <5> QED BY <2>0, <4>1, <5>2, <5>4 DEF Stored
      <4> QED BY <4>2, <4>3
    <3>7. consumed' \in Nat
      BY <3>1, <3>3
    <3> QED BY <2>0, <3>3, <3>5, <3>6, <3>7 DEF ConsumedInv, Same, Done
  <2>3. CASE HarnessGone
    BY <1>3, <2>3 DEF HarnessGone, InStart, InHarness
  <2>4. ASSUME ~TakeQuestion, ~AgentReturns, ~ConsumeFuture, ~HarnessGone
        PROVE  UNCHANGED <<preds, calls, consumed>>
    BY <1>3, <2>4, WhatChanges
  <2>5. CASE UNCHANGED <<preds, calls, consumed>>
    BY <1>1, <2>0, <2>5 DEF ConsumedInv, Same, Done, Stored, Returned, PredictionOf
  <2> QED BY <2>1, <2>2, <2>3, <2>4, <2>5
<1>4. CASE ~HarnessStarts /\ ~InStart'
  <2>1. consumed' \in Nat
    <3>1. CASE ConsumeFuture
      <4>1. starts > 0
        BY <1>0, <3>1 DEF ConsumeFuture, InStart, InHarness
      <4>2. consumed' \in {consumed, Min(NextFuture)}
        BY <3>1 DEF ConsumeFuture
      <4>3. Min(NextFuture) \in Nat
        BY <3>1, <4>1, FutureFacts, AskedFacts DEF ConsumeFuture
      <4> QED BY <1>1, <4>2, <4>3
    <3>2. CASE ~ConsumeFuture
      BY <1>1, <1>4, <3>2, WhatChanges
    <3> QED BY <3>1, <3>2
  <2> QED BY <1>4, <2>1 DEF ConsumedInv
<1> QED BY <1>2, <1>3, <1>4

LEMMA SavedStep ==
    ASSUME LeaseInv, TypeInv, SavedInv, [Next]_vars
    PROVE  SavedInv'
<1> SUFFICES ASSUME stage' \in {"append_last", "exit"}
             PROVE  csv' = Table' /\ AllConsumed'
  BY DEF SavedInv
<1>1. \/ EndSave /\ SaveTable
      \/ stage \in {"append_last", "exit"}
  BY WhereStepsGo
<1>2. CASE EndSave /\ SaveTable
  BY <1>2 DEF SaveTable, EndSave, Table, AllConsumed, NextFuture, memVars
<1>3. CASE stage \in {"append_last", "exit"}
  <2>1. /\ ~HarnessStarts /\ ~ConsumeFuture /\ ~TakeQuestion /\ ~AgentReturns
        /\ ~AssembleRunDir /\ ~SaveTable /\ ~TornSave
    BY <1>3 DEF HarnessStarts, ConsumeFuture, TakeQuestion, AgentReturns, AssembleRunDir,
       SaveTable, TornSave, EndSave
  <2>2. ~HarnessGone
    BY DEF HarnessGone
  <2>3. UNCHANGED <<rows, preds, consumed, calls, csv>>
    BY <2>1, <2>2, WhatChanges
  <2> QED BY <1>3, <2>3 DEF SavedInv, Table, AllConsumed, NextFuture
<1> QED BY <1>1, <1>2, <1>3

(* What appending the pending failures leaves in eval_failures.jsonl.      *)
LEMMA Appended ==
    ASSUME FailuresInv, AppendFailures, starts \in Nat
    PROVE  /\ failLog' \in Seq(Nat \X Nat) /\ written' = Len(failures)
           /\ \A k \in DOMAIN failLog :
                k \in DOMAIN failLog' /\ failLog'[k] = failLog[k]
           /\ \A j \in (written + 1)..Len(failures) :
                \E k \in DOMAIN failLog' : failLog'[k] = <<starts, failures[j]>>
           /\ \A k \in DOMAIN failLog' :
                \/ k \in DOMAIN failLog /\ failLog'[k] = failLog[k]
                \/ /\ k \notin DOMAIN failLog
                   /\ \E j \in (written + 1)..Len(failures) :
                        j = written + k - Len(failLog) /\ failLog'[k] = <<starts, failures[j]>>
<1> DEFINE L == Len(failLog)
           d == Len(failures) - written
           new == [k \in 1..d |-> <<starts, failures[written + k]>>]
<1>1. failLog' = failLog \o new /\ written' = Len(failures)
  BY DEF AppendFailures
<1>2. /\ failLog \in Seq(Nat \X Nat) /\ failures \in Seq(Nat)
      /\ written \in 0..Len(failures) /\ L \in Nat /\ Len(failures) \in Nat /\ d \in Nat
      /\ DOMAIN failLog = 1..L
  BY DEF FailuresInv
<1>3. \A k \in 1..d : written + k \in 1..Len(failures) /\ failures[written + k] \in Nat
  BY <1>2
<1>4. new \in [1..d -> Nat \X Nat] /\ \A k \in 1..d : new[k] = <<starts, failures[written + k]>>
  BY <1>3
<1> HIDE DEF new, d
<1>5. new \in Seq(Nat \X Nat) /\ Len(new) = d
  BY <1>2, <1>4
<1>6. failLog' \in Seq(Nat \X Nat) /\ DOMAIN failLog' = 1..(L + d)
  <2>1. failLog \o new \in Seq(Nat \X Nat) /\ Len(failLog \o new) = L + d
    BY <1>2, <1>5, ConcatProperties
  <2> QED BY <1>1, <2>1
<1>7. \A k \in 1..L : failLog'[k] = failLog[k]
  BY <1>1, <1>2, <1>5
<1>8. \A k \in 1..d : failLog'[L + k] = <<starts, failures[written + k]>>
  <2> SUFFICES ASSUME NEW k \in 1..d PROVE failLog'[L + k] = <<starts, failures[written + k]>>
    OBVIOUS
  <2>1. L + k \in 1..(L + d) /\ ~(L + k <= L) /\ (L + k) - L = k
    BY <1>2
  <2>2. failLog'[L + k] = new[k]
    BY <1>1, <1>2, <1>5, <2>1, ConcatProperties
  <2> QED BY <1>4, <2>2
<1>9. ASSUME NEW j \in (written + 1)..Len(failures)
      PROVE  \E k \in DOMAIN failLog' : failLog'[k] = <<starts, failures[j]>>
  <2>1. j - written \in 1..d /\ written + (j - written) = j /\ L + (j - written) \in 1..(L + d)
    BY <1>2 DEF d
  <2> QED BY <1>6, <1>8, <2>1
<1>10. ASSUME NEW k \in DOMAIN failLog', k \notin DOMAIN failLog
       PROVE  \E j \in (written + 1)..Len(failures) :
                j = written + k - L /\ failLog'[k] = <<starts, failures[j]>>
  <2>1. k \in 1..(L + d) /\ ~(k <= L) /\ k \in Nat
    BY <1>2, <1>6, <1>10
  <2>2. k - L \in 1..d /\ L + (k - L) = k
    BY <1>2, <2>1
  <2>3. written + (k - L) \in (written + 1)..Len(failures)
        /\ written + (k - L) = written + k - L
    BY <1>2, <2>1, <2>2 DEF d
  <2> QED BY <1>8, <2>2, <2>3
<1>11. \A k \in DOMAIN failLog : k \in DOMAIN failLog' /\ failLog'[k] = failLog[k]
  BY <1>2, <1>6, <1>7
<1> QED BY <1>1, <1>6, <1>9, <1>10, <1>11

LEMMA FailuresStep ==
    ASSUME LeaseInv, TypeInv, RowsInv, CallsInv, ConsumedInv, FailuresInv, [Next]_vars
    PROVE  FailuresInv'
<1>0. starts \in Nat /\ (InStart => starts > 0) /\ consumed \in Nat
      /\ (InStart' => InStart \/ HarnessStarts)
      /\ (stage' = "exit" => stage = "exit" \/ AppendFailures)
  BY EvaluationAssumption, WhereStepsGo DEF TypeInv, ConsumedInv
<1>1. /\ failures \in Seq(Nat) /\ written \in 0..Len(failures)
      /\ failLog \in Seq(Nat \X Nat) /\ IsInjective(failLog)
      /\ \A k \in DOMAIN failLog : failLog[k][1] <= starts /\ failLog[k][1] \in Nat
      /\ stage = "exit" => written = Len(failures)
  BY DEF FailuresInv
<1>2. CASE HarnessStarts
  <2>1. failures' = <<>> /\ written' = 0 /\ starts' = starts + 1 /\ failLog' = failLog
        /\ stage' = "run"
    BY <1>2 DEF HarnessStarts
  <2>2. \A k \in DOMAIN failLog' : failLog'[k][1] <= starts' /\ failLog'[k][1] # starts'
    BY <1>0, <1>1, <2>1
  <2>3. failures' \in Seq(Nat) /\ written' \in 0..Len(failures') /\ IsInjective(failures')
        /\ DOMAIN failures' = {} /\ 1..written' = {}
    BY <2>1 DEF IsInjective
  <2> QED BY <1>1, <2>1, <2>2, <2>3 DEF FailuresInv
<1>3. CASE ConsumeFuture
  <2> DEFINE i == Min(NextFuture)
  <2>1. InStart /\ starts > 0
    BY <1>0, <1>3 DEF ConsumeFuture, InStart, InHarness
  <2>2. i \in 1..Asked /\ i > consumed
    BY <1>3, <2>1, FutureFacts DEF ConsumeFuture
  <2>3. /\ failures' = failures \/ failures' = Append(failures, rows[i])
        /\ UNCHANGED <<rows, starts, written, failLog>>
        /\ stage' \in {"run", "save", "crash"}
        /\ stage' # "crash" => consumed' = i
    BY <1>3 DEF ConsumeFuture, fileVars
  <2>4. rows[i] \in 1..PoolSize /\ rows[i] \in Nat
    BY <2>1, <2>2, StartFacts
  <2> HIDE DEF i
  <2>5. /\ failures' \in Seq(Nat) /\ written' \in 0..Len(failures')
        /\ \A j \in 1..written : failures'[j] = failures[j]
    <3>1. CASE failures' = failures
      BY <1>1, <2>3, <3>1
    <3>2. CASE failures' = Append(failures, rows[i])
      <4>1. failures' \in Seq(Nat) /\ Len(failures') = Len(failures) + 1
            /\ \A j \in 1..Len(failures) : failures'[j] = failures[j]
        BY <1>1, <2>4, <3>2, AppendProperties
      <4>2. Len(failures) \in Nat
        BY <1>1
      <4> QED BY <1>1, <2>3, <4>1, <4>2
    <3> QED BY <2>3, <3>1, <3>2
  <2>6. ASSUME InStart'
        PROVE  /\ IsInjective(failures')
               /\ \A k \in DOMAIN failures' : \E j \in 1..Asked :
                    j <= consumed' /\ failures'[k] = rows[j]
    <3>1. consumed' = i
      BY <2>3, <2>6 DEF InStart, InHarness
    <3>2. /\ IsInjective(failures)
          /\ \A k \in DOMAIN failures : \E j \in 1..Asked : j <= consumed /\ failures[k] = rows[j]
      BY <2>1 DEF FailuresInv
    <3>3. \A k \in DOMAIN failures : \E j \in 1..Asked : j <= i /\ failures[k] = rows[j]
      BY <1>0, <2>2, <3>2, AskedFacts
    <3>4. \A k \in DOMAIN failures : failures[k] # rows[i]
      <4> SUFFICES ASSUME NEW k \in DOMAIN failures, failures[k] = rows[i] PROVE FALSE
        OBVIOUS
      <4>1. PICK j \in 1..Asked : j <= consumed /\ failures[k] = rows[j]
        BY <3>2
      <4>2. j = i
        BY <2>1, <2>2, <4>1, StartFacts DEF IsInjective
      <4> QED BY <1>0, <2>2, <4>1, <4>2, AskedFacts
    <3>5. CASE failures' = failures
      BY <3>1, <3>2, <3>3, <3>5
    <3>6. CASE failures' = Append(failures, rows[i])
      <4>1. DOMAIN failures' = (DOMAIN failures) \cup {Len(failures) + 1}
            /\ failures'[Len(failures) + 1] = rows[i]
            /\ \A k \in DOMAIN failures : failures'[k] = failures[k]
        BY <1>1, <2>4, <3>6
      <4>2. IsInjective(failures')
        BY <3>2, <3>4, <4>1 DEF IsInjective
      <4>3. i \in 1..Asked /\ i <= i
        BY <2>2, AskedFacts
      <4> QED BY <3>1, <3>3, <4>1, <4>2, <4>3
    <3> QED BY <2>3, <3>5, <3>6
  <2>7. stage' # "exit"
    BY <2>3
  <2>8. /\ failLog' \in Seq(Nat \X Nat) /\ IsInjective(failLog')
        /\ \A k \in DOMAIN failLog' : failLog'[k][1] <= starts'
    BY <1>1, <2>3
  <2>9. /\ \A k \in DOMAIN failLog' : failLog'[k][1] = starts' =>
               \E j \in 1..written' : failLog'[k][2] = failures'[j]
        /\ \A j \in 1..written' : <<starts', failures'[j]>> \in ToSet(failLog')
    <3>1. /\ \A k \in DOMAIN failLog : failLog[k][1] = starts =>
                 \E j \in 1..written : failLog[k][2] = failures[j]
          /\ \A j \in 1..written : <<starts, failures[j]>> \in ToSet(failLog)
      BY <2>1 DEF FailuresInv
    <3>2. starts' = starts /\ written' = written /\ failLog' = failLog
      BY <2>3
    <3>3. ToSet(failLog') = ToSet(failLog)
      BY <3>2
    <3>4. ASSUME NEW k \in DOMAIN failLog, failLog[k][1] = starts
          PROVE  \E j \in 1..written : failLog[k][2] = failures'[j]
      <4>1. PICK j \in 1..written : failLog[k][2] = failures[j]
        BY <3>1, <3>4
      <4> QED BY <2>5, <4>1
    <3>5. ASSUME NEW j \in 1..written
          PROVE  <<starts, failures'[j]>> \in ToSet(failLog)
      <4>1. failures'[j] = failures[j]
        BY <2>5
      <4> QED BY <3>1, <4>1
    <3> QED BY <3>2, <3>3, <3>4, <3>5
  <2>10. ASSUME InStart'
         PROVE  /\ IsInjective(failures')
                /\ \A k \in DOMAIN failures' : \E j \in 1..Asked :
                     j <= consumed' /\ failures'[k] = rows'[j]
    <3>1. rows' = rows
      BY <2>3
    <3> QED BY <2>6, <2>10, <3>1
  <2> QED BY <2>5, <2>7, <2>8, <2>9, <2>10, Zenon DEF FailuresInv
<1>4. CASE AppendFailures
  <2>0. InStart /\ UNCHANGED <<rows, consumed, failures, starts>>
    BY <1>4 DEF AppendFailures, InStart, InHarness
  <2>1. /\ failLog' \in Seq(Nat \X Nat) /\ written' = Len(failures)
        /\ \A k \in DOMAIN failLog : k \in DOMAIN failLog' /\ failLog'[k] = failLog[k]
        /\ \A j \in (written + 1)..Len(failures) :
             \E k \in DOMAIN failLog' : failLog'[k] = <<starts, failures[j]>>
        /\ \A k \in DOMAIN failLog' :
             \/ k \in DOMAIN failLog /\ failLog'[k] = failLog[k]
             \/ /\ k \notin DOMAIN failLog
                /\ \E j \in (written + 1)..Len(failures) :
                     j = written + k - Len(failLog) /\ failLog'[k] = <<starts, failures[j]>>
    BY <1>0, <1>4, Appended
  <2>2. /\ IsInjective(failures)
        /\ \A k \in DOMAIN failures : \E i \in 1..Asked : i <= consumed /\ failures[k] = rows[i]
        /\ \A k \in DOMAIN failLog : failLog[k][1] = starts =>
             \E j \in 1..written : failLog[k][2] = failures[j]
        /\ \A j \in 1..written : <<starts, failures[j]>> \in ToSet(failLog)
    BY <2>0 DEF FailuresInv
  <2>8. \A j : <<starts, failures[j]>>[1] = starts /\ <<starts, failures[j]>>[2] = failures[j]
    OBVIOUS
  <2>3. Len(failures) \in Nat /\ written \in Nat /\ written <= Len(failures)
        /\ DOMAIN failures = 1..Len(failures) /\ Len(failLog) \in Nat
        /\ DOMAIN failLog' \subseteq Nat
    BY <1>1, <2>1
  <2>4. \A k \in DOMAIN failLog' : failLog'[k][1] <= starts
    <3> TAKE k \in DOMAIN failLog'
    <3>1. CASE k \in DOMAIN failLog /\ failLog'[k] = failLog[k]
      BY <1>1, <3>1
    <3>2. CASE k \notin DOMAIN failLog
      <4>1. failLog'[k][1] = starts
        BY <2>1, <2>8, <3>2
      <4> QED BY <1>0, <4>1
    <3> QED BY <2>1, <3>1, <3>2
  <2>5. \A k \in DOMAIN failLog' : failLog'[k][1] = starts =>
          \E j \in 1..Len(failures) : failLog'[k][2] = failures[j]
    <3> TAKE k \in DOMAIN failLog'
    <3>1. CASE k \in DOMAIN failLog /\ failLog'[k] = failLog[k]
      BY <2>2, <2>3, <3>1
    <3>2. CASE k \notin DOMAIN failLog
      <4>1. PICK j \in (written + 1)..Len(failures) : failLog'[k] = <<starts, failures[j]>>
        BY <2>1, <3>2
      <4> QED BY <2>3, <2>8, <4>1
    <3> QED BY <2>1, <3>1, <3>2
  <2>6. \A j \in 1..Len(failures) : <<starts, failures[j]>> \in ToSet(failLog')
    <3> SUFFICES ASSUME NEW j \in 1..Len(failures)
                 PROVE  \E k \in DOMAIN failLog' : failLog'[k] = <<starts, failures[j]>>
      BY DEF ToSet
    <3>1. CASE j <= written
      <4>1. \E k \in DOMAIN failLog : failLog[k] = <<starts, failures[j]>>
        BY <2>2, <2>3, <3>1 DEF ToSet
      <4> QED BY <2>1, <4>1
    <3>2. CASE ~(j <= written)
      BY <2>1, <2>3, <3>2
    <3> QED BY <3>1, <3>2
  <2>7. IsInjective(failLog')
    <3> SUFFICES ASSUME NEW k \in DOMAIN failLog', NEW l \in DOMAIN failLog',
                        failLog'[k] = failLog'[l], k # l
                 PROVE  FALSE
      BY DEF IsInjective
    <3>1. CASE k \in DOMAIN failLog /\ l \in DOMAIN failLog
      <4>1. failLog[k] = failLog[l]
        BY <2>1, <3>1
      <4> QED BY <1>1, <3>1, <4>1 DEF IsInjective
    <3>2. ASSUME NEW p \in DOMAIN failLog, NEW q \in DOMAIN failLog', q \notin DOMAIN failLog,
                 failLog'[p] = failLog'[q]
          PROVE  FALSE
      <4>1. PICK j \in (written + 1)..Len(failures) : failLog'[q] = <<starts, failures[j]>>
        BY <2>1, <3>2
      <4>2. failLog[p] = <<starts, failures[j]>>
        BY <2>1, <3>2, <4>1
      <4>3. failLog[p][1] = starts /\ failLog[p][2] = failures[j]
        BY <4>2
      <4>4. PICK m \in 1..written : failLog[p][2] = failures[m]
        BY <2>2, <4>3
      <4>5. j \in DOMAIN failures /\ m \in DOMAIN failures /\ j # m
        BY <2>3
      <4> QED BY <2>2, <4>3, <4>4, <4>5 DEF IsInjective
    <3>3. CASE k \notin DOMAIN failLog /\ l \notin DOMAIN failLog
      <4>1. PICK j \in (written + 1)..Len(failures) :
              j = written + k - Len(failLog) /\ failLog'[k] = <<starts, failures[j]>>
        BY <2>1, <3>3
      <4>2. PICK m \in (written + 1)..Len(failures) :
              m = written + l - Len(failLog) /\ failLog'[l] = <<starts, failures[m]>>
        BY <2>1, <3>3
      <4>3. j \in DOMAIN failures /\ m \in DOMAIN failures /\ j # m
        BY <2>3, <4>1, <4>2
      <4>4. <<starts, failures[j]>> = <<starts, failures[m]>>
        BY <4>1, <4>2
      <4>5. failures[j] = failures[m]
        BY <4>4
      <4> QED BY <2>2, <4>3, <4>5 DEF IsInjective
    <3> QED BY <3>1, <3>2, <3>3
  <2> QED BY <1>1, <2>0, <2>1, <2>2, <2>3, <2>4, <2>5, <2>6, <2>7 DEF FailuresInv
<1>5. CASE AssembleRunDir
  <2>1. /\ failLog' = <<>> /\ UNCHANGED <<failures, written>> /\ stage' = "lease"
    BY <1>5 DEF AssembleRunDir, FreshRunDir, memVars
  <2>2. failLog' \in Seq(Nat \X Nat) /\ DOMAIN failLog' = {} /\ IsInjective(failLog')
    BY <2>1 DEF IsInjective
  <2>3. ~InStart' /\ stage' # "exit"
    BY <2>1 DEF InStart, InHarness
  <2> QED BY <1>1, <2>1, <2>2, <2>3 DEF FailuresInv
<1>6. CASE ~HarnessStarts /\ ~ConsumeFuture /\ ~AppendFailures /\ ~AssembleRunDir
  <2>1. UNCHANGED <<rows, consumed, failures, written, failLog, starts>>
    BY <1>6, WhatChanges
  <2>2. (InStart' => InStart) /\ (stage' = "exit" => stage = "exit")
    BY <1>0, <1>6
  <2> QED BY <2>1, <2>2 DEF FailuresInv
<1> QED BY <1>2, <1>3, <1>4, <1>5, <1>6

(* The lines of the sidecar, and the events of a generation.               *)
LEMMA SidecarKept ==
    ASSUME [Next]_vars, ~AssembleRunDir, ~AgentReturns, ~IngestSeamEvents
    PROVE  sidecar' = sidecar
<1> USE DEF outVars
<1>1. CASE RunnerStep
  BY <1>1 DEF RunnerStep, Reconcile, ApplyTaskPatch, HealAndPersist, LaunchRefused,
     AcquireTraverse, GrantTrees, Preflight, Abandon, ScoreRun
<1>2. CASE HarnessStep
  BY <1>2 DEF HarnessStep, HarnessStarts, TakeQuestion, ConsumeFuture, SaveTable,
     AppendFailures, HarnessGone
<1>3. CASE HarnessKilled \/ TornSave \/ OtherEnds
  BY <1>3 DEF HarnessKilled, TornSave, OtherEnds
<1>4. CASE UNCHANGED vars
  BY <1>4 DEF vars
<1> QED BY <1>1, <1>2, <1>3, <1>4 DEF Next, Ended

LEMMA EventsKept ==
    ASSUME [Next]_vars, ~IngestSeamEvents, "cm_events_ingested" \notin events
    PROVE  "cm_events_ingested" \notin events'
<1> USE DEF outVars
<1>1. CASE HealAndPersist
  BY <1>1 DEF HealAndPersist
<1>2. CASE AssembleRunDir
  BY <1>2 DEF AssembleRunDir
<1>3. CASE HarnessGone
  BY <1>3 DEF HarnessGone
<1>4. CASE ScoreRun
  BY <1>4 DEF ScoreRun
<1>5. ASSUME ~HealAndPersist, ~AssembleRunDir, ~HarnessGone, ~ScoreRun
      PROVE  events' = events
  <2>1. CASE RunnerStep
    BY <1>5, <2>1 DEF RunnerStep, Reconcile, ApplyTaskPatch, LaunchRefused,
       AcquireTraverse, GrantTrees, Preflight, Abandon
  <2>2. CASE HarnessStep
    BY <1>5, <2>2 DEF HarnessStep, HarnessStarts, TakeQuestion, AgentReturns,
       ConsumeFuture, SaveTable, AppendFailures
  <2>3. CASE HarnessKilled \/ TornSave \/ OtherEnds
    BY <2>3 DEF HarnessKilled, TornSave, OtherEnds
  <2>4. CASE UNCHANGED vars
    BY <2>4 DEF vars
  <2> QED BY <2>1, <2>2, <2>3, <2>4 DEF Next, Ended
<1> QED BY <1>1, <1>2, <1>3, <1>4, <1>5

LEMMA DoneStays ==
    ASSUME [Next]_vars, stage = "done"
    PROVE  UNCHANGED <<gen, events>>
<1> USE DEF prepVars, outVars, InHarness
<1>1. ~RunnerStep /\ ~HarnessStep /\ ~HarnessKilled /\ ~TornSave
  BY DEF RunnerStep, Reconcile, ApplyTaskPatch, HealAndPersist, AssembleRunDir,
     LaunchRefused, AcquireTraverse, GrantTrees, Preflight, Abandon, ScoreRun,
     IngestSeamEvents, HarnessStep, HarnessStarts, TakeQuestion, AgentReturns,
     ConsumeFuture, SaveTable, EndSave, AppendFailures, HarnessGone, HarnessKilled, TornSave
<1>2. CASE OtherEnds
  BY <1>2 DEF OtherEnds
<1>3. CASE UNCHANGED vars
  BY <1>3 DEF vars
<1> QED BY <1>1, <1>2, <1>3 DEF Next, Ended

-----------------------------------------------------------------------------
(* The report.                                                             *)

LEMMA ValidFinite ==
    ASSUME CsvInv, csv # None
    PROVE  /\ Cardinality(ValidRows) \in Nat /\ Cardinality(RightRows) \in Nat
           /\ Cardinality(ValidRows) <= NumSamples
           /\ Cardinality(ValidRows) >= NumSamples => ValidRows = DOMAIN csv
           /\ Cardinality(ValidRows) = 0 => ValidRows = {}
<1>1. PICK n \in 0..Asked : DOMAIN csv = 1..n
  BY DEF CsvInv
<1>2. n \in Nat /\ n <= NumSamples
  BY AskedFacts
<1>3. ValidRows \in SUBSET (1..n) /\ RightRows \in SUBSET (1..n)
  BY <1>1 DEF ValidRows, RightRows
<1>4. /\ IsFiniteSet(ValidRows) /\ Cardinality(ValidRows) \in Nat
      /\ Cardinality(ValidRows) <= n /\ Cardinality(RightRows) \in Nat
  BY <1>2, <1>3, PositionsFinite
<1>5. IsFiniteSet(1..n) /\ Cardinality(1..n) = n
  BY <1>2, FS_Interval
<1>6. Cardinality(ValidRows) = n => ValidRows = 1..n
  BY <1>3, <1>5, FS_Subset
<1>7. Cardinality(ValidRows) = 0 => ValidRows = {}
  BY <1>4, FS_EmptySet
<1> QED BY <1>1, <1>2, <1>4, <1>6, <1>7, AskedFacts

(* The node of a report: "ok" covers every question, and no score without  *)
(* a reason or an empty report.                                            *)
LEMMA NodeOfReport ==
    ASSUME CsvInv, job.kind # "polyglot", NEW r \in {Report(job.kind), None}
    PROVE  /\ MakeNode(r).status = "ok" =>
                Cardinality(ValidRows) = NumSamples /\ \A i \in DOMAIN csv : Done(csv[i][2])
           /\ MakeNode(r).status = "failed" =>
                MakeNode(r).reason # None \/ ValidRows = {}
<1>1. MakeNode(r).status = StatusOf(r)
  BY DEF MakeNode
<1>2. CASE r = None
  <2>1. ScoreOf(r) = None
    BY <1>2 DEF ScoreOf
  <2>2. StatusOf(r) = "failed" /\ MakeNode(r).reason \in {"harness_failed", "no_report"}
    BY <1>2, <2>1 DEF StatusOf, MakeNode
  <2> QED BY <1>1, <2>2, NoneAssumption
<1>3. CASE r # None
  <2>1. csv # None /\ r = LabelReport
    BY <1>3 DEF Report
  <2>2. r.right = Cardinality(RightRows) /\ r.total = Cardinality(ValidRows)
        /\ r.right # None
    BY <2>1, ValidFinite, NoneAssumption DEF LabelReport
  <2>3. ScoreOf(r) = None <=> r.total = 0
    BY <1>3, <2>2 DEF ScoreOf
  <2>4. StatusOf(r) = "failed" => ValidRows = {}
    BY <2>1, <2>2, <2>3, ValidFinite DEF StatusOf
  <2>5. StatusOf(r) = "ok" => ~(Cardinality(ValidRows) < NumSamples)
    BY <1>3, <2>2 DEF StatusOf, CoverageOf
  <2>6. StatusOf(r) = "ok" =>
          Cardinality(ValidRows) = NumSamples /\ ValidRows = DOMAIN csv
    BY <2>1, <2>5, ValidFinite, AskedFacts
  <2> QED BY <1>1, <2>4, <2>6 DEF ValidRows
<1> QED BY <1>2, <1>3

LEMMA NodeStep ==
    ASSUME LeaseInv, TypeInv, CsvInv, NodeInv, [Next]_vars
    PROVE  NodeInv'
<1>0. /\ job' = job
      /\ stage \in {"ingest", "done"} => stage' \in {"ingest", "done"}
  BY WhatChanges, WhereStepsGo
<1>1. CASE ScoreRun
  <2>1. /\ UNCHANGED csv /\ stage' \in {"ingest", "done"}
        /\ \E r \in {Report(job.kind), None} : node' = MakeNode(r)
    BY <1>1 DEF ScoreRun, fileVars
  <2>2. ValidRows' = ValidRows
    BY <2>1 DEF ValidRows, Done
  <2> QED BY <1>0, <2>1, <2>2, NodeOfReport DEF NodeInv, OkMeansComplete, Done
<1>2. CASE ~ScoreRun
  <2>1. UNCHANGED node
    BY <1>2, WhatChanges
  <2>2. ASSUME node # None PROVE UNCHANGED csv
    <3>1. stage \in {"ingest", "done"}
      BY <2>2 DEF NodeInv
    <3>2. ~AssembleRunDir /\ ~SaveTable /\ ~TornSave
      BY <3>1 DEF AssembleRunDir, SaveTable, TornSave, EndSave
    <3> QED BY <3>2, WhatChanges
  <2>3. ASSUME UNCHANGED csv PROVE OkMeansComplete'
    BY <1>0, <2>1, <2>3 DEF NodeInv, OkMeansComplete, ValidRows, Done
  <2>4. CASE node = None
    BY <2>1, <2>4 DEF NodeInv, OkMeansComplete
  <2> QED BY <1>0, <2>1, <2>2, <2>3, <2>4 DEF NodeInv
<1> QED BY <1>1, <1>2

-----------------------------------------------------------------------------
(* The design and its audit trail.                                         *)

LEMMA DesignStep ==
    ASSUME LeaseInv, TypeInv, DesignInv, [Next]_vars
    PROVE  DesignInv'
<1>0. job' = job /\ stage \in Stages /\ stage' \in Stages
  <2>1. LeaseInv'
    BY LeaseStep
  <2> QED BY <2>1, WhatChanges DEF LeaseInv, LeaseTypes
<1>1. /\ GenFields /\ gen.knowledge \in {0, KnowledgeTotal(job.notes)}
      /\ stage = "heal" /\ job.kind = "polyglot" => "write_file" \in gen.tools
  BY DEF DesignInv
<1>2. CASE ApplyTaskPatch
  <2>1. /\ stage' = "heal" /\ gen'.knowledge = gen.knowledge
        /\ job.kind = "polyglot" => "write_file" \in gen'.tools
        /\ GenFields'
    BY <1>1, <1>2 DEF ApplyTaskPatch, GenFields
  <2> QED BY <1>0, <1>1, <2>1 DEF DesignInv, PersistedResolves, Assembled, Persisted
<1>3. CASE HealAndPersist
  <2>1. /\ stage = "heal" /\ stage' = "assemble" /\ gen'.knowledge = gen.knowledge
        /\ gen'.tools = Healed(gen.tools, gen.code) /\ gen'.persisted = gen'.tools
        /\ gen'.code = gen.code /\ GenFields'
    BY <1>1, <1>3 DEF HealAndPersist, GenFields
  <2>2. /\ gen'.persisted \subseteq Registered(gen'.code)
        /\ job.kind = "polyglot" => "write_file" \in gen'.persisted
    BY <1>1, <2>1 DEF Healed, Registered
  <2> QED BY <1>0, <1>1, <2>1, <2>2 DEF DesignInv, PersistedResolves, Assembled, Persisted
<1>4. CASE AssembleRunDir
  <2>1. /\ stage = "assemble" /\ stage' = "lease"
        /\ gen'.tools = gen.tools /\ gen'.persisted = gen.persisted /\ gen'.code = gen.code
        /\ gen'.knowledge = KnowledgeTotal(job.notes) /\ GenFields'
        /\ gen'.pol = Snapshot(job.design).pol /\ gen'.asm = Snapshot(job.design).asm
        /\ gen'.skipped = Snapshot(job.design).skipped
    BY <1>1, <1>4 DEF AssembleRunDir, GenFields
  <2>2. /\ gen.persisted \subseteq Registered(gen.code) /\ gen.persisted = gen.tools
        /\ job.kind = "polyglot" => "write_file" \in gen.persisted
    BY <2>1 DEF DesignInv, PersistedResolves
  <2> QED BY <1>0, <2>1, <2>2 DEF DesignInv, PersistedResolves
<1>5. CASE ~ApplyTaskPatch /\ ~HealAndPersist /\ ~AssembleRunDir
  <2>1. /\ UNCHANGED gen /\ (stage' = "heal" => stage = "heal")
        /\ stage' \in Persisted => stage \in Persisted
        /\ Brokered(job) /\ stage' \in Assembled => stage \in Assembled
    BY <1>5, WhatChanges, WhereStepsGo
  <2>2. PersistedResolves'
    BY <1>0, <2>1 DEF DesignInv, PersistedResolves, Persisted
  <2> QED BY <1>0, <1>1, <2>1, <2>2 DEF DesignInv, GenFields, Brokered
<1> QED BY <1>2, <1>3, <1>4, <1>5

(* A part of the design that did not reach the child shows in the seam's   *)
(* first lines.                                                            *)
LEMMA GapShows ==
    ASSUME TypeInv, DesignInv, Brokered(job), stage \in Assembled, gen.skipped # {}
    PROVE  "cm_session_degraded" \in SeamOf(job.design, gen).lines
<1> DEFINE d == job.design
<1>1. /\ gen.pol = Snapshot(d).pol /\ gen.asm = Snapshot(d).asm
      /\ gen.skipped = Snapshot(d).skipped
  BY DEF DesignInv
<1>2. d.mode \in {"passthrough", "slice", "custom"} /\ d.asm \in CmName /\ d.pol \in PolicyName
  BY JobType
<1> HIDE DEF d
<1>3. \/ d.asm # None /\ gen.asm = None
      \/ d.mode = "custom" /\ gen.pol = None
  BY <1>1, <1>2, NoneAssumption DEF Snapshot, CmName, PolicyName
<1> QED BY <1>3 DEF SeamOf, d

(* ... and in the report of the assembly.                                  *)
LEMMA GapListed ==
    ASSUME TypeInv, DesignInv, Brokered(job), stage \in Assembled
    PROVE  /\ (job.design.mode = "custom" /\ gen.pol = None) =>
                "pol" \in gen.skipped /\ SeamOf(job.design, gen).mode = "passthrough"
           /\ (job.design.asm # None /\ gen.asm = None) => "asm" \in gen.skipped
<1> DEFINE d == job.design
<1>1. /\ gen.pol = Snapshot(d).pol /\ gen.asm = Snapshot(d).asm
      /\ gen.skipped = Snapshot(d).skipped
  BY DEF DesignInv
<1>2. d.asm \in CmName /\ d.pol \in PolicyName
  BY JobType
<1> HIDE DEF d
<1>3. d.mode = "custom" /\ gen.pol = None =>
        "pol" \in gen.skipped /\ SeamOf(d, gen).mode = "passthrough"
  BY <1>1, <1>2, NoneAssumption DEF Snapshot, PolicyName, CmName, SeamOf
<1>4. d.asm # None /\ gen.asm = None => "asm" \in gen.skipped
  BY <1>1, <1>2 DEF Snapshot, CmName
<1> QED BY <1>3, <1>4 DEF d

LEMMA AuditStep ==
    ASSUME LeaseInv, TypeInv, DesignInv, AuditInv, [Next]_vars
    PROVE  AuditInv'
<1>0. /\ job' = job /\ stage \in Stages /\ stage' \in Stages
      /\ stage = "done" => stage' = "done"
      /\ Brokered(job) /\ stage' \in Assembled => stage \in Assembled \/ AssembleRunDir
      /\ Brokered(job) /\ stage' = "done" => stage = "done" \/ IngestSeamEvents
  <2>1. LeaseInv'
    BY LeaseStep
  <2> QED BY <2>1, WhatChanges, WhereStepsGo DEF LeaseInv, LeaseTypes
<1> DEFINE Told(s, g) == s \notin {None, {}} /\ g.skipped # {} => "cm_session_degraded" \in s
<1>1. /\ Brokered(job) /\ stage \in Assembled \ {"done"} => Told(sidecar, gen)
      /\ stage # "done" => "cm_events_ingested" \notin events
      /\ ClaimGapAudited
  BY DEF AuditInv
<1>2. ASSUME Brokered(job), stage' \in Assembled \ {"done"} PROVE Told(sidecar', gen')
  <2>1. CASE AssembleRunDir
    BY <2>1 DEF AssembleRunDir
  <2>2. CASE AgentReturns
    <3>1. stage = "run" /\ UNCHANGED gen
      BY <2>2 DEF AgentReturns, prepVars
    <3>2. stage \in Assembled
      BY <3>1 DEF Assembled, Persisted, Stages
    <3>3. \/ sidecar' = sidecar
          \/ sidecar' = sidecar \cup SeamOf(job.design, gen).lines
      BY <2>2 DEF AgentReturns
    <3>4. CASE sidecar' = sidecar
      BY <1>1, <1>2, <3>1, <3>2, <3>4
    <3>5. CASE sidecar' = sidecar \cup SeamOf(job.design, gen).lines
      BY <1>2, <3>1, <3>2, <3>5, GapShows
    <3> QED BY <3>3, <3>4, <3>5
  <2>3. CASE IngestSeamEvents
    BY <1>2, <2>3 DEF IngestSeamEvents
  <2>4. CASE ~AssembleRunDir /\ ~AgentReturns /\ ~IngestSeamEvents
    <3>1. stage \in Assembled \ {"done"}
      BY <1>0, <1>2, <2>4
    <3>2. gen' = gen
      BY <2>4, <3>1, WhatChanges DEF ApplyTaskPatch, HealAndPersist, Assembled, Persisted
    <3>3. sidecar' = sidecar
      BY <2>4, SidecarKept
    <3> QED BY <1>1, <1>2, <3>1, <3>2, <3>3
  <2> QED BY <2>1, <2>2, <2>3, <2>4
<1>3. ASSUME stage' # "done" PROVE "cm_events_ingested" \notin events'
  <2>1. "cm_events_ingested" \notin events
    BY <1>0, <1>1, <1>3
  <2>2. ~IngestSeamEvents
    BY <1>3 DEF IngestSeamEvents
  <2> QED BY <2>1, <2>2, EventsKept
<1>4. ClaimGapAudited'
  <2> SUFFICES ASSUME stage' = "done", Brokered(job) PROVE ClaimGapAudited'
    BY <1>0 DEF ClaimGapAudited, Brokered
  <2>1. CASE stage = "done"
    <3>1. UNCHANGED <<gen, events>>
      BY <2>1, DoneStays
    <3> QED BY <1>0, <1>1, <2>1, <3>1 DEF ClaimGapAudited, Brokered
  <2>2. CASE stage # "done"
    <3>1. IngestSeamEvents
      BY <1>0, <2>2
    <3>2. /\ stage = "ingest" /\ UNCHANGED gen
          /\ events' = events \cup
               (IF sidecar \in {None, {}} THEN {"cm_events_ingest_empty"}
                ELSE sidecar \cup {"cm_events_ingested"})
      BY <3>1 DEF IngestSeamEvents, prepVars
    <3>3. stage \in Assembled \ {"done"}
      BY <3>2 DEF Assembled, Persisted, Stages
    <3>4. /\ (job.design.mode = "custom" /\ gen.pol = None) =>
                "pol" \in gen.skipped /\ SeamOf(job.design, gen).mode = "passthrough"
          /\ (job.design.asm # None /\ gen.asm = None) => "asm" \in gen.skipped
      BY <3>3, GapListed
    <3>5. {"cm_events_ingest_empty", "cm_events_ingested"} \cap events' # {}
      BY <3>2
    <3>6. "cm_events_ingested" \in events' /\ gen.skipped # {} =>
            "cm_session_degraded" \in events'
      BY <1>1, <2>2, <3>2, <3>3
    <3> QED BY <1>0, <3>2, <3>4, <3>5, <3>6 DEF ClaimGapAudited, SeamOf
  <2> QED BY <2>1, <2>2
<1> QED BY <1>0, <1>2, <1>3, <1>4 DEF AuditInv, Brokered

-----------------------------------------------------------------------------
(* Every evaluation starts clean ...                                       *)
LEMMA EvaluationInit == Init => EvaluationInv
<1> SUFFICES ASSUME Init PROVE EvaluationInv
  OBVIOUS
<1>1. /\ job \in Jobs /\ stage = (IF Brokered(job) THEN "reconcile" ELSE "start")
      /\ gen = NoGen /\ rows = <<>> /\ labels = <<>> /\ preds = <<>> /\ calls = <<>>
      /\ consumed = 0 /\ failures = <<>> /\ written = 0 /\ starts = 0 /\ csv = None
      /\ failLog = <<>> /\ sidecar = None /\ events = {} /\ node = None
  BY DEF Init
<1>2. stage \in {"reconcile", "start"} /\ ~InStart /\ stage \notin {"append_last", "exit"}
  BY <1>1 DEF InStart, InHarness
<1>3. LeaseInv
  BY LeaseInit
<1>4. TypeInv
  <2>1. granted \subseteq {"run", "output"}
    BY DEF Init
  <2>2. ~Brokered(job) => refs = 0 /\ other = "none"
    BY DEF Init
  <2>3. 0 \in 0..MaxStarts
    BY EvaluationAssumption
  <2> QED BY <1>1, <1>2, <2>1, <2>2, <2>3 DEF TypeInv, DirectStages
<1>5. RowsInv /\ CallsInv
  BY <1>1 DEF RowsInv, CallsInv
<1>6. PoolInv
  <2>1. Running = {}
    BY <1>1 DEF Running
  <2> QED BY <2>1, FS_EmptySet, EvaluationAssumption DEF PoolInv
<1>7. CsvInv /\ AnswersInv
  BY <1>1 DEF CsvInv, AnswersInv
<1>8. ConsumedInv /\ SavedInv
  BY <1>1, <1>2 DEF ConsumedInv, SavedInv
<1>9. FailuresInv
  <2>1. IsInjective(failLog) /\ Len(failures) = 0
    BY <1>1 DEF IsInjective
  <2> QED BY <1>1, <1>2, <2>1 DEF FailuresInv
<1>10. NodeInv
  BY <1>1 DEF NodeInv, OkMeansComplete
<1>11. DesignInv
  <2>1. GenFields /\ gen.knowledge = 0 /\ gen.persisted = {} /\ gen.tools = {}
    BY <1>1 DEF GenFields, NoGen
  <2>2. Brokered(job) => stage = "reconcile"
    BY <1>1
  <2>3. stage # "heal" /\ (Brokered(job) => stage \notin Persisted)
    BY <1>2, <2>2 DEF Persisted
  <2>4. PersistedResolves
    BY <1>1, <2>1, <2>2 DEF PersistedResolves, Brokered
  <2> QED BY <2>1, <2>3, <2>4 DEF DesignInv, Assembled
<1>12. AuditInv
  <2>1. Brokered(job) => stage \notin Assembled
    BY <1>1 DEF Assembled, Persisted
  <2> QED BY <1>1, <1>2, <2>1 DEF AuditInv, ClaimGapAudited
<1> QED
  BY <1>3, <1>4, <1>5, <1>6, <1>7, <1>8, <1>9, <1>10, <1>11, <1>12
     DEF EvaluationInv, HarnessInv

(* ... and each step keeps every part.                                     *)
LEMMA EvaluationInvariant == Spec => []EvaluationInv
<1>1. EvaluationInv /\ [Next]_vars => EvaluationInv'
  BY LeaseStep, TypeStep, RowsStep, CallsStep, PoolStep, CsvStep, AnswersStep, ConsumedStep,
     SavedStep, FailuresStep, NodeStep, DesignStep, AuditStep
     DEF EvaluationInv, HarnessInv
<1> QED
  BY <1>1, EvaluationInit, PTL DEF Spec

LEMMA TypesFollow == EvaluationInv => TypeOK
<1> SUFFICES ASSUME EvaluationInv PROVE TypeOK
  OBVIOUS
<1> USE DEF EvaluationInv, HarnessInv
<1>1. /\ job \in Jobs /\ stage \in Stages /\ granted \subseteq {"run", "output"}
      /\ acl \in BOOLEAN /\ other \in {"none", "live", "leaked"} /\ starts \in 0..MaxStarts
  BY DEF TypeInv, LeaseInv, LeaseTypes
<1>2. refs \in 0..2
  BY DEF TypeInv, LeaseInv, RefsExact
<1>3. written \in 0..Len(failures) /\ Cardinality(Running) <= Workers
  BY DEF FailuresInv, PoolInv
<1>4. /\ ToSet(rows) \subseteq 1..PoolSize /\ Len(rows) <= NumSamples
      /\ Len(labels) = Len(rows) /\ ToSet(labels) \subseteq 1..PoolSize
      /\ ToSet(preds) \subseteq Prediction
  <2>1. CASE starts = 0
    <3>1. rows = <<>> /\ labels = <<>> /\ preds = <<>>
      BY <2>1 DEF RowsInv, CallsInv
    <3> QED BY <3>1, AskedFacts DEF ToSet
  <2>2. CASE starts # 0
    <3>1. starts > 0
      BY <1>1, <2>2, EvaluationAssumption
    <3>2. /\ rows \in [1..Asked -> 1..PoolSize] /\ labels \in [1..Asked -> 1..PoolSize]
          /\ preds \in [1..Asked -> Prediction]
          /\ Len(rows) = Asked /\ Len(labels) = Asked
      BY <3>1, StartFacts
    <3> QED BY <3>2, AskedFacts DEF ToSet
  <2> QED BY <2>1, <2>2
<1> QED BY <1>1, <1>2, <1>3, <1>4, Zenon DEF TypeOK

(* At a good end a row without a prediction is one whose agent failed or   *)
(* answered nothing: everything was consumed, so all labels fit and are    *)
(* the positions.                                                          *)
LEMMA BlankRows ==
    ASSUME EvaluationInv, stage = "exit", NEW i \in DOMAIN csv, csv[i][2] = Blank
    PROVE  \E k \in DOMAIN rows : rows[k] = csv[i][1] /\ calls[k] \in {"failed", "blank"}
<1> USE DEF EvaluationInv, HarnessInv
<1>1. /\ InStart /\ starts > 0 /\ csv = Table /\ AllConsumed
      /\ \A j \in DOMAIN calls : calls[j] = "skip" => labels = Same /\ Done(preds[j])
      /\ \A j \in DOMAIN calls : calls[j] # "skip" /\ j <= consumed => Stored(j)
      /\ consumed \in Nat
  BY DEF InStart, TypeInv, SavedInv, ConsumedInv
<1>2. i \in 1..Asked /\ csv[i][1] = rows[i] /\ preds[i] \in {None, Blank}
  BY <1>1, TableType
<1>3. DOMAIN calls = 1..Asked /\ DOMAIN rows = 1..Asked
  BY <1>1, StartFacts
<1>4. calls[i] # "skip"
  BY <1>1, <1>2, <1>3 DEF Done
<1>5. \A j \in 1..Asked : calls[j] # "skip" => Stored(j)
  BY <1>1, <1>3, AskedFacts DEF AllConsumed, NextFuture
<1>6. labels = Same
  <2>1. CASE \E j \in 1..Asked : calls[j] = "skip"
    BY <1>1, <1>3, <2>1
  <2>2. CASE \A j \in 1..Asked : calls[j] # "skip"
    <3>1. \A j \in 1..Asked : labels[j] <= Asked
      BY <1>5, <2>2 DEF Stored
    <3>2. labels \in [1..Asked -> Nat \ {0}] /\ Increasing(labels)
      <4>1. labels \in [1..Asked -> 1..PoolSize] /\ Increasing(labels)
        BY <1>1, StartFacts
      <4> QED BY <4>1, AskedFacts
    <3> QED BY <3>1, <3>2, AskedFacts, IncreasingIsIdentity DEF Same
  <2> QED BY <2>1, <2>2
<1>7. preds[i] = PredictionOf(i) /\ Returned(i)
  BY <1>2, <1>4, <1>5, <1>6 DEF Stored, Same
<1>8. PredictionOf(i) = Blank /\ calls[i] \notin {"right", "wrong"}
  BY <1>1, <1>2, <1>7, PredictionType
<1> QED BY <1>2, <1>3, <1>7, <1>8 DEF Returned

(* The report of an evaluation is right, for every dataset, sample size,   *)
(* seed, pool, save interval, design and failure (harness.py,              *)
(* task_execution.py; the parts of AnswersSound).                          *)
THEOREM AnswersStaySound == Spec => []AnswersSound
<1>1. EvaluationInv => AnswersSound
  <2> SUFFICES ASSUME EvaluationInv PROVE AnswersSound
    OBVIOUS
  <2> USE DEF EvaluationInv, HarnessInv
  <2>1. TypeOK
    BY TypesFollow
  <2>2. SampleComplete
    <3> SUFFICES ASSUME stage = "run"
                 PROVE  /\ Len(rows) = Asked /\ IsInjective(rows)
                        /\ job.seeded => AnchorCore(job.anchors) \subseteq ToSet(rows)
      BY DEF SampleComplete, Asked
    <3>1. starts > 0
      BY DEF TypeInv, InStart, InHarness
    <3> QED BY <3>1, StartFacts DEF RowsInv
  <2>3. PersistedResolves /\ ClaimGapAudited /\ OkMeansComplete
    BY DEF DesignInv, AuditInv, NodeInv
  <2>4. KnowledgeFits
    <3> SUFFICES ASSUME gen.knowledge > 0
                 PROVE  /\ gen.knowledge <= TotalCap
                        /\ \A i \in DOMAIN job.notes :
                             job.notes[i] <= FileCap
                                 /\ KnowledgeTotals(job.notes)[i - 1] + job.notes[i] <= TotalCap
                               => gen.knowledge >=
                                      KnowledgeTotals(job.notes)[i - 1] + job.notes[i]
      BY DEF KnowledgeFits
    <3>1. gen.knowledge = KnowledgeTotal(job.notes)
      BY DEF DesignInv
    <3>2. job.notes \in Seq(Nat)
      BY JobType
    <3> QED BY <3>1, <3>2, KnowledgeBound
  <2>5. RowsKeepTheirAnswers
    <3> SUFFICES ASSUME csv # None, ~(OwnDraw /\ job.seeded), NEW i \in DOMAIN csv
                 PROVE  csv[i][2] \in {Blank, Cut} \/ csv[i][2].of = csv[i][1]
      BY DEF RowsKeepTheirAnswers
    <3>1. csv[i][2] # None /\ Own(csv[i][2], csv[i][1])
      BY DEF CsvInv, AnswersInv
    <3> QED BY <3>1 DEF Own
  <2>6. FailuresExact
    <3>1. IsInjective(failLog)
      BY DEF FailuresInv
    <3>2. ASSUME stage = "exit", NEW k \in DOMAIN failures
          PROVE  <<starts, failures[k]>> \in ToSet(failLog)
      <4>1. k \in 1..written /\ InStart
        BY <3>2 DEF FailuresInv, InStart
      <4> QED BY <4>1 DEF FailuresInv
    <3>3. ASSUME stage = "exit", NEW i \in DOMAIN csv, csv[i][2] = Blank
          PROVE  \E k \in DOMAIN rows : rows[k] = csv[i][1] /\ calls[k] \in {"failed", "blank"}
      BY <3>3, BlankRows
    <3> QED BY <3>1, <3>2, <3>3 DEF FailuresExact
  <2> QED BY <2>1, <2>2, <2>3, <2>4, <2>5, <2>6 DEF AnswersSound
<1> QED
  BY <1>1, EvaluationInvariant, PTL

-----------------------------------------------------------------------------
(* Resuming.                                                               *)

(* What is on disk is about the rows, and a running start has every answer *)
(* of it in memory, from the resumption or from a future it has consumed.  *)
KeptInv ==
    /\ starts > 0 => rows = Drawn(ToSet(rows))
    /\ csv # None => starts > 0 /\ DOMAIN csv \subseteq DOMAIN rows
                     /\ \A i \in DOMAIN csv : csv[i][1] = rows[i]
    /\ InStart /\ ~(OwnDraw /\ job.seeded) =>
        /\ \A i \in DOMAIN preds : Done(preds[i]) => calls[i] = "skip" \/ i <= consumed
        /\ csv # None => \A i \in DOMAIN csv : Done(csv[i][2]) => preds[i] = csv[i][2]

(* A resumed harness draws the same rows and finds each of them once.      *)
LEMMA ResumeFacts ==
    ASSUME TypeInv, RowsInv, CallsInv, CsvInv, AnswersInv, KeptInv, HarnessStarts, csv # None
    PROVE  /\ rows' = rows
           /\ \A i \in DOMAIN csv : i \in DOMAIN preds' /\ preds'[i] = csv[i][2]
<1>1. starts > 0 /\ DOMAIN csv \subseteq DOMAIN rows /\ rows = Drawn(ToSet(rows))
      /\ \A i \in DOMAIN csv : csv[i][1] = rows[i]
  BY DEF KeptInv
<1>2. rows' = rows
  BY <1>1 DEF HarnessStarts
<1>3. DOMAIN rows = 1..Asked /\ IsInjective(rows)
  BY <1>1, StartFacts
<1>4. preds' = [i \in 1..Asked |-> Earlier(rows[i])]
  BY <1>2, <1>3 DEF HarnessStarts
<1>5. ASSUME NEW i \in DOMAIN csv PROVE i \in 1..Asked /\ Earlier(rows[i]) = csv[i][2]
  <2>1. {j \in DOMAIN csv : csv[j][1] = rows[i]} = {i}
    BY <1>1, <1>3 DEF IsInjective
  <2> QED BY <1>1, <1>3, <2>1 DEF Earlier
<1> QED BY <1>2, <1>4, <1>5

LEMMA KeptStep ==
    ASSUME EvaluationInv, KeptInv, [Next]_vars
    PROVE  KeptInv'
<1> USE DEF EvaluationInv, HarnessInv
<1>0. /\ job' = job /\ (OwnDraw' <=> OwnDraw) /\ starts \in Nat
      /\ (InStart => starts > 0) /\ (InStart' => InStart \/ HarnessStarts)
      /\ (HarnessStarts \/ UNCHANGED <<rows, labels, starts>>)
  BY WhatChanges, WhereStepsGo, EvaluationAssumption DEF OwnDraw, TypeInv
<1>1. starts' > 0 => rows' = Drawn(ToSet(rows'))
  <2>1. CASE HarnessStarts
    <3>1. PICK sample \in Samples(job.seeded, job.anchors) : rows' = Drawn(sample)
      BY <2>1 DEF HarnessStarts
    <3>2. sample \in SUBSET (1..PoolSize) /\ PoolSize \in Nat
      BY JobType, SampleFacts, AskedFacts
    <3>3. ToSet(Drawn(sample)) = sample
      BY <3>2, DrawnFacts
    <3> QED BY <3>1, <3>3
  <2>2. CASE ~HarnessStarts
    BY <1>0, <2>2 DEF KeptInv
  <2> QED BY <2>1, <2>2
<1>2. ASSUME csv' # None
      PROVE  starts' > 0 /\ DOMAIN csv' \subseteq DOMAIN rows'
             /\ \A i \in DOMAIN csv' : csv'[i][1] = rows'[i]
  <2>1. CASE HarnessStarts
    <3>1. csv' = csv /\ starts' = starts + 1
      BY <2>1 DEF HarnessStarts
    <3>2. rows' = rows
      BY <1>2, <2>1, <3>1, ResumeFacts
    <3> QED BY <1>0, <1>2, <3>1, <3>2 DEF KeptInv
  <2>2. CASE AssembleRunDir
    BY <1>2, <2>2 DEF AssembleRunDir, FreshRunDir
  <2>3. CASE SaveTable
    <3>1. starts > 0 /\ csv' = Table /\ ~HarnessStarts
      BY <1>0, <2>3 DEF SaveTable, EndSave, InStart, InHarness, HarnessStarts
    <3>2. DOMAIN rows = 1..Asked
      BY <3>1, StartFacts
    <3> QED BY <1>0, <3>1, <3>2, TableType
  <2>4. CASE TornSave
    <3>1. starts > 0 /\ Len(rows) = Asked /\ DOMAIN rows = 1..Asked /\ ~HarnessStarts
      BY <1>0, <2>4, StartFacts DEF TornSave, EndSave, InStart, InHarness, HarnessStarts
    <3>2. PICK n \in 1..Asked, last \in {Blank, Cut} :
            csv' = [i \in 1..n |-> IF i = n THEN <<rows[i], last>> ELSE Table[i]]
      BY <2>4, <3>1 DEF TornSave
    <3>3. DOMAIN csv' = 1..n /\ \A i \in 1..n : i \in 1..Asked
      BY <3>2, AskedFacts
    <3>4. \A i \in 1..n : csv'[i][1] = rows[i]
      BY <3>1, <3>2, <3>3, TableType
    <3> QED BY <1>0, <3>1, <3>3, <3>4
  <2>5. CASE ~HarnessStarts /\ ~AssembleRunDir /\ ~SaveTable /\ ~TornSave
    <3>1. UNCHANGED <<csv, rows, starts>>
      BY <2>5, WhatChanges
    <3> QED BY <1>2, <3>1 DEF KeptInv
  <2> QED BY <2>1, <2>2, <2>3, <2>4, <2>5
<1>3. ASSUME InStart', ~(OwnDraw /\ job.seeded)
      PROVE  /\ \A i \in DOMAIN preds' : Done(preds'[i]) => calls'[i] = "skip" \/ i <= consumed'
             /\ csv' # None => \A i \in DOMAIN csv' : Done(csv'[i][2]) => preds'[i] = csv'[i][2]
  <2>1. CASE HarnessStarts
    <3>1. DOMAIN rows' = 1..Asked
      BY <2>1, DrawStep
    <3>2. /\ DOMAIN preds' = 1..Asked /\ csv' = csv
          /\ calls' = [i \in 1..Asked |-> IF Done(preds'[i]) THEN "skip" ELSE "queued"]
      BY <2>1, <3>1 DEF HarnessStarts
    <3> QED BY <2>1, <3>2, ResumeFacts
  <2>2. CASE ~HarnessStarts
    <3>1. /\ InStart /\ starts > 0 /\ UNCHANGED rows
          /\ \A i \in DOMAIN preds : Done(preds[i]) => calls[i] = "skip" \/ i <= consumed
          /\ csv # None => \A i \in DOMAIN csv : Done(csv[i][2]) => preds[i] = csv[i][2]
      BY <1>0, <1>3, <2>2 DEF KeptInv
    <3>2. CASE TakeQuestion \/ AgentReturns
      <4>1. PICK i \in 1..Asked, r \in CallState :
              calls' = [calls EXCEPT ![i] = r] /\ calls[i] # "skip"
        BY <3>1, <3>2, StartFacts DEF TakeQuestion, AgentReturns, Running, CallState
      <4>2. UNCHANGED <<preds, consumed, csv>>
        BY <3>2 DEF TakeQuestion, AgentReturns, fileVars
      <4>3. \A j \in DOMAIN preds : Done(preds[j]) => calls'[j] = "skip" \/ j <= consumed
        BY <3>1, <4>1, StartFacts
      <4> QED BY <3>1, <4>2, <4>3 DEF Done
    <3>3. CASE ConsumeFuture
      <4> DEFINE i == Min(NextFuture)
      <4>1. i \in 1..Asked /\ i > consumed /\ calls[i] # "skip"
        BY <3>1, <3>3, FutureFacts DEF ConsumeFuture
      <4>2. labels[i] = i
        BY <1>3, <3>1, <4>1, OwnLabels DEF Same
      <4>3. stage' # "crash"
        BY <1>3 DEF InStart, InHarness
      <4>4. /\ UNCHANGED <<calls, csv>> /\ consumed' = i
            /\ preds' = [preds EXCEPT ![i] = PredictionOf(i)]
        BY <3>3, <4>2, <4>3 DEF ConsumeFuture, fileVars
      <4> HIDE DEF i
      <4>5. ~Done(preds[i]) /\ consumed \in Nat /\ DOMAIN preds = 1..Asked
        <5>1. consumed \in Nat /\ DOMAIN preds = 1..Asked
          BY <3>1, StartFacts DEF ConsumedInv
        <5>2. ~(i <= consumed)
          BY <4>1, <5>1, AskedFacts
        <5> QED BY <3>1, <4>1, <5>1, <5>2
      <4>6. ASSUME NEW j \in DOMAIN preds', Done(preds'[j])
            PROVE  calls[j] = "skip" \/ j <= i
        <5>1. j \in 1..Asked /\ (j # i => preds'[j] = preds[j])
          BY <4>4, <4>5
        <5>2. CASE j = i
          BY <4>1, <5>2, AskedFacts
        <5>3. CASE j # i
          <6>1. calls[j] = "skip" \/ j <= consumed
            BY <3>1, <4>5, <4>6, <5>1, <5>3
          <6> QED BY <4>1, <4>5, <5>1, <6>1, AskedFacts
        <5> QED BY <5>2, <5>3
      <4>7. ASSUME csv # None, NEW j \in DOMAIN csv, Done(csv[j][2])
            PROVE  preds'[j] = csv[j][2]
        <5>1. preds[j] = csv[j][2] /\ j # i
          BY <3>1, <4>5, <4>7
        <5> QED BY <4>4, <5>1
      <4> QED BY <4>4, <4>6, <4>7 DEF Done
    <3>4. CASE SaveTable
      <4>1. csv' = Table /\ UNCHANGED <<preds, calls, consumed>>
        BY <3>4 DEF SaveTable, memVars
      <4>2. \A i \in DOMAIN Table : Done(Table[i][2]) => preds[i] = Table[i][2]
        BY <3>1, TableType DEF Done
      <4> QED BY <3>1, <4>1, <4>2 DEF Done
    <3>5. CASE TornSave \/ HarnessGone \/ AssembleRunDir
      BY <1>3, <3>5 DEF TornSave, HarnessGone, AssembleRunDir, InStart, InHarness
    <3>6. CASE /\ ~TakeQuestion /\ ~AgentReturns /\ ~ConsumeFuture /\ ~SaveTable /\ ~TornSave
               /\ ~HarnessGone /\ ~AssembleRunDir
      <4>1. UNCHANGED <<preds, calls, consumed, csv>>
        BY <2>2, <3>6, WhatChanges
      <4> QED BY <3>1, <4>1 DEF Done
    <3> QED BY <3>2, <3>3, <3>4, <3>5, <3>6
  <2> QED BY <2>1, <2>2
<1> QED BY <1>0, <1>1, <1>2, <1>3 DEF KeptInv, Done

(* Resuming never loses or changes an answer on disk, however often the    *)
(* harness is killed: only a kill in the middle of a save can              *)
(* (harness.py:617-628, 722-732).                                          *)
THEOREM AnswersAreKept == Spec => AnswersKept
<1>1. Init => KeptInv
  <2> SUFFICES ASSUME Init PROVE KeptInv
    OBVIOUS
  <2>1. starts = 0 /\ csv = None /\ stage \in {"reconcile", "start"}
    BY DEF Init
  <2> QED BY <2>1 DEF KeptInv, InStart, InHarness
<1>2. EvaluationInv /\ KeptInv /\ [Next]_vars => KeptInv'
  BY KeptStep
<1>3. EvaluationInv /\ KeptInv /\ [Next]_vars =>
        ((csv # None /\ csv' # None /\ ~(OwnDraw /\ job.seeded) /\ ~TornSave) =>
            \A i \in DOMAIN csv : Done(csv[i][2]) => \E k \in DOMAIN csv' : csv'[k] = csv[i])
  <2> SUFFICES ASSUME EvaluationInv, KeptInv, [Next]_vars, csv # None, csv' # None,
                      ~(OwnDraw /\ job.seeded), ~TornSave,
                      NEW i \in DOMAIN csv, Done(csv[i][2])
               PROVE  \E k \in DOMAIN csv' : csv'[k] = csv[i]
    OBVIOUS
  <2>1. CASE SaveTable
    <3>1. InStart /\ starts > 0 /\ csv' = Table
      BY <2>1 DEF SaveTable, EndSave, InStart, InHarness, EvaluationInv, TypeInv
    <3>2. DOMAIN rows = 1..Asked /\ DOMAIN Table = 1..Asked
      BY <3>1, StartFacts, TableType DEF EvaluationInv, HarnessInv
    <3>3. i \in 1..Asked /\ csv[i][1] = rows[i] /\ preds[i] = csv[i][2]
      BY <3>1, <3>2 DEF KeptInv
    <3>4. csv[i] \in (1..PoolSize) \X (Prediction \ {None})
      BY DEF EvaluationInv, HarnessInv, CsvInv
    <3>5. Table[i] = <<rows[i], preds[i]>>
      BY <3>2, <3>3 DEF Table, Done
    <3> QED BY <3>1, <3>2, <3>3, <3>4, <3>5
  <2>2. CASE ~SaveTable
    <3>1. csv' = csv
      BY <2>2, WhatChanges DEF AssembleRunDir, FreshRunDir
    <3> QED BY <3>1
  <2> QED BY <2>1, <2>2
<1> QED
  BY <1>1, <1>2, <1>3, EvaluationInvariant, PTL DEF Spec, AnswersKept
===============================================================================
