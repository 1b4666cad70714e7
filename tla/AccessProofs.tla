---------------------------- MODULE AccessProofs ----------------------------
(***************************************************************************)
(* Theorems, for every value of the constants, about what keeps untrusted  *)
(* processes within bounds: the launcher of task harnesses (TaskBroker),   *)
(* the proxy to the model (LlmProxy) and the write surface of a role       *)
(* session (WriteSurface).                                                 *)
(***************************************************************************)
EXTENDS TaskBroker, LlmProxy, WriteSurface, FiniteSetTheorems, SequenceTheorems,
        WellFoundedInduction, TLAPS

(***************************************************************************)
(* The worker is never denied because the budget of its outer is what the  *)
(* used scopes leave of Imax, and the scope it asks for is not among them: *)
(* a scope is used once, by the handler that reserves it, and asked for    *)
(* again only after a "retry".  Handlers of earlier requests, timed out by *)
(* their client, may still reserve, so a weaker count would not do.        *)
(***************************************************************************)
Charged == {i \in 1..Imax : <<outer, i>> \in used}

BudgetExact ==
    /\ OnlyCurrentOuter
    /\ driver = "register" => used = {}
    /\ budget[outer] # None => budget[outer] = Imax - Cardinality(Charged)

\* Scopes of the current outer are asked for in order, those of later outers
\* not at all.
Reached(s) == s[1] < outer \/ (s[1] = outer /\ s[2] <= inner /\ driver \notin {"register", "spawn"})
Passed(s)  == s[1] < outer \/ (s[1] = outer /\ s[2] < inner /\ driver \notin {"register", "spawn"})

WorkerPlace ==
    /\ worker \in {"next", "asking"} => driver \in {"activate", "wait"}
    /\ worker = "next" => attempts < MaxAttempts
    /\ worker = "asking" => inner <= Imax /\ launch[Current] # "none"

LaunchShape ==
    \A s \in Scopes :
        /\ launch[s] # "none" => Reached(s)
        /\ answer[s] # None => launch[s] = "answered"
        /\ launch[s] \in {"none", "reserve"} \/ answer[s] = "retry" => s \notin used
        /\ worker = "next" /\ s = Current => launch[s] = "none" \/ answer[s] = "retry"

TokenShape ==
    \A s \in Scopes :
        /\ answer[s] = "rc" => token[s] = "dead"
        /\ outcome[s] # None => Passed(s)
        /\ outcome[s] = "rc" => token[s] = "dead" /\ launch[s] = "answered"

BrokerInv ==
    /\ TypeOK /\ WorkerPlace /\ LaunchShape /\ BudgetExact /\ TokenShape
    /\ HonestNeverDenied

-----------------------------------------------------------------------------
\* A scope is the pair of its outer and its generation.
LEMMA ScopeParts ==
    /\ \A s \in Scopes : s = <<s[1], s[2]>> /\ s[1] \in Outers /\ s[2] \in 1..Imax
    /\ \A o \in Outers, i \in 1..Imax : <<o, i>> \in Scopes
BY DEF Scopes

\* The charged generations are a finite set, and one that is not charged leaves
\* something of the budget.
LEMMA ChargedFinite ==
    ASSUME BrokerInv
    PROVE  /\ IsFiniteSet(Charged) /\ Cardinality(Charged) \in Nat
           /\ Cardinality(Charged) <= Imax
           /\ \A i \in (1..Imax) \ Charged :
                /\ Cardinality(Charged) < Imax
                /\ Cardinality(Charged \cup {i}) = Cardinality(Charged) + 1
<1>1. IsFiniteSet(1..Imax) /\ Cardinality(1..Imax) = Imax
  BY FS_Interval, BrokerAssumption
<1>2. Charged \subseteq 1..Imax
  BY DEF Charged
<1>3. IsFiniteSet(Charged) /\ Cardinality(Charged) <= Cardinality(1..Imax)
  BY <1>1, <1>2, FS_Subset
<1>4. Cardinality(Charged) \in Nat
  BY <1>3, FS_CardinalityType
<1>5. ASSUME NEW i \in (1..Imax) \ Charged
      PROVE  Cardinality(Charged) < Imax /\ Cardinality(Charged \cup {i}) = Cardinality(Charged) + 1
  <2>1. Cardinality(Charged) # Cardinality(1..Imax)
    BY <1>1, <1>2, <1>5, FS_Subset
  <2>2. Cardinality(Charged \cup {i}) = Cardinality(Charged) + 1
    BY <1>3, <1>5, FS_AddElement
  <2> QED BY <1>1, <1>3, <1>4, <2>1, <2>2, BrokerAssumption
<1> QED BY <1>1, <1>3, <1>4, <1>5

\* The initial state satisfies the invariant.
LEMMA BrokerInit == Init => BrokerInv
<1> SUFFICES ASSUME Init PROVE BrokerInv
  OBVIOUS
<1>1. TypeOK
  BY BrokerAssumption DEF Init, TypeOK, Outers, All
<1>2. WorkerPlace /\ LaunchShape /\ TokenShape /\ HonestNeverDenied
  BY BrokerAssumption DEF Init, WorkerPlace, LaunchShape, TokenShape, HonestNeverDenied, All
<1>3. BudgetExact
  BY BrokerAssumption DEF Init, BudgetExact, OnlyCurrentOuter, Outers
<1> QED BY <1>1, <1>2, <1>3 DEF BrokerInv

\* The steps of the driver keep it.
LEMMA BrokerDriver == BrokerInv /\ DriverStep => BrokerInv'
<1> SUFFICES ASSUME BrokerInv, DriverStep PROVE BrokerInv'
  OBVIOUS
<1> USE BrokerAssumption
<1>1. CASE RegisterOuter
  <2>1. TypeOK'
    BY <1>1 DEF RegisterOuter, threads, client, BrokerInv, TypeOK, WorkerPlace, Outers,
         Current
  <2>2. WorkerPlace'
    BY <1>1 DEF RegisterOuter, threads, client, BrokerInv, TypeOK, WorkerPlace, LaunchShape,
         Reached, Current, Outers
  <2>3. LaunchShape'
    BY <1>1 DEF RegisterOuter, threads, client, BrokerInv, TypeOK, WorkerPlace, LaunchShape,
         Reached, Current, Outers
  <2>4. TokenShape'
    BY <1>1 DEF RegisterOuter, threads, client, BrokerInv, TypeOK, WorkerPlace, LaunchShape,
         TokenShape, Passed, Reached, Current, Outers
  <2>5. HonestNeverDenied'
    BY <1>1 DEF RegisterOuter, threads, client, BrokerInv, TypeOK, WorkerPlace, LaunchShape,
         HonestNeverDenied, Current, Outers
  <2>6. Charged' = {} /\ Cardinality({}) = 0
    BY <1>1, FS_EmptySet DEF RegisterOuter, BrokerInv, BudgetExact, Charged
  <2>7. BudgetExact'
    BY <1>1, <2>6 DEF RegisterOuter, BrokerInv, BudgetExact, OnlyCurrentOuter, TypeOK
  <2> QED BY <2>1, <2>2, <2>3, <2>4, <2>5, <2>7 DEF BrokerInv
<1>2. CASE SpawnWorker
  <2>1. TypeOK'
    BY <1>2, ScopeParts DEF SpawnWorker, broker, threads, client, BrokerInv, TypeOK,
         WorkerPlace, Outers, Current
  <2>2. WorkerPlace'
    BY <1>2, ScopeParts DEF SpawnWorker, broker, threads, client, BrokerInv, TypeOK,
         WorkerPlace, LaunchShape, Reached, Current, Outers
  <2>3. LaunchShape'
    BY <1>2, ScopeParts DEF SpawnWorker, broker, threads, client, BrokerInv, TypeOK,
         WorkerPlace, LaunchShape, Reached, Current, Outers
  <2>4. TokenShape'
    BY <1>2, ScopeParts DEF SpawnWorker, broker, threads, client, BrokerInv, TypeOK,
         WorkerPlace, LaunchShape, TokenShape, Passed, Reached, Current, Outers
  <2>5. HonestNeverDenied'
    BY <1>2, ScopeParts DEF SpawnWorker, broker, threads, client, BrokerInv, TypeOK,
         WorkerPlace, LaunchShape, HonestNeverDenied, Current, Outers
  <2>6. BudgetExact'
    BY <1>2, ScopeParts DEF SpawnWorker, broker, threads, client, BrokerInv, BudgetExact,
         OnlyCurrentOuter, Charged
  <2> QED BY <2>1, <2>2, <2>3, <2>4, <2>5, <2>6 DEF BrokerInv
<1>3. CASE ActivateOuter
  <2>1. TypeOK'
    BY <1>3, ScopeParts DEF ActivateOuter, broker, threads, client, BrokerInv, TypeOK,
         WorkerPlace, Outers, Current
  <2>2. WorkerPlace'
    BY <1>3, ScopeParts DEF ActivateOuter, broker, threads, client, BrokerInv, TypeOK,
         WorkerPlace, LaunchShape, Reached, Current, Outers
  <2>3. LaunchShape'
    BY <1>3, ScopeParts DEF ActivateOuter, broker, threads, client, BrokerInv, TypeOK,
         WorkerPlace, LaunchShape, Reached, Current, Outers
  <2>4. TokenShape'
    BY <1>3, ScopeParts DEF ActivateOuter, broker, threads, client, BrokerInv, TypeOK,
         WorkerPlace, LaunchShape, TokenShape, Passed, Reached, Current, Outers
  <2>5. HonestNeverDenied'
    BY <1>3, ScopeParts DEF ActivateOuter, broker, threads, client, BrokerInv, TypeOK,
         WorkerPlace, LaunchShape, HonestNeverDenied, Current, Outers
  <2>6. BudgetExact'
    BY <1>3, ScopeParts DEF ActivateOuter, broker, threads, client, BrokerInv, BudgetExact,
         OnlyCurrentOuter, Charged
  <2> QED BY <2>1, <2>2, <2>3, <2>4, <2>5, <2>6 DEF BrokerInv
<1>4. CASE ActivateFails
  <2>1. TypeOK'
    BY <1>4, ScopeParts DEF ActivateFails, broker, threads, client, BrokerInv, TypeOK,
         WorkerPlace, Outers, Current
  <2>2. WorkerPlace'
    BY <1>4, ScopeParts DEF ActivateFails, broker, threads, client, BrokerInv, TypeOK,
         WorkerPlace, LaunchShape, Reached, Current, Outers
  <2>3. LaunchShape'
    BY <1>4, ScopeParts DEF ActivateFails, broker, threads, client, BrokerInv, TypeOK,
         WorkerPlace, LaunchShape, Reached, Current, Outers
  <2>4. TokenShape'
    BY <1>4, ScopeParts DEF ActivateFails, broker, threads, client, BrokerInv, TypeOK,
         WorkerPlace, LaunchShape, TokenShape, Passed, Reached, Current, Outers
  <2>5. HonestNeverDenied'
    BY <1>4, ScopeParts DEF ActivateFails, broker, threads, client, BrokerInv, TypeOK,
         WorkerPlace, LaunchShape, HonestNeverDenied, Current, Outers
  <2>6. BudgetExact'
    BY <1>4, ScopeParts DEF ActivateFails, broker, threads, client, BrokerInv, BudgetExact,
         OnlyCurrentOuter, Charged
  <2> QED BY <2>1, <2>2, <2>3, <2>4, <2>5, <2>6 DEF BrokerInv
<1>5. CASE ReleaseOuter
  <2>1. TypeOK'
    BY <1>5, ScopeParts DEF ReleaseOuter, threads, BrokerInv, TypeOK, WorkerPlace, Outers,
         Current
  <2>2. WorkerPlace'
    BY <1>5, ScopeParts DEF ReleaseOuter, threads, BrokerInv, TypeOK, WorkerPlace,
         LaunchShape, Reached, Current, Outers
  <2>3. LaunchShape'
    BY <1>5, ScopeParts DEF ReleaseOuter, threads, BrokerInv, TypeOK, WorkerPlace,
         LaunchShape, Reached, Current, Outers
  <2>4. TokenShape'
    BY <1>5, ScopeParts DEF ReleaseOuter, threads, BrokerInv, TypeOK, WorkerPlace,
         LaunchShape, TokenShape, Passed, Reached, Current, Outers
  <2>5. HonestNeverDenied'
    BY <1>5, ScopeParts DEF ReleaseOuter, threads, BrokerInv, TypeOK, WorkerPlace,
         LaunchShape, HonestNeverDenied, Current, Outers
  <2>6. used' = {} /\ \A o \in Outers : budget'[o] = None
    BY <1>5 DEF ReleaseOuter, BrokerInv, BudgetExact, OnlyCurrentOuter, TypeOK
  <2>7. BudgetExact'
    BY <2>1, <2>6 DEF BudgetExact, OnlyCurrentOuter, TypeOK
  <2> QED BY <2>1, <2>2, <2>3, <2>4, <2>5, <2>7 DEF BrokerInv
<1> QED BY <1>1, <1>2, <1>3, <1>4, <1>5 DEF DriverStep

\* A request that is settled takes the worker to the next generation.
LEMMA SettleKept ==
    ASSUME BrokerInv, NEW r \in {"rc", "error"}, Settle(r), worker \in {"next", "asking"},
           inner <= Imax, UNCHANGED <<broker, threads, driver, outer>>,
           r = "rc" => token[Current] = "dead" /\ launch[Current] = "answered"
    PROVE  BrokerInv'
<1> USE BrokerAssumption
<1>a. Current \in Scopes /\ driver \in {"activate", "wait"}
  BY ScopeParts DEF BrokerInv, TypeOK, WorkerPlace, Current
<1>1. TypeOK'
  BY <1>a, ScopeParts DEF Settle, broker, threads, BrokerInv, TypeOK, WorkerPlace, Outers,
       Current
<1>2. WorkerPlace'
  BY <1>a, ScopeParts DEF Settle, broker, threads, BrokerInv, TypeOK, WorkerPlace,
       LaunchShape, Reached, Current, Outers
<1>3. LaunchShape'
  BY <1>a, ScopeParts DEF Settle, broker, threads, BrokerInv, TypeOK, WorkerPlace,
       LaunchShape, Reached, Current, Outers
<1>4. TokenShape'
  <2> SUFFICES ASSUME NEW s \in Scopes
               PROVE  (/\ answer[s] = "rc" => token[s] = "dead"
                       /\ outcome[s] # None => Passed(s)
                       /\ outcome[s] = "rc" => token[s] = "dead" /\ launch[s] = "answered")'
    BY DEF TokenShape
  <2>1. UNCHANGED <<launch, answer, token, driver, outer>> /\ inner' = inner + 1
    BY DEF Settle, threads
  <2>2. Passed(s) => Passed(s)'
    BY <2>1, ScopeParts DEF Passed, BrokerInv, TypeOK
  <2>3. CASE s = Current
    <3>1. Passed(s)' /\ outcome'[s] = r
      BY <1>a, <2>1, <2>3 DEF Passed, Current, Settle, BrokerInv, TypeOK
    <3> QED BY <2>1, <2>3, <3>1 DEF BrokerInv, TokenShape
  <2>4. CASE s # Current
    <3>1. outcome'[s] = outcome[s]
      BY <1>a, <2>4 DEF Settle, BrokerInv, TypeOK
    <3> QED BY <2>1, <2>2, <3>1 DEF BrokerInv, TokenShape
  <2> QED BY <2>3, <2>4
<1>5. HonestNeverDenied'
  BY <1>a, ScopeParts DEF Settle, broker, threads, BrokerInv, TypeOK, WorkerPlace,
       LaunchShape, HonestNeverDenied, Current, Outers
<1>6. BudgetExact'
  BY <1>a, ScopeParts DEF Settle, broker, threads, BrokerInv, BudgetExact,
       OnlyCurrentOuter, Charged
<1> QED BY <1>1, <1>2, <1>3, <1>4, <1>5, <1>6 DEF BrokerInv

\* The steps of the outer worker keep it.
LEMMA BrokerWorker == BrokerInv /\ (WorkerStep \/ WorkerCrashes) => BrokerInv'
<1> SUFFICES ASSUME BrokerInv, WorkerStep \/ WorkerCrashes PROVE BrokerInv'
  OBVIOUS
<1> USE BrokerAssumption
<1>1. CASE SendRequest
  <2>a. CASE Settle("error") /\ UNCHANGED <<launch, answer>>
    BY <1>1, <2>a, SettleKept DEF SendRequest, threads
  <2>b. CASE worker' = "asking"
    <3>a. /\ Current \in Scopes /\ worker = "next" /\ inner <= Imax
          /\ launch' = [launch EXCEPT ![Current] = "reserve"]
          /\ answer' = [answer EXCEPT ![Current] = None]
          /\ attempts' = attempts + 1 /\ UNCHANGED <<inner, outcome, broker, token, driver, outer>>
      BY <1>1, <2>b, ScopeParts DEF SendRequest, Settle, Current, BrokerInv, TypeOK
    <3>1. TypeOK'
      BY <2>b, <3>a, ScopeParts DEF broker, BrokerInv, TypeOK, WorkerPlace, Outers, Current
    <3>2. WorkerPlace'
      BY <2>b, <3>a, ScopeParts DEF broker, BrokerInv, TypeOK, WorkerPlace, LaunchShape,
           Reached, Current, Outers
    <3>3. LaunchShape'
      BY <2>b, <3>a, ScopeParts DEF broker, BrokerInv, TypeOK, WorkerPlace, LaunchShape,
           Reached, Current, Outers
    <3>4. TokenShape'
      BY <2>b, <3>a, ScopeParts DEF broker, BrokerInv, TypeOK, WorkerPlace, LaunchShape,
           TokenShape, Passed, Reached, Current, Outers
    <3>5. HonestNeverDenied'
      BY <2>b, <3>a, ScopeParts DEF broker, BrokerInv, TypeOK, WorkerPlace, LaunchShape,
           HonestNeverDenied, Current, Outers
    <3>6. BudgetExact'
      BY <2>b, <3>a, ScopeParts DEF broker, BrokerInv, BudgetExact, OnlyCurrentOuter, Charged
    <3> QED BY <3>1, <3>2, <3>3, <3>4, <3>5, <3>6 DEF BrokerInv
  <2> QED BY <1>1, <2>a, <2>b DEF SendRequest
<1>2. CASE ReceiveAnswer
  <2>a. CASE worker' = "next" /\ UNCHANGED <<inner, attempts, outcome>> /\ attempts < MaxAttempts
             /\ answer[Current] = "retry"
    <3>1. TypeOK'
      BY <1>2, <2>a, ScopeParts DEF ReceiveAnswer, broker, threads, BrokerInv, TypeOK,
           WorkerPlace, Outers, Current
    <3>2. WorkerPlace'
      BY <1>2, <2>a, ScopeParts DEF ReceiveAnswer, broker, threads, BrokerInv, TypeOK,
           WorkerPlace, LaunchShape, Reached, Current, Outers
    <3>3. LaunchShape'
      BY <1>2, <2>a, ScopeParts DEF ReceiveAnswer, broker, threads, BrokerInv, TypeOK,
           WorkerPlace, LaunchShape, Reached, Current, Outers
    <3>4. TokenShape'
      BY <1>2, <2>a, ScopeParts DEF ReceiveAnswer, broker, threads, BrokerInv, TypeOK,
           WorkerPlace, LaunchShape, TokenShape, Passed, Reached, Current, Outers
    <3>5. HonestNeverDenied'
      BY <1>2, <2>a, ScopeParts DEF ReceiveAnswer, broker, threads, BrokerInv, TypeOK,
           WorkerPlace, LaunchShape, HonestNeverDenied, Current, Outers
    <3>6. BudgetExact'
      BY <1>2, <2>a, ScopeParts DEF ReceiveAnswer, broker, threads, BrokerInv, BudgetExact,
           OnlyCurrentOuter, Charged
    <3> QED BY <3>1, <3>2, <3>3, <3>4, <3>5, <3>6 DEF BrokerInv
  <2>b. CASE Settle(IF answer[Current] = "rc" THEN "rc" ELSE "error")
    <3>1. Current \in Scopes /\ inner <= Imax /\ worker = "asking"
      BY <1>2, ScopeParts DEF ReceiveAnswer, BrokerInv, TypeOK, WorkerPlace, Current
    <3>2. answer[Current] = "rc" => token[Current] = "dead" /\ launch[Current] = "answered"
      BY <3>1 DEF BrokerInv, TokenShape, LaunchShape
    <3> QED BY <1>2, <2>b, <3>1, <3>2, SettleKept DEF ReceiveAnswer
  <2> QED BY <1>2, <2>a, <2>b DEF ReceiveAnswer
<1>3. CASE ClientTimeout
  <2>1. inner <= Imax
    BY <1>3 DEF ClientTimeout, BrokerInv, WorkerPlace
  <2> QED BY <1>3, <2>1, SettleKept DEF ClientTimeout
<1>4. CASE WorkerExits
  <2>1. TypeOK'
    BY <1>4, ScopeParts DEF WorkerExits, broker, threads, BrokerInv, TypeOK, WorkerPlace,
         Outers, Current
  <2>2. WorkerPlace'
    BY <1>4, ScopeParts DEF WorkerExits, broker, threads, BrokerInv, TypeOK, WorkerPlace,
         LaunchShape, Reached, Current, Outers
  <2>3. LaunchShape'
    BY <1>4, ScopeParts DEF WorkerExits, broker, threads, BrokerInv, TypeOK, WorkerPlace,
         LaunchShape, Reached, Current, Outers
  <2>4. TokenShape'
    BY <1>4, ScopeParts DEF WorkerExits, broker, threads, BrokerInv, TypeOK, WorkerPlace,
         LaunchShape, TokenShape, Passed, Reached, Current, Outers
  <2>5. HonestNeverDenied'
    BY <1>4, ScopeParts DEF WorkerExits, broker, threads, BrokerInv, TypeOK, WorkerPlace,
         LaunchShape, HonestNeverDenied, Current, Outers
  <2>6. BudgetExact'
    BY <1>4, ScopeParts DEF WorkerExits, broker, threads, BrokerInv, BudgetExact,
         OnlyCurrentOuter, Charged
  <2> QED BY <2>1, <2>2, <2>3, <2>4, <2>5, <2>6 DEF BrokerInv
<1>5. CASE WorkerCrashes
  <2>1. TypeOK'
    BY <1>5, ScopeParts DEF WorkerCrashes, broker, threads, BrokerInv, TypeOK, WorkerPlace,
         Outers, Current
  <2>2. WorkerPlace'
    BY <1>5, ScopeParts DEF WorkerCrashes, broker, threads, BrokerInv, TypeOK, WorkerPlace,
         LaunchShape, Reached, Current, Outers
  <2>3. LaunchShape'
    BY <1>5, ScopeParts DEF WorkerCrashes, broker, threads, BrokerInv, TypeOK, WorkerPlace,
         LaunchShape, Reached, Current, Outers
  <2>4. TokenShape'
    BY <1>5, ScopeParts DEF WorkerCrashes, broker, threads, BrokerInv, TypeOK, WorkerPlace,
         LaunchShape, TokenShape, Passed, Reached, Current, Outers
  <2>5. HonestNeverDenied'
    BY <1>5, ScopeParts DEF WorkerCrashes, broker, threads, BrokerInv, TypeOK, WorkerPlace,
         LaunchShape, HonestNeverDenied, Current, Outers
  <2>6. BudgetExact'
    BY <1>5, ScopeParts DEF WorkerCrashes, broker, threads, BrokerInv, BudgetExact,
         OnlyCurrentOuter, Charged
  <2> QED BY <2>1, <2>2, <2>3, <2>4, <2>5, <2>6 DEF BrokerInv
<1> QED BY <1>1, <1>2, <1>3, <1>4, <1>5 DEF WorkerStep

\* The steps of a handler thread keep it.
LEMMA BrokerHandler == ASSUME BrokerInv, NEW s \in Scopes, HandlerStep(s) PROVE BrokerInv'
<1> USE BrokerAssumption
<1>1. CASE Reserve(s)
  <2>1. CASE Reply(s, "retry") /\ UNCHANGED broker
    <3>1. TypeOK'
      BY <1>1, <2>1 DEF Reserve, Reply, broker, client, BrokerInv, TypeOK, WorkerPlace,
           Outers, Current
    <3>2. WorkerPlace'
      BY <1>1, <2>1 DEF Reserve, Reply, broker, client, BrokerInv, TypeOK, WorkerPlace,
           LaunchShape, Reached, Current, Outers
    <3>3. LaunchShape'
      BY <1>1, <2>1 DEF Reserve, Reply, broker, client, BrokerInv, TypeOK, WorkerPlace,
           LaunchShape, Reached, Current, Outers
    <3>4. TokenShape'
      BY <1>1, <2>1 DEF Reserve, Reply, broker, client, BrokerInv, TypeOK, WorkerPlace,
           LaunchShape, TokenShape, Passed, Reached, Current, Outers
    <3>5. HonestNeverDenied'
      BY <1>1, <2>1 DEF Reserve, Reply, broker, client, BrokerInv, TypeOK, WorkerPlace,
           LaunchShape, HonestNeverDenied, Current, Outers
    <3>6. BudgetExact'
      BY <1>1, <2>1 DEF Reserve, Reply, broker, client, BrokerInv, BudgetExact,
           OnlyCurrentOuter, Charged
    <3> QED BY <3>1, <3>2, <3>3, <3>4, <3>5, <3>6 DEF BrokerInv
  <2>2. CASE Reply(s, "denied") /\ UNCHANGED broker
    \* The worker's own request has a scope of its outer that is not charged.
    <3>a. ~(worker = "asking" /\ s = Current)
      <4> SUFFICES ASSUME worker = "asking", s = Current PROVE FALSE
        OBVIOUS
      <4>1. s[1] = outer /\ s[2] = inner /\ launch[s] = "reserve"
        BY <1>1 DEF Reserve, Current
      <4>2. answer'[s] = "denied"
        BY <2>2 DEF Reply, BrokerInv, TypeOK
      <4>3. budget[outer] # None /\ (budget[outer] < 1 \/ s \in used)
        BY <1>1, <2>2, <4>1, <4>2 DEF Reserve, Reply, IsDescendant, BrokerInv, TypeOK
      <4>4. s \notin used /\ inner \in (1..Imax) \ Charged
        BY <4>1, ScopeParts DEF BrokerInv, LaunchShape, Charged, Current
      <4>5. Cardinality(Charged) \in Nat /\ Cardinality(Charged) < Imax
        BY <4>4, ChargedFinite
      <4>6. budget[outer] = Imax - Cardinality(Charged)
        BY <4>3 DEF BrokerInv, BudgetExact
      <4> QED BY <4>3, <4>4, <4>5, <4>6
    <3>1. TypeOK'
      BY <1>1, <2>2, <3>a DEF Reserve, Reply, broker, client, BrokerInv, TypeOK, WorkerPlace,
           Outers, Current
    <3>2. WorkerPlace'
      BY <1>1, <2>2, <3>a DEF Reserve, Reply, broker, client, BrokerInv, TypeOK, WorkerPlace,
           LaunchShape, Reached, Current, Outers
    <3>3. LaunchShape'
      BY <1>1, <2>2, <3>a DEF Reserve, Reply, broker, client, BrokerInv, TypeOK, WorkerPlace,
           LaunchShape, Reached, Current, Outers
    <3>4. TokenShape'
      BY <1>1, <2>2, <3>a DEF Reserve, Reply, broker, client, BrokerInv, TypeOK, WorkerPlace,
           LaunchShape, TokenShape, Passed, Reached, Current, Outers
    <3>5. HonestNeverDenied'
      BY <1>1, <2>2, <3>a DEF Reserve, Reply, broker, client, BrokerInv, TypeOK, WorkerPlace,
           LaunchShape, HonestNeverDenied, Current, Outers
    <3>6. BudgetExact'
      BY <1>1, <2>2, <3>a DEF Reserve, Reply, broker, client, BrokerInv, BudgetExact,
           OnlyCurrentOuter, Charged
    <3> QED BY <3>1, <3>2, <3>3, <3>4, <3>5, <3>6 DEF BrokerInv
  <2>3. CASE /\ budget[s[1]] # None /\ budget[s[1]] >= 1 /\ s \notin used
             /\ budget' = [budget EXCEPT ![s[1]] = @ - 1] /\ used' = used \cup {s}
             /\ launch' = [launch EXCEPT ![s] = "issue"] /\ UNCHANGED <<active, answer>>
    <3>1. TypeOK'
      BY <1>1, <2>3, ScopeParts DEF Reserve, client, BrokerInv, TypeOK, WorkerPlace, Outers,
           Current
    <3>2. WorkerPlace'
      BY <1>1, <2>3, ScopeParts DEF Reserve, client, BrokerInv, TypeOK, WorkerPlace,
           LaunchShape, Reached, Current, Outers
    <3>3. LaunchShape'
      BY <1>1, <2>3, ScopeParts DEF Reserve, client, BrokerInv, TypeOK, WorkerPlace,
           LaunchShape, Reached, Current, Outers
    <3>4. TokenShape'
      BY <1>1, <2>3, ScopeParts DEF Reserve, client, BrokerInv, TypeOK, WorkerPlace,
           LaunchShape, TokenShape, Passed, Reached, Current, Outers
    <3>5. HonestNeverDenied'
      BY <1>1, <2>3, ScopeParts DEF Reserve, client, BrokerInv, TypeOK, WorkerPlace,
           LaunchShape, HonestNeverDenied, Current, Outers
    <3>6. s[1] = outer /\ s[2] \in (1..Imax) \ Charged
      BY <2>3, ScopeParts DEF BrokerInv, BudgetExact, OnlyCurrentOuter, Charged
    <3>7. Charged' = Charged \cup {s[2]}
      BY <1>1, <2>3, <3>6, ScopeParts DEF Reserve, Charged
    <3>8. Cardinality(Charged') = Cardinality(Charged) + 1 /\ Cardinality(Charged) \in Nat
      BY <3>6, <3>7, ChargedFinite
    <3>9. budget'[outer] = budget[outer] - 1 /\ budget[outer] = Imax - Cardinality(Charged)
      BY <2>3, <3>6, ScopeParts DEF BrokerInv, BudgetExact, TypeOK
    <3>10. outer' = outer /\ driver' = driver /\ driver # "register"
      BY <1>1, <3>6, ScopeParts DEF Reserve, BrokerInv, LaunchShape, Reached, Outers
    <3>11. \A o \in Outers : budget'[o] # None => o = outer
      BY <2>3, <3>6 DEF BrokerInv, BudgetExact, OnlyCurrentOuter, TypeOK
    <3>12. OnlyCurrentOuter'
      BY <2>3, <3>6, <3>10, <3>11 DEF BrokerInv, BudgetExact, OnlyCurrentOuter
    <3>13. BudgetExact'
      BY <3>8, <3>9, <3>10, <3>12 DEF BudgetExact
    <3> QED BY <3>1, <3>2, <3>3, <3>4, <3>5, <3>13 DEF BrokerInv
  <2> QED BY <1>1, <2>1, <2>2, <2>3 DEF Reserve, BrokerInv, TypeOK
<1>2. CASE IssueToken(s)
  <2>1. TypeOK'
    BY <1>2 DEF IssueToken, broker, client, BrokerInv, TypeOK, WorkerPlace, Outers, Current
  <2>2. WorkerPlace'
    BY <1>2 DEF IssueToken, broker, client, BrokerInv, TypeOK, WorkerPlace, LaunchShape,
         Reached, Current, Outers
  <2>3. LaunchShape'
    BY <1>2 DEF IssueToken, broker, client, BrokerInv, TypeOK, WorkerPlace, LaunchShape,
         Reached, Current, Outers
  <2>4. TokenShape'
    BY <1>2 DEF IssueToken, broker, client, BrokerInv, TypeOK, WorkerPlace, LaunchShape,
         TokenShape, Passed, Reached, Current, Outers
  <2>5. HonestNeverDenied'
    BY <1>2 DEF IssueToken, broker, client, BrokerInv, TypeOK, WorkerPlace, LaunchShape,
         HonestNeverDenied, Current, Outers
  <2>6. BudgetExact'
    BY <1>2 DEF IssueToken, broker, client, BrokerInv, BudgetExact, OnlyCurrentOuter,
         Charged
  <2> QED BY <2>1, <2>2, <2>3, <2>4, <2>5, <2>6 DEF BrokerInv
<1>3. CASE IssueFails(s)
  <2>1. TypeOK'
    BY <1>3 DEF IssueFails, Reply, broker, client, BrokerInv, TypeOK, WorkerPlace, Outers,
         Current
  <2>2. WorkerPlace'
    BY <1>3 DEF IssueFails, Reply, broker, client, BrokerInv, TypeOK, WorkerPlace,
         LaunchShape, Reached, Current, Outers
  <2>3. LaunchShape'
    BY <1>3 DEF IssueFails, Reply, broker, client, BrokerInv, TypeOK, WorkerPlace,
         LaunchShape, Reached, Current, Outers
  <2>4. TokenShape'
    BY <1>3 DEF IssueFails, Reply, broker, client, BrokerInv, TypeOK, WorkerPlace,
         LaunchShape, TokenShape, Passed, Reached, Current, Outers
  <2>5. HonestNeverDenied'
    BY <1>3 DEF IssueFails, Reply, broker, client, BrokerInv, TypeOK, WorkerPlace,
         LaunchShape, HonestNeverDenied, Current, Outers
  <2>6. BudgetExact'
    BY <1>3 DEF IssueFails, Reply, broker, client, BrokerInv, BudgetExact, OnlyCurrentOuter,
         Charged
  <2> QED BY <2>1, <2>2, <2>3, <2>4, <2>5, <2>6 DEF BrokerInv
<1>4. CASE HarnessEnds(s)
  <2>1. TypeOK'
    BY <1>4 DEF HarnessEnds, broker, client, BrokerInv, TypeOK, WorkerPlace, Outers, Current
  <2>2. WorkerPlace'
    BY <1>4 DEF HarnessEnds, broker, client, BrokerInv, TypeOK, WorkerPlace, LaunchShape,
         Reached, Current, Outers
  <2>3. LaunchShape'
    BY <1>4 DEF HarnessEnds, broker, client, BrokerInv, TypeOK, WorkerPlace, LaunchShape,
         Reached, Current, Outers
  <2>4. TokenShape'
    BY <1>4 DEF HarnessEnds, broker, client, BrokerInv, TypeOK, WorkerPlace, LaunchShape,
         TokenShape, Passed, Reached, Current, Outers
  <2>5. HonestNeverDenied'
    BY <1>4 DEF HarnessEnds, broker, client, BrokerInv, TypeOK, WorkerPlace, LaunchShape,
         HonestNeverDenied, Current, Outers
  <2>6. BudgetExact'
    BY <1>4 DEF HarnessEnds, broker, client, BrokerInv, BudgetExact, OnlyCurrentOuter,
         Charged
  <2> QED BY <2>1, <2>2, <2>3, <2>4, <2>5, <2>6 DEF BrokerInv
<1>5. CASE RevokeAndReply(s)
  <2>1. TypeOK'
    BY <1>5 DEF RevokeAndReply, Reply, broker, client, BrokerInv, TypeOK, WorkerPlace,
         Outers, Current
  <2>2. WorkerPlace'
    BY <1>5 DEF RevokeAndReply, Reply, broker, client, BrokerInv, TypeOK, WorkerPlace,
         LaunchShape, Reached, Current, Outers
  <2>3. LaunchShape'
    BY <1>5 DEF RevokeAndReply, Reply, broker, client, BrokerInv, TypeOK, WorkerPlace,
         LaunchShape, Reached, Current, Outers
  <2>4. TokenShape'
    BY <1>5 DEF RevokeAndReply, Reply, broker, client, BrokerInv, TypeOK, WorkerPlace,
         LaunchShape, TokenShape, Passed, Reached, Current, Outers
  <2>5. HonestNeverDenied'
    BY <1>5 DEF RevokeAndReply, Reply, broker, client, BrokerInv, TypeOK, WorkerPlace,
         LaunchShape, HonestNeverDenied, Current, Outers
  <2>6. BudgetExact'
    BY <1>5 DEF RevokeAndReply, Reply, broker, client, BrokerInv, BudgetExact,
         OnlyCurrentOuter, Charged
  <2> QED BY <2>1, <2>2, <2>3, <2>4, <2>5, <2>6 DEF BrokerInv
<1>6. CASE RevokeFails(s)
  <2>1. TypeOK'
    BY <1>6 DEF RevokeFails, Reply, broker, client, BrokerInv, TypeOK, WorkerPlace, Outers,
         Current
  <2>2. WorkerPlace'
    BY <1>6 DEF RevokeFails, Reply, broker, client, BrokerInv, TypeOK, WorkerPlace,
         LaunchShape, Reached, Current, Outers
  <2>3. LaunchShape'
    BY <1>6 DEF RevokeFails, Reply, broker, client, BrokerInv, TypeOK, WorkerPlace,
         LaunchShape, Reached, Current, Outers
  <2>4. TokenShape'
    BY <1>6 DEF RevokeFails, Reply, broker, client, BrokerInv, TypeOK, WorkerPlace,
         LaunchShape, TokenShape, Passed, Reached, Current, Outers
  <2>5. HonestNeverDenied'
    BY <1>6 DEF RevokeFails, Reply, broker, client, BrokerInv, TypeOK, WorkerPlace,
         LaunchShape, HonestNeverDenied, Current, Outers
  <2>6. BudgetExact'
    BY <1>6 DEF RevokeFails, Reply, broker, client, BrokerInv, BudgetExact,
         OnlyCurrentOuter, Charged
  <2> QED BY <2>1, <2>2, <2>3, <2>4, <2>5, <2>6 DEF BrokerInv
<1>7. CASE TokenExpires(s)
  <2>1. TypeOK'
    BY <1>7 DEF TokenExpires, broker, client, BrokerInv, TypeOK, WorkerPlace, Outers,
         Current
  <2>2. WorkerPlace'
    BY <1>7 DEF TokenExpires, broker, client, BrokerInv, TypeOK, WorkerPlace, LaunchShape,
         Reached, Current, Outers
  <2>3. LaunchShape'
    BY <1>7 DEF TokenExpires, broker, client, BrokerInv, TypeOK, WorkerPlace, LaunchShape,
         Reached, Current, Outers
  <2>4. TokenShape'
    BY <1>7 DEF TokenExpires, broker, client, BrokerInv, TypeOK, WorkerPlace, LaunchShape,
         TokenShape, Passed, Reached, Current, Outers
  <2>5. HonestNeverDenied'
    BY <1>7 DEF TokenExpires, broker, client, BrokerInv, TypeOK, WorkerPlace, LaunchShape,
         HonestNeverDenied, Current, Outers
  <2>6. BudgetExact'
    BY <1>7 DEF TokenExpires, broker, client, BrokerInv, BudgetExact, OnlyCurrentOuter,
         Charged
  <2> QED BY <2>1, <2>2, <2>3, <2>4, <2>5, <2>6 DEF BrokerInv
<1> QED BY <1>1, <1>2, <1>3, <1>4, <1>5, <1>6, <1>7 DEF HandlerStep

\* Every step keeps the invariant.
LEMMA BrokerNext == BrokerInv /\ [Next]_vars => BrokerInv'
<1> SUFFICES ASSUME BrokerInv, [Next]_vars PROVE BrokerInv'
  OBVIOUS
<1>1. CASE UNCHANGED vars
  BY <1>1 DEF vars, broker, threads, client, BrokerInv, TypeOK, WorkerPlace, LaunchShape,
       BudgetExact, TokenShape, HonestNeverDenied, OnlyCurrentOuter, Charged, Reached, Passed, Current
<1> QED BY <1>1, BrokerDriver, BrokerWorker, BrokerHandler DEF Next

\* For any number of outers, generations, attempts and slots, and with any faults
\* of the proxy, the broker never denies the worker it serves, however often it
\* retried and whatever its earlier launches do, and serves no other outer.
THEOREM BrokerServes == Spec => []LaunchesSound
<1>1. BrokerInv => LaunchesSound
  BY DEF BrokerInv, BudgetExact, LaunchesSound
<1> QED BY <1>1, BrokerInit, BrokerNext, PTL DEF Spec

\* And a worker that has a generation's return code knows that the capability of
\* that generation is dead: the answer is sent after the revoke.
THEOREM RevokedBeforeReported == Spec => []ReportedIsRevoked
<1>1. BrokerInv => ReportedIsRevoked
  BY DEF BrokerInv, TokenShape, ReportedIsRevoked
<1> QED BY <1>1, BrokerInit, BrokerNext, PTL DEF Spec
-----------------------------------------------------------------------------
(***************************************************************************)
(* The books of the proxy are counts of handlers by their step.  The       *)
(* invariant adds to them what a handler carries at each of its steps and  *)
(* the counts that bound the audit: a connection writes at most one record *)
(* and sends at most one call.                                             *)
(***************************************************************************)
Budgeted(t)  == At(t, {"body", "enter", "send"})
Counted(t)   == At(t, {"send", "wait", "release"})
Unaudited(t) == At(t, {"wait", "release", "audit"})
Open == {c \in Conns : pc[c] \notin {"new", "closed"}}
Sent == {c \in Conns : pc[c] \in {"wait", "release", "audit", "finish", "closed"}}
Over == {c \in Conns : pc[c] \in {"finish", "closed"}}

Types ==
    /\ status \in [Tokens -> {"none", "live", "revoked"}]
    /\ expired \subseteq TaskTokens
    /\ remaining \in [TaskTokens -> Nat]
    /\ inflight \in [Tokens -> 0..MaxInflight]
    /\ slots \in Nat
    /\ pc \in [Conns -> Steps] /\ bearer \in [Conns -> Tokens \cup {Absent}]
    /\ result \in [Conns -> Outcomes \cup {Absent}]
    /\ audit \in [Tokens -> [Kinds -> Nat]] /\ calls \in [Tokens -> Nat]
    /\ server \in {"open", "closed", "exited"}

Carried ==
    \A c \in Conns :
        /\ pc[c] \in {"body", "enter", "send", "wait", "release", "audit"} => bearer[c] \in Tokens
        /\ pc[c] \in {"release", "audit"} => result[c] \in Outcomes

Accounted ==
    \A t \in Tokens :
        calls[t] = audit[t]["ok"] + audit[t]["failed"] + Cardinality(Unaudited(t))

AuditBounded ==
    \A t \in Tokens :
        /\ calls[t] <= Cardinality(Sent)
        /\ \A k \in Kinds : audit[t][k] <= Cardinality(Over)

ProxyInv ==
    /\ Types /\ Carried
    /\ CallBudget /\ InflightExact /\ SlotsConserved /\ Accounted /\ AuditBounded

-----------------------------------------------------------------------------
\* Two sets of connections that differ in c only.
LEMMA CountMoves ==
    ASSUME NEW A \in SUBSET Conns, NEW B \in SUBSET Conns, NEW c \in Conns, A \ {c} = B \ {c}
    PROVE  /\ Cardinality(A) \in Nat /\ Cardinality(B) \in Nat
           /\ Cardinality(B) = Cardinality(A) + (IF c \in B THEN 1 ELSE 0)
                                              - (IF c \in A THEN 1 ELSE 0)
<1>1. IsFiniteSet(A) /\ IsFiniteSet(B)
  BY ProxyAssumption, FS_Subset
<1>2. Cardinality(A) \in Nat /\ Cardinality(B) \in Nat
  BY <1>1, FS_CardinalityType
<1>3. Cardinality(A \ {c}) = IF c \in A THEN Cardinality(A) - 1 ELSE Cardinality(A)
  BY <1>1, FS_RemoveElement
<1>4. Cardinality(B \ {c}) = IF c \in B THEN Cardinality(B) - 1 ELSE Cardinality(B)
  BY <1>1, FS_RemoveElement
<1> QED BY <1>2, <1>3, <1>4

\* What a handler's step does to the handlers of a token at the steps S.
LEMMA AtMoves ==
    ASSUME NEW c \in Conns, NEW q \in Steps, NEW t \in Tokens, NEW S, Types, Goto(c, q),
           \A d \in Conns \ {c} : bearer'[d] = bearer[d]
    PROVE  /\ Cardinality(At(t, S)) \in Nat /\ Cardinality(At(t, S)') \in Nat
           /\ Cardinality(At(t, S)') =
                Cardinality(At(t, S)) + (IF bearer'[c] = t /\ q \in S THEN 1 ELSE 0)
                                      - (IF bearer[c] = t /\ pc[c] \in S THEN 1 ELSE 0)
<1>1. pc'[c] = q /\ \A d \in Conns \ {c} : pc'[d] = pc[d]
  BY DEF Goto, Types
<1>2. At(t, S) \in SUBSET Conns /\ At(t, S)' \in SUBSET Conns
  BY DEF At
<1>3. At(t, S) \ {c} = At(t, S)' \ {c}
  BY <1>1 DEF At
<1>4. (c \in At(t, S) <=> bearer[c] = t /\ pc[c] \in S) /\ (c \in At(t, S)' <=> bearer'[c] = t /\ q \in S)
  BY <1>1 DEF At
<1> HIDE DEF At
<1> QED BY <1>2, <1>3, <1>4, CountMoves

\* The same for the counts that do not depend on a token.
LEMMA OpenMoves ==
    ASSUME NEW c \in Conns, NEW q \in Steps, Types, Goto(c, q)
    PROVE  /\ Cardinality(Open) \in Nat /\ Cardinality(Open') \in Nat
           /\ Cardinality(Open') = Cardinality(Open)
                + (IF q \in {"new", "closed"} THEN 0 ELSE 1)
                - (IF pc[c] \in {"new", "closed"} THEN 0 ELSE 1)
           /\ Cardinality(Sent) \in Nat /\ Cardinality(Sent') \in Nat
           /\ Cardinality(Sent') = Cardinality(Sent)
                + (IF q \in {"wait", "release", "audit", "finish", "closed"} THEN 1 ELSE 0)
                - (IF pc[c] \in {"wait", "release", "audit", "finish", "closed"} THEN 1 ELSE 0)
           /\ Cardinality(Over) \in Nat /\ Cardinality(Over') \in Nat
           /\ Cardinality(Over') = Cardinality(Over)
                + (IF q \in {"finish", "closed"} THEN 1 ELSE 0)
                - (IF pc[c] \in {"finish", "closed"} THEN 1 ELSE 0)
<1>1. pc'[c] = q /\ \A d \in Conns \ {c} : pc'[d] = pc[d]
  BY DEF Goto, Types
<1>2. /\ Open \in SUBSET Conns /\ Open' \in SUBSET Conns /\ Open \ {c} = Open' \ {c}
      /\ (c \in Open <=> pc[c] \notin {"new", "closed"})
      /\ (c \in Open' <=> q \notin {"new", "closed"})
  BY <1>1 DEF Open
<1>3. /\ Sent \in SUBSET Conns /\ Sent' \in SUBSET Conns /\ Sent \ {c} = Sent' \ {c}
      /\ (c \in Sent <=> pc[c] \in {"wait", "release", "audit", "finish", "closed"})
      /\ (c \in Sent' <=> q \in {"wait", "release", "audit", "finish", "closed"})
  BY <1>1 DEF Sent
<1>4. /\ Over \in SUBSET Conns /\ Over' \in SUBSET Conns /\ Over \ {c} = Over' \ {c}
      /\ (c \in Over <=> pc[c] \in {"finish", "closed"})
      /\ (c \in Over' <=> q \in {"finish", "closed"})
  BY <1>1 DEF Over
<1>5. /\ Cardinality(Open) \in Nat /\ Cardinality(Open') \in Nat
      /\ Cardinality(Open') = Cardinality(Open) + (IF c \in Open' THEN 1 ELSE 0)
                                                - (IF c \in Open THEN 1 ELSE 0)
  BY <1>2, CountMoves
<1>6. /\ Cardinality(Sent) \in Nat /\ Cardinality(Sent') \in Nat
      /\ Cardinality(Sent') = Cardinality(Sent) + (IF c \in Sent' THEN 1 ELSE 0)
                                                - (IF c \in Sent THEN 1 ELSE 0)
  BY <1>3, CountMoves
<1>7. /\ Cardinality(Over) \in Nat /\ Cardinality(Over') \in Nat
      /\ Cardinality(Over') = Cardinality(Over) + (IF c \in Over' THEN 1 ELSE 0)
                                                - (IF c \in Over THEN 1 ELSE 0)
  BY <1>4, CountMoves
<1> QED BY <1>2, <1>3, <1>4, <1>5, <1>6, <1>7

\* The three counts of a token, by the step the handler goes to.
LEMMA TokenMoves ==
    ASSUME NEW c \in Conns, NEW q \in Steps, NEW t \in Tokens, Types, Goto(c, q),
           \A d \in Conns \ {c} : bearer'[d] = bearer[d]
    PROVE  /\ Cardinality(Budgeted(t)) \in Nat /\ Cardinality(Budgeted(t)') \in Nat
           /\ Cardinality(Budgeted(t)') = Cardinality(Budgeted(t))
                + (IF bearer'[c] = t /\ q \in {"body", "enter", "send"} THEN 1 ELSE 0)
                - (IF bearer[c] = t /\ pc[c] \in {"body", "enter", "send"} THEN 1 ELSE 0)
           /\ Cardinality(Counted(t)) \in Nat /\ Cardinality(Counted(t)') \in Nat
           /\ Cardinality(Counted(t)') = Cardinality(Counted(t))
                + (IF bearer'[c] = t /\ q \in {"send", "wait", "release"} THEN 1 ELSE 0)
                - (IF bearer[c] = t /\ pc[c] \in {"send", "wait", "release"} THEN 1 ELSE 0)
           /\ Cardinality(Unaudited(t)) \in Nat /\ Cardinality(Unaudited(t)') \in Nat
           /\ Cardinality(Unaudited(t)') = Cardinality(Unaudited(t))
                + (IF bearer'[c] = t /\ q \in {"wait", "release", "audit"} THEN 1 ELSE 0)
                - (IF bearer[c] = t /\ pc[c] \in {"wait", "release", "audit"} THEN 1 ELSE 0)
<1>1. /\ Cardinality(Budgeted(t)) \in Nat /\ Cardinality(Budgeted(t)') \in Nat
      /\ Cardinality(Budgeted(t)') = Cardinality(Budgeted(t))
           + (IF bearer'[c] = t /\ q \in {"body", "enter", "send"} THEN 1 ELSE 0)
           - (IF bearer[c] = t /\ pc[c] \in {"body", "enter", "send"} THEN 1 ELSE 0)
  BY AtMoves DEF Budgeted
<1>2. /\ Cardinality(Counted(t)) \in Nat /\ Cardinality(Counted(t)') \in Nat
      /\ Cardinality(Counted(t)') = Cardinality(Counted(t))
           + (IF bearer'[c] = t /\ q \in {"send", "wait", "release"} THEN 1 ELSE 0)
           - (IF bearer[c] = t /\ pc[c] \in {"send", "wait", "release"} THEN 1 ELSE 0)
  BY AtMoves DEF Counted
<1>3. /\ Cardinality(Unaudited(t)) \in Nat /\ Cardinality(Unaudited(t)') \in Nat
      /\ Cardinality(Unaudited(t)') = Cardinality(Unaudited(t))
           + (IF bearer'[c] = t /\ q \in {"wait", "release", "audit"} THEN 1 ELSE 0)
           - (IF bearer[c] = t /\ pc[c] \in {"wait", "release", "audit"} THEN 1 ELSE 0)
  BY AtMoves DEF Unaudited
<1> QED BY <1>1, <1>2, <1>3

\* The steps of a connection and its handler keep the books.
LEMMA ProxyHandler ==
    ASSUME ProxyInv, NEW c \in Conns, Connect(c) \/ ConnStep(c)
    PROVE  ProxyInv'
<1>1. CASE Connect(c)
  <2>1. CASE slots > 0
    <3>1. Types' /\ Carried'
      BY <1>1, <2>1 DEF Connect, Record, Goto, Running, ProxyInv, Types, Carried, Steps,
           Kinds, Outcomes, HasBudget, handlers, scopes
    <3>2. Goto(c, "headers") /\ "headers" \in Steps /\ pc[c] = "new" /\ bearer' = bearer
      BY <1>1, <2>1 DEF Connect, ProxyInv, Types, Steps, handlers
    <3>3. \A t \in Tokens :
           /\ Cardinality(Budgeted(t)') = Cardinality(Budgeted(t))
           /\ Cardinality(Budgeted(t)) \in Nat
           /\ Cardinality(Counted(t)') = Cardinality(Counted(t))
           /\ Cardinality(Counted(t)) \in Nat
           /\ Cardinality(Unaudited(t)') = Cardinality(Unaudited(t))
           /\ Cardinality(Unaudited(t)) \in Nat
      BY <3>2, TokenMoves DEF ProxyInv
    <3>4. /\ Cardinality(Open') = Cardinality(Open) + 1 /\ Cardinality(Open) \in Nat
         /\ Cardinality(Sent') = Cardinality(Sent) /\ Cardinality(Sent) \in Nat
         /\ Cardinality(Over') = Cardinality(Over) /\ Cardinality(Over) \in Nat
      BY <3>2, OpenMoves DEF ProxyInv
    <3>5. CallBudget'
      BY <1>1, <2>1, <3>3, ProxyAssumption DEF Connect, Running, ProxyInv, Types, Carried,
           CallBudget, Budgeted, HasBudget, scopes, handlers
    <3>6. InflightExact'
      BY <1>1, <2>1, <3>3 DEF Connect, ProxyInv, Types, Carried, InflightExact, Counted
    <3>7. SlotsConserved'
      BY <1>1, <2>1, <3>4 DEF Connect, ProxyInv, Types, SlotsConserved, Open
    <3>8. Accounted'
      BY <1>1, <2>1, <3>3 DEF Connect, Record, ProxyInv, Types, Carried, Accounted, Kinds,
           Outcomes
    <3>9. AuditBounded'
      BY <1>1, <2>1, <3>4 DEF Connect, Record, ProxyInv, Types, Carried, AuditBounded,
           Kinds, Outcomes
    <3> QED BY <3>1, <3>5, <3>6, <3>7, <3>8, <3>9 DEF ProxyInv
  <2>2. CASE ~(slots > 0)
    <3>1. Types' /\ Carried'
      BY <1>1, <2>2 DEF Connect, Record, Goto, Running, ProxyInv, Types, Carried, Steps,
           Kinds, Outcomes, HasBudget, handlers, scopes
    <3>2. Goto(c, "closed") /\ "closed" \in Steps /\ pc[c] = "new" /\ bearer' = bearer
      BY <1>1, <2>2 DEF Connect, ProxyInv, Types, Steps, handlers
    <3>3. \A t \in Tokens :
           /\ Cardinality(Budgeted(t)') = Cardinality(Budgeted(t))
           /\ Cardinality(Budgeted(t)) \in Nat
           /\ Cardinality(Counted(t)') = Cardinality(Counted(t))
           /\ Cardinality(Counted(t)) \in Nat
           /\ Cardinality(Unaudited(t)') = Cardinality(Unaudited(t))
           /\ Cardinality(Unaudited(t)) \in Nat
      BY <3>2, TokenMoves DEF ProxyInv
    <3>4. /\ Cardinality(Open') = Cardinality(Open) /\ Cardinality(Open) \in Nat
         /\ Cardinality(Sent') = Cardinality(Sent) + 1 /\ Cardinality(Sent) \in Nat
         /\ Cardinality(Over') = Cardinality(Over) + 1 /\ Cardinality(Over) \in Nat
      BY <3>2, OpenMoves DEF ProxyInv
    <3>5. CallBudget'
      BY <1>1, <2>2, <3>3, ProxyAssumption DEF Connect, Running, ProxyInv, Types, Carried,
           CallBudget, Budgeted, HasBudget, scopes, handlers
    <3>6. InflightExact'
      BY <1>1, <2>2, <3>3 DEF Connect, ProxyInv, Types, Carried, InflightExact, Counted
    <3>7. SlotsConserved'
      BY <1>1, <2>2, <3>4 DEF Connect, ProxyInv, Types, SlotsConserved, Open
    <3>8. Accounted'
      BY <1>1, <2>2, <3>3 DEF Connect, Record, ProxyInv, Types, Carried, Accounted, Kinds,
           Outcomes
    <3>9. AuditBounded'
      BY <1>1, <2>2, <3>4 DEF Connect, Record, ProxyInv, Types, Carried, AuditBounded,
           Kinds, Outcomes
    <3> QED BY <3>1, <3>5, <3>6, <3>7, <3>8, <3>9 DEF ProxyInv
  <2> QED BY <2>1, <2>2
<1>2. CASE DropConnection(c)
  <2>1. Types' /\ Carried'
    BY <1>2 DEF DropConnection, Record, Goto, Running, ProxyInv, Types, Carried, Steps,
         Kinds, Outcomes, HasBudget, handlers, scopes
  <2>2. Goto(c, "finish") /\ "finish" \in Steps /\ pc[c] = "headers" /\ bearer' = bearer
    BY <1>2 DEF DropConnection, ProxyInv, Types, Steps, handlers
  <2>3. \A t \in Tokens :
         /\ Cardinality(Budgeted(t)') = Cardinality(Budgeted(t))
         /\ Cardinality(Budgeted(t)) \in Nat
         /\ Cardinality(Counted(t)') = Cardinality(Counted(t))
         /\ Cardinality(Counted(t)) \in Nat
         /\ Cardinality(Unaudited(t)') = Cardinality(Unaudited(t))
         /\ Cardinality(Unaudited(t)) \in Nat
    BY <2>2, TokenMoves DEF ProxyInv
  <2>4. /\ Cardinality(Open') = Cardinality(Open) /\ Cardinality(Open) \in Nat
       /\ Cardinality(Sent') = Cardinality(Sent) + 1 /\ Cardinality(Sent) \in Nat
       /\ Cardinality(Over') = Cardinality(Over) + 1 /\ Cardinality(Over) \in Nat
    BY <2>2, OpenMoves DEF ProxyInv
  <2>5. CallBudget'
    BY <1>2, <2>3, ProxyAssumption DEF DropConnection, Running, ProxyInv, Types, Carried,
         CallBudget, Budgeted, HasBudget, scopes, handlers
  <2>6. InflightExact'
    BY <1>2, <2>3 DEF DropConnection, ProxyInv, Types, Carried, InflightExact, Counted
  <2>7. SlotsConserved'
    BY <1>2, <2>4 DEF DropConnection, ProxyInv, Types, SlotsConserved, Open
  <2>8. Accounted'
    BY <1>2, <2>3 DEF DropConnection, Record, ProxyInv, Types, Carried, Accounted, Kinds,
         Outcomes
  <2>9. AuditBounded'
    BY <1>2, <2>4 DEF DropConnection, Record, ProxyInv, Types, Carried, AuditBounded, Kinds,
         Outcomes
  <2> QED BY <2>1, <2>5, <2>6, <2>7, <2>8, <2>9 DEF ProxyInv
<1>3. ASSUME NEW u \in Tokens, Authorize(c, u) PROVE ProxyInv'
  <2>1. Types' /\ Carried'
    BY <1>3 DEF Authorize, Record, Goto, Running, ProxyInv, Types, Carried, Steps, Kinds,
         Outcomes, HasBudget, handlers, scopes
  <2>2. Goto(c, "body") /\ "body" \in Steps /\ pc[c] = "headers" /\ \A d \in Conns \ {c} : bearer'[d] = bearer[d]
    BY <1>3 DEF Authorize, ProxyInv, Types, Steps, handlers
  <2>3. \A t \in Tokens :
         /\ Cardinality(Budgeted(t)') = Cardinality(Budgeted(t)) + (IF bearer'[c] = t THEN 1 ELSE 0)
         /\ Cardinality(Budgeted(t)) \in Nat
         /\ Cardinality(Counted(t)') = Cardinality(Counted(t))
         /\ Cardinality(Counted(t)) \in Nat
         /\ Cardinality(Unaudited(t)') = Cardinality(Unaudited(t))
         /\ Cardinality(Unaudited(t)) \in Nat
    BY <2>2, TokenMoves DEF ProxyInv
  <2>4. /\ Cardinality(Open') = Cardinality(Open) /\ Cardinality(Open) \in Nat
       /\ Cardinality(Sent') = Cardinality(Sent) /\ Cardinality(Sent) \in Nat
       /\ Cardinality(Over') = Cardinality(Over) /\ Cardinality(Over) \in Nat
    BY <2>2, OpenMoves DEF ProxyInv
  <2>5. CallBudget'
    BY <1>3, <2>3, ProxyAssumption DEF Authorize, Running, ProxyInv, Types, Carried,
         CallBudget, Budgeted, HasBudget, scopes, handlers
  <2>6. InflightExact'
    BY <1>3, <2>3 DEF Authorize, ProxyInv, Types, Carried, InflightExact, Counted
  <2>7. SlotsConserved'
    BY <1>3, <2>4 DEF Authorize, ProxyInv, Types, SlotsConserved, Open
  <2>8. Accounted'
    BY <1>3, <2>3 DEF Authorize, Record, ProxyInv, Types, Carried, Accounted, Kinds,
         Outcomes
  <2>9. AuditBounded'
    BY <1>3, <2>4 DEF Authorize, Record, ProxyInv, Types, Carried, AuditBounded, Kinds,
         Outcomes
  <2> QED BY <2>1, <2>5, <2>6, <2>7, <2>8, <2>9 DEF ProxyInv
<1>4. ASSUME NEW u \in Tokens, Deny(c, u) PROVE ProxyInv'
  <2>1. Types' /\ Carried'
    BY <1>4 DEF Deny, Record, Goto, Running, ProxyInv, Types, Carried, Steps, Kinds,
         Outcomes, HasBudget, handlers, scopes
  <2>2. Goto(c, "finish") /\ "finish" \in Steps /\ pc[c] = "headers" /\ bearer' = bearer
    BY <1>4 DEF Deny, ProxyInv, Types, Steps, handlers
  <2>3. \A t \in Tokens :
         /\ Cardinality(Budgeted(t)') = Cardinality(Budgeted(t))
         /\ Cardinality(Budgeted(t)) \in Nat
         /\ Cardinality(Counted(t)') = Cardinality(Counted(t))
         /\ Cardinality(Counted(t)) \in Nat
         /\ Cardinality(Unaudited(t)') = Cardinality(Unaudited(t))
         /\ Cardinality(Unaudited(t)) \in Nat
    BY <2>2, TokenMoves DEF ProxyInv
  <2>4. /\ Cardinality(Open') = Cardinality(Open) /\ Cardinality(Open) \in Nat
       /\ Cardinality(Sent') = Cardinality(Sent) + 1 /\ Cardinality(Sent) \in Nat
       /\ Cardinality(Over') = Cardinality(Over) + 1 /\ Cardinality(Over) \in Nat
    BY <2>2, OpenMoves DEF ProxyInv
  <2>5. CallBudget'
    BY <1>4, <2>3, ProxyAssumption DEF Deny, Running, ProxyInv, Types, Carried, CallBudget,
         Budgeted, HasBudget, scopes, handlers
  <2>6. InflightExact'
    BY <1>4, <2>3 DEF Deny, ProxyInv, Types, Carried, InflightExact, Counted
  <2>7. SlotsConserved'
    BY <1>4, <2>4 DEF Deny, ProxyInv, Types, SlotsConserved, Open
  <2>8. Accounted'
    BY <1>4, <2>3 DEF Deny, Record, ProxyInv, Types, Carried, Accounted, Kinds, Outcomes
  <2>9. AuditBounded'
    BY <1>4, <2>4 DEF Deny, Record, ProxyInv, Types, Carried, AuditBounded, Kinds, Outcomes
  <2> QED BY <2>1, <2>5, <2>6, <2>7, <2>8, <2>9 DEF ProxyInv
<1>5. CASE RefuseBody(c)
  <2>1. Types' /\ Carried'
    BY <1>5 DEF RefuseBody, Record, Goto, Running, ProxyInv, Types, Carried, Steps, Kinds,
         Outcomes, HasBudget, handlers, scopes
  <2>2. Goto(c, "finish") /\ "finish" \in Steps /\ pc[c] = "body" /\ bearer' = bearer
    BY <1>5 DEF RefuseBody, ProxyInv, Types, Steps, handlers
  <2>3. \A t \in Tokens :
         /\ Cardinality(Budgeted(t)') = Cardinality(Budgeted(t)) - (IF bearer[c] = t THEN 1 ELSE 0)
         /\ Cardinality(Budgeted(t)) \in Nat /\ Cardinality(Budgeted(t)') \in Nat
         /\ Cardinality(Counted(t)') = Cardinality(Counted(t))
         /\ Cardinality(Counted(t)) \in Nat
         /\ Cardinality(Unaudited(t)') = Cardinality(Unaudited(t))
         /\ Cardinality(Unaudited(t)) \in Nat
    BY <2>2, TokenMoves DEF ProxyInv
  <2>4. /\ Cardinality(Open') = Cardinality(Open) /\ Cardinality(Open) \in Nat
       /\ Cardinality(Sent') = Cardinality(Sent) + 1 /\ Cardinality(Sent) \in Nat
       /\ Cardinality(Over') = Cardinality(Over) + 1 /\ Cardinality(Over) \in Nat
    BY <2>2, OpenMoves DEF ProxyInv
  <2>5. CallBudget'
    BY <1>5, <2>3, ProxyAssumption DEF RefuseBody, Running, ProxyInv, Types, Carried,
         CallBudget, Budgeted, HasBudget, scopes, handlers
  <2>6. InflightExact'
    BY <1>5, <2>3 DEF RefuseBody, ProxyInv, Types, Carried, InflightExact, Counted
  <2>7. SlotsConserved'
    BY <1>5, <2>4 DEF RefuseBody, ProxyInv, Types, SlotsConserved, Open
  <2>8. Accounted'
    BY <1>5, <2>3 DEF RefuseBody, Record, ProxyInv, Types, Carried, Accounted, Kinds,
         Outcomes
  <2>9. AuditBounded'
    BY <1>5, <2>4 DEF RefuseBody, Record, ProxyInv, Types, Carried, AuditBounded, Kinds,
         Outcomes
  <2> QED BY <2>1, <2>5, <2>6, <2>7, <2>8, <2>9 DEF ProxyInv
<1>6. CASE AcceptBody(c)
  <2>1. Types' /\ Carried'
    BY <1>6 DEF AcceptBody, Record, Goto, Running, ProxyInv, Types, Carried, Steps, Kinds,
         Outcomes, HasBudget, handlers, scopes
  <2>2. Goto(c, "enter") /\ "enter" \in Steps /\ pc[c] = "body" /\ bearer' = bearer
    BY <1>6 DEF AcceptBody, ProxyInv, Types, Steps, handlers
  <2>3. \A t \in Tokens :
         /\ Cardinality(Budgeted(t)') = Cardinality(Budgeted(t))
         /\ Cardinality(Budgeted(t)) \in Nat
         /\ Cardinality(Counted(t)') = Cardinality(Counted(t))
         /\ Cardinality(Counted(t)) \in Nat
         /\ Cardinality(Unaudited(t)') = Cardinality(Unaudited(t))
         /\ Cardinality(Unaudited(t)) \in Nat
    BY <2>2, TokenMoves DEF ProxyInv
  <2>4. /\ Cardinality(Open') = Cardinality(Open) /\ Cardinality(Open) \in Nat
       /\ Cardinality(Sent') = Cardinality(Sent) /\ Cardinality(Sent) \in Nat
       /\ Cardinality(Over') = Cardinality(Over) /\ Cardinality(Over) \in Nat
    BY <2>2, OpenMoves DEF ProxyInv
  <2>5. CallBudget'
    BY <1>6, <2>3, ProxyAssumption DEF AcceptBody, Running, ProxyInv, Types, Carried,
         CallBudget, Budgeted, HasBudget, scopes, handlers
  <2>6. InflightExact'
    BY <1>6, <2>3 DEF AcceptBody, ProxyInv, Types, Carried, InflightExact, Counted
  <2>7. SlotsConserved'
    BY <1>6, <2>4 DEF AcceptBody, ProxyInv, Types, SlotsConserved, Open
  <2>8. Accounted'
    BY <1>6, <2>3 DEF AcceptBody, Record, ProxyInv, Types, Carried, Accounted, Kinds,
         Outcomes
  <2>9. AuditBounded'
    BY <1>6, <2>4 DEF AcceptBody, Record, ProxyInv, Types, Carried, AuditBounded, Kinds,
         Outcomes
  <2> QED BY <2>1, <2>5, <2>6, <2>7, <2>8, <2>9 DEF ProxyInv
<1>7. CASE EnterInflight(c)
  <2>1. CASE inflight[bearer[c]] >= MaxInflight
    <3>a. bearer[c] \in Tokens
      BY <1>7, <2>1 DEF EnterInflight, ProxyInv, Carried
    <3>b. UNCHANGED inflight /\ Record(bearer[c], "limit")
      BY <1>7, <2>1 DEF EnterInflight
    <3>c. audit' \in [Tokens -> [Kinds -> Nat]]
      <4>1. audit[bearer[c]] \in [Kinds -> Nat] /\ "limit" \in Kinds
        BY <3>a DEF ProxyInv, Types, Kinds
      <4>2. [audit[bearer[c]] EXCEPT !["limit"] = @ + 1] \in [Kinds -> Nat]
        BY <4>1
      <4> QED BY <3>a, <3>b, <4>1, <4>2 DEF Record, ProxyInv, Types
    <3>1. Types' /\ Carried'
      BY <1>7, <2>1, <3>a, <3>b, <3>c DEF EnterInflight, Goto, ProxyInv, Types, Carried,
           Steps, scopes
    <3>2. Goto(c, "finish") /\ "finish" \in Steps /\ pc[c] = "enter" /\ bearer' = bearer
      BY <1>7, <2>1, <3>a, <3>b DEF EnterInflight, ProxyInv, Types, Steps, handlers
    <3>3. \A t \in Tokens :
           /\ Cardinality(Budgeted(t)') = Cardinality(Budgeted(t)) - (IF bearer[c] = t THEN 1 ELSE 0)
           /\ Cardinality(Budgeted(t)) \in Nat /\ Cardinality(Budgeted(t)') \in Nat
           /\ Cardinality(Counted(t)') = Cardinality(Counted(t))
           /\ Cardinality(Counted(t)) \in Nat
           /\ Cardinality(Unaudited(t)') = Cardinality(Unaudited(t))
           /\ Cardinality(Unaudited(t)) \in Nat
      BY <3>2, TokenMoves DEF ProxyInv
    <3>4. /\ Cardinality(Open') = Cardinality(Open) /\ Cardinality(Open) \in Nat
         /\ Cardinality(Sent') = Cardinality(Sent) + 1 /\ Cardinality(Sent) \in Nat
         /\ Cardinality(Over') = Cardinality(Over) + 1 /\ Cardinality(Over) \in Nat
      BY <3>2, OpenMoves DEF ProxyInv
    <3>5. CallBudget'
      BY <1>7, <2>1, <3>a, <3>b, <3>3, ProxyAssumption DEF EnterInflight, Running, ProxyInv,
           Types, Carried, CallBudget, Budgeted, HasBudget, scopes, handlers
    <3>6. InflightExact'
      BY <1>7, <2>1, <3>a, <3>b, <3>3 DEF EnterInflight, ProxyInv, Types, Carried,
           InflightExact, Counted
    <3>7. SlotsConserved'
      BY <1>7, <2>1, <3>a, <3>b, <3>4 DEF EnterInflight, ProxyInv, Types, SlotsConserved,
           Open
    <3>8. Accounted'
      BY <1>7, <2>1, <3>a, <3>b, <3>3 DEF EnterInflight, Record, ProxyInv, Types, Carried,
           Accounted, Kinds, Outcomes
    <3>9. AuditBounded'
      BY <1>7, <2>1, <3>a, <3>b, <3>4 DEF EnterInflight, Record, ProxyInv, Types, Carried,
           AuditBounded, Kinds, Outcomes
    <3> QED BY <3>1, <3>5, <3>6, <3>7, <3>8, <3>9 DEF ProxyInv
  <2>2. CASE ~(inflight[bearer[c]] >= MaxInflight)
    <3>a. bearer[c] \in Tokens
      BY <1>7, <2>2 DEF EnterInflight, ProxyInv, Carried
    <3>b. UNCHANGED audit /\ inflight' = [inflight EXCEPT ![bearer[c]] = inflight[bearer[c]] + 1]
      BY <1>7, <2>2 DEF EnterInflight
    <3>c. inflight[bearer[c]] + 1 \in 0..MaxInflight
      <4>1. inflight[bearer[c]] \in 0..MaxInflight
        BY <3>a DEF ProxyInv, Types
      <4> QED BY <1>7, <2>2, <4>1, ProxyAssumption
    <3>1. Types' /\ Carried'
      BY <1>7, <2>2, <3>a, <3>b, <3>c, ProxyAssumption DEF EnterInflight, Record, Goto,
           Running, ProxyInv, Types, Carried, Steps, Kinds, Outcomes, HasBudget, handlers,
           scopes
    <3>2. Goto(c, "send") /\ "send" \in Steps /\ pc[c] = "enter" /\ bearer' = bearer
      BY <1>7, <2>2, <3>a, <3>b, <3>c DEF EnterInflight, ProxyInv, Types, Steps, handlers
    <3>3. \A t \in Tokens :
           /\ Cardinality(Budgeted(t)') = Cardinality(Budgeted(t))
           /\ Cardinality(Budgeted(t)) \in Nat
           /\ Cardinality(Counted(t)') = Cardinality(Counted(t)) + (IF bearer[c] = t THEN 1 ELSE 0)
           /\ Cardinality(Counted(t)) \in Nat
           /\ Cardinality(Unaudited(t)') = Cardinality(Unaudited(t))
           /\ Cardinality(Unaudited(t)) \in Nat
      BY <3>2, TokenMoves DEF ProxyInv
    <3>4. /\ Cardinality(Open') = Cardinality(Open) /\ Cardinality(Open) \in Nat
         /\ Cardinality(Sent') = Cardinality(Sent) /\ Cardinality(Sent) \in Nat
         /\ Cardinality(Over') = Cardinality(Over) /\ Cardinality(Over) \in Nat
      BY <3>2, OpenMoves DEF ProxyInv
    <3>5. CallBudget'
      BY <1>7, <2>2, <3>a, <3>b, <3>c, <3>3, ProxyAssumption DEF EnterInflight, Running,
           ProxyInv, Types, Carried, CallBudget, Budgeted, HasBudget, scopes, handlers
    <3>6. InflightExact'
      BY <1>7, <2>2, <3>a, <3>b, <3>c, <3>3 DEF EnterInflight, ProxyInv, Types, Carried,
           InflightExact, Counted
    <3>7. SlotsConserved'
      BY <1>7, <2>2, <3>a, <3>b, <3>c, <3>4 DEF EnterInflight, ProxyInv, Types,
           SlotsConserved, Open
    <3>8. Accounted'
      BY <1>7, <2>2, <3>a, <3>b, <3>c, <3>3 DEF EnterInflight, Record, ProxyInv, Types,
           Carried, Accounted, Kinds, Outcomes
    <3>9. AuditBounded'
      BY <1>7, <2>2, <3>a, <3>b, <3>c, <3>4 DEF EnterInflight, Record, ProxyInv, Types,
           Carried, AuditBounded, Kinds, Outcomes
    <3> QED BY <3>1, <3>5, <3>6, <3>7, <3>8, <3>9 DEF ProxyInv
  <2> QED BY <2>1, <2>2
<1>8. CASE SendUpstream(c)
  <2>a. bearer[c] \in Tokens
    BY <1>8 DEF SendUpstream, ProxyInv, Carried
  <2>b. calls' = [calls EXCEPT ![bearer[c]] = calls[bearer[c]] + 1]
    BY <1>8 DEF SendUpstream
  <2>1. Types' /\ Carried'
    BY <1>8, <2>a, <2>b DEF SendUpstream, Record, Goto, Running, ProxyInv, Types, Carried,
         Steps, Kinds, Outcomes, HasBudget, handlers, scopes
  <2>2. Goto(c, "wait") /\ "wait" \in Steps /\ pc[c] = "send" /\ bearer' = bearer
    BY <1>8, <2>a, <2>b DEF SendUpstream, ProxyInv, Types, Steps, handlers
  <2>3. \A t \in Tokens :
         /\ Cardinality(Budgeted(t)') = Cardinality(Budgeted(t)) - (IF bearer[c] = t THEN 1 ELSE 0)
         /\ Cardinality(Budgeted(t)) \in Nat /\ Cardinality(Budgeted(t)') \in Nat
         /\ Cardinality(Counted(t)') = Cardinality(Counted(t))
         /\ Cardinality(Counted(t)) \in Nat
         /\ Cardinality(Unaudited(t)') = Cardinality(Unaudited(t)) + (IF bearer[c] = t THEN 1 ELSE 0)
         /\ Cardinality(Unaudited(t)) \in Nat
    BY <2>2, TokenMoves DEF ProxyInv
  <2>4. /\ Cardinality(Open') = Cardinality(Open) /\ Cardinality(Open) \in Nat
       /\ Cardinality(Sent') = Cardinality(Sent) + 1 /\ Cardinality(Sent) \in Nat
       /\ Cardinality(Over') = Cardinality(Over) /\ Cardinality(Over) \in Nat
    BY <2>2, OpenMoves DEF ProxyInv
  <2>5. CallBudget'
    BY <1>8, <2>a, <2>b, <2>3, ProxyAssumption DEF SendUpstream, Running, ProxyInv, Types,
         Carried, CallBudget, Budgeted, HasBudget, scopes, handlers
  <2>6. InflightExact'
    BY <1>8, <2>a, <2>b, <2>3 DEF SendUpstream, ProxyInv, Types, Carried, InflightExact,
         Counted
  <2>7. SlotsConserved'
    BY <1>8, <2>a, <2>b, <2>4 DEF SendUpstream, ProxyInv, Types, SlotsConserved, Open
  <2>8. Accounted'
    BY <1>8, <2>a, <2>b, <2>3 DEF SendUpstream, Record, ProxyInv, Types, Carried, Accounted,
         Kinds, Outcomes
  <2>9. AuditBounded'
    BY <1>8, <2>a, <2>b, <2>4 DEF SendUpstream, Record, ProxyInv, Types, Carried,
         AuditBounded, Kinds, Outcomes
  <2> QED BY <2>1, <2>5, <2>6, <2>7, <2>8, <2>9 DEF ProxyInv
<1>9. ASSUME NEW k \in Outcomes, UpstreamEnds(c, k) PROVE ProxyInv'
  <2>1. Types' /\ Carried'
    BY <1>9 DEF UpstreamEnds, Record, Goto, Running, ProxyInv, Types, Carried, Steps, Kinds,
         Outcomes, HasBudget, handlers, scopes
  <2>2. Goto(c, "release") /\ "release" \in Steps /\ pc[c] = "wait" /\ bearer' = bearer
    BY <1>9 DEF UpstreamEnds, ProxyInv, Types, Steps, handlers
  <2>3. \A t \in Tokens :
         /\ Cardinality(Budgeted(t)') = Cardinality(Budgeted(t))
         /\ Cardinality(Budgeted(t)) \in Nat
         /\ Cardinality(Counted(t)') = Cardinality(Counted(t))
         /\ Cardinality(Counted(t)) \in Nat
         /\ Cardinality(Unaudited(t)') = Cardinality(Unaudited(t))
         /\ Cardinality(Unaudited(t)) \in Nat
    BY <2>2, TokenMoves DEF ProxyInv
  <2>4. /\ Cardinality(Open') = Cardinality(Open) /\ Cardinality(Open) \in Nat
       /\ Cardinality(Sent') = Cardinality(Sent) /\ Cardinality(Sent) \in Nat
       /\ Cardinality(Over') = Cardinality(Over) /\ Cardinality(Over) \in Nat
    BY <2>2, OpenMoves DEF ProxyInv
  <2>5. CallBudget'
    BY <1>9, <2>3, ProxyAssumption DEF UpstreamEnds, Running, ProxyInv, Types, Carried,
         CallBudget, Budgeted, HasBudget, scopes, handlers
  <2>6. InflightExact'
    BY <1>9, <2>3 DEF UpstreamEnds, ProxyInv, Types, Carried, InflightExact, Counted
  <2>7. SlotsConserved'
    BY <1>9, <2>4 DEF UpstreamEnds, ProxyInv, Types, SlotsConserved, Open
  <2>8. Accounted'
    BY <1>9, <2>3 DEF UpstreamEnds, Record, ProxyInv, Types, Carried, Accounted, Kinds,
         Outcomes
  <2>9. AuditBounded'
    BY <1>9, <2>4 DEF UpstreamEnds, Record, ProxyInv, Types, Carried, AuditBounded, Kinds,
         Outcomes
  <2> QED BY <2>1, <2>5, <2>6, <2>7, <2>8, <2>9 DEF ProxyInv
<1>10. CASE ReleaseInflight(c)
  <2>a. bearer[c] \in Tokens
    BY <1>10 DEF ReleaseInflight, ProxyInv, Carried
  <2>b. inflight' = [inflight EXCEPT ![bearer[c]] =
                       (IF inflight[bearer[c]] = 0 THEN 1 ELSE inflight[bearer[c]]) - 1]
    BY <1>10 DEF ReleaseInflight
  <2>c. (IF inflight[bearer[c]] = 0 THEN 1 ELSE inflight[bearer[c]]) - 1 \in 0..MaxInflight
    <3>1. inflight[bearer[c]] \in 0..MaxInflight
      BY <2>a DEF ProxyInv, Types
    <3> QED BY <1>10, <3>1, ProxyAssumption
  <2>1. Types' /\ Carried'
    BY <1>10, <2>a, <2>b, <2>c, ProxyAssumption DEF ReleaseInflight, Record, Goto, Running,
         ProxyInv, Types, Carried, Steps, Kinds, Outcomes, HasBudget, handlers, scopes
  <2>2. Goto(c, "audit") /\ "audit" \in Steps /\ pc[c] = "release" /\ bearer' = bearer
    BY <1>10, <2>a, <2>b, <2>c DEF ReleaseInflight, ProxyInv, Types, Steps, handlers
  <2>3. \A t \in Tokens :
         /\ Cardinality(Budgeted(t)') = Cardinality(Budgeted(t))
         /\ Cardinality(Budgeted(t)) \in Nat
         /\ Cardinality(Counted(t)') = Cardinality(Counted(t)) - (IF bearer[c] = t THEN 1 ELSE 0)
         /\ Cardinality(Counted(t)) \in Nat /\ Cardinality(Counted(t)') \in Nat
         /\ Cardinality(Unaudited(t)') = Cardinality(Unaudited(t))
         /\ Cardinality(Unaudited(t)) \in Nat
    BY <2>2, TokenMoves DEF ProxyInv
  <2>4. /\ Cardinality(Open') = Cardinality(Open) /\ Cardinality(Open) \in Nat
       /\ Cardinality(Sent') = Cardinality(Sent) /\ Cardinality(Sent) \in Nat
       /\ Cardinality(Over') = Cardinality(Over) /\ Cardinality(Over) \in Nat
    BY <2>2, OpenMoves DEF ProxyInv
  <2>5. CallBudget'
    BY <1>10, <2>a, <2>b, <2>c, <2>3, ProxyAssumption DEF ReleaseInflight, Running,
         ProxyInv, Types, Carried, CallBudget, Budgeted, HasBudget, scopes, handlers
  <2>6. InflightExact'
    BY <1>10, <2>a, <2>b, <2>c, <2>3 DEF ReleaseInflight, ProxyInv, Types, Carried,
         InflightExact, Counted
  <2>7. SlotsConserved'
    BY <1>10, <2>a, <2>b, <2>c, <2>4 DEF ReleaseInflight, ProxyInv, Types, SlotsConserved,
         Open
  <2>8. Accounted'
    BY <1>10, <2>a, <2>b, <2>c, <2>3 DEF ReleaseInflight, Record, ProxyInv, Types, Carried,
         Accounted, Kinds, Outcomes
  <2>9. AuditBounded'
    BY <1>10, <2>a, <2>b, <2>c, <2>4 DEF ReleaseInflight, Record, ProxyInv, Types, Carried,
         AuditBounded, Kinds, Outcomes
  <2> QED BY <2>1, <2>5, <2>6, <2>7, <2>8, <2>9 DEF ProxyInv
<1>11. CASE WriteAudit(c)
  <2>1. Types' /\ Carried'
    BY <1>11 DEF WriteAudit, Record, Goto, Running, ProxyInv, Types, Carried, Steps, Kinds,
         Outcomes, HasBudget, handlers, scopes
  <2>2. Goto(c, "finish") /\ "finish" \in Steps /\ pc[c] = "audit" /\ bearer' = bearer
    BY <1>11 DEF WriteAudit, ProxyInv, Types, Steps, handlers
  <2>3. \A t \in Tokens :
         /\ Cardinality(Budgeted(t)') = Cardinality(Budgeted(t))
         /\ Cardinality(Budgeted(t)) \in Nat
         /\ Cardinality(Counted(t)') = Cardinality(Counted(t))
         /\ Cardinality(Counted(t)) \in Nat
         /\ Cardinality(Unaudited(t)') = Cardinality(Unaudited(t)) - (IF bearer[c] = t THEN 1 ELSE 0)
         /\ Cardinality(Unaudited(t)) \in Nat /\ Cardinality(Unaudited(t)') \in Nat
    BY <2>2, TokenMoves DEF ProxyInv
  <2>4. /\ Cardinality(Open') = Cardinality(Open) /\ Cardinality(Open) \in Nat
       /\ Cardinality(Sent') = Cardinality(Sent) /\ Cardinality(Sent) \in Nat
       /\ Cardinality(Over') = Cardinality(Over) + 1 /\ Cardinality(Over) \in Nat
    BY <2>2, OpenMoves DEF ProxyInv
  <2>5. CallBudget'
    BY <1>11, <2>3, ProxyAssumption DEF WriteAudit, Running, ProxyInv, Types, Carried,
         CallBudget, Budgeted, HasBudget, scopes, handlers
  <2>6. InflightExact'
    BY <1>11, <2>3 DEF WriteAudit, ProxyInv, Types, Carried, InflightExact, Counted
  <2>7. SlotsConserved'
    BY <1>11, <2>4 DEF WriteAudit, ProxyInv, Types, SlotsConserved, Open
  <2>8. Accounted'
    BY <1>11, <2>3 DEF WriteAudit, Record, ProxyInv, Types, Carried, Accounted, Kinds,
         Outcomes
  <2>9. AuditBounded'
    BY <1>11, <2>4 DEF WriteAudit, Record, ProxyInv, Types, Carried, AuditBounded, Kinds,
         Outcomes
  <2> QED BY <2>1, <2>5, <2>6, <2>7, <2>8, <2>9 DEF ProxyInv
<1>12. CASE Finish(c)
  <2>1. Types' /\ Carried'
    BY <1>12 DEF Finish, Record, Goto, Running, ProxyInv, Types, Carried, Steps, Kinds,
         Outcomes, HasBudget, handlers, scopes
  <2>2. Goto(c, "closed") /\ "closed" \in Steps /\ pc[c] = "finish" /\ \A d \in Conns \ {c} : bearer'[d] = bearer[d]
    BY <1>12 DEF Finish, ProxyInv, Types, Steps, handlers
  <2>3. \A t \in Tokens :
         /\ Cardinality(Budgeted(t)') = Cardinality(Budgeted(t))
         /\ Cardinality(Budgeted(t)) \in Nat
         /\ Cardinality(Counted(t)') = Cardinality(Counted(t))
         /\ Cardinality(Counted(t)) \in Nat
         /\ Cardinality(Unaudited(t)') = Cardinality(Unaudited(t))
         /\ Cardinality(Unaudited(t)) \in Nat
    BY <2>2, TokenMoves DEF ProxyInv
  <2>4. /\ Cardinality(Open') = Cardinality(Open) - 1 /\ Cardinality(Open) \in Nat
       /\ Cardinality(Sent') = Cardinality(Sent) /\ Cardinality(Sent) \in Nat
       /\ Cardinality(Over') = Cardinality(Over) /\ Cardinality(Over) \in Nat
    BY <2>2, OpenMoves DEF ProxyInv
  <2>5. CallBudget'
    BY <1>12, <2>3, ProxyAssumption DEF Finish, Running, ProxyInv, Types, Carried,
         CallBudget, Budgeted, HasBudget, scopes, handlers
  <2>6. InflightExact'
    BY <1>12, <2>3 DEF Finish, ProxyInv, Types, Carried, InflightExact, Counted
  <2>7. SlotsConserved'
    BY <1>12, <2>4 DEF Finish, ProxyInv, Types, SlotsConserved, Open
  <2>8. Accounted'
    BY <1>12, <2>3 DEF Finish, Record, ProxyInv, Types, Carried, Accounted, Kinds, Outcomes
  <2>9. AuditBounded'
    BY <1>12, <2>4 DEF Finish, Record, ProxyInv, Types, Carried, AuditBounded, Kinds,
         Outcomes
  <2> QED BY <2>1, <2>5, <2>6, <2>7, <2>8, <2>9 DEF ProxyInv
<1> QED BY <1>1, <1>2, <1>3, <1>4, <1>5, <1>6, <1>7, <1>8, <1>9, <1>10, <1>11, <1>12 DEF ConnStep

\* The steps of the driver touch no count.
LEMMA ProxyControl == ProxyInv /\ (Control \/ UNCHANGED proxyVars) => ProxyInv'
<1> SUFFICES ASSUME ProxyInv, Control \/ UNCHANGED proxyVars PROVE ProxyInv'
  OBVIOUS
<1>1. UNCHANGED <<remaining, inflight, slots, pc, bearer, result, audit, calls>>
  BY DEF Control, IssueScope, RevokeScope, PassTTL, CloseServer, ExitDriver, handlers, scopes, proxyVars
<1>2. Types' /\ Carried'
  BY <1>1 DEF Control, IssueScope, RevokeScope, PassTTL, CloseServer, ExitDriver, scopes, proxyVars,
     ProxyInv, Types, Carried
<1> QED BY <1>1, <1>2 DEF ProxyInv, CallBudget, InflightExact, SlotsConserved, Accounted,
         AuditBounded, At, Unaudited, Sent, Over

\* At the start nobody is connected.
LEMMA ProxyStarts == ProxyInit => ProxyInv
<1> SUFFICES ASSUME ProxyInit PROVE ProxyInv
  OBVIOUS
<1>1. Types /\ Carried
  BY ProxyAssumption DEF ProxyInit, Types, Carried, Steps, Kinds, Outcomes
<1>2. /\ \A t \in Tokens : Budgeted(t) = {} /\ Counted(t) = {} /\ Unaudited(t) = {}
      /\ Open = {} /\ Sent = {} /\ Over = {}
  BY DEF ProxyInit, Budgeted, Counted, Unaudited, At, Open, Sent, Over
<1>3. /\ \A t \in Tokens : /\ Cardinality(Budgeted(t)) = 0 /\ Cardinality(Counted(t)) = 0
                           /\ Cardinality(Unaudited(t)) = 0
      /\ Cardinality(Open) = 0 /\ Cardinality(Sent) = 0 /\ Cardinality(Over) = 0
  BY <1>2, FS_EmptySet
<1>4. CallBudget
  BY <1>3, ProxyAssumption DEF ProxyInit, CallBudget, Budgeted
<1>5. InflightExact /\ SlotsConserved
  BY <1>3, ProxyAssumption DEF ProxyInit, InflightExact, Counted, SlotsConserved, Open
<1>6. Accounted /\ AuditBounded
  BY <1>3, ProxyAssumption DEF ProxyInit, Accounted, AuditBounded, Kinds, Outcomes
<1> QED BY <1>1, <1>4, <1>5, <1>6 DEF ProxyInv

LEMMA ProxySteps == ProxyInv /\ [ProxyNext]_proxyVars => ProxyInv'
BY ProxyHandler, ProxyControl DEF ProxyNext

\* For any number of tokens, connections, slots, calls and handlers and any order
\* of their steps, the books are exact: task budgets, in-flight counts, connection
\* slots, and an audit record for every call that reached the model.
THEOREM BooksExact == ProxySpec => []CallsAccounted
<1>1. ProxyInv => CallsAccounted
  <2> SUFFICES ASSUME ProxyInv PROVE CallsAccounted
    OBVIOUS
  <2>1. /\ Cardinality(Conns) \in Nat /\ Cardinality(Over) \in Nat /\ Cardinality(Sent) \in Nat
        /\ Cardinality(Over) <= Cardinality(Conns) /\ Cardinality(Sent) <= Cardinality(Conns)
    <3>1. Over \in SUBSET Conns /\ Sent \in SUBSET Conns
      BY DEF Over, Sent
    <3> QED BY <3>1, ProxyAssumption, FS_Subset, FS_CardinalityType
  <2>2. slots <= MaxSlots
    <3>1. Cardinality(Open) \in Nat
      BY ProxyAssumption, FS_Subset, FS_CardinalityType DEF Open
    <3> QED BY <3>1, ProxyAssumption DEF ProxyInv, SlotsConserved, Open, Types
  <2>3. \A t \in TaskTokens : remaining[t] <= MaxCalls
    <3> SUFFICES ASSUME NEW t \in TaskTokens PROVE remaining[t] <= MaxCalls
      OBVIOUS
    <3>1. Cardinality(Budgeted(t)) \in Nat
      BY ProxyAssumption, FS_Subset, FS_CardinalityType DEF Budgeted, At
    <3> QED BY <3>1, ProxyAssumption DEF ProxyInv, CallBudget, Budgeted, Types
  <2>4. \A t \in Tokens : calls[t] <= Cardinality(Conns)
                          /\ \A k \in Kinds : audit[t][k] <= Cardinality(Conns)
    BY <2>1 DEF ProxyInv, AuditBounded, Types
  <2>5. ProxyTypeOK
    BY <2>1, <2>2, <2>3, <2>4, ProxyAssumption DEF ProxyInv, Types, ProxyTypeOK
  <2> QED BY <2>5 DEF ProxyInv, CallsAccounted, Accounted, EveryCallAccounted, Unaudited
<1> QED BY <1>1, ProxyStarts, ProxySteps, PTL DEF ProxySpec

\* A step of the handlers makes nobody act for a revoked token.
LEMMA DrainStep ==
    ASSUME ProxyInv, [ProxyNext]_proxyVars, NEW t \in Tokens, status[t] = "revoked"
    PROVE  Acting(t)' \subseteq Acting(t)
<1>1. CASE Control \/ UNCHANGED proxyVars
  BY <1>1 DEF Control, IssueScope, RevokeScope, PassTTL, CloseServer, ExitDriver, handlers, proxyVars,
       Acting, At
<1>2. ASSUME NEW c \in Conns, Connect(c) \/ ConnStep(c) PROVE Acting(t)' \subseteq Acting(t)
  <2>1. CASE Connect(c) \/ DropConnection(c) \/ RefuseBody(c) \/ AcceptBody(c)
             \/ EnterInflight(c) \/ \E u \in Tokens : Deny(c, u)
    BY <2>1 DEF Connect, DropConnection, RefuseBody, AcceptBody, EnterInflight, Deny, Goto,
         ProxyInv, Types, Acting, At, handlers
  <2>2. CASE SendUpstream(c) \/ ReleaseInflight(c) \/ WriteAudit(c) \/ Finish(c)
             \/ \E k \in Outcomes : UpstreamEnds(c, k)
    BY <2>2, ProxyAssumption DEF SendUpstream, ReleaseInflight, WriteAudit, Finish, UpstreamEnds,
         Goto, ProxyInv, Types, Acting, At, handlers
  <2>3. CASE \E u \in Tokens : Authorize(c, u)
    BY <2>3 DEF Authorize, Goto, ProxyInv, Types, Acting, At
  <2> QED BY <1>2, <2>1, <2>2, <2>3 DEF ConnStep
<1> QED BY <1>1, <1>2 DEF ProxyNext

\* Once a token is revoked its calls only drain, whichever handlers were past the
\* authorisation when it was.
THEOREM RevokedOnlyDrains == ProxySpec => RevokedDrains
<1>1. ProxyInv /\ [ProxyNext]_proxyVars
        => [\A t \in Tokens : status[t] = "revoked" => Acting(t)' \subseteq Acting(t)]_proxyVars
  BY DrainStep
<1> QED BY <1>1, ProxyStarts, ProxySteps, PTL DEF ProxySpec, RevokedDrains

-----------------------------------------------------------------------------
(***************************************************************************)
(* What a session commits.  The write surface: while a session runs, every *)
(* file differs from the committed tree only where a tool call said so,    *)
(* what was said is in the workspace under a grant for modification, and   *)
(* no such grant leaves the seat's write roots.  A default request copies  *)
(* a directory anew only while the workspace has none, and then no module  *)
(* was edited (`wsDir`): this is why it loses nothing.  When the workspace  *)
(* has one, what it lacks of the committed directory is accounted for by   *)
(* Removed or Skipped: this is why nothing else is deleted.                *)
(***************************************************************************)
DeepArms == {"deny_deep", "deep_view_only", "shallow_prompt_only"}

GrantsHeld ==
    /\ phase # "open" => grants = {}
    /\ \A m \in Modules : ws[m] # Missing => wsDir
    /\ \A g \in grants :
          /\ g[1] \in Modules \cup {Comp} => wsDir
          /\ g[2] = "modify" => g[1] \in write_roots(seat) /\ arm \notin DeepArms

WorkspaceKnown ==
    phase = "open" =>
        \A f \in Files :
            /\ told[f] # Kept => deep /\ covers(f) /\ ws[f] = Final(told[f])
            /\ ws[f] \notin {repo[f], Missing} => told[f] = ws[f]
            /\ f \notin Modules => told[f] \notin {Removed, Skipped}
                                    /\ (covers(f) => ws[f] # Missing)
            /\ covers(f) /\ ws[f] = Missing /\ told[f] = Kept => repo[f] = Missing

(* A tree that the startup checks accept when the tools in `on` are always  *)
(* on: the parts of tools_ok, with the seat's tools as a parameter.         *)
TreeSound(tree, on) ==
    /\ tree[Registry] # Garbage
    /\ \A e \in ToSet(parse_registry_file(tree[Registry])) :
          e.name = Stem[e.module] /\ module_api_ok(tree[e.module])
    /\ \A n \in Names : ~ (Cardinality(Named(tree[Registry], n)) > 1)
    /\ orphan_modules(tree) = {}
    /\ \A n \in Names :
          ~ (Cardinality(Holders(tree, n)) + (IF n \in on THEN 1 ELSE 0) > 1)

Whole == repo = [f \in Files |-> repo[f]] /\ TreeSound(repo, always_on_dirs)

(* From the end of the session to the commit, the patch is what it will do. *)
PatchKnown ==
    phase \in {"closing", "drafted"} =>
        /\ DOMAIN patch \subseteq Files
        /\ \A f \in Files :
              /\ exit # "exhausted" /\ told[f] # Kept => Patched(patch)[f] = Final(told[f])
              /\ Patched(patch)[f] # repo[f] =>
                     told[f] # Kept /\ Patched(patch)[f] = Final(told[f])
              /\ Patched(patch)[f] \in TextOf(f) \/ (f \in Modules /\ Patched(patch)[f] = Missing)
        /\ Patched(patch)[Foreign] = repo[Foreign]
        /\ seat = "evaluate" \/ arm \in DeepArms => Patched(patch) = repo
        /\ TreeSound(Patched(patch), always_on_dirs)
        /\ exit = "patched" => \A n \in offered : Delivers(Patched(patch), n)

OutcomeKnown ==
    /\ OfferedIsDelivered /\ DesignDelivers /\ StartupNeverRefused
    /\ phase \in {"closing", "drafted", "applied"} =>
          /\ exit \in {"empty", "exhausted", "patched"}
          /\ exit = "exhausted" => warned
          /\ seat = "evaluate" => exit = "empty"

DesignKnown ==
    /\ phase \notin {"start", "repair"} => saved # Missing
    /\ phase = "repair" /\ saved = Missing => \A n \in design.tools : Delivers(repo, n)

PromptKnown ==
    evolved =>
        /\ seat = "self_improve"
        /\ ~forensic => saved # Missing /\ saved.prompt = "own"
        /\ ~forensic /\ phase \in {"open", "closing"} => design.prompt = "own"

SurfaceInv ==
    /\ SurfaceTypeOK /\ GrantsHeld /\ WorkspaceKnown /\ Whole
    /\ PatchKnown /\ OutcomeKnown /\ DesignKnown /\ PromptKnown

\* A nonempty set of naturals has a least element.
LEMMA LeastNatural ==
    ASSUME NEW T, T \subseteq Nat, T # {}
    PROVE  \E x \in T : \A y \in T : x <= y
<1> DEFINE R == OpToRel(<, Nat)
<1>1. \A x, y \in Nat : y < x => <<y, x>> \in R
  BY DEF OpToRel
<1>2. IsWellFoundedOn(R, Nat)
  BY NatLessThanWellFounded
<1> HIDE DEF R
<1>3. PICK x \in T : \A y \in T : <<y, x>> \notin R
  BY <1>2, WFMin
<1>4. \A y \in T : x \in Nat /\ y \in Nat /\ ~(y < x)
  BY <1>3, <1>1
<1>5. \A y \in T : x <= y
  BY <1>4
<1> QED BY <1>5

-----------------------------------------------------------------------------
\* The files of a seat are different ones.
LEMMA FileFacts ==
    /\ Registry \in Files /\ SchemaExt \in Files /\ Foreign \in Files /\ Modules \subseteq Files
    /\ Registry \notin Modules /\ SchemaExt \notin Modules /\ Foreign \notin Modules
    /\ Comp \notin Files /\ Glob \notin Files /\ Comp \notin Modules /\ Glob \notin Modules
    /\ Registry # SchemaExt /\ Registry # Foreign /\ SchemaExt # Foreign /\ Glob # Comp
BY SurfaceAssumption DEF Files, Registry, SchemaExt, Foreign, Comp, Glob

\* What the files hold, and that a marker is no text.
LEMMA TextFacts ==
    /\ TextOf(Registry) = Seq(Entries) \cup {Garbage}
    /\ TextOf(SchemaExt) = [Keys -> {Missing} \cup (Names \X Nat)]
    /\ \A f \in Modules \cup {Foreign} : TextOf(f) = Contents
    /\ \A f \in Files : {Missing, Kept, Removed, Skipped} \cap TextOf(f) = {}
BY SurfaceAssumption, FileFacts DEF TextOf

\* A module that is there exposes the tool API in no other way than as a version.
LEMMA MissingNoModule == ~ module_api_ok(Missing)
<1>1. Foreign \in Files /\ TextOf(Foreign) = Contents
  BY FileFacts, TextFacts
<1>2. Missing \notin Contents
  BY <1>1, TextFacts
<1> QED BY <1>2 DEF module_api_ok, Contents

\* A file is covered by a grant for modification of it or of its directory.
LEMMA CoversGrant ==
    /\ \A f : covers(f) <=> \E g \in grants : g[2] = "modify" /\ Under(g[1], f)
    /\ \A f : covers(f)' <=> \E g \in grants' : g[2] = "modify" /\ Under(g[1], f)
BY DEF covers, granted_paths

\* A registered name has a first entry.
LEMMA GetFacts ==
    ASSUME NEW reg, reg \in TextOf(Registry), NEW n, Named(reg, n) # {}
    PROVE  /\ reg \in Seq(Entries) /\ parse_registry_file(reg) = reg
           /\ Get(reg, n) \in ToSet(reg) /\ Get(reg, n) \in Entries
           /\ Get(reg, n).name = n
<1>1. reg # Garbage
  BY DEF Named, parse_registry_file
<1>2. reg \in Seq(Entries) /\ reg # Missing
  BY <1>1, TextFacts, FileFacts
<1>3. parse_registry_file(reg) = reg
  BY <1>1, <1>2 DEF parse_registry_file
<1>4. Named(reg, n) = {i \in DOMAIN reg : reg[i].name = n}
  BY <1>3 DEF Named
<1>5. DOMAIN reg = 1 .. Len(reg) /\ \A i \in 1 .. Len(reg) : reg[i] \in Entries
  BY <1>2
<1>6. \E i \in Named(reg, n) : \A j \in Named(reg, n) : i <= j
  <2>1. Named(reg, n) \subseteq Nat
    BY <1>4, <1>5
  <2> QED BY <2>1, LeastNatural
<1>7. Min(Named(reg, n)) \in Named(reg, n)
  BY <1>6 DEF Min
<1>8. Get(reg, n) = reg[Min(Named(reg, n))]
  BY <1>3 DEF Get
<1>9. PICK k \in DOMAIN reg : k = Min(Named(reg, n)) /\ reg[k].name = n
  BY <1>4, <1>7
<1>10. Get(reg, n) = reg[k]
  BY <1>8, <1>9
<1> QED BY <1>2, <1>3, <1>5, <1>9, <1>10 DEF ToSet

-----------------------------------------------------------------------------
\* A set of positions has a k-th member for every k up to its size.
LEMMA RankExists ==
    ASSUME NEW N \in Nat, NEW S, S \subseteq 1 .. N, NEW i \in 1 .. Cardinality(S)
    PROVE  \E k \in S : Cardinality(S \cap (1 .. k)) = i
<1>1. IsFiniteSet(S) /\ \A k \in Int : IsFiniteSet(S \cap (1 .. k))
  <2>1. IsFiniteSet(S)
    <3>1. IsFiniteSet(1 .. N)
      BY FS_Interval
    <3> QED BY <3>1, FS_Subset
  <2>2. \A k \in Int : S \cap (1 .. k) \subseteq S
    OBVIOUS
  <2> QED BY <2>1, <2>2, FS_Subset
<1>2. Cardinality(S) \in Nat /\ \A k \in Int : Cardinality(S \cap (1 .. k)) \in Nat
  BY <1>1, FS_CardinalityType
<1>3. S \cap (1 .. N) = S
  OBVIOUS
<1> DEFINE Up == {k \in Nat : Cardinality(S \cap (1 .. k)) >= i}
<1>4. N \in Up
  BY <1>3, <1>2
<1>5. PICK k \in Up : \A j \in Up : k <= j
  <2>1. Up \subseteq Nat /\ Up # {}
    BY <1>4
  <2> HIDE DEF Up
  <2> QED BY <2>1, LeastNatural
<1>6. k \in Nat /\ Cardinality(S \cap (1 .. k)) >= i
  BY <1>5
<1>7. k # 0
  <2>1. S \cap (1 .. 0) = {}
    OBVIOUS
  <2>2. Cardinality(S \cap (1 .. 0)) = 0
    BY <2>1, FS_EmptySet
  <2> QED BY <2>2, <1>6
<1>8. k - 1 \in Nat /\ k - 1 \notin Up
  BY <1>5, <1>6, <1>7
<1>9. Cardinality(S \cap (1 .. (k - 1))) < i
  BY <1>8, <1>2
<1>10. k \in S
  <2>1. ASSUME k \notin S PROVE S \cap (1 .. k) = S \cap (1 .. (k - 1))
    BY <2>1, <1>6
  <2> QED BY <2>1, <1>9, <1>6, <1>2
<1>11. S \cap (1 .. k) = (S \cap (1 .. (k - 1))) \cup {k} /\ k \notin S \cap (1 .. (k - 1))
  BY <1>10, <1>6, <1>7
<1>12. Cardinality(S \cap (1 .. k)) = Cardinality(S \cap (1 .. (k - 1))) + 1
  <2> DEFINE A == S \cap (1 .. (k - 1))
  <2>1. IsFiniteSet(A)
    BY <1>1, <1>8
  <2>2. S \cap (1 .. k) = A \cup {k} /\ k \notin A
    BY <1>11
  <2> HIDE DEF A
  <2>3. Cardinality(A \cup {k}) = Cardinality(A) + 1
    BY <2>1, <2>2, FS_AddElement
  <2> QED BY <2>2, <2>3 DEF A
<1>13. Cardinality(S \cap (1 .. (k - 1))) \in Nat /\ Cardinality(S \cap (1 .. k)) \in Nat
  BY <1>2, <1>6, <1>8
<1>14. i \in Int
  BY <1>2
<1>15. \A a, b, c \in Int : a < c /\ b >= c /\ b = a + 1 => b = c
  OBVIOUS
<1>16. Cardinality(S \cap (1 .. k)) = i
  BY <1>6, <1>9, <1>12, <1>13, <1>14, <1>15
<1> QED BY <1>10, <1>16

\* What is left of a registry is a registry.
LEMMA WithoutType ==
    ASSUME NEW reg \in Seq(Entries), NEW n
    PROVE  Without(reg, n) \in Seq(Entries)
<1> DEFINE rest == DOMAIN reg \ Named(reg, n)
           at(i) == CHOOSE k \in rest : Cardinality(rest \cap (1 .. k)) = i
<1>1. Len(reg) \in Nat /\ rest \subseteq 1 .. Len(reg)
  OBVIOUS
<1>2. IsFiniteSet(rest) /\ Cardinality(rest) \in Nat
  <2> HIDE DEF rest
  <2>1. IsFiniteSet(rest)
    <3>1. IsFiniteSet(1 .. Len(reg))
      BY <1>1, FS_Interval
    <3> QED BY <1>1, <3>1, FS_Subset
  <2> QED BY <2>1, FS_CardinalityType
<1>3. \A i \in 1 .. Cardinality(rest) : at(i) \in rest
  <2> SUFFICES ASSUME NEW i \in 1 .. Cardinality(rest) PROVE at(i) \in rest
    OBVIOUS
  <2> HIDE DEF rest
  <2>1. \E k \in rest : Cardinality(rest \cap (1 .. k)) = i
    BY <1>1, RankExists
  <2> QED BY <2>1
<1>4. \A i \in 1 .. Cardinality(rest) : reg[at(i)] \in Entries
  <2>1. \A j \in 1 .. Len(reg) : reg[j] \in Entries
    OBVIOUS
  <2> HIDE DEF at, rest
  <2> QED BY <1>1, <1>3, <2>1
<1>5. Without(reg, n) = [i \in 1 .. Cardinality(rest) |-> reg[at(i)]]
  BY DEF Without
<1> HIDE DEF at, rest
<1> QED BY <1>2, <1>4, <1>5

-----------------------------------------------------------------------------
\* The startup checks accept exactly the sound trees.
LEMMA SoundIsOk ==
    ASSUME NEW tree
    PROVE  tools_ok(tree) <=> TreeSound(tree, always_on_dirs)
<1> DEFINE r  == registry_report(tree)
           es == ToSet(parse_registry_file(tree[Registry]))
<1>1. r.unparseable <=> tree[Registry] = Garbage
  BY DEF registry_report
<1>2. r.invalid = {} <=> \A e \in es : e.name = Stem[e.module] /\ module_api_ok(tree[e.module])
  <2>1. r.invalid = {e \in es : ~ (e.name = Stem[e.module] /\ module_api_ok(tree[e.module]))}
    BY DEF registry_report
  <2> HIDE DEF r, es
  <2> QED BY <2>1
<1>3. r.duplicate = {} <=> \A n \in Names : ~ (Cardinality(Named(tree[Registry], n)) > 1)
  <2>1. r.duplicate = {n \in Names : Cardinality(Named(tree[Registry], n)) > 1}
    BY DEF registry_report
  <2> HIDE DEF r, es
  <2> QED BY <2>1
<1>4. r.orphan = orphan_modules(tree)
  BY DEF registry_report
<1>5. r.collision = {} <=> \A n \in Names :
          ~ (Cardinality(Holders(tree, n)) + (IF n \in always_on_dirs THEN 1 ELSE 0) > 1)
  <2>1. r.collision = assemble_collisions(tree)
    BY DEF registry_report
  <2> HIDE DEF r, es
  <2> QED BY <2>1 DEF assemble_collisions
<1>6. tools_ok(tree) <=> ~r.unparseable /\ r.invalid = {} /\ r.duplicate = {}
                         /\ r.orphan = {} /\ r.collision = {}
  BY DEF tools_ok
<1> HIDE DEF r
<1> QED BY <1>1, <1>2, <1>3, <1>4, <1>5, <1>6 DEF TreeSound

\* The commit gate lets no problem in that a sound tree does not have.
LEMMA CommitSound ==
    ASSUME TreeSound(repo, always_on_dirs), NEW p, check_patch(p)
    PROVE  TreeSound(Patched(p), always_on_dirs)
<1> DEFINE b == registry_report(repo)
           a == registry_report(Patched(p))
<1>1. ~registry_worsened(b, a)
  BY DEF check_patch
<1>2. tools_ok(repo)
  BY SoundIsOk
<1>3. b.invalid = {} /\ b.duplicate = {} /\ b.orphan = {} /\ b.collision = {}
  BY <1>2 DEF tools_ok
<1>4. ~a.unparseable /\ a.invalid = {} /\ a.duplicate = {} /\ a.orphan = {} /\ a.collision = {}
  <2> HIDE DEF a, b
  <2> QED BY <1>1, <1>3 DEF registry_worsened
<1>5. tools_ok(Patched(p))
  BY <1>4 DEF tools_ok
<1> QED BY <1>5, SoundIsOk

\* A sound tree delivers every name that it registers.
LEMMA SoundDelivers ==
    ASSUME NEW tree, NEW on, TreeSound(tree, on), tree[Registry] \in TextOf(Registry),
           NEW n, Named(tree[Registry], n) # {}
    PROVE  Delivers(tree, n) /\ n \in Names
<1> DEFINE reg == tree[Registry]
           e == Get(reg, n)
<1>1. parse_registry_file(reg) = reg /\ e \in ToSet(reg) /\ e \in Entries /\ e.name = n
  BY GetFacts
<1>2. e.name = Stem[e.module] /\ module_api_ok(tree[e.module])
  BY <1>1 DEF TreeSound
<1>3. e.module \in Modules
  BY <1>1 DEF Entries
<1>4. Delivers(tree, n)
  BY <1>2 DEF Delivers
<1>5. n \in Names
  BY <1>1, <1>2, <1>3 DEF Names
<1> QED BY <1>4, <1>5

\* An always-on tool of the seat holds its file name alone.
LEMMA SoundUnshadowed ==
    ASSUME NEW tree, NEW on, TreeSound(tree, on), tree[Registry] \in TextOf(Registry),
           NEW n \in on, n \in Names
    PROVE  ~ Delivers(tree, n)
<1> SUFFICES ASSUME Delivers(tree, n) PROVE FALSE
  OBVIOUS
<1> DEFINE reg == tree[Registry]
           e == Get(reg, n)
<1>1. Named(reg, n) # {} /\ e.name = Stem[e.module] /\ module_api_ok(tree[e.module])
  BY DEF Delivers
<1>2. reg \in Seq(Entries) /\ parse_registry_file(reg) = reg /\ e \in ToSet(reg) /\ e.name = n
  BY <1>1, GetFacts
<1>3. tree[e.module] # Missing
  BY <1>1, MissingNoModule
<1>4. e.module \in Holders(tree, n)
  BY <1>1, <1>2, <1>3 DEF Holders
<1>5. IsFiniteSet(Holders(tree, n))
  <2>1. \A x \in ToSet(reg) : x.module \in Modules
    <3>1. \A i \in DOMAIN reg : reg[i] \in Entries
      BY <1>2
    <3>2. \A x \in Entries : x.module \in Modules
      BY DEF Entries
    <3> QED BY <3>1, <3>2 DEF ToSet
  <2>2. Holders(tree, n) \subseteq Modules
    BY <1>2, <2>1 DEF Holders
  <2> QED BY <2>2, SurfaceAssumption, FS_Subset
<1>6. Cardinality(Holders(tree, n)) \in Nat /\ Cardinality(Holders(tree, n)) # 0
  BY <1>4, <1>5, FS_CardinalityType, FS_EmptySet
<1>7. ~ (Cardinality(Holders(tree, n)) + 1 > 1)
  BY DEF TreeSound
<1> QED BY <1>6, <1>7

\* So no selection replaces an always-on tool of the seat.
LEMMA NothingShadows ==
    ASSUME Whole, repo[Registry] \in TextOf(Registry)
    PROVE  NoShadow
<1>1. always_on_dirs \subseteq Names
  BY DEF always_on_dirs, Names
<1>2. \A n \in always_on_dirs : ~ Delivers(repo, n)
  BY <1>1, SoundUnshadowed DEF Whole
<1> DEFINE selected == {n \in Names : Delivers(repo, n)}
<1>3. assemble_tools_dir(repo, Names) = [n \in always_on_dirs \cup selected |->
          IF n \in selected THEN "component" ELSE "always_on"]
  BY DEF assemble_tools_dir
<1>4. \A n \in always_on_dirs : assemble_tools_dir(repo, Names)[n] = "always_on"
  <2>1. \A n \in always_on_dirs : n \notin selected
    BY <1>2
  <2> HIDE DEF selected
  <2> QED BY <1>3, <2>1
<1> QED BY <1>4 DEF NoShadow

-----------------------------------------------------------------------------
\* A set without two different members has at most one.
LEMMA AtMostOne ==
    ASSUME NEW S, \A x, y \in S : x = y
    PROVE  (S = {} \/ Cardinality(S) = 1) /\ ~ (Cardinality(S) > 1)
<1>1. CASE S = {}
  BY <1>1, FS_EmptySet
<1>2. CASE S # {}
  <2>1. PICK x \in S : S = {x}
    BY <1>2
  <2>2. Cardinality(S) = 1
    BY <2>1, FS_Singleton
  <2> QED BY <2>2
<1> QED BY <1>1, <1>2

\* The sequence of a finite set enumerates it.
LEMMA EnumerationFacts ==
    ASSUME NEW S, IsFiniteSet(S)
    PROVE  /\ SetToSeq(S) \in Seq(S) /\ ToSet(SetToSeq(S)) = S
           /\ \A i, j \in DOMAIN SetToSeq(S) : SetToSeq(S)[i] = SetToSeq(S)[j] => i = j
<1> DEFINE n == Cardinality(S)
           s == SetToSeq(S)
<1>1. n \in Nat /\ ExistsBijection(1 .. n, S)
  BY FS_CardinalityType
<1>2. PICK f \in [1 .. n -> S] : IsInjective(f)
  BY <1>1 DEF ExistsBijection, Bijection, Injection, IsInjective
<1>3. s \in [1 .. n -> S] /\ IsInjective(s)
  BY <1>2 DEF SetToSeq
<1> HIDE DEF n, s
<1>4. s \in Injection(1 .. n, S)
  BY <1>3 DEF Injection, IsInjective
<1>5. Cardinality(1 .. n) = n
  BY <1>1, FS_Interval
<1>6. s \in Surjection(1 .. n, S)
  BY <1>4, <1>5, FS_Injection DEF n
<1>7. \A x \in S : \E i \in 1 .. n : s[i] = x
  BY <1>6 DEF Surjection
<1>8. DOMAIN s = 1 .. n /\ \A i \in 1 .. n : s[i] \in S
  BY <1>3
<1>9. ToSet(s) = S
  BY <1>7, <1>8 DEF ToSet
<1>10. s \in Seq(S)
  BY <1>1, <1>3
<1>11. \A i, j \in DOMAIN s : s[i] = s[j] => i = j
  BY <1>3 DEF IsInjective
<1> QED BY <1>9, <1>10, <1>11 DEF s

\* The run starts with a sound tree.
LEMMA InitialTreeSound ==
    ASSUME SurfaceInit
    PROVE  /\ Whole /\ DOMAIN repo = Files
           /\ \A f \in Files : repo[f] \in TextOf(f) \/ (f \in Modules /\ repo[f] = Missing)
<1> DEFINE V  == {x \in Modules : Start[x] = "v0"}
           E  == {Entry(m, TRUE) : m \in V}
           reg == SetToSeq(E)
<1>1. /\ DOMAIN repo = Files /\ repo[Registry] = reg
      /\ repo[SchemaExt] = [k \in Keys |-> Missing] /\ repo[Foreign] = "v0"
      /\ \A m \in Modules : repo[m] = Start[m]
  BY FileFacts DEF SurfaceInit
<1>2. \A m \in V : /\ Entry(m, TRUE) \in Entries /\ Entry(m, TRUE).name = Stem[m]
                   /\ Entry(m, TRUE).module = m
  BY SurfaceAssumption DEF Entry, Entries
<1>3. IsFiniteSet(E)
  <2>1. IsFiniteSet(V)
    BY SurfaceAssumption, FS_Subset
  <2>2. PICK k \in Nat : ExistsSurjection(1 .. k, V)
    BY <2>1, FS_NatSurjection
  <2>3. PICK f \in [1 .. k -> V] : \A m \in V : \E i \in 1 .. k : f[i] = m
    BY <2>2 DEF ExistsSurjection, Surjection
  <2> DEFINE g == [i \in 1 .. k |-> Entry(f[i], TRUE)]
  <2>4. g \in [1 .. k -> E]
    OBVIOUS
  <2>5. \A e \in E : \E i \in 1 .. k : g[i] = e
    BY <2>3
  <2>6. g \in Surjection(1 .. k, E)
    BY <2>4, <2>5 DEF Surjection
  <2> QED BY <2>6, FS_NatSurjection DEF ExistsSurjection
<1>4. /\ reg \in Seq(E) /\ ToSet(reg) = E
      /\ \A i, j \in DOMAIN reg : reg[i] = reg[j] => i = j
  BY <1>3, EnumerationFacts
<1>5. E \subseteq Entries
  BY <1>2
<1> HIDE DEF E, reg
<1>6. reg \in Seq(Entries)
  BY <1>4, <1>5
<1>7. reg # Garbage /\ reg # Missing /\ parse_registry_file(reg) = reg
  <2>1. reg # Garbage
    BY <1>6, SurfaceAssumption
  <2>2. reg # Missing
    BY <1>6, TextFacts, FileFacts
  <2> QED BY <2>1, <2>2 DEF parse_registry_file
<1>8. \A e \in ToSet(reg) : \E m \in V : /\ e = Entry(m, TRUE) /\ e.name = Stem[m]
                                         /\ e.module = m
  <2> SUFFICES ASSUME NEW e \in E
               PROVE  \E m \in V : e = Entry(m, TRUE) /\ e.name = Stem[m] /\ e.module = m
    BY <1>4
  <2>1. PICK m \in V : e = Entry(m, TRUE)
    BY DEF E
  <2> QED BY <2>1, <1>2
<1>9. \A m \in V : m \in Modules /\ repo[m] = "v0" /\ module_api_ok(repo[m])
  BY <1>1 DEF module_api_ok, Versions
<1>10. \A m, k \in V : Stem[m] = Stem[k] => m = k
  BY SurfaceAssumption
<1>11. \A e \in ToSet(reg) : e.name = Stem[e.module] /\ module_api_ok(repo[e.module])
  BY <1>8, <1>9
<1>12. \A n \in Names : ~ (Cardinality(Named(reg, n)) > 1)
  <2> SUFFICES ASSUME NEW n \in Names PROVE ~ (Cardinality(Named(reg, n)) > 1)
    OBVIOUS
  <2>1. \A i \in Named(reg, n) : i \in DOMAIN reg /\ reg[i].name = n /\ reg[i] \in ToSet(reg)
    BY <1>7 DEF Named, ToSet
  <2> HIDE DEF V
  <2>2. \A i, j \in Named(reg, n) : i = j
    <3> SUFFICES ASSUME NEW i \in Named(reg, n), NEW j \in Named(reg, n) PROVE i = j
      OBVIOUS
    <3>1. PICK m \in V : reg[i] = Entry(m, TRUE) /\ n = Stem[m]
      <4>1. reg[i] \in ToSet(reg) /\ reg[i].name = n
        BY <2>1
      <4>2. PICK m \in V : reg[i] = Entry(m, TRUE) /\ reg[i].name = Stem[m]
        BY <4>1, <1>8, Zenon
      <4> QED BY <4>1, <4>2
    <3>2. PICK k \in V : reg[j] = Entry(k, TRUE) /\ n = Stem[k]
      <4>1. reg[j] \in ToSet(reg) /\ reg[j].name = n
        BY <2>1
      <4>2. PICK k \in V : reg[j] = Entry(k, TRUE) /\ reg[j].name = Stem[k]
        BY <4>1, <1>8, Zenon
      <4> QED BY <4>1, <4>2
    <3>3. m = k
      BY <3>1, <3>2, <1>10
    <3> QED BY <3>1, <3>2, <3>3, <2>1, <1>4
  <2> QED BY <2>2, AtMostOne
<1>13. orphan_modules(repo) = {}
  <2> SUFFICES ASSUME NEW m \in Modules, module_api_ok(repo[m])
               PROVE  \E e \in ToSet(reg) : e.module = m
    BY <1>1, <1>7 DEF orphan_modules
  <2>1. Start[m] \in {Missing, "v0", "helper"} /\ repo[m] = Start[m]
    BY <1>1, SurfaceAssumption
  <2>2. "helper" \notin Versions
    BY DEF Versions
  <2>3. Start[m] = "v0"
    BY <2>1, <2>2, MissingNoModule DEF module_api_ok
  <2>4. m \in V /\ Entry(m, TRUE) \in ToSet(reg)
    BY <2>3, <1>4 DEF E
  <2> QED BY <2>4, <1>2
<1>14. \A n \in Names : ~ (Cardinality(Holders(repo, n))
                              + (IF n \in always_on_dirs THEN 1 ELSE 0) > 1)
  <2> SUFFICES ASSUME NEW n \in Names
               PROVE  ~ (Cardinality(Holders(repo, n))
                            + (IF n \in always_on_dirs THEN 1 ELSE 0) > 1)
    OBVIOUS
  <2>1. \A x \in Holders(repo, n) : \E e \in ToSet(reg) : x = e.module /\ Stem[e.module] = n
    BY <1>1, <1>7 DEF Holders
  <2>2. \A x \in Holders(repo, n) : x \in V /\ Stem[x] = n
    <3> HIDE DEF V
    <3> SUFFICES ASSUME NEW x \in Holders(repo, n) PROVE x \in V /\ Stem[x] = n
      OBVIOUS
    <3>1. PICK e \in ToSet(reg) : x = e.module /\ Stem[e.module] = n
      BY <2>1
    <3>2. PICK m \in V : e.module = m
      BY <1>8
    <3> QED BY <3>1, <3>2
  <2>3. \A x, y \in Holders(repo, n) : x = y
    BY <2>2, <1>10
  <2>4. n \in always_on_dirs => Holders(repo, n) = {}
    <3>1. \A x \in V : Stem[x] \notin Plumbing
      BY SurfaceAssumption
    <3>2. always_on_dirs \subseteq Plumbing
      BY DEF always_on_dirs
    <3> QED BY <2>2, <3>1, <3>2
  <2>5. Cardinality(Holders(repo, n)) \in {0, 1}
    BY <2>3, AtMostOne, FS_EmptySet
  <2>6. n \in always_on_dirs => Cardinality(Holders(repo, n)) = 0
    BY <2>4, FS_EmptySet
  <2> QED BY <2>5, <2>6
<1>15. Whole
  <2>1. repo = [f \in Files |-> repo[f]]
    BY DEF SurfaceInit
  <2> QED BY <2>1, <1>1, <1>7, <1>11, <1>12, <1>13, <1>14 DEF Whole, TreeSound
<1>16. \A f \in Files : repo[f] \in TextOf(f) \/ (f \in Modules /\ repo[f] = Missing)
  <2> SUFFICES ASSUME NEW f \in Files
               PROVE  repo[f] \in TextOf(f) \/ (f \in Modules /\ repo[f] = Missing)
    OBVIOUS
  <2>1. CASE f \in Modules
    BY <2>1, <1>1, SurfaceAssumption, TextFacts DEF Contents, Versions
  <2>2. CASE f = Registry
    BY <2>2, <1>1, <1>6, TextFacts
  <2>3. CASE f = SchemaExt
    BY <2>3, <1>1, TextFacts
  <2>4. CASE f = Foreign
    BY <2>4, <1>1, TextFacts DEF Contents, Versions
  <2> QED BY <2>1, <2>2, <2>3, <2>4 DEF Files
<1> QED BY <1>1, <1>15, <1>16

-----------------------------------------------------------------------------
LEMMA SurfaceStart == SurfaceInit => SurfaceInv
<1> SUFFICES ASSUME SurfaceInit PROVE SurfaceInv
  OBVIOUS
<1>1. /\ Whole /\ DOMAIN repo = Files
      /\ \A f \in Files : repo[f] \in TextOf(f) \/ (f \in Modules /\ repo[f] = Missing)
  BY InitialTreeSound
<1>2. /\ seat \in Seats /\ arm \in Arms /\ ws = [f \in Files |-> Missing] /\ wsDir = FALSE
      /\ grants = {} /\ design = initial_config /\ saved = Missing /\ phase = "start"
      /\ tool_calls = 0 /\ attempt = 0 /\ sessions = 0 /\ exit = "fresh"
      /\ told = [f \in Files |-> Kept] /\ evolved = FALSE
  BY DEF SurfaceInit, Bare
<1>3. design \in Designs
  BY <1>2 DEF initial_config, Designs
<1>4. SurfaceTypeOK
  <2>1. \A f \in Files : ws[f] = Missing /\ told[f] = Kept
    BY <1>2
  <2>2. attempt \in 0 .. RetryK /\ sessions \in 0 .. MaxSessions
    BY <1>2, SurfaceAssumption
  <2> QED BY <1>1, <1>2, <1>3, <2>1, <2>2 DEF SurfaceTypeOK
<1>5. GrantsHeld
  BY <1>2, FileFacts DEF GrantsHeld
<1>6. WorkspaceKnown /\ PatchKnown /\ DesignKnown /\ PromptKnown
  BY <1>2 DEF WorkspaceKnown, PatchKnown, DesignKnown, PromptKnown
<1>7. OutcomeKnown
  BY <1>2 DEF OutcomeKnown, OfferedIsDelivered, DesignDelivers, StartupNeverRefused
<1> QED BY <1>1, <1>4, <1>5, <1>6, <1>7 DEF SurfaceInv

-----------------------------------------------------------------------------
(* The calls of a session.  A call changes the workspace, the grants and    *)
(* the design; what is known of the rest does not depend on it.             *)
LEMMA CallFrame ==
    ASSUME SurfaceInv, Called, design' \in Designs,
           design.prompt = "own" => design'.prompt = "own"
    PROVE  /\ Whole' /\ PatchKnown' /\ OutcomeKnown' /\ DesignKnown' /\ PromptKnown'
           /\ phase = "open" /\ phase' = "open"
           /\ seat' = seat /\ arm' = arm /\ repo' = repo
<1>1. /\ phase = "open" /\ phase' = "open" /\ seat' = seat /\ arm' = arm /\ repo' = repo
      /\ saved' = saved /\ forensic' = forensic /\ evolved' = evolved
  BY DEF Called, disk
<1>2. always_on_dirs' = always_on_dirs
  BY <1>1 DEF always_on_dirs
<1>3. Whole'
  BY <1>1, <1>2 DEF SurfaceInv, Whole
<1>4. PatchKnown'
  BY <1>1 DEF PatchKnown
<1>5. OutcomeKnown'
  BY <1>1 DEF OutcomeKnown, OfferedIsDelivered, DesignDelivers, StartupNeverRefused
<1>6. DesignKnown'
  BY <1>1 DEF SurfaceInv, DesignKnown
<1>7. PromptKnown'
  BY <1>1 DEF SurfaceInv, PromptKnown
<1> QED BY <1>1, <1>3, <1>4, <1>5, <1>6, <1>7

\* The types of what a call does not write itself.
LEMMA CallTypes ==
    ASSUME SurfaceInv, Called, design' \in Designs,
           DOMAIN ws' = Files, DOMAIN told' = Files,
           \A f \in Files : ws'[f] \in TextOf(f) \cup {Missing}
                            /\ told'[f] \in TextOf(f) \cup {Kept, Removed, Skipped},
           grants' \subseteq ((Files \cup {Comp}) \X {"view", "modify"})
    PROVE  SurfaceTypeOK'
<1>1. /\ seat' = seat /\ arm' = arm /\ repo' = repo /\ saved' = saved /\ phase' = phase
      /\ attempt' = attempt /\ sessions' = sessions /\ tool_calls' = tool_calls + 1
  BY DEF Called, disk
<1>2. tool_calls \in Nat
  BY DEF SurfaceInv, SurfaceTypeOK
<1> QED BY <1>1, <1>2 DEF SurfaceInv, SurfaceTypeOK

\* A call that leaves the workspace and the grants alone.
LEMMA NothingEdited ==
    ASSUME SurfaceInv, Called, design' \in Designs,
           design.prompt = "own" => design'.prompt = "own",
           UNCHANGED <<ws, wsDir, grants, deep, told>>
    PROVE  SurfaceInv'
<1>1. /\ ws' = ws /\ wsDir' = wsDir /\ grants' = grants /\ deep' = deep /\ told' = told
  OBVIOUS
<1>2. /\ Whole' /\ PatchKnown' /\ OutcomeKnown' /\ DesignKnown' /\ PromptKnown'
      /\ phase = "open" /\ phase' = "open" /\ seat' = seat /\ arm' = arm /\ repo' = repo
  BY CallFrame
<1>3. SurfaceTypeOK'
  BY <1>1, CallTypes DEF SurfaceInv, SurfaceTypeOK
<1>4. write_roots(seat)' = write_roots(seat)
  BY <1>2 DEF write_roots
<1>5. GrantsHeld'
  BY <1>1, <1>2, <1>4 DEF SurfaceInv, GrantsHeld
<1>6. WorkspaceKnown'
  BY <1>1, <1>2, CoversGrant DEF SurfaceInv, WorkspaceKnown
<1> QED BY <1>2, <1>3, <1>5, <1>6 DEF SurfaceInv

\* A call that writes the text of one file under a grant for it, or brings the
\* registry to its committed text.
LEMMA FileEdited ==
    ASSUME SurfaceInv, Called, design' \in Designs,
           design.prompt = "own" => design'.prompt = "own",
           NEW f \in Files, NEW text \in TextOf(f),
           ws' = [ws EXCEPT ![f] = text],
           \/ told' = [told EXCEPT ![f] = text] /\ deep' = TRUE
           \/ told' = told /\ deep' = deep /\ told[f] = Kept /\ text = repo[f],
           \/ grants' = grants /\ covers(f)
           \/ /\ f = Registry /\ grants' = grants \cup {<<Registry, "modify">>}
              /\ Registry \in write_roots(seat) /\ arm \notin DeepArms,
           f \in Modules => wsDir, wsDir' = wsDir
    PROVE  SurfaceInv'
<1>1. /\ Whole' /\ PatchKnown' /\ OutcomeKnown' /\ DesignKnown' /\ PromptKnown'
      /\ phase = "open" /\ phase' = "open" /\ seat' = seat /\ arm' = arm /\ repo' = repo
  BY CallFrame
<1>2. DOMAIN ws = Files /\ DOMAIN told = Files
  BY DEF SurfaceInv, SurfaceTypeOK
<1>3. \A h \in Files : IF h = f THEN /\ ws'[h] = text
                                      /\ \/ told'[h] = text /\ deep' = TRUE
                                         \/ told'[h] = Kept /\ text = repo[h]
                       ELSE ws'[h] = ws[h] /\ told'[h] = told[h] /\ (deep => deep')
  BY <1>2
<1>4. DOMAIN ws' = Files /\ DOMAIN told' = Files
  BY <1>2
<1>5. text \notin {Missing, Kept, Removed, Skipped}
  BY TextFacts
<1>6. SurfaceTypeOK'
  <2>1. grants' \subseteq ((Files \cup {Comp}) \X {"view", "modify"})
    BY FileFacts DEF SurfaceInv, SurfaceTypeOK
  <2>2. \A h \in Files : ws'[h] \in TextOf(h) \cup {Missing}
                         /\ told'[h] \in TextOf(h) \cup {Kept, Removed, Skipped}
    BY <1>3 DEF SurfaceInv, SurfaceTypeOK
  <2> QED BY <1>4, <2>1, <2>2, CallTypes
<1>7. write_roots(seat)' = write_roots(seat)
  BY <1>1 DEF write_roots
<1>8. GrantsHeld'
  <2>1. \A m \in Modules : ws'[m] # Missing => wsDir'
    BY <1>3, FileFacts DEF SurfaceInv, GrantsHeld
  <2>2. \A g \in grants' : g \in grants \/ (g[1] = Registry /\ Registry \in write_roots(seat)
                                            /\ arm \notin DeepArms)
    OBVIOUS
  <2>3. Registry \notin Modules \cup {Comp}
    BY FileFacts
  <2>4. \A g \in grants : /\ g[1] \in Modules \cup {Comp} => wsDir
                          /\ g[2] = "modify" => g[1] \in write_roots(seat) /\ arm \notin DeepArms
    BY DEF SurfaceInv, GrantsHeld
  <2> QED BY <2>1, <2>2, <2>3, <2>4, <1>1, <1>7 DEF GrantsHeld
<1>9. \A h \in Files : covers(h) => covers(h)'
  <2>1. grants \subseteq grants'
    OBVIOUS
  <2> QED BY <2>1, CoversGrant
<1>10. covers(f)'
  <2>1. CASE covers(f)
    BY <2>1, <1>9
  <2>2. CASE f = Registry /\ grants' = grants \cup {<<Registry, "modify">>}
    <3>1. <<Registry, "modify">> \in grants' /\ Under(Registry, f)
      BY <2>2 DEF Under
    <3> QED BY <3>1, CoversGrant
  <2> QED BY <2>1, <2>2
<1>11. \A h \in Files : h # f /\ covers(h)' => covers(h)
  <2> SUFFICES ASSUME NEW h \in Files, h # f, NEW g \in grants', g[2] = "modify", Under(g[1], h)
               PROVE  covers(h)
    BY CoversGrant
  <2>1. g \in grants
    <3>1. ASSUME f = Registry PROVE ~ Under(Registry, h)
      BY <3>1, FileFacts DEF Under
    <3>2. ASSUME g = <<Registry, "modify">> PROVE g[1] = Registry
      BY <3>2
    <3> QED BY <3>1, <3>2
  <2> QED BY <2>1, CoversGrant
<1>12. WorkspaceKnown'
  <2> SUFFICES ASSUME NEW h \in Files
               PROVE  /\ told'[h] # Kept => deep' /\ covers(h)' /\ ws'[h] = Final(told'[h])
                      /\ ws'[h] \notin {repo'[h], Missing} => told'[h] = ws'[h]
                      /\ h \notin Modules => told'[h] \notin {Removed, Skipped}
                                              /\ (covers(h)' => ws'[h] # Missing)
                      /\ covers(h)' /\ ws'[h] = Missing /\ told'[h] = Kept => repo'[h] = Missing
    BY DEF WorkspaceKnown
  <2>1. CASE h = f
    <3>1. Kept \notin {Removed, Skipped}
      BY SurfaceAssumption
    <3> QED BY <2>1, <3>1, <1>1, <1>3, <1>5, <1>10 DEF Final
  <2>2. CASE h # f
    BY <2>2, <1>1, <1>3, <1>9, <1>11 DEF SurfaceInv, WorkspaceKnown
  <2> QED BY <2>1, <2>2
<1> QED BY <1>1, <1>6, <1>8, <1>12 DEF SurfaceInv

-----------------------------------------------------------------------------
\* The arms that refuse deep modification leave no such grant.
LEMMA DeepAllowed == ~ deep_access_policy("modify") => arm \notin DeepArms
BY DEF deep_access_policy, DeepArms

\* An authorized write is covered, and a module's directory is there.
LEMMA Authorized ==
    ASSUME SurfaceInv, NEW f, authorize_write(f)
    PROVE  covers(f) /\ (f \in Modules => wsDir)
<1>1. PICK g \in grants : g[2] = "modify" /\ Under(g[1], f)
  BY DEF authorize_write
<1>2. covers(f)
  BY <1>1, CoversGrant
<1>3. f \in Modules => g[1] \in Modules \cup {Comp}
  BY <1>1 DEF Under
<1> QED BY <1>2, <1>3 DEF SurfaceInv, GrantsHeld

LEMMA EditSourceStep ==
    ASSUME SurfaceInv, NEW e \in Edits, EditSource(e[1], e[2])
    PROVE  SurfaceInv'
<1>1. e[1] \in Files /\ e[2] \in TextOf(e[1])
  BY SurfaceAssumption
<1>2. design' = design /\ design \in Designs /\ grants' = grants /\ wsDir' = wsDir
  BY DEF EditSource, SurfaceInv, SurfaceTypeOK
<1>3. covers(e[1]) /\ (e[1] \in Modules => wsDir)
  BY Authorized DEF EditSource
<1>4. /\ Called /\ deep' = TRUE
      /\ ws' = [ws EXCEPT ![e[1]] = e[2]] /\ told' = [told EXCEPT ![e[1]] = e[2]]
  BY DEF EditSource
<1> QED BY <1>1, <1>2, <1>3, <1>4, FileEdited

\* Writing the catalog of dynamic keys.
LEMMA WriteExtStep ==
    ASSUME SurfaceInv, Called, NEW specs \in TextOf(SchemaExt), WriteExt(specs),
           design' \in Designs, design.prompt = "own" => design'.prompt = "own"
    PROVE  SurfaceInv'
<1>1. covers(SchemaExt) /\ SchemaExt \in Files /\ SchemaExt \notin Modules
  BY Authorized, FileFacts DEF WriteExt
<1>2. /\ ws' = [ws EXCEPT ![SchemaExt] = specs] /\ told' = [told EXCEPT ![SchemaExt] = specs]
      /\ deep' = TRUE /\ wsDir' = wsDir /\ grants' = grants
  BY DEF WriteExt
<1> QED BY <1>1, <1>2, FileEdited

\* The catalog in force is one.
LEMMA SpecsType == SurfaceInv => load_dynamic_specs(ws) \in TextOf(SchemaExt)
BY FileFacts DEF SurfaceInv, SurfaceTypeOK, load_dynamic_specs

LEMMA AddKeyStep ==
    ASSUME SurfaceInv, NEW k \in Keys, NEW n \in Names, NEW v \in BOOLEAN, AddKey(k, n, v)
    PROVE  SurfaceInv'
<1>1. PICK specs \in {load_dynamic_specs(ws)} : WriteExt([specs EXCEPT ![k] = <<n, 1>>])
  BY DEF AddKey
<1>2. Called
  BY DEF AddKey
<1>3. design' \in Designs /\ (design.prompt = "own" => design'.prompt = "own")
  <2>1. design' = IF v THEN [design EXCEPT !.keys = @ \cup {k}] ELSE design
    BY DEF AddKey
  <2> QED BY <2>1 DEF SurfaceInv, SurfaceTypeOK, Designs
<1>4. [specs EXCEPT ![k] = <<n, 1>>] \in TextOf(SchemaExt)
  BY SpecsType, TextFacts
<1> QED BY <1>1, <1>2, <1>3, <1>4, WriteExtStep

LEMMA AddValueStep ==
    ASSUME SurfaceInv, NEW k \in Keys, AddValue(k)
    PROVE  SurfaceInv'
<1>1. PICK specs \in {load_dynamic_specs(ws)} :
          specs[k] # Missing /\ WriteExt([specs EXCEPT ![k] = <<@[1], @[2] + 1>>])
  BY DEF AddValue
<1>2. Called
  BY DEF AddValue
<1>3. design' = design /\ design \in Designs
  BY DEF AddValue, SurfaceInv, SurfaceTypeOK
<1>4. specs \in [Keys -> {Missing} \cup (Names \X Nat)]
  BY SpecsType, TextFacts
<1>5. <<specs[k][1], specs[k][2] + 1>> \in Names \X Nat
  BY <1>1, <1>4
<1>6. [specs EXCEPT ![k] = <<@[1], @[2] + 1>>] \in TextOf(SchemaExt)
  BY <1>4, <1>5, TextFacts
<1> QED BY <1>1, <1>2, <1>3, <1>6, WriteExtStep

\* Selecting, deselecting and configuring change the design alone.
LEMMA ShallowStep ==
    ASSUME SurfaceInv,
           \/ \E n \in Names : Select(n) \/ Deselect(n)
           \/ SetPrompt
           \/ \E ns \in SUBSET Names : SetTools(ns)
           \/ \E k \in Keys : SetKey(k)
    PROVE  SurfaceInv'
<1>1. design \in Designs
  BY DEF SurfaceInv, SurfaceTypeOK
<1>2. PICK d : design' = d
  OBVIOUS
<1>3. /\ d \in Designs /\ (design.prompt = "own" => d.prompt = "own")
      /\ \E b \in BOOLEAN : ShallowCall(b)
  <2>1. ASSUME NEW n \in Names, Select(n) \/ Deselect(n) PROVE <1>3
    <3>1. d = [design EXCEPT !.tools = @ \cup {n}] \/ d = [design EXCEPT !.tools = @ \ {n}]
      BY <2>1, <1>2 DEF Select, Deselect
    <3>2. ShallowCall(FALSE)
      BY <2>1 DEF Select, Deselect
    <3> QED BY <3>1, <3>2, <1>1 DEF Designs
  <2>2. ASSUME SetPrompt PROVE <1>3
    BY <2>2, <1>1, <1>2 DEF SetPrompt, Designs
  <2>3. ASSUME NEW ns \in SUBSET Names, SetTools(ns) PROVE <1>3
    BY <2>3, <1>1, <1>2 DEF SetTools, Designs
  <2>4. ASSUME NEW k \in Keys, SetKey(k) PROVE <1>3
    <3>1. d = [design EXCEPT !.keys = @ \cup {k}] /\ ShallowCall(FALSE)
      BY <2>4, <1>2 DEF SetKey
    <3> QED BY <3>1, <1>1 DEF Designs
  <2> QED BY <2>1, <2>2, <2>3, <2>4
<1>4. Called /\ UNCHANGED <<ws, wsDir, grants, deep, told>>
  BY <1>3 DEF ShallowCall
<1> QED BY <1>2, <1>3, <1>4, NothingEdited

-----------------------------------------------------------------------------
\* The registry that a call makes patch-visible: the copy if a grant covers it,
\* else the committed text.
LEMMA RegistryInForce ==
    ASSUME SurfaceInv, Called, NEW w, w = RegistryInWs
    PROVE  /\ w[Registry] \in TextOf(Registry)
           /\ \/ w = ws /\ covers(Registry)
              \/ w = [ws EXCEPT ![Registry] = repo[Registry]] /\ told[Registry] = Kept
<1>1. /\ DOMAIN ws = Files /\ Registry \in Files /\ Registry \notin Modules
      /\ repo[Registry] \in TextOf(Registry)
      /\ ws[Registry] \in TextOf(Registry) \cup {Missing}
      /\ told[Registry] \in TextOf(Registry) \cup {Kept, Removed, Skipped}
  BY FileFacts DEF SurfaceInv, SurfaceTypeOK
<1>2. CASE covers(Registry) /\ ws[Registry] # Missing
  BY <1>1, <1>2 DEF RegistryInWs
<1>3. CASE ~ (covers(Registry) /\ ws[Registry] # Missing)
  <2>1. w = Copy({Registry})
    BY <1>3 DEF RegistryInWs
  <2>2. w = [ws EXCEPT ![Registry] = repo[Registry]]
    BY <2>1, <1>1 DEF Copy
  <2>3. told[Registry] = Kept
    <3>1. told[Registry] # Kept => /\ covers(Registry) /\ ws[Registry] = Final(told[Registry])
                                   /\ told[Registry] \notin {Removed, Skipped}
      BY <1>1 DEF SurfaceInv, WorkspaceKnown, Called
    <3>2. Missing \notin TextOf(Registry)
      BY <1>1, TextFacts
    <3> QED BY <1>1, <1>3, <3>1, <3>2 DEF Final
  <2> QED BY <1>1, <2>2, <2>3
<1> QED BY <1>2, <1>3

\* A call that makes the registry patch-visible and then maybe writes it.
LEMMA RegistryWritten ==
    ASSUME SurfaceInv, Called, design' = design, wsDir' = wsDir, grants' = RegistryGrant,
           Registry \in write_roots(seat), arm \notin DeepArms, NEW w, w = RegistryInWs,
           \/ ws' = w /\ told' = told /\ deep' = deep
           \/ \E text \in TextOf(Registry) :
                  /\ ws' = [w EXCEPT ![Registry] = text]
                  /\ told' = [told EXCEPT ![Registry] = text] /\ deep' = TRUE
    PROVE  SurfaceInv'
<1>1. /\ w[Registry] \in TextOf(Registry)
      /\ \/ w = ws /\ covers(Registry)
         \/ w = [ws EXCEPT ![Registry] = repo[Registry]] /\ told[Registry] = Kept
  BY RegistryInForce
<1>2. design' \in Designs /\ (design.prompt = "own" => design'.prompt = "own")
  BY DEF SurfaceInv, SurfaceTypeOK
<1>3. \/ grants' = grants /\ covers(Registry)
      \/ grants' = grants \cup {<<Registry, "modify">>}
  BY DEF RegistryGrant
<1>4. Registry \in Files /\ Registry \notin Modules /\ repo[Registry] \in TextOf(Registry)
  BY FileFacts DEF SurfaceInv, SurfaceTypeOK
<1>5. CASE ws' = w /\ told' = told /\ deep' = deep
  <2>1. CASE w = ws /\ covers(Registry)
    <3>1. grants' = grants
      BY <2>1 DEF RegistryGrant
    <3> QED BY <1>2, <1>5, <2>1, <3>1, NothingEdited
  <2>2. CASE w = [ws EXCEPT ![Registry] = repo[Registry]] /\ told[Registry] = Kept
    BY <1>2, <1>3, <1>4, <1>5, <2>2, FileEdited
  <2> QED BY <1>1, <2>1, <2>2
<1>6. ASSUME NEW text \in TextOf(Registry),
             ws' = [w EXCEPT ![Registry] = text],
             told' = [told EXCEPT ![Registry] = text] /\ deep' = TRUE
      PROVE  SurfaceInv'
  <2>1. ws' = [ws EXCEPT ![Registry] = text]
    BY <1>1, <1>6
  <2> QED BY <1>2, <1>3, <1>4, <1>6, <2>1, FileEdited
<1> QED BY <1>5, <1>6

LEMMA RegisterStep ==
    ASSUME SurfaceInv, NEW m \in Modules, NEW d \in BOOLEAN, Register(m, d)
    PROVE  SurfaceInv'
<1>1. /\ Called /\ design' = design /\ wsDir' = wsDir /\ grants' = RegistryGrant
      /\ ~ RegisterRefused(m) /\ ~ deep_access_policy("modify")
  BY DEF Register
<1>2. Registry \in write_roots(seat) /\ arm \notin DeepArms
  BY <1>1, DeepAllowed DEF RegisterRefused, is_allowed
<1>3. PICK w \in {RegistryInWs} :
        \/ ws' = w /\ told' = told /\ deep' = deep
        \/ /\ w[Registry] # Garbage
           /\ ws' = [w EXCEPT ![Registry] = Append(@, Entry(m, d \/ DescribedBefore(m)))]
           /\ told' = [told EXCEPT ![Registry] = ws'[Registry]]
           /\ deep' = TRUE
  BY DEF Register
<1>4. /\ w = RegistryInWs /\ w[Registry] \in TextOf(Registry)
      /\ (w = ws \/ w = [ws EXCEPT ![Registry] = repo[Registry]])
  BY <1>1, <1>3, RegistryInForce
<1>5. DOMAIN w = Files /\ Registry \in Files
  BY <1>4, FileFacts DEF SurfaceInv, SurfaceTypeOK
<1>6. CASE ws' = w /\ told' = told /\ deep' = deep
  BY <1>1, <1>2, <1>4, <1>6, RegistryWritten
<1>7. CASE /\ w[Registry] # Garbage
           /\ ws' = [w EXCEPT ![Registry] = Append(@, Entry(m, d \/ DescribedBefore(m)))]
           /\ told' = [told EXCEPT ![Registry] = ws'[Registry]]
           /\ deep' = TRUE
  <2>1. Entry(m, d \/ DescribedBefore(m)) \in Entries
    <3>1. (d \/ DescribedBefore(m)) \in BOOLEAN
      OBVIOUS
    <3> QED BY <3>1, SurfaceAssumption DEF Entry, Entries
  <2>2. PICK text : text = Append(w[Registry], Entry(m, d \/ DescribedBefore(m)))
    OBVIOUS
  <2>3. text \in TextOf(Registry)
    BY <1>4, <1>7, <2>1, <2>2, TextFacts
  <2>4. ws' = [w EXCEPT ![Registry] = text] /\ ws'[Registry] = text
    BY <1>5, <1>7, <2>2
  <2>5. told' = [told EXCEPT ![Registry] = text]
    BY <1>7, <2>4
  <2> QED BY <1>1, <1>2, <1>4, <1>7, <2>3, <2>4, <2>5, RegistryWritten
<1> QED BY <1>3, <1>6, <1>7

LEMMA UpdateStep ==
    ASSUME SurfaceInv, NEW n \in Names, Update(n)
    PROVE  SurfaceInv'
<1>1. /\ Called /\ design' = design /\ wsDir' = wsDir /\ grants' = RegistryGrant
      /\ is_allowed(seat, Registry, "modify") /\ ~ deep_access_policy("modify")
  BY DEF Update
<1>2. Registry \in write_roots(seat) /\ arm \notin DeepArms
  BY <1>1, DeepAllowed DEF is_allowed
<1>3. PICK w \in {RegistryInWs} :
        \/ ws' = w /\ told' = told /\ deep' = deep
        \/ /\ is_valid(w[Registry], w, n)
           /\ ws' = [w EXCEPT ![Registry][Min(Named(w[Registry], n))].desc = TRUE]
           /\ told' = [told EXCEPT ![Registry] = ws'[Registry]]
           /\ deep' = TRUE
  BY DEF Update
<1>4. /\ w = RegistryInWs /\ w[Registry] \in TextOf(Registry)
      /\ (w = ws \/ w = [ws EXCEPT ![Registry] = repo[Registry]])
  BY <1>1, <1>3, RegistryInForce
<1>5. DOMAIN w = Files /\ Registry \in Files
  BY <1>4, FileFacts DEF SurfaceInv, SurfaceTypeOK
<1>6. CASE ws' = w /\ told' = told /\ deep' = deep
  BY <1>1, <1>2, <1>4, <1>6, RegistryWritten
<1>7. CASE /\ is_valid(w[Registry], w, n)
           /\ ws' = [w EXCEPT ![Registry][Min(Named(w[Registry], n))].desc = TRUE]
           /\ told' = [told EXCEPT ![Registry] = ws'[Registry]]
           /\ deep' = TRUE
  <2>1. w[Registry] \in Seq(Entries)
    BY <1>4, <1>7, GetFacts DEF is_valid
  <2>2. PICK i : i = Min(Named(w[Registry], n))
    OBVIOUS
  <2>3. PICK text : text = [w[Registry] EXCEPT ![i].desc = TRUE]
    OBVIOUS
  <2>4. text \in Seq(Entries)
    <3>1. \A e \in Entries : [e EXCEPT !.desc = TRUE] \in Entries
      BY DEF Entries
    <3>2. CASE i \in DOMAIN w[Registry]
      <4>1. w[Registry][i] \in Entries
        BY <2>1, <3>2
      <4>2. text = [w[Registry] EXCEPT ![i] = [w[Registry][i] EXCEPT !.desc = TRUE]]
        BY <2>3
      <4>3. [w[Registry][i] EXCEPT !.desc = TRUE] \in Entries
        BY <3>1, <4>1
      <4> QED BY <2>1, <3>2, <4>2, <4>3
    <3>3. CASE i \notin DOMAIN w[Registry]
      <4>1. text = w[Registry]
        BY <2>1, <2>3, <3>3
      <4> QED BY <2>1, <4>1
    <3> QED BY <3>2, <3>3
  <2>5. text \in TextOf(Registry)
    BY <2>4, TextFacts
  <2>6. ws' = [w EXCEPT ![Registry] = text] /\ ws'[Registry] = text
    BY <1>5, <1>7, <2>2, <2>3
  <2>7. told' = [told EXCEPT ![Registry] = text]
    BY <1>7, <2>6
  <2> QED BY <1>1, <1>2, <1>4, <1>7, <2>5, <2>6, <2>7, RegistryWritten
<1> QED BY <1>3, <1>6, <1>7

-----------------------------------------------------------------------------
LEMMA UnregisterStep ==
    ASSUME SurfaceInv, NEW n \in Names, Unregister(n)
    PROVE  SurfaceInv'
<1>1. /\ Called /\ design' = design /\ deep' = TRUE
      /\ is_allowed(seat, Registry, "modify") /\ ~ deep_access_policy("modify")
      /\ Named(resolve_registry(ws), n) # {}
  BY DEF Unregister
<1>2. Registry \in write_roots(seat) /\ arm \notin DeepArms
  BY <1>1, DeepAllowed DEF is_allowed
<1>3. PICK reg : reg = resolve_registry(ws)
  OBVIOUS
<1>4. PICK m : m = Get(reg, n).module
  OBVIOUS
<1>5. PICK text : text = Without(reg, n)
  OBVIOUS
<1>6. /\ grants' = grants \cup {<<Registry, "modify">>}
                          \cup (IF repo[m] = Missing THEN {} ELSE {<<m, "modify">>})
      /\ ws' = [ws EXCEPT ![Registry] = text, ![m] = Missing]
      /\ told' = [told EXCEPT ![Registry] = ws'[Registry],
                              ![m] = IF repo[m] = Missing THEN Kept ELSE Removed]
      /\ wsDir' = (wsDir \/ repo[m] # Missing)
  BY <1>3, <1>4, <1>5 DEF Unregister
<1>7. /\ DOMAIN ws = Files /\ DOMAIN told = Files
      /\ ws[Registry] \in TextOf(Registry) \cup {Missing} /\ repo[Registry] \in TextOf(Registry)
      /\ Registry \in Files /\ Registry \notin Modules
  BY FileFacts DEF SurfaceInv, SurfaceTypeOK
<1>8. reg \in TextOf(Registry)
  BY <1>3, <1>7 DEF resolve_registry
<1>9. reg \in Seq(Entries) /\ m \in Modules
  BY <1>1, <1>3, <1>4, <1>8, GetFacts DEF Entries
<1>10. text \in TextOf(Registry) /\ text \notin {Missing, Kept, Removed, Skipped}
  BY <1>5, <1>7, <1>9, WithoutType, TextFacts
<1>11. m \in Files /\ m # Registry
  BY <1>7, <1>9, FileFacts
<1>12. /\ DOMAIN ws' = Files /\ DOMAIN told' = Files
       /\ ws'[Registry] = text /\ told'[Registry] = text /\ ws'[m] = Missing
       /\ told'[m] = (IF repo[m] = Missing THEN Kept ELSE Removed)
       /\ \A h \in Files : h # m /\ h # Registry => ws'[h] = ws[h] /\ told'[h] = told[h]
  BY <1>6, <1>7, <1>11
<1>13. /\ Whole' /\ PatchKnown' /\ OutcomeKnown' /\ DesignKnown' /\ PromptKnown'
       /\ phase = "open" /\ phase' = "open" /\ seat' = seat /\ arm' = arm /\ repo' = repo
       /\ design' \in Designs
  BY <1>1, CallFrame DEF SurfaceInv, SurfaceTypeOK
<1>14. \A g \in grants' : \/ g \in grants \/ g = <<Registry, "modify">>
                          \/ g = <<m, "modify">> /\ repo[m] # Missing
  BY <1>6
<1>15. SurfaceTypeOK'
  <2>1. grants' \subseteq ((Files \cup {Comp}) \X {"view", "modify"})
    BY <1>7, <1>11, <1>14 DEF SurfaceInv, SurfaceTypeOK
  <2>2. \A h \in Files : ws'[h] \in TextOf(h) \cup {Missing}
                         /\ told'[h] \in TextOf(h) \cup {Kept, Removed, Skipped}
    BY <1>10, <1>12 DEF SurfaceInv, SurfaceTypeOK
  <2> QED BY <1>1, <1>12, <1>13, <2>1, <2>2, CallTypes
<1>16. write_roots(seat)' = write_roots(seat) /\ m \in write_roots(seat)
  <2>1. seat # "evaluate"
    BY <1>2 DEF write_roots
  <2> QED BY <2>1, <1>9, <1>11, <1>13, FileFacts DEF write_roots
<1>17. GrantsHeld'
  <2>1. \A x \in Modules : ws'[x] # Missing => wsDir'
    BY <1>6, <1>7, <1>9, <1>12, FileFacts DEF SurfaceInv, GrantsHeld
  <2>2. \A g \in grants' : \/ g \in grants \/ g[1] = Registry
                           \/ g[1] = m /\ wsDir'
    <3>1. \A g : g = <<Registry, "modify">> => g[1] = Registry
      OBVIOUS
    <3>2. \A g : g = <<m, "modify">> => g[1] = m
      OBVIOUS
    <3>3. repo[m] # Missing => wsDir'
      BY <1>6
    <3> QED BY <1>14, <3>1, <3>2, <3>3
  <2>3. Registry \notin Modules \cup {Comp}
    BY FileFacts
  <2>4. \A g \in grants : /\ g[1] \in Modules \cup {Comp} => wsDir
                          /\ g[2] = "modify" => g[1] \in write_roots(seat) /\ arm \notin DeepArms
    BY DEF SurfaceInv, GrantsHeld
  <2> QED BY <2>1, <2>2, <2>3, <2>4, <1>2, <1>6, <1>13, <1>16 DEF GrantsHeld
<1>18. grants \subseteq grants' /\ <<Registry, "modify">> \in grants'
       /\ (repo[m] # Missing => <<m, "modify">> \in grants')
  BY <1>6
<1>19. \A h \in Files : covers(h) => covers(h)'
  BY <1>18, CoversGrant
<1>20. covers(Registry)' /\ (repo[m] # Missing => covers(m)')
  <2>1. Under(Registry, Registry) /\ Under(m, m)
    BY DEF Under
  <2>2. <<Registry, "modify">>[1] = Registry /\ <<Registry, "modify">>[2] = "modify"
        /\ <<m, "modify">>[1] = m /\ <<m, "modify">>[2] = "modify"
    OBVIOUS
  <2> QED BY <1>18, <2>1, <2>2, CoversGrant
<1>21. \A h \in Files : h # Registry /\ h # m /\ covers(h)' => covers(h)
  <2> SUFFICES ASSUME NEW h \in Files, h # Registry, h # m,
                      NEW g \in grants', g[2] = "modify", Under(g[1], h)
               PROVE  covers(h)
    BY CoversGrant
  <2>1. g \in grants
    <3>1. ~ Under(Registry, h) /\ ~ Under(m, h)
      BY <1>9, FileFacts DEF Under
    <3>2. \A x : <<x, "modify">>[1] = x
      OBVIOUS
    <3> QED BY <1>14, <3>1, <3>2
  <2> QED BY <2>1, CoversGrant
<1>22. WorkspaceKnown'
  <2> SUFFICES ASSUME NEW h \in Files
               PROVE  /\ told'[h] # Kept => deep' /\ covers(h)' /\ ws'[h] = Final(told'[h])
                      /\ ws'[h] \notin {repo'[h], Missing} => told'[h] = ws'[h]
                      /\ h \notin Modules => told'[h] \notin {Removed, Skipped}
                                              /\ (covers(h)' => ws'[h] # Missing)
                      /\ covers(h)' /\ ws'[h] = Missing /\ told'[h] = Kept => repo'[h] = Missing
    BY DEF WorkspaceKnown
  <2>1. CASE h = Registry
    BY <2>1, <1>1, <1>10, <1>12, <1>20 DEF Final
  <2>2. CASE h = m
    <3>1. Kept # Removed /\ repo'[m] = repo[m]
      BY <1>13, SurfaceAssumption
    <3>2. told'[m] = Kept <=> repo[m] = Missing
      BY <1>12, <3>1
    <3> QED BY <2>2, <3>1, <3>2, <1>1, <1>9, <1>12, <1>20 DEF Final
  <2>3. CASE h # Registry /\ h # m
    BY <2>3, <1>1, <1>12, <1>13, <1>19, <1>21 DEF SurfaceInv, WorkspaceKnown
  <2> QED BY <2>1, <2>2, <2>3
<1> QED BY <1>13, <1>15, <1>17, <1>22 DEF SurfaceInv

\* What a request copies was committed; a file already in the workspace is
\* copied again only for a refresh, or with a directory that was not there.
LEMMA CopiedFacts ==
    ASSUME SurfaceInv, NEW r \in Requests, NEW got, got = Granted(r[1], r[2]),
           NEW fs, fs = CopiedIn(got, ~r[3])
    PROVE  /\ got \subseteq Files \cup {Comp} /\ fs \subseteq Files
           /\ \A p \in got : is_allowed(seat, p, r[2])
           /\ \A f \in fs : repo[f] # Missing
           /\ \A f \in fs : r[3] \/ ws[f] = Missing \/ (f \in Modules /\ ~wsDir)
           /\ \A f \in got \ {Comp} : f \in fs \/ ws[f] # Missing
<1>1. r[1] \in Files \cup {Comp, Glob}
  BY SurfaceAssumption
<1>2. /\ \A p \in got : p \in Expand(r[1]) /\ is_allowed(seat, p, r[2]) /\ InRepo(p)
      /\ \A p \in Expand(r[1]) : is_allowed(seat, p, r[2]) /\ InRepo(p) => p \in got
  BY DEF Granted
<1>3. Expand(r[1]) \subseteq Files \cup {Comp}
  BY <1>1, FileFacts DEF Expand
<1>4. got \subseteq Files \cup {Comp}
  BY <1>2, <1>3
<1>5. \A f \in got \ {Comp} : repo[f] # Missing
  BY <1>2 DEF InRepo
<1>6. \A f \in fs : \/ f \in Modules /\ repo[f] # Missing /\ (r[3] \/ ~wsDir)
                    \/ f \in got \ {Comp} /\ (r[3] \/ ws[f] = Missing)
  BY DEF CopiedIn
<1>7. \A f \in got \ {Comp} : f \in fs \/ ws[f] # Missing
  BY DEF CopiedIn
<1> QED BY <1>2, <1>4, <1>5, <1>6, <1>7, FileFacts

LEMMA RequestAccessStep ==
    ASSUME SurfaceInv, NEW r \in Requests, RequestAccess(r[1], r[2], r[3])
    PROVE  SurfaceInv'
<1>1. Called /\ design' = design /\ ~ deep_access_policy(r[2])
  BY DEF RequestAccess
<1>2. PICK got, fs :
        /\ got = Granted(r[1], r[2]) /\ fs = CopiedIn(got, ~r[3])
        /\ ws' = Copy(fs)
        /\ wsDir' = (wsDir \/ Comp \in got \/ fs \cap Modules # {})
        /\ grants' = grants \cup {<<p, r[2]>> : p \in got}
        /\ told' = [f \in Files |->
                       CASE f \in fs /\ (r[3] \/ ws[f] = Missing) -> Kept
                         [] f \in LeftOut(got, r[2], fs)         -> Skipped
                         [] OTHER                               -> told[f]]
        /\ deep' = (deep \/ r[2] = "modify")
  BY DEF RequestAccess
<1>3. /\ got \subseteq Files \cup {Comp} /\ fs \subseteq Files
      /\ \A p \in got : is_allowed(seat, p, r[2])
      /\ \A f \in fs : repo[f] # Missing
      /\ \A f \in fs : r[3] \/ ws[f] = Missing \/ (f \in Modules /\ ~wsDir)
      /\ \A f \in got \ {Comp} : f \in fs \/ ws[f] # Missing
  BY <1>2, CopiedFacts
<1>4. r[2] \in {"view", "modify"}
  BY SurfaceAssumption
<1>5. /\ Whole' /\ PatchKnown' /\ OutcomeKnown' /\ DesignKnown' /\ PromptKnown'
      /\ phase = "open" /\ phase' = "open" /\ seat' = seat /\ arm' = arm /\ repo' = repo
      /\ design' \in Designs
  BY <1>1, CallFrame DEF SurfaceInv, SurfaceTypeOK
<1>6. /\ DOMAIN ws' = Files /\ DOMAIN told' = Files
      /\ \A h \in Files : ws'[h] = IF h \in fs THEN repo[h] ELSE ws[h]
      /\ \A h \in Files : told'[h] = IF h \in fs /\ (r[3] \/ ws[h] = Missing) THEN Kept
                                    ELSE IF h \in LeftOut(got, r[2], fs) THEN Skipped ELSE told[h]
      /\ \A h : h \in LeftOut(got, r[2], fs) <=>
                  /\ h \in Modules /\ h \notin fs /\ Comp \in got /\ r[2] = "modify"
                  /\ repo[h] # Missing /\ ws[h] = Missing /\ told[h] = Kept
  <2>1. \A f \in Files : told'[f] = CASE f \in fs /\ (r[3] \/ ws[f] = Missing) -> Kept
                                    [] f \in LeftOut(got, r[2], fs)         -> Skipped
                                    [] OTHER                               -> told[f]
    BY <1>2
  <2>2. \A h : h \in LeftOut(got, r[2], fs) => h \notin fs
    BY DEF LeftOut
  <2>3. \A h \in Files : told'[h] = IF h \in fs /\ (r[3] \/ ws[h] = Missing) THEN Kept
                                    ELSE IF h \in LeftOut(got, r[2], fs) THEN Skipped ELSE told[h]
    BY <2>1, <2>2
  <2> QED BY <1>2, <2>3 DEF Copy, LeftOut
<1>7. \A g \in grants' : g \in grants \/ \E p \in got : g = <<p, r[2]>> /\ g[1] = p /\ g[2] = r[2]
  BY <1>2
<1>8. SurfaceTypeOK'
  <2>1. grants' \subseteq ((Files \cup {Comp}) \X {"view", "modify"})
    BY <1>3, <1>4, <1>7 DEF SurfaceInv, SurfaceTypeOK
  <2>2. \A h \in Files : ws'[h] \in TextOf(h) \cup {Missing}
                         /\ told'[h] \in TextOf(h) \cup {Kept, Removed, Skipped}
    BY <1>3, <1>6 DEF SurfaceInv, SurfaceTypeOK
  <2> QED BY <1>1, <1>5, <1>6, <2>1, <2>2, CallTypes
<1>9. GrantsHeld'
  <2>1. \A m \in Modules : ws'[m] # Missing => wsDir'
    BY <1>2, <1>6, FileFacts DEF SurfaceInv, GrantsHeld
  <2>2. \A p \in got : p \in Modules \cup {Comp} => wsDir'
    <3> SUFFICES ASSUME NEW p \in got, p \in Modules \cup {Comp} PROVE wsDir'
      OBVIOUS
    <3>1. CASE p = Comp
      BY <3>1, <1>2
    <3>2. CASE p \in Modules
      <4>1. p \in fs \/ ws[p] # Missing
        BY <3>2, <1>3, FileFacts
      <4>2. ws[p] # Missing => wsDir
        BY <3>2 DEF SurfaceInv, GrantsHeld
      <4> QED BY <3>2, <4>1, <4>2, <1>2
    <3> QED BY <3>1, <3>2
  <2>3. \A p \in got : r[2] = "modify" => p \in write_roots(seat) /\ arm \notin DeepArms
    BY <1>1, <1>3, DeepAllowed DEF is_allowed
  <2>4. write_roots(seat)' = write_roots(seat)
    BY <1>5 DEF write_roots
  <2>5. \A g \in grants : /\ g[1] \in Modules \cup {Comp} => wsDir
                          /\ g[2] = "modify" => g[1] \in write_roots(seat) /\ arm \notin DeepArms
    BY DEF SurfaceInv, GrantsHeld
  <2>6. wsDir => wsDir'
    BY <1>2
  <2> QED BY <1>5, <1>7, <2>1, <2>2, <2>3, <2>4, <2>5, <2>6 DEF GrantsHeld
<1>10. \A h \in Files : covers(h) => covers(h)'
  <2>1. grants \subseteq grants'
    BY <1>2
  <2> QED BY <2>1, CoversGrant
<1>11. \A h \in Files \ Modules : covers(h)' => covers(h) \/ h \in got
  <2> SUFFICES ASSUME NEW h \in Files \ Modules, NEW g \in grants', g[2] = "modify",
                      Under(g[1], h), h \notin got
               PROVE  covers(h)
    BY CoversGrant
  <2>1. g[1] = h
    BY DEF Under
  <2>2. g \in grants
    BY <1>7, <2>1
  <2> QED BY <2>2, CoversGrant
<1>12. WorkspaceKnown'
  <2> SUFFICES ASSUME NEW h \in Files
               PROVE  /\ told'[h] # Kept => deep' /\ covers(h)' /\ ws'[h] = Final(told'[h])
                      /\ ws'[h] \notin {repo'[h], Missing} => told'[h] = ws'[h]
                      /\ h \notin Modules => told'[h] \notin {Removed, Skipped}
                                              /\ (covers(h)' => ws'[h] # Missing)
                      /\ covers(h)' /\ ws'[h] = Missing /\ told'[h] = Kept => repo'[h] = Missing
    BY DEF WorkspaceKnown
  <2>1. /\ told[h] # Kept => deep /\ covers(h) /\ ws[h] = Final(told[h])
        /\ ws[h] \notin {repo[h], Missing} => told[h] = ws[h]
        /\ h \notin Modules => told[h] \notin {Removed, Skipped} /\ (covers(h) => ws[h] # Missing)
        /\ covers(h) /\ ws[h] = Missing /\ told[h] = Kept => repo[h] = Missing
    BY <1>5 DEF SurfaceInv, WorkspaceKnown
  <2>2. h \in LeftOut(got, r[2], fs) =>
           /\ h \in Modules /\ deep' /\ covers(h)' /\ ws'[h] = Missing /\ told'[h] = Skipped
    <3> SUFFICES ASSUME h \in LeftOut(got, r[2], fs)
                 PROVE  h \in Modules /\ deep' /\ covers(h)' /\ ws'[h] = Missing /\ told'[h] = Skipped
      OBVIOUS
    <3>1. h \in Modules /\ h \notin fs /\ Comp \in got /\ r[2] = "modify" /\ ws[h] = Missing
      BY <1>6
    <3>2. <<Comp, "modify">> \in grants' /\ <<Comp, "modify">>[1] = Comp
          /\ <<Comp, "modify">>[2] = "modify"
      BY <3>1, <1>2
    <3>3. Under(Comp, h)
      BY <3>1 DEF Under
    <3>4. covers(h)'
      BY <3>2, <3>3, CoversGrant
    <3> QED BY <3>1, <3>4, <1>2, <1>6
  <2>3. told'[h] # Kept => h \notin fs
    <3> SUFFICES ASSUME told'[h] # Kept, h \in fs PROVE FALSE
      OBVIOUS
    <3>1. ~r[3] /\ ws[h] # Missing
      BY <1>6
    <3>2. h \in Modules /\ ~wsDir
      BY <1>3, <3>1
    <3> QED BY <3>1, <3>2 DEF SurfaceInv, GrantsHeld
  <2>4. told'[h] # Kept => deep' /\ covers(h)' /\ ws'[h] = Final(told'[h])
    <3>1. CASE h \in LeftOut(got, r[2], fs)
      BY <2>2, <3>1 DEF Final
    <3>2. CASE h \notin LeftOut(got, r[2], fs)
      BY <1>2, <1>6, <1>10, <2>1, <2>3, <3>2
    <3> QED BY <3>1, <3>2
  <2>5. ws'[h] \notin {repo'[h], Missing} => told'[h] = ws'[h]
    BY <1>5, <1>6, <2>1
  <2>6. h \notin Modules => told'[h] \notin {Removed, Skipped}
    <3>1. Kept \notin {Removed, Skipped}
      BY SurfaceAssumption
    <3> QED BY <1>6, <2>1, <3>1
  <2>7. ASSUME h \notin Modules, covers(h)' PROVE ws'[h] # Missing
    <3>1. h # Comp
      BY FileFacts
    <3>2. h \in fs \/ ws[h] # Missing
      BY <1>3, <1>11, <2>1, <2>7, <3>1
    <3> QED BY <3>2, <1>3, <1>6
  <2>8. ASSUME covers(h)', ws'[h] = Missing, told'[h] = Kept PROVE repo'[h] = Missing
    <3>1. h \notin fs /\ ws[h] = Missing
      BY <1>3, <1>6, <2>8
    <3>2. told[h] = Kept /\ h \notin LeftOut(got, r[2], fs)
      <4>1. Kept # Skipped
        BY SurfaceAssumption
      <4> QED BY <1>6, <2>2, <2>8, <3>1, <4>1
    <3>3. CASE covers(h)
      BY <1>5, <2>1, <3>1, <3>2, <3>3
    <3>4. CASE ~covers(h)
      <4>1. PICK g \in grants' : g[2] = "modify" /\ Under(g[1], h)
        BY <2>8, CoversGrant
      <4>2. g \notin grants
        BY <3>4, <4>1, CoversGrant
      <4>3. PICK p \in got : g[1] = p /\ g[2] = r[2]
        BY <1>7, <4>2
      <4>4. p = h \/ (p = Comp /\ h \in Modules)
        BY <4>1, <4>3 DEF Under
      <4>5. p # h
        BY <1>3, <3>1, FileFacts
      <4> QED BY <1>5, <1>6, <3>1, <3>2, <4>1, <4>3, <4>4, <4>5
    <3> QED BY <3>3, <3>4
  <2> QED BY <2>4, <2>5, <2>6, <2>7, <2>8
<1> QED BY <1>5, <1>8, <1>9, <1>12 DEF SurfaceInv

LEMMA CallStep == SurfaceInv /\ Call => SurfaceInv'
<1> SUFFICES ASSUME SurfaceInv, Call PROVE SurfaceInv'
  OBVIOUS
<1>1. CASE \E r \in Requests : RequestAccess(r[1], r[2], r[3])
  BY <1>1, RequestAccessStep
<1>2. CASE \E e \in Edits : EditSource(e[1], e[2])
  BY <1>2, EditSourceStep
<1>3. CASE \E m \in Modules, d \in BOOLEAN : Register(m, d)
  BY <1>3, RegisterStep
<1>4. CASE \E n \in Names : Update(n)
  BY <1>4, UpdateStep
<1>5. CASE \E n \in Names : Unregister(n)
  BY <1>5, UnregisterStep
<1>6. CASE \/ \E n \in Names : Select(n) \/ Deselect(n)
           \/ SetPrompt
           \/ \E ns \in SUBSET Names : SetTools(ns)
           \/ \E k \in Keys : SetKey(k)
  BY <1>6, ShallowStep
<1>7. CASE \E k \in Keys : AddValue(k)
  BY <1>7, AddValueStep
<1>8. CASE \E k \in Keys, n \in Names, v \in BOOLEAN : AddKey(k, n, v)
  BY <1>8, AddKeyStep
<1> QED BY <1>1, <1>2, <1>3, <1>4, <1>5, <1>6, <1>7, <1>8 DEF Call

-----------------------------------------------------------------------------
(* The framework's steps.                                                   *)

\* A healed design selects only what the committed tree delivers.
LEMMA HealFacts ==
    ASSUME NEW d \in Designs
    PROVE  /\ heal(d) \in Designs /\ heal(d).prompt = d.prompt
           /\ \A n \in heal(d).tools : Delivers(repo, n)
<1>1. PICK e : e = heal_design_keys(d)
  OBVIOUS
<1>2. e \in Designs /\ e.prompt = d.prompt
  BY <1>1 DEF heal_design_keys, Designs
<1>3. heal(d) = [e EXCEPT !.tools = {n \in @ : Delivers(repo, n)}]
  BY <1>1 DEF heal, heal_design_slots
<1>4. heal(d).tools = {n \in e.tools : Delivers(repo, n)}
  BY <1>2, <1>3 DEF Designs
<1> QED BY <1>2, <1>3, <1>4 DEF Designs

LEMMA DesignsPresent == Missing \notin Designs
BY SurfaceAssumption

\* What the tree in force says of itself does not change with the session.
LEMMA WholeFrame ==
    ASSUME Whole, seat' = seat, repo' = repo
    PROVE  Whole'
<1>1. always_on_dirs' = always_on_dirs
  BY DEF always_on_dirs
<1> QED BY <1>1 DEF Whole

LEMMA StartupStep ==
    ASSUME SurfaceInv, Startup
    PROVE  SurfaceInv'
<1>1. /\ phase = "start" /\ exit' = "fresh" /\ seat' = seat /\ arm' = arm /\ repo' = repo
      /\ ws' = ws /\ wsDir' = wsDir /\ grants' = grants /\ design' = design /\ told' = told
      /\ tool_calls' = tool_calls /\ attempt' = attempt /\ sessions' = sessions
      /\ forensic' = forensic /\ evolved' = evolved
  BY DEF Startup, session
<1>2. PICK d \in {IF saved = Missing THEN seed_design ELSE saved} :
         /\ saved' = d
         /\ phase' = IF ~tools_ok(repo) THEN "refused"
                     ELSE IF seat # "plan" /\ heal(d) # d THEN "repair" ELSE "idle"
  BY DEF Startup
<1>3. tools_ok(repo)
  BY SoundIsOk DEF SurfaceInv, Whole
<1>4. RegisteredNames \subseteq Names
  <2> SUFFICES ASSUME NEW e \in ToSet(parse_registry_file(repo[Registry]))
               PROVE  e.name \in Names
    BY DEF RegisteredNames
  <2>1. repo[Registry] \in TextOf(Registry)
    BY FileFacts DEF SurfaceInv, SurfaceTypeOK
  <2>2. Named(repo[Registry], e.name) # {}
    BY DEF Named, ToSet
  <2> QED BY <2>1, <2>2, SoundDelivers DEF SurfaceInv, Whole
<1>5. d \in Designs
  <2>1. seed_design \in Designs
    BY <1>4 DEF seed_design, initial_config, Designs
  <2> QED BY <1>2, <2>1 DEF SurfaceInv, SurfaceTypeOK
<1>6. d # Missing /\ (saved # Missing => d = saved)
  BY <1>2, <1>5, DesignsPresent
<1>7. phase' \in {"repair", "idle"} /\ (phase' = "idle" => seat = "plan" \/ heal(d) = d)
  BY <1>2, <1>3
<1>8. SurfaceTypeOK'
  BY <1>1, <1>2, <1>5, <1>7 DEF SurfaceInv, SurfaceTypeOK
<1>9. GrantsHeld'
  BY <1>1, <1>7 DEF SurfaceInv, GrantsHeld
<1>10. WorkspaceKnown' /\ PatchKnown'
  BY <1>7 DEF WorkspaceKnown, PatchKnown
<1>11. DesignDelivers'
  <2>1. ASSUME heal(d) = d PROVE \A n \in d.tools : Delivers(repo, n)
    BY <2>1, <1>5, HealFacts
  <2> QED BY <1>1, <1>2, <1>7, <2>1 DEF DesignDelivers
<1>12. OutcomeKnown'
  BY <1>7, <1>11 DEF OutcomeKnown, OfferedIsDelivered, StartupNeverRefused
<1>13. DesignKnown' /\ PromptKnown'
  BY <1>1, <1>2, <1>6, <1>7 DEF SurfaceInv, DesignKnown, PromptKnown
<1>14. Whole'
  BY <1>1, WholeFrame DEF SurfaceInv
<1> QED BY <1>8, <1>9, <1>10, <1>12, <1>13, <1>14 DEF SurfaceInv

LEMMA RepairStep ==
    ASSUME SurfaceInv, SetAside \/ SaveRepaired
    PROVE  SurfaceInv'
<1>1. /\ phase = "repair" /\ seat' = seat /\ arm' = arm /\ repo' = repo /\ exit' = exit
      /\ ws' = ws /\ wsDir' = wsDir /\ grants' = grants /\ told' = told
      /\ tool_calls' = tool_calls /\ attempt' = attempt /\ sessions' = sessions
      /\ evolved' = evolved /\ phase' \in {"repair", "idle"}
  BY DEF SetAside, SaveRepaired, session
<1>2. GrantsHeld'
  BY <1>1 DEF SurfaceInv, GrantsHeld
<1>3. WorkspaceKnown' /\ PatchKnown'
  BY <1>1 DEF WorkspaceKnown, PatchKnown
<1>4. Whole'
  BY <1>1, WholeFrame DEF SurfaceInv
<1>5. CASE SetAside
  <2>1. /\ phase' = "repair" /\ saved # Missing /\ saved' = Missing /\ design' = heal(saved)
        /\ forensic' = (forensic \/ saved.prompt = "own")
    BY <1>1, <1>5 DEF SetAside
  <2>2. saved \in Designs
    BY <2>1 DEF SurfaceInv, SurfaceTypeOK
  <2>3. design' \in Designs /\ \A n \in design'.tools : Delivers(repo, n)
    BY <2>1, <2>2, HealFacts
  <2>4. SurfaceTypeOK'
    BY <1>1, <2>1, <2>3 DEF SurfaceInv, SurfaceTypeOK
  <2>5. OutcomeKnown'
    BY <2>1 DEF OutcomeKnown, OfferedIsDelivered, DesignDelivers, StartupNeverRefused
  <2>6. DesignKnown'
    BY <1>1, <2>1, <2>3 DEF DesignKnown
  <2>7. PromptKnown'
    BY <1>1, <2>1 DEF SurfaceInv, PromptKnown
  <2> QED BY <1>2, <1>3, <1>4, <2>4, <2>5, <2>6, <2>7 DEF SurfaceInv
<1>6. CASE SaveRepaired
  <2>1. /\ phase' = "idle" /\ saved = Missing /\ saved' = design /\ design' = design
        /\ forensic' = forensic
    BY <1>1, <1>6 DEF SaveRepaired, session
  <2>2. design \in Designs /\ design # Missing
    BY DesignsPresent DEF SurfaceInv, SurfaceTypeOK
  <2>3. \A n \in design.tools : Delivers(repo, n)
    BY <1>1, <2>1 DEF SurfaceInv, DesignKnown
  <2>4. SurfaceTypeOK'
    BY <1>1, <2>1, <2>2 DEF SurfaceInv, SurfaceTypeOK
  <2>5. OutcomeKnown'
    BY <1>1, <2>1, <2>3 DEF OutcomeKnown, OfferedIsDelivered, DesignDelivers, StartupNeverRefused
  <2>6. DesignKnown' /\ PromptKnown'
    BY <1>1, <2>1, <2>2 DEF SurfaceInv, DesignKnown, PromptKnown
  <2> QED BY <1>2, <1>3, <1>4, <2>4, <2>5, <2>6 DEF SurfaceInv
<1> QED BY <1>5, <1>6

LEMMA CrashStep ==
    ASSUME SurfaceInv, Crash
    PROVE  SurfaceInv'
<1>1. /\ phase' = "start" /\ seat' = seat /\ arm' = arm /\ repo' = repo
      /\ ws' = ws /\ wsDir' = wsDir /\ grants' = {} /\ told' = [f \in Files |-> Kept]
      /\ tool_calls' = 0 /\ attempt' = 0 /\ sessions' = sessions /\ saved' = saved
      /\ forensic' = forensic /\ evolved' = evolved /\ design' = initial_config
  BY DEF Crash, disk
<1>2. design' \in Designs
  BY <1>1 DEF initial_config, Designs
<1>3. SurfaceTypeOK'
  <2>1. attempt' \in 0 .. RetryK /\ tool_calls' \in Nat
    BY <1>1, SurfaceAssumption
  <2> QED BY <1>1, <1>2, <2>1 DEF SurfaceInv, SurfaceTypeOK
<1>4. GrantsHeld'
  BY <1>1 DEF SurfaceInv, GrantsHeld
<1>5. WorkspaceKnown' /\ PatchKnown' /\ DesignKnown'
  BY <1>1 DEF WorkspaceKnown, PatchKnown, DesignKnown
<1>6. OutcomeKnown'
  BY <1>1 DEF OutcomeKnown, OfferedIsDelivered, DesignDelivers, StartupNeverRefused
<1>7. PromptKnown'
  BY <1>1 DEF SurfaceInv, PromptKnown
<1>8. Whole'
  BY <1>1, WholeFrame DEF SurfaceInv
<1> QED BY <1>3, <1>4, <1>5, <1>6, <1>7, <1>8 DEF SurfaceInv

LEMMA OpenSessionStep ==
    ASSUME SurfaceInv, OpenSession
    PROVE  SurfaceInv'
<1>1. /\ phase = "idle" /\ phase' = "open" /\ seat' = seat /\ arm' = arm /\ repo' = repo
      /\ ws' = [f \in Files |-> Missing] /\ grants' = {} /\ told' = [f \in Files |-> Kept]
      /\ tool_calls' = 0 /\ attempt' = 0 /\ sessions' = sessions + 1 /\ saved' = saved
      /\ sessions < MaxSessions
      /\ forensic' = forensic /\ evolved' = evolved /\ design' = saved
  BY DEF OpenSession, begin_session, disk, Bare
<1>2. saved \in Designs
  BY <1>1 DEF SurfaceInv, SurfaceTypeOK, DesignKnown
<1>3. \A f \in Files : ws'[f] = Missing /\ told'[f] = Kept
  BY <1>1
<1>4. SurfaceTypeOK'
  <2>1. attempt' \in 0 .. RetryK /\ tool_calls' \in Nat
    BY <1>1, SurfaceAssumption
  <2>2. sessions' \in 0 .. MaxSessions
    BY <1>1, SurfaceAssumption DEF SurfaceInv, SurfaceTypeOK
  <2>3. DOMAIN ws' = Files /\ DOMAIN told' = Files
    BY <1>1
  <2> QED BY <1>1, <1>2, <1>3, <2>1, <2>2, <2>3 DEF SurfaceInv, SurfaceTypeOK
<1>5. GrantsHeld'
  BY <1>1, <1>3, FileFacts DEF GrantsHeld
<1>6. WorkspaceKnown'
  <2>1. \A f : ~ covers(f)'
    BY <1>1, CoversGrant
  <2> QED BY <1>3, <2>1, SurfaceAssumption DEF WorkspaceKnown
<1>7. PatchKnown'
  BY <1>1 DEF PatchKnown
<1>8. OutcomeKnown'
  BY <1>1 DEF OutcomeKnown, OfferedIsDelivered, DesignDelivers, StartupNeverRefused
<1>9. DesignKnown' /\ PromptKnown'
  BY <1>1 DEF SurfaceInv, DesignKnown, PromptKnown
<1>10. Whole'
  BY <1>1, WholeFrame DEF SurfaceInv
<1> QED BY <1>4, <1>5, <1>6, <1>7, <1>8, <1>9, <1>10 DEF SurfaceInv

LEMMA RetryStep ==
    ASSUME SurfaceInv, RetryRun
    PROVE  SurfaceInv'
<1>1. /\ phase = "open" /\ phase' = "open" /\ seat' = seat /\ arm' = arm /\ repo' = repo
      /\ ws' = ws /\ wsDir' = wsDir /\ grants' = grants /\ told' = told /\ deep' = deep
      /\ tool_calls' = 0 /\ attempt' = attempt + 1 /\ sessions' = sessions /\ saved' = saved
      /\ ~ (attempt >= RetryK)
      /\ forensic' = forensic /\ evolved' = evolved /\ design' = design
  BY DEF RetryRun, disk, Exhausted
<1>2. SurfaceTypeOK'
  <2>1. attempt' \in 0 .. RetryK /\ tool_calls' \in Nat
    BY <1>1, SurfaceAssumption DEF SurfaceInv, SurfaceTypeOK
  <2> QED BY <1>1, <2>1 DEF SurfaceInv, SurfaceTypeOK
<1>3. write_roots(seat)' = write_roots(seat)
  BY <1>1 DEF write_roots
<1>4. GrantsHeld'
  BY <1>1, <1>3 DEF SurfaceInv, GrantsHeld
<1>5. WorkspaceKnown'
  BY <1>1, CoversGrant DEF SurfaceInv, WorkspaceKnown
<1>6. PatchKnown'
  BY <1>1 DEF PatchKnown
<1>7. OutcomeKnown'
  BY <1>1 DEF OutcomeKnown, OfferedIsDelivered, DesignDelivers, StartupNeverRefused
<1>8. DesignKnown' /\ PromptKnown'
  BY <1>1 DEF SurfaceInv, DesignKnown, PromptKnown
<1>9. Whole'
  BY <1>1, WholeFrame DEF SurfaceInv
<1> QED BY <1>2, <1>4, <1>5, <1>6, <1>7, <1>8, <1>9 DEF SurfaceInv

-----------------------------------------------------------------------------
\* What the patch of a session carries.
LEMMA WorkspacePatch ==
    ASSUME SurfaceInv, phase = "open", NEW p, p = SessionPatch
    PROVE  /\ DOMAIN p \subseteq Files /\ (DOMAIN p = {} => p = Empty)
           /\ \A f \in DOMAIN p : deep /\ covers(f) /\ ws[f] # repo[f] /\ p[f][1].new = ws[f]
           /\ \A f \in Files : deep /\ covers(f) /\ ws[f] # repo[f] => f \in DOMAIN p
           /\ p # Empty => p = build_patch_from_workspace
<1> DEFINE above(f) == {path \in granted_paths("modify") : Under(path, f)}
           changed  == {f \in Files : above(f) # {} /\ ws[f] # repo[f]}
           built    == build_patch_from_workspace
<1>1. built = [f \in changed |-> <<file_diff(f), Cardinality(above(f))>>]
  BY DEF build_patch_from_workspace
<1>2. \A f : above(f) # {} <=> covers(f)
  BY DEF covers
<1>3. \A f : f \in changed <=> f \in Files /\ covers(f) /\ ws[f] # repo[f]
  BY <1>2
<1> HIDE DEF above, changed
<1>4. DOMAIN built = changed
  BY <1>1
<1>5. \A f \in changed : built[f][1].new = ws[f]
  BY <1>1 DEF file_diff
<1>6. changed = {} => built = Empty
  BY <1>1 DEF Empty
<1> HIDE DEF built
<1>7. p = IF deep THEN built ELSE Empty
  BY DEF SessionPatch, has_deep_write, built
<1>8. DOMAIN Empty = {}
  BY DEF Empty
<1>9. CASE deep
  BY <1>3, <1>4, <1>5, <1>6, <1>7, <1>9 DEF built
<1>10. CASE ~deep
  BY <1>7, <1>8, <1>10
<1> QED BY <1>9, <1>10

LEMMA PatchedFacts ==
    /\ \A p, f : f \in Files => Patched(p)[f] = IF f \in DOMAIN p THEN p[f][1].new ELSE repo[f]
    /\ \A p : Patched(p) = [f \in Files |-> Patched(p)[f]]
    /\ Whole => \A p : DOMAIN p = {} => Patched(p) = repo
    /\ DOMAIN Empty = {}
<1>1. \A p, f : f \in Files => Patched(p)[f] = IF f \in DOMAIN p THEN p[f][1].new ELSE repo[f]
  BY DEF Patched
<1>2. \A p : Patched(p) = [f \in Files |-> Patched(p)[f]]
  BY DEF Patched
<1>3. ASSUME Whole, NEW p, DOMAIN p = {} PROVE Patched(p) = repo
  <2>1. Patched(p) = [f \in Files |-> repo[f]]
    BY <1>3 DEF Patched
  <2> QED BY <2>1, <1>3 DEF Whole
<1> QED BY <1>1, <1>2, <1>3 DEF Empty

\* The grants keep the patch of a session within its write roots.
LEMMA PatchBounded ==
    ASSUME SurfaceInv, phase = "open", NEW p, p = SessionPatch
    PROVE  /\ Foreign \notin DOMAIN p
           /\ seat = "evaluate" \/ arm \in DeepArms => DOMAIN p = {}
<1>1. \A f \in DOMAIN p : \E g \in grants : g[2] = "modify" /\ Under(g[1], f)
  BY WorkspacePatch, CoversGrant
<1>2. \A f \in DOMAIN p : \E x \in write_roots(seat) : Under(x, f) /\ arm \notin DeepArms
  BY <1>1 DEF SurfaceInv, GrantsHeld
<1>3. Foreign \notin DOMAIN p
  <2>1. \A x \in write_roots(seat) : ~ Under(x, Foreign)
    BY FileFacts DEF write_roots, Under
  <2> QED BY <1>2, <2>1
<1>4. seat = "evaluate" \/ arm \in DeepArms => DOMAIN p = {}
  BY <1>2 DEF write_roots
<1> QED BY <1>3, <1>4

\* What the catalog is in the workspace, it is in the patched tree.
LEMMA RegistryLands ==
    ASSUME SurfaceInv, phase = "open", NEW p, p = SessionPatch, p # Empty
    PROVE  Patched(p)[Registry] = resolve_registry(ws)
<1>1. Registry \in Files /\ Registry \notin Modules
  BY FileFacts
<1>2. /\ told[Registry] # Kept => covers(Registry)
      /\ ws[Registry] \notin {repo[Registry], Missing} => told[Registry] = ws[Registry]
      /\ covers(Registry) => ws[Registry] # Missing
  BY <1>1 DEF SurfaceInv, WorkspaceKnown
<1>3. /\ DOMAIN p # {}
      /\ \A f \in DOMAIN p : deep /\ covers(f) /\ ws[f] # repo[f] /\ p[f][1].new = ws[f]
      /\ \A f \in Files : deep /\ covers(f) /\ ws[f] # repo[f] => f \in DOMAIN p
  BY WorkspacePatch
<1>4. deep
  BY <1>3
<1>5. Patched(p)[Registry] = IF Registry \in DOMAIN p THEN p[Registry][1].new ELSE repo[Registry]
  BY <1>1, PatchedFacts
<1>6. ws[Registry] \in TextOf(Registry) \cup {Missing} /\ Kept \notin TextOf(Registry)
  BY <1>1, TextFacts DEF SurfaceInv, SurfaceTypeOK
<1>7. CASE covers(Registry)
  BY <1>1, <1>2, <1>3, <1>4, <1>5, <1>7 DEF resolve_registry
<1>8. CASE ~ covers(Registry)
  <2>1. ws[Registry] \in {repo[Registry], Missing}
    BY <1>2, <1>6, <1>8
  <2>2. Patched(p)[Registry] = repo[Registry]
    BY <1>3, <1>5, <1>8
  <2> QED BY <2>1, <2>2 DEF resolve_registry
<1> QED BY <1>7, <1>8

LEMMA EndSessionStep ==
    ASSUME SurfaceInv, EndSession
    PROVE  SurfaceInv'
<1>1. /\ phase = "open" /\ phase' = "closing" /\ seat' = seat /\ arm' = arm /\ repo' = repo
      /\ ws' = [f \in Files |-> Missing] /\ grants' = {} /\ told' = told /\ deep' = deep
      /\ tool_calls' = 0 /\ attempt' = 0 /\ sessions' = sessions /\ saved' = saved
      /\ forensic' = forensic /\ evolved' = evolved /\ design' = design
      /\ offered' = {n \in Names : list_selectable(n)}
  BY DEF EndSession, disk, Bare
<1>2. PICK p, ok :
        /\ p = SessionPatch /\ (ok <=> p = Empty \/ check_patch(p))
        /\ patch' = (IF ok THEN p ELSE Empty)
        /\ exit' = (IF ~ok THEN "exhausted" ELSE IF p = Empty THEN "empty" ELSE "patched")
        /\ warned' = warn_dropped(~ok)
  BY DEF EndSession
<1>3. /\ DOMAIN p \subseteq Files /\ (DOMAIN p = {} => p = Empty)
      /\ \A f \in DOMAIN p : deep /\ covers(f) /\ ws[f] # repo[f] /\ p[f][1].new = ws[f]
      /\ \A f \in Files : deep /\ covers(f) /\ ws[f] # repo[f] => f \in DOMAIN p
      /\ p # Empty => p = build_patch_from_workspace
  BY <1>1, <1>2, WorkspacePatch
<1>4. /\ Foreign \notin DOMAIN p
      /\ seat = "evaluate" \/ arm \in DeepArms => DOMAIN p = {}
  BY <1>1, <1>2, PatchBounded
<1>5. Whole
  BY DEF SurfaceInv
<1>6. PICK q : q = patch'
  OBVIOUS
<1>7. /\ q = p \/ (q = Empty /\ ~ok)
      /\ DOMAIN q \subseteq DOMAIN p /\ \A f \in DOMAIN q : q[f] = p[f]
  BY <1>2, <1>6, PatchedFacts
<1>8. \A f \in Files : Patched(q)[f] = IF f \in DOMAIN q THEN ws[f] ELSE repo[f]
  BY <1>3, <1>7, PatchedFacts
<1>9. \A f \in Files :
         /\ told[f] # Kept => deep /\ covers(f) /\ ws[f] = Final(told[f])
         /\ ws[f] \notin {repo[f], Missing} => told[f] = ws[f]
         /\ f \notin Modules => told[f] \notin {Removed, Skipped} /\ (covers(f) => ws[f] # Missing)
         /\ covers(f) /\ ws[f] = Missing /\ told[f] = Kept => repo[f] = Missing
  BY <1>1 DEF SurfaceInv, WorkspaceKnown
<1>10. TreeSound(Patched(q), always_on_dirs)
  <2>1. CASE q = Empty
    BY <2>1, <1>5, PatchedFacts DEF Whole
  <2>2. CASE q # Empty
    <3>1. q = p /\ ok
      BY <2>2, <1>2, <1>6, <1>7
    <3>2. check_patch(p)
      BY <2>2, <3>1, <1>2
    <3> QED BY <3>1, <3>2, <1>5, CommitSound DEF Whole
  <2> QED BY <2>1, <2>2
<1>11. \A f \in Files : Patched(q)[f] \in TextOf(f) \/ (f \in Modules /\ Patched(q)[f] = Missing)
  <2> SUFFICES ASSUME NEW f \in Files
               PROVE  Patched(q)[f] \in TextOf(f) \/ (f \in Modules /\ Patched(q)[f] = Missing)
    OBVIOUS
  <2>1. /\ ws[f] \in TextOf(f) \cup {Missing}
        /\ repo[f] \in TextOf(f) \/ (f \in Modules /\ repo[f] = Missing)
    BY DEF SurfaceInv, SurfaceTypeOK
  <2>2. CASE f \in DOMAIN q
    BY <2>1, <2>2, <1>3, <1>7, <1>8, <1>9
  <2>3. CASE f \notin DOMAIN q
    BY <2>1, <2>3, <1>8
  <2> QED BY <2>2, <2>3
<1>12. \A f \in Files : exit' # "exhausted" /\ told[f] # Kept => Patched(q)[f] = Final(told[f])
  <2> SUFFICES ASSUME NEW f \in Files, exit' # "exhausted", told[f] # Kept
               PROVE  Patched(q)[f] = Final(told[f])
    OBVIOUS
  <2>1. q = p
    BY <1>2, <1>7
  <2> QED BY <2>1, <1>3, <1>8, <1>9
<1>13. \A f \in Files : Patched(q)[f] # repo[f] =>
          told[f] # Kept /\ Patched(q)[f] = Final(told[f])
  <2> SUFFICES ASSUME NEW f \in Files, Patched(q)[f] # repo[f]
               PROVE  told[f] # Kept /\ Patched(q)[f] = Final(told[f])
    OBVIOUS
  <2>1. covers(f) /\ ws[f] # repo[f] /\ Patched(q)[f] = ws[f]
    BY <1>3, <1>7, <1>8
  <2>2. told[f] # Kept
    <3>1. CASE ws[f] = Missing
      BY <1>9, <2>1, <3>1
    <3>2. CASE ws[f] # Missing
      <4>1. ws[f] \in TextOf(f) /\ Kept \notin TextOf(f)
        BY <3>2, TextFacts DEF SurfaceInv, SurfaceTypeOK
      <4> QED BY <1>9, <2>1, <3>2, <4>1
    <3> QED BY <3>1, <3>2
  <2> QED BY <1>9, <2>1, <2>2
<1>14. exit' = "patched" => \A n \in offered' : Delivers(Patched(q), n)
  <2> SUFFICES ASSUME exit' = "patched", NEW n \in Names, list_selectable(n)
               PROVE  Delivers(Patched(q), n)
    BY <1>1
  <2>1. q = p /\ p # Empty
    BY <1>2, <1>7
  <2>2. Patched(q)[Registry] = resolve_registry(ws)
    BY <2>1, <1>1, <1>2, RegistryLands
  <2>3. Named(Patched(q)[Registry], n) # {}
    BY <2>2 DEF list_selectable
  <2>4. Patched(q)[Registry] \in TextOf(Registry)
    BY <1>11, FileFacts
  <2> QED BY <1>10, <2>3, <2>4, SoundDelivers
<1>15. seat = "evaluate" \/ arm \in DeepArms => Patched(q) = repo
  <2>1. DOMAIN p = {} => DOMAIN q = {}
    BY <1>7
  <2> QED BY <1>4, <1>5, <2>1, PatchedFacts
<1>16. Patched(q)[Foreign] = repo[Foreign]
  BY <1>4, <1>7, <1>8, FileFacts
<1>17. always_on_dirs' = always_on_dirs
  BY <1>1 DEF always_on_dirs
<1>18. Patched(patch)' = Patched(q)
  BY <1>1, <1>6 DEF Patched
<1>19. PatchKnown'
  <2>1. DOMAIN q \subseteq Files
    BY <1>3, <1>7
  <2> QED BY <1>1, <1>6, <1>10, <1>11, <1>12, <1>13, <1>14, <1>15, <1>16, <1>17, <1>18, <2>1
          DEF PatchKnown
<1>20. OutcomeKnown'
  <2>1. exit' \in {"empty", "exhausted", "patched"}
    BY <1>2
  <2>2. exit' = "exhausted" => warned'
    <3> SUFFICES ASSUME exit' = "exhausted" PROVE warn_dropped(~ok)
      BY <1>2
    <3>1. ~ok /\ p # Empty
      BY <1>2
    <3>2. build_patch_from_workspace # Empty
      BY <3>1, <1>3
    <3> QED BY <3>1, <3>2 DEF warn_dropped
  <2>3. seat = "evaluate" => exit' = "empty"
    BY <1>2, <1>3, <1>4
  <2> QED BY <1>1, <2>1, <2>2, <2>3
          DEF OutcomeKnown, OfferedIsDelivered, DesignDelivers, StartupNeverRefused
<1>21. \A f \in Files : ws'[f] = Missing
  BY <1>1
<1>22. SurfaceTypeOK'
  <2>1. attempt' \in 0 .. RetryK /\ tool_calls' \in Nat
    BY <1>1, SurfaceAssumption
  <2>2. DOMAIN ws' = Files
    BY <1>1
  <2> QED BY <1>1, <1>21, <2>1, <2>2 DEF SurfaceInv, SurfaceTypeOK
<1>23. GrantsHeld'
  BY <1>1, <1>21, FileFacts DEF GrantsHeld
<1>24. WorkspaceKnown'
  BY <1>1 DEF WorkspaceKnown
<1>25. DesignKnown' /\ PromptKnown'
  BY <1>1 DEF SurfaceInv, DesignKnown, PromptKnown
<1>26. Whole'
  BY <1>1, WholeFrame DEF SurfaceInv
<1> QED BY <1>19, <1>20, <1>22, <1>23, <1>24, <1>25, <1>26 DEF SurfaceInv

LEMMA SaveDraftStep ==
    ASSUME SurfaceInv, SaveDraft
    PROVE  SurfaceInv'
<1>1. /\ phase = "closing" /\ phase' = "drafted" /\ seat = "self_improve"
      /\ seat' = seat /\ arm' = arm /\ repo' = repo /\ exit' = exit /\ warned' = warned
      /\ ws' = ws /\ wsDir' = wsDir /\ grants' = grants /\ told' = told /\ patch' = patch
      /\ tool_calls' = tool_calls /\ attempt' = attempt /\ sessions' = sessions
      /\ forensic' = forensic /\ design' = design /\ saved' = design /\ offered' = offered
      /\ evolved' = (evolved \/ design.prompt = "own")
  BY DEF SaveDraft, session
<1>2. design \in Designs /\ design # Missing
  BY DesignsPresent DEF SurfaceInv, SurfaceTypeOK
<1>3. SurfaceTypeOK'
  BY <1>1, <1>2 DEF SurfaceInv, SurfaceTypeOK
<1>4. GrantsHeld' /\ WorkspaceKnown'
  BY <1>1 DEF SurfaceInv, GrantsHeld, WorkspaceKnown
<1>5. always_on_dirs' = always_on_dirs /\ Patched(patch)' = Patched(patch)
  BY <1>1 DEF always_on_dirs, Patched
<1>6. PatchKnown'
  BY <1>1, <1>5 DEF SurfaceInv, PatchKnown
<1>7. OutcomeKnown'
  BY <1>1 DEF SurfaceInv, OutcomeKnown, OfferedIsDelivered, DesignDelivers, StartupNeverRefused
<1>8. DesignKnown' /\ PromptKnown'
  BY <1>1, <1>2 DEF SurfaceInv, DesignKnown, PromptKnown
<1>9. Whole'
  BY <1>1, WholeFrame DEF SurfaceInv
<1> QED BY <1>3, <1>4, <1>6, <1>7, <1>8, <1>9 DEF SurfaceInv

LEMMA ApplyStep ==
    ASSUME SurfaceInv, Apply
    PROVE  SurfaceInv'
<1>1. /\ phase \in {"closing", "drafted"} /\ phase' = "applied" /\ repo' = Patched(patch)
      /\ seat' = seat /\ arm' = arm /\ exit' = exit /\ warned' = warned
      /\ ws' = ws /\ wsDir' = wsDir /\ grants' = grants /\ told' = told /\ patch' = patch
      /\ tool_calls' = tool_calls /\ attempt' = attempt /\ sessions' = sessions
      /\ forensic' = forensic /\ design' = design /\ saved' = saved /\ offered' = offered
      /\ evolved' = evolved
  BY DEF Apply, session
<1>2. /\ TreeSound(Patched(patch), always_on_dirs)
      /\ exit = "patched" => \A n \in offered : Delivers(Patched(patch), n)
      /\ \A f \in Files : Patched(patch)[f] \in TextOf(f)
                          \/ (f \in Modules /\ Patched(patch)[f] = Missing)
  BY <1>1 DEF SurfaceInv, PatchKnown
<1>3. Patched(patch) = [f \in Files |-> Patched(patch)[f]]
  BY PatchedFacts
<1>4. SurfaceTypeOK'
  <2>1. DOMAIN repo' = Files
    BY <1>1 DEF Patched
  <2> QED BY <1>1, <1>2, <2>1 DEF SurfaceInv, SurfaceTypeOK
<1>5. GrantsHeld' /\ WorkspaceKnown' /\ PatchKnown'
  BY <1>1 DEF SurfaceInv, GrantsHeld, WorkspaceKnown, PatchKnown
<1>6. always_on_dirs' = always_on_dirs
  BY <1>1 DEF always_on_dirs
<1>7. Whole'
  BY <1>1, <1>2, <1>3, <1>6 DEF Whole
<1>8. OutcomeKnown'
  BY <1>1, <1>2 DEF SurfaceInv, OutcomeKnown, OfferedIsDelivered, DesignDelivers, StartupNeverRefused
<1>9. DesignKnown' /\ PromptKnown'
  BY <1>1 DEF SurfaceInv, DesignKnown, PromptKnown
<1> QED BY <1>4, <1>5, <1>7, <1>8, <1>9 DEF SurfaceInv

LEMMA PersistStep ==
    ASSUME SurfaceInv, Persist
    PROVE  SurfaceInv'
<1>1. /\ phase = "applied" /\ phase' = "idle"
      /\ saved' = (CASE seat = "plan" -> heal(design)
                     [] seat = "self_improve" /\ exit = "patched" -> heal(saved)
                     [] OTHER -> saved)
      /\ seat' = seat /\ arm' = arm /\ repo' = repo /\ exit' = exit
      /\ ws' = ws /\ wsDir' = wsDir /\ grants' = grants /\ told' = [f \in Files |-> Kept]
      /\ tool_calls' = tool_calls /\ attempt' = attempt /\ sessions' = sessions
      /\ forensic' = forensic /\ design' = initial_config /\ evolved' = evolved
  BY DEF Persist
<1>2. design \in Designs /\ saved \in Designs
  BY <1>1 DEF SurfaceInv, SurfaceTypeOK, DesignKnown
<1>3. /\ saved' \in Designs /\ saved' # Missing
      /\ seat # "plan" => saved'.prompt = saved.prompt
      /\ seat = "plan" \/ (seat = "self_improve" /\ exit = "patched") =>
            \A n \in saved'.tools : Delivers(repo, n)
  BY <1>1, <1>2, HealFacts, DesignsPresent
<1>4. design' \in Designs
  BY <1>1 DEF initial_config, Designs
<1>5. SurfaceTypeOK'
  BY <1>1, <1>3, <1>4 DEF SurfaceInv, SurfaceTypeOK
<1>6. GrantsHeld' /\ WorkspaceKnown' /\ PatchKnown'
  BY <1>1 DEF SurfaceInv, GrantsHeld, WorkspaceKnown, PatchKnown
<1>7. Whole'
  BY <1>1, WholeFrame DEF SurfaceInv
<1>8. OutcomeKnown'
  <2>1. /\ exit \in {"empty", "exhausted", "patched"} /\ (seat = "evaluate" => exit = "empty")
        /\ seat \in {"plan", "self_improve", "evaluate"}
    BY <1>1, SurfaceAssumption DEF SurfaceInv, OutcomeKnown, SurfaceTypeOK
  <2> QED BY <1>1, <1>3, <2>1
          DEF OutcomeKnown, OfferedIsDelivered, DesignDelivers, StartupNeverRefused
<1>9. DesignKnown' /\ PromptKnown'
  BY <1>1, <1>3 DEF SurfaceInv, DesignKnown, PromptKnown
<1> QED BY <1>5, <1>6, <1>7, <1>8, <1>9 DEF SurfaceInv

LEMMA SurfaceStep == SurfaceInv /\ [SurfaceNext]_surfaceVars => SurfaceInv'
<1> SUFFICES ASSUME SurfaceInv, [SurfaceNext]_surfaceVars PROVE SurfaceInv'
  OBVIOUS
<1>1. CASE Startup
  BY <1>1, StartupStep
<1>2. CASE SetAside \/ SaveRepaired
  BY <1>2, RepairStep
<1>3. CASE RetryRun
  BY <1>3, RetryStep
<1>4. CASE EndSession
  BY <1>4, EndSessionStep
<1>5. CASE SaveDraft
  BY <1>5, SaveDraftStep
<1>6. CASE Apply
  BY <1>6, ApplyStep
<1>7. CASE Persist
  BY <1>7, PersistStep
<1>8. CASE Crash
  BY <1>8, CrashStep
<1>9. CASE OpenSession
  BY <1>9, OpenSessionStep
<1>10. CASE Call
  BY <1>10, CallStep
<1>11. CASE UNCHANGED surfaceVars
  <2>1. /\ seat' = seat /\ arm' = arm /\ repo' = repo /\ saved' = saved /\ forensic' = forensic
        /\ ws' = ws /\ wsDir' = wsDir /\ grants' = grants /\ design' = design /\ deep' = deep
        /\ patch' = patch /\ tool_calls' = tool_calls /\ attempt' = attempt /\ told' = told
        /\ phase' = phase /\ sessions' = sessions /\ exit' = exit /\ warned' = warned
        /\ evolved' = evolved /\ offered' = offered
    BY <1>11 DEF surfaceVars, session, disk
  <2>2. SurfaceTypeOK'
    BY <2>1 DEF SurfaceInv, SurfaceTypeOK
  <2>3. write_roots(seat)' = write_roots(seat) /\ always_on_dirs' = always_on_dirs
        /\ Patched(patch)' = Patched(patch)
    BY <2>1 DEF write_roots, always_on_dirs, Patched
  <2>4. GrantsHeld'
    BY <2>1, <2>3 DEF SurfaceInv, GrantsHeld
  <2>5. WorkspaceKnown'
    BY <2>1, CoversGrant DEF SurfaceInv, WorkspaceKnown
  <2>6. Whole' /\ PatchKnown'
    BY <2>1, <2>3 DEF SurfaceInv, Whole, PatchKnown
  <2>7. OutcomeKnown' /\ DesignKnown' /\ PromptKnown'
    BY <2>1 DEF SurfaceInv, OutcomeKnown, DesignKnown, PromptKnown, OfferedIsDelivered,
                DesignDelivers, StartupNeverRefused
  <2> QED BY <2>2, <2>4, <2>5, <2>6, <2>7 DEF SurfaceInv
<1> QED BY <1>1, <1>2, <1>3, <1>4, <1>5, <1>6, <1>7, <1>8, <1>9, <1>10, <1>11
        DEF SurfaceNext, Framework

\* What sessions commit stays usable: the startup checks accept every tree that
\* they lead to, the catalog they showed is delivered, no component replaces an
\* always-on tool, the saved designs resolve, and a dropped edit or a prompt
\* that a role gave itself is not lost in silence (registries/loader.py,
\* preflight.py, task_execution, roles).
THEOREM SurfaceStaysSound == SurfaceSpec => []ComponentsSound
<1>1. SurfaceInit => SurfaceInv
  BY SurfaceStart
<1>2. SurfaceInv /\ [SurfaceNext]_surfaceVars => SurfaceInv'
  BY SurfaceStep
<1>3. SurfaceInv => ComponentsSound
  <2> SUFFICES ASSUME SurfaceInv PROVE ComponentsSound
    OBVIOUS
  <2>1. SurfaceTypeOK /\ OfferedIsDelivered /\ StartupNeverRefused /\ DesignDelivers
    BY DEF SurfaceInv, OutcomeKnown
  <2>2. NoShadow
    BY NothingShadows, FileFacts DEF SurfaceInv, SurfaceTypeOK
  <2>3. NoSilentDrop
    BY DEF SurfaceInv, OutcomeKnown, NoSilentDrop
  <2>4. EvolvedPromptKept
    BY DEF SurfaceInv, PromptKnown, EvolvedPromptKept
  <2> QED BY <2>1, <2>2, <2>3, <2>4 DEF ComponentsSound
<1> QED BY <1>1, <1>2, <1>3, PTL DEF SurfaceSpec

\* The tree changes in Apply alone.
LEMMA TreeSteps ==
    ASSUME SurfaceInv, [SurfaceNext]_surfaceVars
    PROVE  /\ repo' = repo \/ Apply
           /\ phase' = "applied" => phase = "applied" \/ Apply
<1>1. CASE Call
  <2>1. Called
    BY <1>1 DEF Call, RequestAccess, EditSource, Register, Update, Unregister, Select, Deselect,
                SetPrompt, SetTools, SetKey, AddKey, AddValue, ShallowCall
  <2> QED BY <2>1 DEF Called, disk
<1>2. CASE Apply
  BY <1>2
<1>3. CASE UNCHANGED surfaceVars
  BY <1>3 DEF surfaceVars, disk
<1>4. CASE Startup \/ SetAside \/ SaveRepaired \/ RetryRun \/ EndSession \/ SaveDraft
           \/ Persist \/ Crash \/ OpenSession
  BY <1>4 DEF Startup, SetAside, SaveRepaired, RetryRun, EndSession, SaveDraft, Persist, Crash,
              OpenSession, disk
<1> QED BY <1>1, <1>2, <1>3, <1>4 DEF SurfaceNext, Framework

\* A session's commit carries its edits, all of them and nothing else but the
\* deletion of modules that a skipped directory copy left out (told is Skipped),
\* and only where its seat may write (access.py, patch.py, frozen.py).
THEOREM CommitsCarryTheEdits == SurfaceSpec => EditsSound
<1> DEFINE Lands ==
               phase # "applied" /\ phase' = "applied" /\ exit # "exhausted" =>
                   \A f \in Files : told[f] # Kept => repo'[f] = Final(told[f])
           Told == \A f \in Files : repo'[f] # repo[f] =>
                       told[f] # Kept /\ repo'[f] = Final(told[f])
           Bounded ==
               /\ repo'[Foreign] = repo[Foreign]
               /\ seat = "evaluate" => repo' = repo
               /\ arm \in {"deny_deep", "deep_view_only", "shallow_prompt_only"} => repo' = repo
<1>1. SurfaceInv /\ [SurfaceNext]_surfaceVars => Lands /\ Told /\ Bounded
  <2> SUFFICES ASSUME SurfaceInv, [SurfaceNext]_surfaceVars PROVE Lands /\ Told /\ Bounded
    OBVIOUS
  <2>1. CASE ~ Apply
    <3>1. repo' = repo /\ (phase' = "applied" => phase = "applied")
      BY <2>1, TreeSteps
    <3> QED BY <3>1
  <2>2. CASE Apply
    <3>1. phase \in {"closing", "drafted"} /\ repo' = Patched(patch)
      BY <2>2 DEF Apply
    <3>2. /\ \A f \in Files :
               /\ exit # "exhausted" /\ told[f] # Kept => repo'[f] = Final(told[f])
               /\ repo'[f] # repo[f] => told[f] # Kept /\ repo'[f] = Final(told[f])
          /\ repo'[Foreign] = repo[Foreign]
          /\ seat = "evaluate" \/ arm \in DeepArms => repo' = repo
      BY <3>1 DEF SurfaceInv, PatchKnown
    <3> QED BY <3>2 DEF DeepArms
  <2> QED BY <2>1, <2>2
<1>2. SurfaceInit => SurfaceInv
  BY SurfaceStart
<1>3. SurfaceInv /\ [SurfaceNext]_surfaceVars => SurfaceInv'
  BY SurfaceStep
<1> HIDE DEF Lands, Told, Bounded
<1>4. SurfaceSpec => [][Lands]_surfaceVars /\ [][Told]_surfaceVars /\ [][Bounded]_surfaceVars
  BY <1>1, <1>2, <1>3, PTL DEF SurfaceSpec
<1> USE DEF Lands, Told, Bounded
<1> QED BY <1>4 DEF EditsSound, EditsLand, OnlyToldContent, SeatBoundary
=============================================================================
