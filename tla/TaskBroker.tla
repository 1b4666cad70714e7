----------------------------- MODULE TaskBroker -----------------------------
(***************************************************************************)
(* The privileged launcher of task harnesses, gan/framework/task_broker.py, *)
(* with the two processes that use it: the driver (gan/driver.py), which   *)
(* registers, activates and releases one outer at a time over a private    *)
(* pipe, and the outer worker, which asks for one launch per generation    *)
(* through request_task_run.                                               *)
(*                                                                         *)
(* The worker starts before its outer is activated and retries until it    *)
(* is; a client that times out leaves its harness running; the proxy may   *)
(* refuse or lose a control request.  Paths, environments and process      *)
(* identities are left out.                                                *)
(***************************************************************************)
EXTENDS Integers, FiniteSets

CONSTANTS
    None,
    G,            \* bound: number of outers
    Imax,         \* inner_max: generations and launch budget of an outer
    MaxAttempts,  \* connection attempts of one request, 51 in the code
    MaxConns,     \* connection slots, 8 in the code
    Faults        \* whether the proxy may refuse or lose control requests

ASSUME BrokerAssumption ==
    /\ G \in Nat \ {0} /\ Imax \in Nat \ {0} /\ MaxAttempts \in Nat \ {0}
    /\ MaxConns \in Nat \ {0} /\ Faults \in BOOLEAN
    /\ None \notin Nat /\ None \notin {"retry", "denied", "rc", "error"}

Outers == 1..G
\* A launch scope: the outer and the generation, numbered within the outer.
Scopes == Outers \X (1..Imax)

VARIABLES
    budget,    \* _outers: per outer its remaining launches, None if absent
    active,    \* outers whose supervisor is known
    used,      \* _used_scopes
    launch,    \* per scope: step of the handler thread
    answer,    \* per scope: the reply in the socket
    token,     \* per scope: its task capability at the proxy
    outcome,   \* per scope: what the worker got
    driver,    \* step of the driver
    outer,     \* the driver's current outer
    worker,    \* step of the outer worker
    inner,     \* generation the worker is at
    attempts   \* attempts of its current request

broker  == <<budget, active, used>>
threads == <<launch, answer, token>>
client  == <<worker, inner, attempts, outcome>>
vars    == <<broker, threads, client, driver, outer>>

All(v) == [s \in Scopes |-> v]

Init ==
    /\ budget = [o \in Outers |-> None] /\ active = {} /\ used = {}
    /\ launch = All("none") /\ answer = All(None) /\ token = All("none")
    /\ outcome = All(None)
    /\ driver = "register" /\ outer = 1
    /\ worker = "absent" /\ inner = 1 /\ attempts = 0

Current == <<outer, inner>>
Busy == {s \in Scopes : launch[s] \in {"reserve", "issue", "harness", "revoke"}}

-----------------------------------------------------------------------------
(* The driver.                                                             *)

RegisterOuter ==
    /\ driver = "register" /\ budget[outer] = None
    /\ budget' = [budget EXCEPT ![outer] = Imax]
    /\ driver' = "spawn"
    /\ UNCHANGED <<active, used, threads, client, outer>>

SpawnWorker ==
    /\ driver = "spawn"
    /\ driver' = "activate"
    /\ worker' = "next" /\ inner' = 1 /\ attempts' = 0
    /\ UNCHANGED <<broker, threads, outcome, outer>>

ActivateOuter ==
    /\ driver = "activate"
    /\ active' = active \cup {outer}
    /\ driver' = "wait"
    /\ UNCHANGED <<budget, used, threads, client, outer>>

\* The pipe does not answer in 10 s: the worker is terminated.
ActivateFails ==
    /\ Faults /\ driver = "activate"
    /\ worker' = "crashed" /\ driver' = "wait"
    /\ UNCHANGED <<broker, threads, inner, attempts, outcome, outer>>

\* proc.wait() returned: release, then the next outer or an error.
ReleaseOuter ==
    /\ driver = "wait" /\ worker \in {"exited", "crashed"}
    /\ budget' = [budget EXCEPT ![outer] = None]
    /\ active' = active \ {outer}
    /\ used' = {s \in used : s[1] # outer}
    /\ IF worker = "crashed" THEN driver' = "failed" /\ UNCHANGED outer
       ELSE IF outer = G THEN driver' = "done" /\ UNCHANGED outer
       ELSE driver' = "register" /\ outer' = outer + 1
    /\ worker' = "absent"
    /\ UNCHANGED <<threads, inner, attempts, outcome>>

-----------------------------------------------------------------------------
(* The outer worker: request_task_run once per generation.                 *)

Settle(result) ==
    /\ outcome' = [outcome EXCEPT ![Current] = result]
    /\ inner' = inner + 1 /\ attempts' = 0 /\ worker' = "next"

\* A connection; without a free slot it is closed unanswered, and the empty
\* response is an error.
SendRequest ==
    /\ worker = "next" /\ inner <= Imax
    /\ IF Cardinality(Busy) >= MaxConns
       THEN Settle("error") /\ UNCHANGED <<launch, answer>>
       ELSE /\ launch' = [launch EXCEPT ![Current] = "reserve"]
            /\ answer' = [answer EXCEPT ![Current] = None]
            /\ worker' = "asking" /\ attempts' = attempts + 1
            /\ UNCHANGED <<inner, outcome>>
    /\ UNCHANGED <<broker, token, driver, outer>>

\* The reply: retry when the outer is not active yet, else the outcome.
ReceiveAnswer ==
    /\ worker = "asking" /\ answer[Current] # None
    /\ IF answer[Current] = "retry" /\ attempts < MaxAttempts
       THEN worker' = "next" /\ UNCHANGED <<inner, attempts, outcome>>
       ELSE Settle(IF answer[Current] = "rc" THEN "rc" ELSE "error")
    /\ UNCHANGED <<broker, threads, driver, outer>>

\* Mutant of ClientTimeout: the socket has no timeout.
ClientTimeout_Never == FALSE /\ UNCHANGED vars

\* The client's own timeout, 60 s beyond the harness timeout.
ClientTimeout ==
    /\ worker = "asking" /\ answer[Current] = None
    /\ Settle("error")
    /\ UNCHANGED <<broker, threads, driver, outer>>

WorkerExits ==
    /\ worker = "next" /\ inner > Imax
    /\ worker' = "exited"
    /\ UNCHANGED <<broker, threads, inner, attempts, outcome, driver, outer>>

WorkerCrashes ==
    /\ worker \in {"next", "asking"}
    /\ worker' = "crashed"
    /\ UNCHANGED <<broker, threads, inner, attempts, outcome, driver, outer>>

-----------------------------------------------------------------------------
(* A handler thread of the broker.                                         *)

Reply(s, kind) ==
    /\ launch' = [launch EXCEPT ![s] = "answered"]
    /\ answer' = [answer EXCEPT ![s] = kind]

\* Whether _is_descendant finds the requesting process in the tree of the
\* outer's supervisor: a process that has ended may still be listed.
IsDescendant(s) ==
    IF s[1] # outer THEN {FALSE}
    ELSE IF worker \in {"next", "asking"} THEN {TRUE} ELSE BOOLEAN

\* Mutant of Reserve: the launch is charged before the outer is known to be
\* active.
Reserve_ChargesFirst(s) ==
    /\ launch[s] = "reserve"
    /\ IF budget[s[1]] = None THEN Reply(s, "retry") /\ UNCHANGED broker
       ELSE IF budget[s[1]] < 1 THEN Reply(s, "denied") /\ UNCHANGED broker
       ELSE /\ budget' = [budget EXCEPT ![s[1]] = @ - 1]
            /\ UNCHANGED active
            /\ IF s[1] \notin active THEN Reply(s, "retry") /\ UNCHANGED used
               ELSE IF IsDescendant(s) = {FALSE} \/ s \in used
               THEN Reply(s, "denied") /\ UNCHANGED used
               ELSE /\ used' = used \cup {s}
                    /\ launch' = [launch EXCEPT ![s] = "issue"]
                    /\ UNCHANGED answer
    /\ UNCHANGED <<token, client, driver, outer>>

\* _reserve: not active yet, denied, or one launch of the budget taken.
Reserve(s) ==
    /\ launch[s] = "reserve"
    /\ IF budget[s[1]] = None \/ s[1] \notin active
       THEN Reply(s, "retry") /\ UNCHANGED broker
       ELSE \E found \in IsDescendant(s) :
            IF ~found \/ budget[s[1]] < 1 \/ s \in used
            THEN Reply(s, "denied") /\ UNCHANGED broker
            ELSE /\ budget' = [budget EXCEPT ![s[1]] = @ - 1]
                 /\ used' = used \cup {s}
                 /\ launch' = [launch EXCEPT ![s] = "issue"]
                 /\ UNCHANGED <<active, answer>>
    /\ UNCHANGED <<token, client, driver, outer>>

\* request_task_token.
IssueToken(s) ==
    /\ launch[s] = "issue"
    /\ token' = [token EXCEPT ![s] = "live"]
    /\ launch' = [launch EXCEPT ![s] = "harness"]
    /\ UNCHANGED <<answer, broker, client, driver, outer>>

\* No run directory, no questions, the proxy refused, or its answer was lost
\* after it issued the token.
IssueFails(s) ==
    /\ Faults /\ launch[s] = "issue"
    /\ \E t \in {"none", "live"} : token' = [token EXCEPT ![s] = t]
    /\ Reply(s, "error")
    /\ UNCHANGED <<broker, client, driver, outer>>

\* The harness ends: its return code, an error, or its own timeout.
HarnessEnds(s) ==
    /\ launch[s] = "harness"
    /\ launch' = [launch EXCEPT ![s] = "revoke"]
    /\ UNCHANGED <<answer, token, broker, client, driver, outer>>

\* Mutant of RevokeAndReply: the reply is sent first, and a refused revoke is
\* ignored.
RevokeAndReply_Lenient(s) ==
    /\ launch[s] = "revoke"
    /\ \E t \in {"live", "dead"} : token' = [token EXCEPT ![s] = t]
    /\ Reply(s, "rc")
    /\ UNCHANGED <<broker, client, driver, outer>>

\* finally: revoke, then the answer.
RevokeAndReply(s) ==
    /\ launch[s] = "revoke"
    /\ token' = [token EXCEPT ![s] = "dead"]
    /\ \E kind \in {"rc", "error"} : Reply(s, kind)
    /\ UNCHANGED <<broker, client, driver, outer>>

\* The revoke raises in the finally block and takes the answer's place.
RevokeFails(s) ==
    /\ Faults /\ launch[s] = "revoke"
    /\ Reply(s, "error")
    /\ UNCHANGED <<token, broker, client, driver, outer>>

\* The TTL of the capability.
TokenExpires(s) ==
    /\ token[s] = "live"
    /\ token' = [token EXCEPT ![s] = "dead"]
    /\ UNCHANGED <<launch, answer, broker, client, driver, outer>>

-----------------------------------------------------------------------------
DriverStep == RegisterOuter \/ SpawnWorker \/ ActivateOuter \/ ActivateFails
                \/ ReleaseOuter

WorkerStep == SendRequest \/ ReceiveAnswer \/ ClientTimeout \/ WorkerExits

HandlerStep(s) ==
    \/ Reserve(s) \/ IssueToken(s) \/ IssueFails(s) \/ HarnessEnds(s)
    \/ RevokeAndReply(s) \/ RevokeFails(s) \/ TokenExpires(s)

\* The broker's handlers die with the driver's run.
Next == \/ DriverStep \/ WorkerStep \/ WorkerCrashes
        \/ driver \notin {"done", "failed"} /\ \E s \in Scopes : HandlerStep(s)

Spec == Init /\ [][Next]_vars

\* The driver and the worker are scheduled, and the client's timeout fires.
\* Nothing is assumed of the broker's threads or of the harness.
FairSpec == Spec /\ WF_vars(DriverStep) /\ WF_vars(WorkerStep)

-----------------------------------------------------------------------------
\* Type invariant of the broker, the worker and the driver.
TypeOK ==
    /\ budget \in [Outers -> 0..Imax \cup {None}]
    /\ active \subseteq Outers /\ used \subseteq Scopes
    /\ launch \in [Scopes -> {"none", "reserve", "issue", "harness", "revoke",
                              "answered"}]
    /\ answer \in [Scopes -> {None, "retry", "denied", "rc", "error"}]
    /\ token \in [Scopes -> {"none", "live", "dead"}]
    /\ outcome \in [Scopes -> {None, "rc", "error"}]
    /\ driver \in {"register", "spawn", "activate", "wait", "done", "failed"}
    /\ worker \in {"absent", "next", "asking", "exited", "crashed"}
    /\ outer \in Outers /\ inner \in 1..(Imax + 1) /\ attempts \in 0..MaxAttempts

\* The budget of an outer is enough for its worker: a request it waits for is
\* never denied, however often it was told to retry and however many of its
\* earlier launches failed or are still running.
HonestNeverDenied == worker = "asking" => answer[Current] # "denied"

\* When the worker has a return code the generation can no longer call the
\* model: the token was revoked, or has expired, before the answer was sent.
ReportedIsRevoked == \A s \in Scopes : outcome[s] = "rc" => token[s] = "dead"

\* Only the driver's current outer is registered, whatever stragglers of
\* earlier outers still run.
OnlyCurrentOuter ==
    /\ \A o \in Outers : budget[o] # None => o = outer
    /\ \A s \in used : s[1] = outer

\* The driver never waits for ever: a worker whose launch hangs gives up.
RunEnds == <>(driver \in {"done", "failed"})

\* The broker never refuses the worker it serves, and serves no other
\* (task_broker.py, _reserve and release_outer).
LaunchesSound == TypeOK /\ HonestNeverDenied /\ OnlyCurrentOuter
=============================================================================
