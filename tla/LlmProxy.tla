------------------------------ MODULE LlmProxy ------------------------------
(***************************************************************************)
(* The parent-side LLM proxy, gan/framework/llm_proxy.py: the only way to  *)
(* the model for the task, planner and evaluator processes.                *)
(*                                                                         *)
(* The driver and the brokers issue and revoke capability tokens; agent    *)
(* processes post completions, one handler thread per connection.  Every   *)
(* step of a handler that takes a lock is an action, so that threads       *)
(* interleave between the authorisation, the read of the body, the         *)
(* concurrency limit, the upstream call, the release and the audit.        *)
(*                                                                         *)
(* Messages, models and usage figures are left out; a request's model is   *)
(* either the one its scope allows or not.                                 *)
(***************************************************************************)
EXTENDS Integers, FiniteSets

CONSTANTS
    Absent,
    Tokens,       \* bound: agent capabilities of the run
    TaskTokens,   \* those with a call budget and a TTL
    Conns,        \* bound: connections made to the socket
    MaxCalls,     \* task_llm_max_calls
    MaxInflight,  \* _max_inflight, 32 in the code
    MaxSlots,     \* max_connection_threads, 64 in the code
    MayExit       \* whether the driver closes the proxy and exits

ASSUME ProxyAssumption ==
    /\ TaskTokens \subseteq Tokens /\ Absent \notin Tokens /\ IsFiniteSet(Conns)
    /\ MaxCalls \in Nat \ {0} /\ MaxInflight \in Nat \ {0}
    /\ MaxSlots \in Nat \ {0} /\ MayExit \in BOOLEAN

VARIABLES
    status,     \* per token: "none", "live" or "revoked"
    expired,    \* task tokens whose TTL has passed
    remaining,  \* per task token: remaining_calls
    inflight,   \* per token: _inflight, 0 when it has no entry
    slots,      \* free connection slots
    pc,         \* per connection: next step of its handler
    bearer,     \* per connection: the token it presented
    result,     \* per connection: what the upstream call came to
    audit,      \* per token and kind: llm_call records in events.jsonl
    calls,      \* per token: requests sent upstream
    server      \* "open", "closed" or "exited"

scopes    == <<status, expired, remaining>>
handlers  == <<pc, bearer, result>>
proxyVars == <<scopes, inflight, slots, handlers, audit, calls, server>>

Steps == {"new", "headers", "body", "enter", "send", "wait", "release",
          "audit", "finish", "closed"}

\* What a record says: the call's outcome, or the refusal's status.
Outcomes == {"ok", "failed"}
Kinds    == Outcomes \cup {"denied", "limit"}

ProxyInit ==
    /\ status = [t \in Tokens |-> "none"] /\ expired = {}
    /\ remaining = [t \in TaskTokens |-> MaxCalls]
    /\ inflight = [t \in Tokens |-> 0] /\ slots = MaxSlots
    /\ pc = [c \in Conns |-> "new"]
    /\ bearer = [c \in Conns |-> Absent] /\ result = [c \in Conns |-> Absent]
    /\ audit = [t \in Tokens |-> [k \in Kinds |-> 0]] /\ calls = [t \in Tokens |-> 0]
    /\ server = "open"

Running == server # "exited"
Goto(c, step) == pc' = [pc EXCEPT ![c] = step]
Record(t, kind) == audit' = [audit EXCEPT ![t][kind] = @ + 1]

-----------------------------------------------------------------------------
(* Capabilities.                                                           *)

IssueScope(t) ==
    /\ server = "open" /\ status[t] = "none"
    /\ status' = [status EXCEPT ![t] = "live"]
    /\ UNCHANGED <<expired, remaining, inflight, slots, handlers, audit, calls, server>>

RevokeScope(t) ==
    /\ server = "open" /\ status[t] = "live"
    /\ status' = [status EXCEPT ![t] = "revoked"]
    /\ UNCHANGED <<expired, remaining, inflight, slots, handlers, audit, calls, server>>

\* time.monotonic() passes expires_at; nobody notices until the next request.
PassTTL(t) ==
    /\ Running /\ t \in TaskTokens \ expired /\ status[t] # "none"
    /\ expired' = expired \cup {t}
    /\ UNCHANGED <<status, remaining, inflight, slots, handlers, audit, calls, server>>

-----------------------------------------------------------------------------
(* One connection.                                                         *)

\* process_request: no free slot, no thread.
Connect(c) ==
    /\ server = "open" /\ pc[c] = "new"
    /\ IF slots > 0
       THEN slots' = slots - 1 /\ Goto(c, "headers")
       ELSE UNCHANGED slots /\ Goto(c, "closed")
    /\ UNCHANGED <<scopes, inflight, bearer, result, audit, calls, server>>

\* The 10 s deadline or the client itself ends it before a request is read.
DropConnection(c) ==
    /\ Running /\ pc[c] = "headers"
    /\ Goto(c, "finish")
    /\ UNCHANGED <<scopes, inflight, slots, bearer, result, audit, calls, server>>

HasBudget(t) == t \in TaskTokens => remaining[t] >= 1

\* _authorize_completion refuses t: not issued, revoked, expired or used up.
\* An expired or used up scope becomes revoked.
Deny(c, t) ==
    /\ Running /\ pc[c] = "headers"
    /\ status[t] # "live" \/ t \in expired \/ ~HasBudget(t)
    /\ status' = [status EXCEPT ![t] = IF @ = "live" THEN "revoked" ELSE @]
    /\ Record(t, "denied")
    /\ Goto(c, "finish")
    /\ UNCHANGED <<expired, remaining, inflight, slots, bearer, result, calls, server>>

\* Mutant of Authorize: a revoked scope is still accepted.
Authorize_Revoked(c, t) ==
    /\ Running /\ pc[c] = "headers"
    /\ status[t] # "none" /\ t \notin expired /\ HasBudget(t)
    /\ remaining' = [u \in TaskTokens |-> remaining[u] - IF u = t THEN 1 ELSE 0]
    /\ bearer' = [bearer EXCEPT ![c] = t]
    /\ Goto(c, "body")
    /\ UNCHANGED <<status, expired, inflight, slots, result, audit, calls, server>>

\* _authorize_completion accepts t and takes one call off a task's budget,
\* before the body is read.
Authorize(c, t) ==
    /\ Running /\ pc[c] = "headers"
    /\ status[t] = "live" /\ t \notin expired /\ HasBudget(t)
    /\ remaining' = [u \in TaskTokens |-> remaining[u] - IF u = t THEN 1 ELSE 0]
    /\ bearer' = [bearer EXCEPT ![c] = t]
    /\ Goto(c, "body")
    /\ UNCHANGED <<status, expired, inflight, slots, result, audit, calls, server>>

\* _read_json and the model policy: malformed, cut off, or another model.
RefuseBody(c) ==
    /\ Running /\ pc[c] = "body"
    /\ Record(bearer[c], "denied")
    /\ Goto(c, "finish")
    /\ UNCHANGED <<scopes, inflight, slots, bearer, result, calls, server>>

AcceptBody(c) ==
    /\ Running /\ pc[c] = "body"
    /\ Goto(c, "enter")
    /\ UNCHANGED <<scopes, inflight, slots, bearer, result, audit, calls, server>>

\* The concurrency limit of the token.
EnterInflight(c) ==
    /\ Running /\ pc[c] = "enter"
    /\ LET t == bearer[c]
       IN  IF inflight[t] >= MaxInflight
           THEN Record(t, "limit") /\ Goto(c, "finish") /\ UNCHANGED inflight
           ELSE /\ inflight' = [inflight EXCEPT ![t] = @ + 1]
                /\ Goto(c, "send") /\ UNCHANGED audit
    /\ UNCHANGED <<scopes, slots, bearer, result, calls, server>>

\* urlopen sends the request upstream.
SendUpstream(c) ==
    /\ Running /\ pc[c] = "send"
    /\ calls' = [calls EXCEPT ![bearer[c]] = @ + 1]
    /\ Goto(c, "wait")
    /\ UNCHANGED <<scopes, inflight, slots, bearer, result, audit, server>>

\* The answer, an HTTP error, or the timeout of urlopen; the reply to the
\* client is written in the same try block, and the client may be gone.
UpstreamEnds(c, kind) ==
    /\ Running /\ pc[c] = "wait"
    /\ result' = [result EXCEPT ![c] = kind]
    /\ Goto(c, "release")
    /\ UNCHANGED <<scopes, inflight, slots, bearer, audit, calls, server>>

\* Mutant of ReleaseInflight: the token's entry is always removed.
ReleaseInflight_Pop(c) ==
    /\ Running /\ pc[c] = "release"
    /\ inflight' = [inflight EXCEPT ![bearer[c]] = 0]
    /\ Goto(c, "audit")
    /\ UNCHANGED <<scopes, slots, bearer, result, audit, calls, server>>

\* finally: an absent entry counts as 1, a count of 1 removes the entry.
ReleaseInflight(c) ==
    /\ Running /\ pc[c] = "release"
    /\ LET t == bearer[c]
           current == IF inflight[t] = 0 THEN 1 ELSE inflight[t]
       IN  inflight' = [inflight EXCEPT ![t] = current - 1]
    /\ Goto(c, "audit")
    /\ UNCHANGED <<scopes, slots, bearer, result, audit, calls, server>>

WriteAudit(c) ==
    /\ Running /\ pc[c] = "audit"
    /\ Record(bearer[c], result[c])
    /\ Goto(c, "finish")
    /\ UNCHANGED <<scopes, inflight, slots, bearer, result, calls, server>>

\* process_request_thread ends and gives its slot back.
Finish(c) ==
    /\ Running /\ pc[c] = "finish"
    /\ slots' = slots + 1
    /\ bearer' = [bearer EXCEPT ![c] = Absent]
    /\ result' = [result EXCEPT ![c] = Absent]
    /\ Goto(c, "closed")
    /\ UNCHANGED <<scopes, inflight, audit, calls, server>>

-----------------------------------------------------------------------------
\* close(): nobody is accepted any more and the sockets are shut; the handler
\* threads are daemons and go on.
CloseServer ==
    /\ MayExit /\ server = "open"
    /\ server' = "closed"
    /\ UNCHANGED <<scopes, inflight, slots, handlers, audit, calls>>

\* The driver exits and takes the threads with it.
ExitDriver ==
    /\ server = "closed"
    /\ server' = "exited"
    /\ UNCHANGED <<scopes, inflight, slots, handlers, audit, calls>>

Control == \/ \E t \in Tokens : IssueScope(t) \/ RevokeScope(t) \/ PassTTL(t)
           \/ CloseServer \/ ExitDriver

ConnStep(c) ==
    \/ DropConnection(c)
    \/ \E t \in Tokens : Authorize(c, t) \/ Deny(c, t)
    \/ RefuseBody(c) \/ AcceptBody(c) \/ EnterInflight(c) \/ SendUpstream(c)
    \/ \E k \in Outcomes : UpstreamEnds(c, k)
    \/ ReleaseInflight(c) \/ WriteAudit(c) \/ Finish(c)

ProxyNext == Control \/ \E c \in Conns : Connect(c) \/ ConnStep(c)

ProxySpec == ProxyInit /\ [][ProxyNext]_proxyVars

-----------------------------------------------------------------------------
\* Type invariant of the proxy's tables and handlers (llm_proxy.py).
ProxyTypeOK ==
    /\ status \in [Tokens -> {"none", "live", "revoked"}]
    /\ expired \subseteq TaskTokens
    /\ remaining \in [TaskTokens -> 0..MaxCalls]
    /\ inflight \in [Tokens -> 0..MaxInflight]
    /\ slots \in 0..MaxSlots
    /\ pc \in [Conns -> Steps] /\ bearer \in [Conns -> Tokens \cup {Absent}]
    /\ result \in [Conns -> Outcomes \cup {Absent}]
    /\ audit \in [Tokens -> [Kinds -> 0..Cardinality(Conns)]]
    /\ calls \in [Tokens -> 0..Cardinality(Conns)]
    /\ server \in {"open", "closed", "exited"}

At(t, S) == {c \in Conns : bearer[c] = t /\ pc[c] \in S}

\* A task never gets more calls upstream than its budget: what was sent, what
\* an authorised handler may still send and what is left add up to no more.
CallBudget ==
    \A t \in TaskTokens :
        calls[t] + Cardinality(At(t, {"body", "enter", "send"})) + remaining[t]
            <= MaxCalls

\* _inflight counts exactly the handlers between the limit and its release,
\* though every one of them updates it in two separate critical sections.
InflightExact ==
    \A t \in Tokens :
        inflight[t] = Cardinality(At(t, {"send", "wait", "release"}))

\* The free slots and the running handlers always add up.
SlotsConserved ==
    slots + Cardinality({c \in Conns : pc[c] \notin {"new", "closed"}})
        = MaxSlots

\* Cost accounting: until the driver exits, every call sent upstream either
\* has its one llm_call record or a handler that is still to write it.
EveryCallAccounted ==
    Running =>
        \A t \in Tokens :
            calls[t] = audit[t]["ok"] + audit[t]["failed"]
                         + Cardinality(At(t, {"wait", "release", "audit"}))

Acting(t) == At(t, {"body", "enter", "send", "wait", "release"})

\* Once a token is revoked its calls only drain: no handler starts to act for
\* it, whichever handlers were already past the authorisation.
RevokedDrains ==
    [][\A t \in Tokens : status[t] = "revoked" => Acting(t)' \subseteq Acting(t)]_proxyVars

\* The proxy's books are right at every point of every interleaving of its
\* handlers: budgets, in-flight counts and connection slots are exact, and
\* every call that reached the model is audited (llm_proxy.py:315-470).
CallsAccounted ==
    ProxyTypeOK /\ CallBudget /\ InflightExact /\ SlotsConserved /\ EveryCallAccounted
=============================================================================
