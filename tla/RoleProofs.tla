----------------------------- MODULE RoleProofs -----------------------------
(***************************************************************************)
(* Theorems about the roles, for every value of the constants: the seats   *)
(* of their processes (RoleSeats), and the dry runs of their self-improve  *)
(* sessions on the shared code tree (CodeRepo).                            *)
(***************************************************************************)
EXTENDS RoleSeats, CodeRepo, FiniteSetTheorems, SequenceTheorems, TLAPS

(***************************************************************************)
(* Tokens die with their outer.  The driver goes on to the next outer only *)
(* on a positive answer to its release, so the invariant has to say what   *)
(* the control pipe holds at each step of the driver, that the broker      *)
(* knows every seat of the outer from its registration on, and that while  *)
(* it revokes, the tokens still accepted are among those to be revoked.    *)
(***************************************************************************)
Pending(op) == requests = <<[op |-> op, outer |-> outer]>> /\ replies = <<>>
Answered(P) == requests = <<>> /\ \E r : replies = <<r>> /\ (r.ok => P)

Registered == \A k \in Keys : k[1] = outer => scope[k] # "none"
OuterDead  == \A k \in live : k[1] # outer

PipeKnown ==
    /\ drv \in {"register", "waiting"} =>
         requests = <<>> /\ replies = <<>> /\ revoking = {}
    /\ drv = "registering" =>
         revoking = {} /\ (Pending("register") \/ Answered(Registered))
    /\ drv = "activating" =>
         revoking = {} /\ Registered /\ (Pending("activate") \/ Answered(TRUE))
    /\ drv = "waiting" => Registered
    /\ drv = "releasing" =>
         \/ Pending("release") /\ revoking = {} /\ Registered
         \/ Pending("release") /\ revoking # {}
              /\ \A k \in live : k[1] = outer => k \in revoking
         \/ Answered(OuterDead) /\ revoking = {}

TokenInv ==
    /\ live \subseteq Keys /\ outer \in Nat
    /\ scope \in [Keys -> {"none", "free", "consumed"}]
    /\ PipeKnown
    /\ TokensDieWithOuter

\* What the control pipe's operations do to a pipe that holds one message.
LEMMA OneMessage ==
    ASSUME NEW x
    PROVE  /\ Append(<<>>, x) = <<x>> /\ Head(<<x>>) = x /\ Tail(<<x>>) = <<>>
           /\ <<x>> # <<>>
OBVIOUS

\* The initial state satisfies the invariant.
LEMMA TokenInit == Init => TokenInv
BY SeatAssumption DEF Init, TokenInv, PipeKnown, TokensDieWithOuter, Keys, Outers

\* A step that touches neither the pipe, the registered seats nor the tokens to
\* revoke, and adds no token, keeps it: the handlers, the client, the sandbox.
LEMMA TokenKept ==
    ASSUME TokenInv, UNCHANGED <<pipe, revoking>>, live' \subseteq live,
           scope' \in [Keys -> {"none", "free", "consumed"}],
           \A k \in Keys : scope'[k] = "none" => scope[k] = "none"
    PROVE  TokenInv'
<1>1. PipeKnown'
  BY DEF TokenInv, PipeKnown, Pending, Answered, Registered, OuterDead, pipe
<1> QED BY <1>1 DEF TokenInv, TokensDieWithOuter, pipe

\* The steps of the driver keep it.
LEMMA TokenDriver == TokenInv /\ (DriverStep \/ ControlTimeout) => TokenInv'
<1> SUFFICES ASSUME TokenInv, DriverStep \/ ControlTimeout PROVE TokenInv'
  OBVIOUS
<1>1. CASE RegisterOuter
  <2>1. requests' = <<[op |-> "register", outer |-> outer]>> /\ replies' = <<>>
    BY <1>1 DEF RegisterOuter, Send, TokenInv, PipeKnown
  <2> QED BY <1>1, <2>1 DEF RegisterOuter, TokenInv, PipeKnown, Pending, brk,
            TokensDieWithOuter, Keys, Outers
<1>2. CASE StartOuterWorker
  <2>1. PICK r : replies = <<r>> /\ requests = <<>> /\ (r.ok => Registered)
    BY <1>2 DEF StartOuterWorker, Receive, TokenInv, PipeKnown, Pending, Answered
  <2>2. Head(replies) = r /\ replies' = <<>>
    BY <1>2, <2>1, OneMessage DEF StartOuterWorker, Receive
  <2>3. CASE r.ok
    <3>1. requests' = <<[op |-> "activate", outer |-> outer]>> /\ drv' = "activating"
      BY <1>2, <2>1, <2>2, <2>3, OneMessage DEF StartOuterWorker, Send
    <3> QED BY <1>2, <2>1, <2>2, <2>3, <3>1 DEF StartOuterWorker, TokenInv, PipeKnown,
              Pending, Registered, brk, TokensDieWithOuter
  <2>4. CASE ~r.ok
    BY <1>2, <2>2, <2>4 DEF StartOuterWorker, TokenInv, PipeKnown, brk, TokensDieWithOuter
  <2> QED BY <2>3, <2>4
<1>3. CASE Activated
  <2>1. drv = "activating" /\ replies # <<>> /\ requests' = requests /\ revoking' = revoking
    BY <1>3 DEF Activated, Receive, brk
  <2>2. PICK r : replies = <<r>> /\ requests = <<>>
    BY <2>1 DEF TokenInv, PipeKnown, Pending, Answered
  <2>3. replies' = <<>>
    BY <1>3, <2>2, OneMessage DEF Activated, Receive
  <2> QED BY <1>3, <2>1, <2>2, <2>3 DEF Activated, TokenInv, PipeKnown, Registered, brk,
            TokensDieWithOuter
<1>4. CASE ControlTimeout
  BY <1>4 DEF ControlTimeout, TokenInv, PipeKnown, brk, TokensDieWithOuter
<1>5. CASE ReleaseOuter
  <2>1. CASE drv = "waiting"
    <3>1. requests' = <<[op |-> "release", outer |-> outer]>> /\ replies' = <<>>
      BY <1>5, <2>1, OneMessage DEF ReleaseOuter, Send, TokenInv, PipeKnown
    <3> QED BY <1>5, <2>1, <3>1 DEF ReleaseOuter, TokenInv, PipeKnown, Pending, Registered,
              brk, TokensDieWithOuter
  <2>2. CASE drv = "failing"
    BY <1>5, <2>2 DEF ReleaseOuter, TokenInv, PipeKnown, brk, TokensDieWithOuter
  <2> QED BY <1>5, <2>1, <2>2 DEF ReleaseOuter
<1>6. CASE Released
  <2>1. CASE drv' = "register"
    <3>1. drv = "releasing" /\ Head(replies).ok /\ outer' = outer + 1
      BY <1>6, <2>1 DEF Released
    <3>2. PICK r : replies = <<r>> /\ requests = <<>> /\ (r.ok => OuterDead) /\ revoking = {}
      BY <1>6, <3>1 DEF Released, Receive, TokenInv, PipeKnown, Pending, Answered
    <3>3. OuterDead /\ replies' = <<>>
      BY <1>6, <3>1, <3>2, OneMessage DEF Released, Receive
    <3>4. \A k \in live : k[1] >= outer + 1
      BY <3>1, <3>3 DEF TokenInv, TokensDieWithOuter, OuterDead, Keys, Outers
    <3> QED BY <1>6, <2>1, <3>1, <3>2, <3>3, <3>4 DEF Released, TokenInv, PipeKnown, brk,
              TokensDieWithOuter
  <2>2. CASE drv' = "closing"
    BY <1>6, <2>2 DEF Released, TokenInv, PipeKnown, brk, TokensDieWithOuter
  <2> QED BY <1>6, <2>1, <2>2 DEF Released
<1>7. CASE CloseAll
  BY <1>7 DEF CloseAll, TokenInv, PipeKnown, TokensDieWithOuter
<1> QED BY <1>1, <1>2, <1>3, <1>4, <1>5, <1>6, <1>7 DEF DriverStep

\* The steps of the broker's control loop keep it.
LEMMA TokenBroker == TokenInv /\ BrokerStep => TokenInv'
<1> SUFFICES ASSUME TokenInv, BrokerStep PROVE TokenInv'
  OBVIOUS
<1>a. drv' = drv /\ outer' = outer
  BY DEF BrokerStep, BrokerRegister, BrokerActivate, BrokerRelease, Release, BrokerRevokeNext
<1>b. live' \subseteq live
  BY DEF BrokerStep, BrokerRegister, BrokerActivate, BrokerRelease, Release, BrokerRevokeNext
<1>c. TokensDieWithOuter'
  BY <1>a, <1>b DEF TokenInv, TokensDieWithOuter
<1>1. CASE BrokerRegister
  <2>1. scope' \in [Keys -> {"none", "free", "consumed"}]
    BY <1>1 DEF BrokerRegister, TokenInv
  <2>2. ASSUME drv = "registering" PROVE revoking' = {} /\ Answered(Registered)'
    <3>1. requests = <<[op |-> "register", outer |-> outer]>> /\ replies = <<>>
      BY <1>1, <2>2 DEF BrokerRegister, Asked, TokenInv, PipeKnown, Pending, Answered
    <3>2. Head(requests) = [op |-> "register", outer |-> outer] /\ Tail(requests) = <<>>
      BY <3>1, OneMessage
    <3> DEFINE fresh == ScopesOf(outer) = {} /\ outer \notin active
    <3>3. /\ scope' = [k \in Keys |-> IF fresh /\ k[1] = outer THEN "free" ELSE scope[k]]
          /\ replies' = <<[op |-> "register", ok |-> fresh]>> /\ requests' = <<>>
      BY <1>1, <3>1, <3>2, OneMessage DEF BrokerRegister, Answer
    <3>4. fresh => Registered'
      BY <1>a, <3>3 DEF Registered
    <3>5. Answered(Registered)'
      <4> DEFINE r == [op |-> "register", ok |-> fresh]
      <4>1. r.ok => Registered'
        BY <3>4
      <4> QED BY <3>3, <4>1 DEF Answered
    <3>6. revoking' = {}
      BY <1>1, <2>2 DEF BrokerRegister, TokenInv, PipeKnown
    <3> QED BY <3>5, <3>6
  <2>3. drv \notin {"register", "waiting", "activating", "releasing"}
    BY <1>1, OneMessage DEF BrokerRegister, Asked, TokenInv, PipeKnown, Pending, Answered
  <2> QED BY <1>1, <1>a, <1>b, <1>c, <2>1, <2>2, <2>3 DEF TokenInv, PipeKnown
<1>2. CASE BrokerActivate
  <2>1. UNCHANGED <<scope, revoking, live>>
    BY <1>2 DEF BrokerActivate
  <2>2. ASSUME drv = "activating" PROVE Answered(TRUE)'
    <3>1. requests = <<[op |-> "activate", outer |-> outer]>> /\ replies = <<>>
      BY <1>2, <2>2 DEF BrokerActivate, Asked, TokenInv, PipeKnown, Pending, Answered
    <3> QED BY <1>2, <3>1, OneMessage DEF BrokerActivate, Answer, Answered
  <2>3. drv \notin {"register", "waiting", "registering", "releasing"}
    BY <1>2, OneMessage DEF BrokerActivate, Asked, TokenInv, PipeKnown, Pending, Answered
  <2> QED BY <1>a, <1>c, <2>1, <2>2, <2>3 DEF TokenInv, PipeKnown, Registered
<1>3. CASE BrokerRelease
  <2> DEFINE tokens == ScopesOf(Head(requests).outer)
  <2>1. scope' \in [Keys -> {"none", "free", "consumed"}] /\ live' = live /\ revoking' = tokens
    BY <1>3 DEF BrokerRelease, Release, TokenInv
  <2>2. drv \notin {"register", "waiting", "registering", "activating"}
    BY <1>3, OneMessage DEF BrokerRelease, Release, Asked, TokenInv, PipeKnown, Pending, Answered
  <2>3. ASSUME drv = "releasing"
        PROVE \/ Pending("release")' /\ revoking' # {}
                   /\ \A k \in live' : k[1] = outer' => k \in revoking'
              \/ Answered(OuterDead)' /\ revoking' = {}
    <3>1. Pending("release") /\ Registered
      BY <1>3, <2>3 DEF BrokerRelease, Release, Asked, TokenInv, PipeKnown, Answered
    <3>2. Head(requests).outer = outer /\ Tail(requests) = <<>>
      BY <3>1, OneMessage DEF Pending
    <3>3. \A k \in live : k[1] = outer => k \in tokens
      BY <3>1, <3>2 DEF ScopesOf, Registered, TokenInv
    <3>4. CASE tokens = {}
      <4>1. OuterDead'
        BY <1>a, <2>1, <3>3, <3>4 DEF OuterDead
      <4>2. requests' = <<>> /\ \E r : replies' = <<r>>
        BY <1>3, <3>1, <3>2, <3>4, OneMessage DEF BrokerRelease, Release, Answer, Pending
      <4> QED BY <2>1, <3>4, <4>1, <4>2 DEF Answered
    <3>5. CASE tokens # {}
      <4>1. UNCHANGED <<requests, replies>>
        BY <1>3, <3>5 DEF BrokerRelease, Release
      <4> QED BY <1>a, <2>1, <3>1, <3>3, <3>5, <4>1 DEF Pending
    <3> QED BY <3>4, <3>5
  <2> QED BY <1>a, <1>c, <2>1, <2>2, <2>3 DEF TokenInv, PipeKnown
<1>4. CASE BrokerRevokeNext
  <2>1. PICK k \in revoking :
          \/ /\ live' = live \ {k} /\ revoking' = revoking \ {k}
             /\ IF revoking' = {} THEN Answer(TRUE) ELSE UNCHANGED <<requests, replies>>
          \/ revoking' = {} /\ Answer(FALSE) /\ UNCHANGED live
    BY <1>4 DEF BrokerRevokeNext
  <2>2. scope' = scope
    BY <1>4 DEF BrokerRevokeNext
  <2>3. drv \notin {"register", "waiting", "registering", "activating"}
    BY <2>1 DEF TokenInv, PipeKnown
  <2>4. ASSUME drv = "releasing"
        PROVE \/ Pending("release")' /\ revoking' # {}
                   /\ \A j \in live' : j[1] = outer' => j \in revoking'
              \/ Answered(OuterDead)' /\ revoking' = {}
    <3>1. Pending("release") /\ \A j \in live : j[1] = outer => j \in revoking
      BY <2>1, <2>4 DEF TokenInv, PipeKnown
    <3>2. Tail(requests) = <<>>
      BY <3>1, OneMessage DEF Pending
    <3>3. CASE live' = live \ {k} /\ revoking' = revoking \ {k} /\ revoking' = {} /\ Answer(TRUE)
      <4>1. OuterDead'
        BY <1>a, <3>1, <3>3 DEF OuterDead
      <4>2. requests' = <<>> /\ \E r : replies' = <<r>>
        BY <3>1, <3>2, <3>3, OneMessage DEF Answer, Pending
      <4> QED BY <3>3, <4>1, <4>2 DEF Answered
    <3>4. CASE /\ live' = live \ {k} /\ revoking' = revoking \ {k} /\ revoking' # {}
               /\ UNCHANGED <<requests, replies>>
      BY <1>a, <3>1, <3>4 DEF Pending
    <3>5. CASE revoking' = {} /\ Answer(FALSE)
      <4>1. requests' = <<>> /\ replies' = <<[op |-> Head(requests).op, ok |-> FALSE]>>
        BY <3>1, <3>2, <3>5, OneMessage DEF Answer, Pending
      <4> QED BY <3>5, <4>1 DEF Answered
    <3> QED BY <2>1, <3>3, <3>4, <3>5
  <2> QED BY <1>a, <1>b, <1>c, <2>2, <2>3, <2>4 DEF TokenInv, PipeKnown
<1> QED BY <1>1, <1>2, <1>3, <1>4 DEF BrokerStep

\* Every step keeps the invariant.
LEMMA TokenNext == TokenInv /\ [Next]_vars => TokenInv'
<1> SUFFICES ASSUME TokenInv, [Next]_vars PROVE TokenInv'
  OBVIOUS
<1> DEFINE Elsewhere == /\ UNCHANGED <<pipe, revoking>> /\ live' \subseteq live
                        /\ scope' \in [Keys -> {"none", "free", "consumed"}]
                        /\ \A k \in Keys : scope'[k] = "none" => scope[k] = "none"
<1>1. CASE DriverStep \/ ControlTimeout
  BY <1>1, TokenDriver
<1>2. CASE BrokerStep
  BY <1>2, TokenBroker
<1>3. ASSUME NEW k \in Keys, HandlerStep(k) \/ RelayWrite(k) PROVE Elsewhere
  <2>1. UNCHANGED brk /\ UNCHANGED pipe /\ live' \subseteq live
    BY <1>3 DEF HandlerStep, RelayWrite, RelayBlocks, RelayWrote, GrantOutput, GrantTraverse, Spawn, LaunchFails, RelayEnds, Reap,
       Reclaim
  <2> QED BY <2>1 DEF brk, TokenInv
<1>4. ASSUME WorkerStep \/ WorkerDies PROVE Elsewhere
  <2>1. UNCHANGED brk /\ UNCHANGED pipe /\ UNCHANGED live
    BY <1>4 DEF WorkerStep, WorkerDies, WorkerBoots, WorkerTakes, WorkerSends, WorkerResumes
  <2> QED BY <2>1 DEF brk, TokenInv
<1>5. ASSUME Connect PROVE Elsewhere
  <2>1. UNCHANGED <<pipe, revoking, live>>
    BY <1>5 DEF Connect
  <2>2. UNCHANGED scope \/ \E k : scope' = [scope EXCEPT ![k] = "consumed"]
    BY <1>5 DEF Connect, Reserve
  <2> QED BY <2>1, <2>2 DEF TokenInv
<1>6. ASSUME (ClientStep /\ ~Connect) \/ OuterCrashes PROVE Elsewhere
  <2>1. UNCHANGED brk /\ UNCHANGED pipe /\ UNCHANGED live
    BY <1>6 DEF ClientStep, ReadInit, Invoke, SendCall, ReadAside, CallFails, CallSucceeds,
       OuterExits, OuterCrashes
  <2> QED BY <2>1 DEF brk, TokenInv
<1>7. ASSUME UNCHANGED world PROVE Elsewhere
  BY <1>7 DEF world, brk, pipe, TokenInv
<1> HIDE DEF Elsewhere
<1>8. Elsewhere => TokenInv'
  BY TokenKept DEF Elsewhere
<1> QED BY <1>1, <1>2, <1>3, <1>4, <1>5, <1>6, <1>7, <1>8 DEF Next, Ended, vars

\* For any number of outers, slots, retries and calls and any failures, once the
\* driver works on an outer no token of an earlier one is accepted by the proxy.
THEOREM TokensDie == Spec => []TokensDieWithOuter
<1>1. TokenInv => TokensDieWithOuter
  BY DEF TokenInv
<1> QED BY <1>1, TokenInit, TokenNext, PTL DEF Spec

-----------------------------------------------------------------------------
(***************************************************************************)
(* The type invariant, with what the queues hold and when a channel is     *)
(* open.                                                                   *)
(***************************************************************************)
MaxId == MaxCalls + 1

\* The types of the variables; the reference counts have theirs from Access.
Typed ==
    /\ scope \in [Keys -> {"none", "free", "consumed"}]
    /\ active \subseteq Outers /\ revoking \subseteq Keys /\ live \subseteq Keys
    /\ handler \in [Keys -> {"idle", "grant_output", "grant_traverse", "spawn", "relay", "write", "reap",
                             "drop_traverse", "drop_output", "drop_token", "done"}]
    /\ proc \in [Keys -> {"none", "boot", "ready", "serving", "asking", "dead"}]
    /\ outer \in Outers /\ tries \in 0..Retries
    /\ client \in Gone \cup {"connect", "auth", "init", "idle", "send", "calling"}
    /\ target \in Seats \cup {None}
    /\ childCall \in 0..MaxId

\* What the queues hold.
Requests == [op : {"register", "activate", "release"}, outer : Outers]
Calls    == [type : {"call", "broker_result"}, id : 0..MaxId]
Replies  == [type : {"ready", "error", "event", "broker_call", "result", "bad_result"},
             id : 0..MaxId]
Queues   ==
    /\ requests \in Seq(Requests) /\ toChild \in Seq(Calls) /\ toParent \in Seq(Replies)
    /\ revoking # {} => Asked("release")

\* Calls are numbered below the number of calls asked for.
Numbered ==
    /\ callId \in Nat /\ calls \in 0..MaxId /\ callId <= calls
    /\ client = "send" \/ (byCall /\ client \in {"connect", "auth", "init"}) => callId < calls

\* A channel is open from the handshake to the end of the client, and while a
\* worker is started the seat it is for is known.
SeatOpen ==
    /\ seat \in Seats \cup {None}
    /\ client \in Gone \cup {"connect", "auth"} => seat = None
    /\ client \in {"connect", "auth"} => target \in Seats
    /\ client \in {"init", "send", "calling"} => seat \in Seats
    /\ seat # None => handler[<<outer, seat>>] \notin
                        {"idle", "grant_output", "grant_traverse", "spawn"}

Flagged == byCall \in BOOLEAN

TypeInv == Typed /\ Flagged /\ Queues /\ Numbered /\ SeatOpen

-----------------------------------------------------------------------------
LEMMA QueueOps ==
    ASSUME NEW S, NEW q \in Seq(S)
    PROVE  /\ <<>> \in Seq(S)
           /\ \A x \in S : /\ Append(q, x) \in Seq(S) /\ Append(q, x) # <<>>
                           /\ q # <<>> => Head(Append(q, x)) = Head(q)
           /\ q # <<>> => Head(q) \in S /\ Tail(q) \in Seq(S)
BY EmptySeq, AppendProperties, HeadTailProperties

LEMMA MessageTypes ==
    ASSUME TypeInv
    PROVE  /\ \A op \in {"register", "activate", "release"} :
                [op |-> op, outer |-> outer] \in Requests
           /\ \A type \in {"call", "broker_result"}, id \in 0..MaxId :
                [type |-> type, id |-> id] \in Calls
           /\ \A type \in {"ready", "error", "event", "broker_call", "result", "bad_result"} :
                [type |-> type, id |-> childCall] \in Replies
           /\ \A m \in Calls : m.id \in 0..MaxId
           /\ \A m \in Requests : m.outer \in Outers
BY DEF TypeInv, Typed, Requests, Calls, Replies

\* The queues keep their types.
LEMMA QueueStep == TypeInv /\ Next => Queues'
<1> SUFFICES ASSUME TypeInv, Next PROVE Queues'
  OBVIOUS
<1>a. /\ requests \in Seq(Requests) /\ toChild \in Seq(Calls) /\ toParent \in Seq(Replies)
      /\ revoking # {} => Asked("release")
  BY DEF TypeInv, Queues
<1>f. requests # <<>> => Tail(requests) \in Seq(Requests)
  BY <1>a, QueueOps
<1>b. callId \in 0..MaxId /\ (client = "send" => callId + 1 \in 0..MaxId)
  BY SeatAssumption DEF TypeInv, Numbered, MaxId
<1>c. \A type \in {"ready", "error", "event", "broker_call", "result", "bad_result"} :
        Tell(type) => toParent' \in Seq(Replies)
  BY <1>a, QueueOps, MessageTypes DEF Tell
<1>d. \A op \in {"register", "activate", "release"} :
        Send(op) => requests' \in Seq(Requests) /\ (Asked("release") => Asked("release")')
  BY <1>a, QueueOps, MessageTypes DEF Send, Asked
<1>e. Dispatch => toChild' \in Seq(Calls)
  BY <1>a, <1>b, QueueOps, MessageTypes DEF Dispatch
<1>1. CASE RegisterOuter
  BY <1>1, <1>a, <1>d DEF RegisterOuter, Asked, brk, pipe, chan, Queues
<1>2. CASE StartOuterWorker
  BY <1>2, <1>a, <1>d DEF StartOuterWorker, Asked, brk, pipe, chan, Queues
<1>3. CASE Activated
  BY <1>3, <1>a DEF Activated, Asked, brk, pipe, chan, Queues
<1>4. CASE ControlTimeout
  BY <1>4, <1>a DEF ControlTimeout, Asked, brk, pipe, chan, Queues
<1>5. CASE ReleaseOuter
  BY <1>5, <1>a, <1>d DEF ReleaseOuter, Asked, brk, pipe, chan, Queues
<1>6. CASE Released
  BY <1>6, <1>a DEF Released, Asked, brk, pipe, chan, Queues
<1>7. CASE CloseAll
  BY <1>7, <1>a, EmptySeq DEF CloseAll, Asked, brk, pipe, chan, Queues
<1>8. CASE BrokerRegister
  BY <1>8, <1>a, QueueOps DEF BrokerRegister, Asked, Answer, brk, pipe, chan, Queues
<1>9. CASE BrokerActivate
  BY <1>9, <1>a, QueueOps DEF BrokerActivate, Asked, Answer, brk, pipe, chan, Queues
<1>10. CASE BrokerRelease
  <2> DEFINE tokens == ScopesOf(Head(requests).outer)
  <2>1. requests # <<>> /\ Asked("release") /\ revoking' = tokens /\ UNCHANGED <<toChild, toParent>>
    BY <1>10 DEF BrokerRelease, Release, Asked, chan
  <2>2. IF tokens = {} THEN requests' = Tail(requests) ELSE UNCHANGED requests
    BY <1>10 DEF BrokerRelease, Release, Answer
  <2> HIDE DEF tokens
  <2> QED BY <1>a, <1>f, <2>1, <2>2 DEF Asked, Queues
<1>11. CASE BrokerRevokeNext
  <2>1. requests # <<>> /\ Asked("release") /\ UNCHANGED <<toChild, toParent>>
    BY <1>11, <1>a DEF BrokerRevokeNext, Asked, chan
  <2>2. (requests' = Tail(requests) /\ revoking' = {}) \/ UNCHANGED requests
    BY <1>11 DEF BrokerRevokeNext, Answer
  <2> QED BY <1>a, <1>f, <2>1, <2>2 DEF Asked, Queues
<1>12. ASSUME NEW k \in Keys, GrantOutput(k) PROVE Queues'
  BY <1>12, <1>a DEF GrantOutput, Asked, brk, pipe, chan, Queues
<1>13. ASSUME NEW k \in Keys, GrantTraverse(k) PROVE Queues'
  BY <1>13, <1>a DEF GrantTraverse, Asked, brk, pipe, chan, Queues
<1>14. ASSUME NEW k \in Keys, Spawn(k) PROVE Queues'
  BY <1>14, <1>a, EmptySeq DEF Spawn, Asked, brk, pipe, chan, Queues
<1>15. ASSUME NEW k \in Keys, LaunchFails(k) PROVE Queues'
  BY <1>15, <1>a DEF LaunchFails, Asked, brk, pipe, chan, Queues
<1>16. ASSUME NEW k \in Keys, RelayEnds(k) PROVE Queues'
  BY <1>16, <1>a DEF RelayEnds, Asked, brk, pipe, chan, Queues
<1>17. ASSUME NEW k \in Keys, Reap(k) PROVE Queues'
  BY <1>17, <1>a DEF Reap, Asked, brk, pipe, chan, Queues
<1>18. ASSUME NEW k \in Keys, Reclaim(k) PROVE Queues'
  BY <1>18, <1>a DEF Reclaim, Asked, brk, pipe, chan, Queues
<1>19. CASE WorkerBoots
  BY <1>19, <1>a, <1>c DEF WorkerBoots, Asked, brk, pipe, chan, Queues
<1>20. CASE WorkerTakes
  BY <1>20, <1>a, QueueOps DEF WorkerTakes, Asked, brk, pipe, chan, Queues
<1>21. CASE WorkerSends
  BY <1>21, <1>a, <1>c DEF WorkerSends, Asked, brk, pipe, chan, Queues
<1>22. CASE WorkerResumes
  BY <1>22, <1>a, QueueOps DEF WorkerResumes, Asked, brk, pipe, chan, Queues
<1>23. CASE WorkerDies
  BY <1>23, <1>a DEF WorkerDies, Asked, brk, pipe, chan, Queues
<1>24. CASE Connect
  BY <1>24, <1>a DEF Connect, Asked, brk, pipe, chan, Queues
<1>25. CASE ReadInit
  BY <1>25, <1>a, QueueOps DEF ReadInit, Front, Asked, brk, pipe, chan, Queues
<1>26. ASSUME NEW s \in Seats, Invoke(s) PROVE Queues'
  BY <1>26, <1>a DEF Invoke, Asked, brk, pipe, chan, Queues
<1>27. CASE SendCall
  BY <1>27, <1>a, <1>b, QueueOps, MessageTypes DEF SendCall, Asked, brk, pipe, chan, Queues
<1>28. CASE ReadAside
  BY <1>28, <1>a, <1>e, QueueOps DEF ReadAside, Front, Asked, brk, pipe, chan, Queues
<1>29. CASE CallFails
  BY <1>29, <1>a, EmptySeq DEF CallFails, Asked, brk, pipe, chan, Queues
<1>30. CASE CallSucceeds
  BY <1>30, <1>a, QueueOps DEF CallSucceeds, Asked, brk, pipe, chan, Queues
<1>31. CASE OuterExits
  BY <1>31, <1>a DEF OuterExits, Asked, brk, pipe, chan, Queues
<1>32. CASE OuterCrashes
  BY <1>32, <1>a DEF OuterCrashes, Asked, brk, pipe, chan, Queues
<1>33. CASE Ended
  BY <1>33, <1>a DEF Ended, world, brk, pipe, chan, Queues, Asked
<1>34. ASSUME NEW k \in Keys, RelayWrite(k) PROVE Queues'
  BY <1>34, <1>a DEF RelayWrite, RelayBlocks, RelayWrote, Asked, brk, pipe, chan, Queues
<1> QED BY <1>1, <1>2, <1>3, <1>4, <1>5, <1>6, <1>7, <1>8, <1>9, <1>10, <1>11, <1>12, <1>13,
     <1>14, <1>15, <1>16, <1>17, <1>18, <1>19, <1>20, <1>21, <1>22, <1>23, <1>24, <1>25,
     <1>26, <1>27, <1>28, <1>29, <1>30, <1>31, <1>32, <1>33, <1>34 DEF Next, DriverStep,
     BrokerStep, HandlerStep, WorkerStep, ClientStep

\* So do the other variables.
LEMMA TypeStep == TokenInv /\ TypeInv /\ Next => TypeInv'
<1> SUFFICES ASSUME TokenInv, TypeInv, Next PROVE TypeInv'
  OBVIOUS
<1> USE SeatAssumption
<1>q. Queues'
  BY QueueStep
<1>f. Flagged'
  BY DEF TypeInv, Flagged, Next, DriverStep, RegisterOuter, StartOuterWorker, Activated,
     ControlTimeout, ReleaseOuter, Released, CloseAll, BrokerStep, BrokerRegister, BrokerActivate,
     BrokerRelease, Release, BrokerRevokeNext, HandlerStep, GrantOutput, GrantTraverse, Spawn,
     LaunchFails, RelayEnds, RelayWrite, RelayBlocks, RelayWrote, Reap, Reclaim, WorkerStep,
     WorkerBoots, WorkerTakes, WorkerSends,
     WorkerResumes, WorkerDies, ClientStep, Connect, ReadInit, Invoke, SendCall, ReadAside,
     CallFails, CallSucceeds, OuterExits, OuterCrashes, StartWorker, Ended, world, cli
<1>h. /\ requests # <<>> => Head(requests).outer \in Outers
      /\ toChild # <<>> => Head(toChild).id \in 0..MaxId
  BY QueueOps, MessageTypes DEF TypeInv, Queues
<1>1. ASSUME RegisterOuter PROVE (Typed /\ Numbered /\ SeatOpen)'
  BY <1>1, <1>h DEF RegisterOuter, brk, acls, pipe, cli, chan, TokenInv, TypeInv, Typed,
       Numbered, SeatOpen, Keys, Outers, Seats, Gone, MaxId
<1>2. ASSUME StartOuterWorker PROVE (Typed /\ Numbered /\ SeatOpen)'
  <2>1. /\ UNCHANGED <<scope, active, revoking, handler, proc, acls, live, outer, chan>>
        /\ \/ /\ client' = "connect" /\ byCall' = FALSE /\ target' = "work" /\ seat' = None
              /\ tries' = 0 /\ callId' = 0 /\ calls' = 0
           \/ UNCHANGED cli
    BY <1>2 DEF StartOuterWorker, StartWorker, brk
  <2>2. CASE UNCHANGED cli
    BY <2>1, <2>2 DEF TypeInv, Typed, Numbered, SeatOpen, Keys, Outers, Seats, Gone,
         MaxId, cli, chan
  <2>3. CASE byCall' = FALSE /\ client' = "connect" /\ ~UNCHANGED cli
    BY <2>1, <2>3 DEF TypeInv, Typed, Numbered, SeatOpen, Keys, Outers, Seats, Gone,
         MaxId, chan
  <2> QED BY <2>1, <2>2, <2>3
<1>3. ASSUME Activated PROVE (Typed /\ Numbered /\ SeatOpen)'
  BY <1>3, <1>h DEF Activated, brk, acls, pipe, cli, chan, TokenInv, TypeInv, Typed,
       Numbered,
       SeatOpen, Keys, Outers, Seats, Gone, MaxId
<1>4. ASSUME ControlTimeout PROVE (Typed /\ Numbered /\ SeatOpen)'
  BY <1>4, <1>h DEF ControlTimeout, brk, acls, pipe, cli, chan, TokenInv, TypeInv, Typed,
       Numbered, SeatOpen, Keys, Outers, Seats, Gone, MaxId
<1>5. ASSUME ReleaseOuter PROVE (Typed /\ Numbered /\ SeatOpen)'
  BY <1>5, <1>h DEF ReleaseOuter, brk, acls, pipe, cli, chan, TokenInv, TypeInv, Typed,
       Numbered, SeatOpen, Keys, Outers, Seats, Gone, MaxId
<1>6. ASSUME Released PROVE (Typed /\ Numbered /\ SeatOpen)'
  <2>1. /\ UNCHANGED <<scope, active, revoking, handler, proc, acls, live, chan,
                       byCall, seat, target, tries, callId, calls>>
        /\ \/ client = "exited" /\ outer < MaxOuter /\ outer' = outer + 1 /\ client' = "none"
           \/ UNCHANGED <<outer, client>>
    BY <1>6 DEF Released, brk
  <2>2. CASE UNCHANGED <<outer, client>>
    BY <2>1, <2>2 DEF TypeInv, Typed, Numbered, SeatOpen, Keys, Outers, Seats, Gone,
         MaxId, chan
  <2>3. CASE client = "exited" /\ outer < MaxOuter /\ outer' = outer + 1 /\ client' = "none"
    BY <2>1, <2>3 DEF TypeInv, Typed, Numbered, SeatOpen, Keys, Outers, Seats, Gone,
         MaxId, chan
  <2> QED BY <2>1, <2>2, <2>3
<1>7. ASSUME CloseAll PROVE (Typed /\ Numbered /\ SeatOpen)'
  BY <1>7, <1>h DEF CloseAll, brk, acls, pipe, cli, chan, TokenInv, TypeInv, Typed,
       Numbered,
       SeatOpen, Keys, Outers, Seats, Gone, MaxId
<1>8. ASSUME BrokerRegister PROVE (Typed /\ Numbered /\ SeatOpen)'
  BY <1>8, <1>h DEF BrokerRegister, Asked, brk, acls, pipe, cli, chan, TokenInv, TypeInv,
       Typed, Numbered, SeatOpen, Keys, Outers, Seats, Gone, MaxId
<1>9. ASSUME BrokerActivate PROVE (Typed /\ Numbered /\ SeatOpen)'
  BY <1>9, <1>h DEF BrokerActivate, Asked, brk, acls, pipe, cli, chan, TokenInv, TypeInv,
       Typed, Numbered, SeatOpen, Keys, Outers, Seats, Gone, MaxId
<1>10. ASSUME BrokerRelease PROVE (Typed /\ Numbered /\ SeatOpen)'
  BY <1>10, <1>h DEF BrokerRelease, Release, Asked, ScopesOf, brk, acls, pipe, cli, chan,
       TokenInv, TypeInv, Typed, Numbered, SeatOpen, Keys, Outers, Seats, Gone, MaxId
<1>11. ASSUME BrokerRevokeNext PROVE (Typed /\ Numbered /\ SeatOpen)'
  BY <1>11, <1>h DEF BrokerRevokeNext, brk, acls, pipe, cli, chan, TokenInv, TypeInv, Typed,
       Numbered, SeatOpen, Keys, Outers, Seats, Gone, MaxId
<1>12. ASSUME NEW k \in Keys, GrantOutput(k) PROVE (Typed /\ Numbered /\ SeatOpen)'
  BY <1>12, <1>h DEF GrantOutput, brk, acls, pipe, cli, chan, TokenInv, TypeInv, Typed,
       Numbered, SeatOpen, Keys, Outers, Seats, Gone, MaxId
<1>13. ASSUME NEW k \in Keys, GrantTraverse(k) PROVE (Typed /\ Numbered /\ SeatOpen)'
  BY <1>13, <1>h DEF GrantTraverse, brk, acls, pipe, cli, chan, TokenInv, TypeInv, Typed,
       Numbered, SeatOpen, Keys, Outers, Seats, Gone, MaxId
<1>14. ASSUME NEW k \in Keys, Spawn(k) PROVE (Typed /\ Numbered /\ SeatOpen)'
  <2>1. CASE Connected(k)
    <3>1. client = "auth" /\ k = <<outer, target>>
      BY <1>14, <2>1 DEF Spawn, Connected, TypeInv, SeatOpen, Typed, Keys, Seats
    <3>2. /\ UNCHANGED <<brk, acls, live, pipe, byCall, target, tries, callId, calls>>
          /\ client' = "init" /\ seat' = target /\ childCall' = 0
          /\ proc' = [proc EXCEPT ![k] = "boot"] /\ handler' = [handler EXCEPT ![k] = "relay"]
      BY <1>14, <2>1 DEF Spawn
    <3> QED BY <3>1, <3>2 DEF TypeInv, Typed, Numbered, SeatOpen, Keys, Outers, Seats,
         Gone, MaxId, brk, pipe
  <2>2. CASE ~Connected(k)
    <3>1. /\ UNCHANGED <<brk, acls, live, pipe, cli, chan>>
          /\ proc' = [proc EXCEPT ![k] = "boot"] /\ handler' = [handler EXCEPT ![k] = "reap"]
      BY <1>14, <2>2 DEF Spawn, cli
    <3> QED BY <3>1 DEF TypeInv, Typed, Numbered, SeatOpen, Keys, Outers, Seats, Gone,
         MaxId, brk, pipe, cli, chan
  <2> QED BY <2>1, <2>2
<1>15. ASSUME NEW k \in Keys, LaunchFails(k) PROVE (Typed /\ Numbered /\ SeatOpen)'
  <2>1. /\ UNCHANGED <<brk, proc, live, pipe, byCall, callId, calls, chan>>
        /\ handler' = [handler EXCEPT ![k] = "done"]
        /\ StartFailed \/ UNCHANGED <<client, seat, target, tries>>
    BY <1>15 DEF LaunchFails
  <2>2. CASE StartFailed
    BY <2>1, <2>2 DEF StartFailed, TypeInv, Flagged, Typed, Numbered, SeatOpen, Keys,
         Outers, Seats,
         Gone, MaxId, brk, pipe, chan
  <2>3. CASE UNCHANGED <<client, seat, target, tries>>
    BY <2>1, <2>3 DEF TypeInv, Typed, Numbered, SeatOpen, Keys, Outers, Seats, Gone,
         MaxId, brk, pipe, chan
  <2> QED BY <2>1, <2>2, <2>3
<1>16. ASSUME NEW k \in Keys, RelayEnds(k) PROVE (Typed /\ Numbered /\ SeatOpen)'
  BY <1>16, <1>h DEF RelayEnds, brk, acls, pipe, cli, chan, TokenInv, TypeInv, Typed,
       Numbered, SeatOpen, Keys, Outers, Seats, Gone, MaxId
<1>17. ASSUME NEW k \in Keys, Reap(k) PROVE (Typed /\ Numbered /\ SeatOpen)'
  BY <1>17, <1>h DEF Reap, brk, acls, pipe, cli, chan, TokenInv, TypeInv, Typed, Numbered,
       SeatOpen, Keys, Outers, Seats, Gone, MaxId
<1>18. ASSUME NEW k \in Keys, Reclaim(k) PROVE (Typed /\ Numbered /\ SeatOpen)'
  <2>1. /\ UNCHANGED <<brk, proc, pipe, cli, chan>> /\ live' \subseteq live
        /\ handler[k] \in {"drop_traverse", "drop_output", "drop_token"}
        /\ \E h \in {"drop_output", "drop_token", "done"} : handler' = [handler EXCEPT ![k] = h]
    BY <1>18 DEF Reclaim
  <2>2. /\ \A j \in Keys : handler'[j] = handler[j]
                           \/ handler'[j] \in {"drop_output", "drop_token", "done"}
        /\ handler' \in [Keys -> {"idle", "grant_output", "grant_traverse", "spawn", "relay",
                                  "write", "reap", "drop_traverse", "drop_output", "drop_token", "done"}]
    BY <2>1 DEF TypeInv, Typed
  <2>3. Typed'
    BY <2>1, <2>2 DEF TypeInv, Typed, brk, pipe, cli, chan
  <2>4. Numbered'
    BY <2>1 DEF TypeInv, Numbered, cli, chan
  <2>5. seat # None => <<outer, seat>> \in Keys
    BY DEF TypeInv, Typed, SeatOpen, Keys
  <2>6. SeatOpen'
    BY <2>1, <2>2, <2>5 DEF TypeInv, SeatOpen, cli, pipe
  <2> QED BY <2>3, <2>4, <2>6
<1>19. ASSUME WorkerBoots PROVE (Typed /\ Numbered /\ SeatOpen)'
  <2>1. /\ UNCHANGED <<brk, handler, acls, live, pipe, cli, childCall>>
        /\ \/ proc' = proc
           \/ \E q \in {"ready", "dead"} : proc' = [proc EXCEPT ![<<outer, seat>>] = q]
    BY <1>19 DEF WorkerBoots, Goto
  <2> QED BY <2>1, SMTT(30) DEF TypeInv, Typed, Numbered, SeatOpen, Keys, Outers, Seats, Gone,
       MaxId, brk, pipe, cli
<1>20. ASSUME WorkerTakes PROVE (Typed /\ Numbered /\ SeatOpen)'
  BY <1>20, <1>h DEF WorkerTakes, At, Goto, brk, acls, pipe, cli, chan, TokenInv, TypeInv,
       Typed, Numbered, SeatOpen, Keys, Outers, Seats, Gone, MaxId
<1>21. ASSUME WorkerSends PROVE (Typed /\ Numbered /\ SeatOpen)'
  <2>1. /\ UNCHANGED <<brk, handler, acls, live, pipe, cli, childCall>>
        /\ \/ proc' = proc
           \/ \E q \in {"serving", "asking", "ready"} : proc' = [proc EXCEPT ![<<outer, seat>>] = q]
    BY <1>21 DEF WorkerSends, Goto
  <2> QED BY <2>1 DEF TypeInv, Typed, Numbered, SeatOpen, Keys, Outers, Seats, Gone,
       MaxId, brk, pipe, cli
<1>22. ASSUME WorkerResumes PROVE (Typed /\ Numbered /\ SeatOpen)'
  BY <1>22, <1>h DEF WorkerResumes, At, Goto, brk, acls, pipe, cli, chan, TokenInv, TypeInv,
       Typed, Numbered, SeatOpen, Keys, Outers, Seats, Gone, MaxId
<1>23. ASSUME WorkerDies PROVE (Typed /\ Numbered /\ SeatOpen)'
  BY <1>23, <1>h DEF WorkerDies, At, Goto, brk, acls, pipe, cli, chan, TokenInv, TypeInv,
       Typed, Numbered, SeatOpen, Keys, Outers, Seats, Gone, MaxId
<1>24. ASSUME Connect PROVE (Typed /\ Numbered /\ SeatOpen)'
  <2> DEFINE k == <<outer, target>>
  <2>1. /\ UNCHANGED <<active, revoking, proc, acls, live, pipe, byCall, callId, calls, chan>>
        /\ client = "connect"
        /\ \/ /\ scope' = [scope EXCEPT ![k] = "consumed"]
              /\ handler' = [handler EXCEPT ![k] = "grant_output"]
              /\ client' = "auth" /\ UNCHANGED <<seat, target, tries>>
           \/ /\ tries < Retries /\ tries' = tries + 1
              /\ UNCHANGED <<scope, handler, client, seat, target>>
           \/ StartFailed /\ UNCHANGED <<scope, handler>>
    BY <1>24 DEF Connect, Reserve
  <2>2. CASE client' = "auth" /\ UNCHANGED <<seat, target, tries>>
    BY <2>1, <2>2 DEF TypeInv, Typed, Numbered, SeatOpen, Keys, Outers, Seats, Gone,
         MaxId, StartFailed, pipe, chan
  <2>3. CASE /\ UNCHANGED <<scope, handler, client, seat, target>>
             /\ tries < Retries /\ tries' = tries + 1
    BY <2>1, <2>3 DEF TypeInv, Typed, Numbered, SeatOpen, Keys, Outers, Seats, Gone,
         MaxId, pipe, chan
  <2>4. CASE StartFailed /\ UNCHANGED <<scope, handler>>
    BY <2>1, <2>4 DEF TypeInv, Typed, Numbered, SeatOpen, Keys, Outers, Seats, Gone,
         MaxId, StartFailed, pipe, chan
  <2> QED BY <2>1, <2>2, <2>3, <2>4
<1>25. ASSUME ReadInit PROVE (Typed /\ Numbered /\ SeatOpen)'
  <2>1. /\ UNCHANGED <<brk, handler, proc, acls, live, pipe, byCall, callId, calls, childCall>>
        /\ client = "init"
        /\ \/ /\ client' = "idle" \/ (byCall /\ client' = "send")
              /\ UNCHANGED <<seat, target, tries>>
           \/ StartFailed
    BY <1>25 DEF ReadInit
  <2>2. CASE StartFailed
    BY <2>1, <2>2 DEF StartFailed, TypeInv, Flagged, Typed, Numbered, SeatOpen, Keys,
         Outers, Seats, Gone, MaxId,
         brk, pipe
  <2>3. CASE /\ client' = "idle" \/ (byCall /\ client' = "send")
             /\ UNCHANGED <<seat, target, tries>>
    BY <2>1, <2>3 DEF TypeInv, Flagged, Typed, Numbered, SeatOpen, Keys, Outers, Seats,
         Gone, MaxId, brk, pipe
  <2> QED BY <2>1, <2>2, <2>3
<1>26. ASSUME NEW s \in Seats, Invoke(s) PROVE (Typed /\ Numbered /\ SeatOpen)'
  <2>1. /\ UNCHANGED <<brk, handler, proc, acls, live, pipe, callId, chan>>
        /\ client = "idle" /\ calls' \in 0..MaxId /\ calls' > calls
        /\ \/ seat = s /\ client' = "send" /\ UNCHANGED <<byCall, seat, target, tries>>
           \/ /\ client' = "connect" /\ target' = s /\ seat' = None /\ tries' = 0
    BY <1>26 DEF Invoke, StartWorker, TypeInv, Numbered, MaxId
  <2> QED BY <2>1 DEF TypeInv, Typed, Numbered, SeatOpen, Keys, Outers, Seats, Gone,
       MaxId, brk, pipe, chan
<1>27. ASSUME SendCall PROVE (Typed /\ Numbered /\ SeatOpen)'
  BY <1>27, <1>h DEF SendCall, brk, acls, pipe, cli, chan, TokenInv, TypeInv, Typed,
       Numbered,
       SeatOpen, Keys, Outers, Seats, Gone, MaxId
<1>28. ASSUME ReadAside PROVE (Typed /\ Numbered /\ SeatOpen)'
  BY <1>28, <1>h DEF ReadAside, brk, acls, pipe, cli, chan, TokenInv, TypeInv, Typed,
       Numbered, SeatOpen, Keys, Outers, Seats, Gone, MaxId
<1>29. ASSUME CallFails PROVE (Typed /\ Numbered /\ SeatOpen)'
  BY <1>29, <1>h DEF CallFails, brk, acls, pipe, cli, chan, TokenInv, TypeInv, Typed,
       Numbered, SeatOpen, Keys, Outers, Seats, Gone, MaxId
<1>30. ASSUME CallSucceeds PROVE (Typed /\ Numbered /\ SeatOpen)'
  BY <1>30, <1>h DEF CallSucceeds, brk, acls, pipe, cli, chan, TokenInv, TypeInv, Typed,
       Numbered, SeatOpen, Keys, Outers, Seats, Gone, MaxId
<1>31. ASSUME OuterExits PROVE (Typed /\ Numbered /\ SeatOpen)'
  BY <1>31, <1>h DEF OuterExits, brk, acls, pipe, cli, chan, TokenInv, TypeInv, Typed,
       Numbered, SeatOpen, Keys, Outers, Seats, Gone, MaxId
<1>32. ASSUME OuterCrashes PROVE (Typed /\ Numbered /\ SeatOpen)'
  BY <1>32, <1>h DEF OuterCrashes, brk, acls, pipe, cli, chan, TokenInv, TypeInv, Typed,
       Numbered, SeatOpen, Keys, Outers, Seats, Gone, MaxId
<1>33. ASSUME Ended PROVE (Typed /\ Numbered /\ SeatOpen)'
  BY <1>33 DEF Ended, world, brk, acls, pipe, cli, chan, TypeInv, Typed, Numbered, SeatOpen
<1>34. ASSUME NEW k \in Keys, RelayWrite(k) PROVE (Typed /\ Numbered /\ SeatOpen)'
  <2>1. /\ UNCHANGED <<brk, proc, acls, live, pipe, cli, chan>>
        /\ handler[k] \in {"relay", "write"}
        /\ \E h \in {"relay", "write", "reap"} : handler' = [handler EXCEPT ![k] = h]
    BY <1>34 DEF RelayWrite, RelayBlocks, RelayWrote
  <2> QED BY <2>1 DEF brk, acls, pipe, cli, chan, TypeInv, Typed, Numbered, SeatOpen, Keys,
       Outers, Seats, Gone, MaxId
<1> QED BY <1>1, <1>2, <1>3, <1>4, <1>5, <1>6, <1>7, <1>8, <1>9, <1>10, <1>11, <1>12, <1>13,
     <1>14, <1>15, <1>16, <1>17, <1>18, <1>19, <1>20, <1>21, <1>22, <1>23, <1>24, <1>25,
     <1>26, <1>27, <1>28, <1>29, <1>30, <1>31, <1>32, <1>33, <1>34, <1>q, <1>f DEF TypeInv, Next,
     DriverStep, BrokerStep, HandlerStep, WorkerStep, ClientStep

\* The initial state has these types.
LEMMA TypeInit == Init => TypeInv
<1> SUFFICES ASSUME Init PROVE TypeInv
  OBVIOUS
<1>1. Typed
  BY SeatAssumption DEF Init, Typed, Outers, Gone, MaxId, Seats
<1>2. Flagged
  BY DEF Init, Flagged
<1>a. client = "none" /\ callId = 0 /\ calls = 0
  BY DEF Init
<1>5. Numbered
  BY <1>a, SeatAssumption DEF Numbered, MaxId
<1>3. SeatOpen
  BY DEF Init, SeatOpen
<1>4. Queues
  BY EmptySeq DEF Init, Queues
<1> QED BY <1>1, <1>2, <1>3, <1>4, <1>5 DEF TypeInv

-----------------------------------------------------------------------------
(***************************************************************************)
(* A running sandbox keeps its access and its client reads the answers of  *)
(* its own call.                                                           *)
(***************************************************************************)

(***************************************************************************)
(* A seat is launched once: when the broker registers an outer, even late, *)
(* none of its seats has a handler, and a handler consumes its scope.      *)
(***************************************************************************)
Unstarted == \A k \in Keys : k[1] = outer => handler[k] = "idle"

LaunchOnce ==
    /\ drv \in {"register", "registering"} => client = "none" /\ Unstarted
    /\ \A k \in Keys : k[1] > outer => handler[k] = "idle"
    /\ \A k \in Keys : scope[k] = "free" => handler[k] = "idle"
    /\ \A i \in 1..Len(requests) :
         requests[i].op = "register" =>
           /\ drv \in {"registering", "closing"} /\ client = "none"
           /\ requests[i].outer = outer /\ Unstarted
    /\ drv = "ended" => client = "exited"

LEMMA LaunchInit == Init => LaunchOnce
BY DEF Init, LaunchOnce, Unstarted

\* Steps that leave the scopes and the pipe alone and start no handler.
LEMMA LaunchKept ==
    ASSUME LaunchOnce, UNCHANGED <<scope, pipe>>, UNCHANGED client \/ client \notin Gone,
           \A k \in Keys : handler[k] = "idle" => handler'[k] = "idle"
    PROVE  LaunchOnce'
BY DEF LaunchOnce, Unstarted, pipe, Gone

\* The steps of the driver.
LEMMA LaunchDriver ==
    TokenInv /\ TypeInv /\ LaunchOnce /\ (DriverStep \/ ControlTimeout) => LaunchOnce'
<1> SUFFICES ASSUME TokenInv, TypeInv, LaunchOnce, DriverStep \/ ControlTimeout PROVE LaunchOnce'
  OBVIOUS
<1>a. /\ requests \in Seq(Requests) /\ requests # <<>> => Len(requests) > 0
      /\ Len(requests) \in Nat
      /\ outer \in Nat /\ \A k \in Keys : k[1] \in Nat
  BY LenProperties, EmptySeq DEF TypeInv, Queues, Typed, Keys, Outers
<1>b. ASSUME NEW op \in {"register", "activate", "release"}, Send(op)
      PROVE  /\ Len(requests') = Len(requests) + 1
             /\ \A i \in 1..Len(requests) : requests'[i] = requests[i]
             /\ requests'[Len(requests) + 1] = [op |-> op, outer |-> outer]
  BY <1>a, <1>b, AppendProperties, MessageTypes DEF Send
<1>c. ASSUME replies # <<>>, drv \in {"registering", "activating", "releasing"}
      PROVE  requests = <<>>
  BY <1>c DEF TokenInv, PipeKnown, Pending, Answered
<1>1. CASE RegisterOuter
  <2>1. requests = <<>> /\ requests' = <<[op |-> "register", outer |-> outer]>>
    BY <1>1, OneMessage DEF RegisterOuter, Send, TokenInv, PipeKnown
  <2> QED BY <1>1, <2>1 DEF RegisterOuter, LaunchOnce, Unstarted, brk, cli
<1>2. CASE StartOuterWorker
  <2>1. requests = <<>>
    BY <1>2, <1>c DEF StartOuterWorker, Receive
  <2>2. \/ requests' = <<[op |-> "activate", outer |-> outer]>> /\ drv' = "activating"
        \/ requests' = requests /\ drv' = "closing" /\ client' = client
    BY <1>2, <2>1, OneMessage DEF StartOuterWorker, Send, cli
  <2> QED BY <1>2, <2>1, <2>2 DEF StartOuterWorker, LaunchOnce, Unstarted, brk
<1>3. CASE Activated
  BY <1>3, <1>a DEF Activated, LaunchOnce, Unstarted, brk, cli
<1>4. CASE ControlTimeout
  BY <1>4, <1>a DEF ControlTimeout, LaunchOnce, Unstarted, brk, cli
<1>5. CASE ReleaseOuter
  <2>1. drv \in {"waiting", "failing"} /\ Send("release")
    BY <1>5 DEF ReleaseOuter
  <2>2. \A i \in 1..Len(requests') : requests'[i].op # "register"
    BY <1>a, <1>b, <2>1 DEF LaunchOnce
  <2> QED BY <1>5, <2>1, <2>2 DEF ReleaseOuter, LaunchOnce, Unstarted, brk, cli
<1>6. CASE Released
  <2>1. \A i \in 1..Len(requests) : requests[i].op # "register"
    BY <1>6 DEF Released, LaunchOnce
  <2> QED BY <1>6, <1>a, <2>1 DEF Released, LaunchOnce, Unstarted, brk
<1>7. CASE CloseAll
  BY <1>7, EmptySeq DEF CloseAll, LaunchOnce, Unstarted, TypeInv, Typed
<1> QED BY <1>1, <1>2, <1>3, <1>4, <1>5, <1>6, <1>7 DEF DriverStep

\* The steps of the broker's control loop.
LEMMA LaunchBroker == TypeInv /\ LaunchOnce /\ BrokerStep => LaunchOnce'
<1> SUFFICES ASSUME TypeInv, LaunchOnce, BrokerStep PROVE LaunchOnce'
  OBVIOUS
<1>1. /\ UNCHANGED <<handler, drv, outer, client>>
      /\ \/ UNCHANGED requests
         \/ requests # <<>> /\ requests' = Tail(requests)
  BY DEF BrokerStep, BrokerRegister, BrokerActivate, BrokerRelease, Release,
       BrokerRevokeNext,
     Answer, Asked, cli, TypeInv, Queues
<1>2. \A i \in 1..Len(requests') : \E j \in 1..Len(requests) : requests'[i] = requests[j]
  <2>1. requests \in Seq(Requests) /\ Len(requests) \in Nat
    BY LenProperties DEF TypeInv, Queues
  <2>2. CASE requests # <<>> /\ requests' = Tail(requests)
    <3>1. Len(requests') = Len(requests) - 1
          /\ \A i \in 1..Len(requests') : requests'[i] = requests[i + 1]
      BY <2>1, <2>2, HeadTailProperties
    <3> QED BY <2>1, <3>1
  <2> QED BY <1>1, <2>2
<1>3. \A k \in Keys : scope'[k] = "free" => scope[k] = "free" \/ handler[k] = "idle"
  <2>1. CASE BrokerRegister
    <3>1. requests # <<>> /\ Head(requests).op = "register"
      BY <2>1 DEF BrokerRegister, Asked
    <3>2. Len(requests) \in Nat \ {0} /\ Head(requests) = requests[1]
      BY <3>1, EmptySeq DEF TypeInv, Queues
    <3>3. Head(requests).outer = outer /\ Unstarted
      BY <3>1, <3>2 DEF LaunchOnce
    <3> QED BY <2>1, <3>3 DEF BrokerRegister, Unstarted
  <2>2. CASE ~BrokerRegister
    BY <2>2 DEF BrokerStep, BrokerActivate, BrokerRelease, Release, BrokerRevokeNext
  <2> QED BY <2>1, <2>2
<1> QED BY <1>1, <1>2, <1>3 DEF LaunchOnce, Unstarted

LEMMA LaunchStep == TokenInv /\ TypeInv /\ LaunchOnce /\ Next => LaunchOnce'
<1> SUFFICES ASSUME TokenInv, TypeInv, LaunchOnce, Next PROVE LaunchOnce'
  OBVIOUS
<1> DEFINE Elsewhere == /\ UNCHANGED <<scope, pipe>> /\ (UNCHANGED client \/ client \notin Gone)
                        /\ \A k \in Keys : handler[k] = "idle" => handler'[k] = "idle"
<1>1. ASSUME NEW k \in Keys, HandlerStep(k) \/ RelayWrite(k) PROVE Elsewhere
  <2>1. UNCHANGED <<brk, pipe>> /\ (UNCHANGED client \/ client \notin Gone)
    BY <1>1 DEF HandlerStep, RelayWrite, RelayBlocks, RelayWrote, GrantOutput, GrantTraverse,
         Spawn, LaunchFails, RelayEnds, Reap, Reclaim, Connected, cli, Gone
  <2>2. handler[k] # "idle" /\ \E h : handler' = [handler EXCEPT ![k] = h]
    BY <1>1 DEF HandlerStep, RelayWrite, RelayBlocks, RelayWrote, GrantOutput, GrantTraverse,
         Spawn, LaunchFails, RelayEnds, Reap, Reclaim
  <2> QED BY <2>1, <2>2 DEF brk, TypeInv, Typed
<1>2. ASSUME WorkerStep \/ WorkerDies PROVE Elsewhere
  BY <1>2 DEF WorkerStep, WorkerDies, WorkerBoots, WorkerTakes, WorkerSends,
       WorkerResumes, brk, cli
<1>3. ASSUME Connect PROVE LaunchOnce'
  <2> DEFINE k == <<outer, target>>
  <2>1. UNCHANGED pipe /\ client = "connect" /\ client' \notin {"none", "exited"}
    BY <1>3 DEF Connect, StartFailed
  <2>2. \/ UNCHANGED <<scope, handler>>
        \/ /\ scope' = [scope EXCEPT ![k] = "consumed"]
           /\ handler' = [handler EXCEPT ![k] = "grant_output"]
    BY <1>3 DEF Connect, Reserve
  <2>3. outer \in Nat /\ k \in Keys
    BY <2>1 DEF TypeInv, Typed, SeatOpen, Keys, Outers
  <2>4. UNCHANGED <<drv, outer, requests>>
    BY <2>1 DEF pipe
  <2>5. /\ drv \notin {"register", "registering", "ended"}
        /\ \A i \in 1..Len(requests) : requests[i].op # "register"
    BY <2>1 DEF LaunchOnce
  <2>6. /\ \A j \in Keys : j[1] > outer => handler[j] = "idle"
        /\ \A j \in Keys : scope[j] = "free" => handler[j] = "idle"
    BY DEF LaunchOnce
  <2>7. /\ \A j \in Keys : j[1] > outer => handler'[j] = "idle"
        /\ \A j \in Keys : scope'[j] = "free" => handler'[j] = "idle"
    <3>1. CASE UNCHANGED <<scope, handler>>
      BY <2>6, <3>1
    <3>2. CASE /\ scope' = [scope EXCEPT ![k] = "consumed"]
               /\ handler' = [handler EXCEPT ![k] = "grant_output"]
      <4>1. ~(k[1] > outer) /\ scope'[k] = "consumed"
        BY <2>3, <3>2 DEF TypeInv, Typed
      <4>2. \A j \in Keys : j # k => scope'[j] = scope[j] /\ handler'[j] = handler[j]
        BY <3>2 DEF TypeInv, Typed
      <4> QED BY <2>6, <4>1, <4>2
    <3> QED BY <2>2, <3>1, <3>2
  <2> QED BY <2>4, <2>5, <2>7 DEF LaunchOnce
<1>4. ASSUME (ClientStep /\ ~Connect) \/ OuterCrashes PROVE Elsewhere
  BY <1>4 DEF ClientStep, ReadInit, Invoke, SendCall, ReadAside, CallFails, CallSucceeds,
     OuterExits, OuterCrashes, brk, cli, Gone
<1>5. ASSUME Ended PROVE Elsewhere
  BY <1>5 DEF Ended, world, brk, pipe, cli
<1> HIDE DEF Elsewhere
<1>6. Elsewhere => LaunchOnce'
  BY LaunchKept DEF Elsewhere
<1> QED BY <1>1, <1>2, <1>3, <1>4, <1>5, <1>6, LaunchDriver, LaunchBroker DEF Next
-----------------------------------------------------------------------------
(***************************************************************************)
(* The reference counts are the numbers of handlers that hold an entry, as *)
(* long as the broker's handlers run, and a running sandbox has a handler  *)
(* that holds both.                                                        *)
(***************************************************************************)
Hold(d) == {"spawn", "relay", "write", "reap", "drop_traverse"}
           \cup (IF d = "output" THEN {"grant_traverse", "drop_output"} ELSE {})
Holders(d) == {k \in Keys : handler[k] \in Hold(d)}

Counted ==
    /\ \A k \in Keys : Running(k) => handler[k] \in {"relay", "write", "reap"}
    /\ \A d \in Dirs : refs[d] = Cardinality(Holders(d)) /\ (refs[d] > 0 => acl[d])
Stopped == \A k \in Keys : handler[k] \in {"idle", "done"} /\ ~Running(k)

Access ==
    /\ refs \in [Dirs -> Nat] /\ acl \in [Dirs -> BOOLEAN]
    /\ IF drv = "ended" THEN Stopped ELSE Counted

LEMMA HoldersFinite ==
    ASSUME NEW d
    PROVE  IsFiniteSet(Holders(d)) /\ Cardinality(Holders(d)) \in Nat
<1>1. IsFiniteSet(Outers) /\ IsFiniteSet(Seats)
  <2>1. IsFiniteSet(Outers)
    BY FS_Interval, SeatAssumption DEF Outers
  <2>2. Seats = ({} \cup {"work"}) \cup {"self_improve"}
    BY DEF Seats
  <2> QED BY <2>1, <2>2, FS_EmptySet, FS_AddElement
<1>2. IsFiniteSet(Keys)
  BY <1>1, FS_Product DEF Keys
<1>3. Holders(d) \in SUBSET Keys
  BY DEF Holders
<1>4. IsFiniteSet(Holders(d))
  BY <1>2, <1>3, FS_Subset
<1> QED BY <1>4, FS_CardinalityType

\* A handler that goes on joins or leaves the holders of an entry.
LEMMA HolderMoves ==
    ASSUME TypeInv, NEW k \in Keys, NEW h, handler' = [handler EXCEPT ![k] = h], NEW d
    PROVE  Cardinality(Holders(d)') =
             Cardinality(Holders(d)) + (IF h \in Hold(d) THEN 1 ELSE 0)
                                     - (IF handler[k] \in Hold(d) THEN 1 ELSE 0)
<1> DEFINE rest == Holders(d) \ {k}
<1>1. IsFiniteSet(Holders(d)) /\ Cardinality(Holders(d)) \in Nat
  BY HoldersFinite
<1>2. IsFiniteSet(rest)
      /\ Cardinality(rest) = IF k \in Holders(d) THEN Cardinality(Holders(d)) - 1
                                                 ELSE Cardinality(Holders(d))
  BY <1>1, FS_RemoveElement
<1>3. Holders(d)' = IF h \in Hold(d) THEN rest \cup {k} ELSE rest
  BY DEF Holders, TypeInv, Typed, Hold
<1>4. Cardinality(rest \cup {k}) = Cardinality(rest) + 1
  BY <1>2, FS_AddElement
<1>5. k \in Holders(d) <=> handler[k] \in Hold(d)
  BY DEF Holders
<1> QED BY <1>1, <1>2, <1>3, <1>4, <1>5

LEMMA AccessInit == Init => Access
<1> SUFFICES ASSUME Init PROVE Access
  OBVIOUS
<1>1. \A d \in Dirs : Holders(d) = {}
  BY DEF Init, Holders, Hold
<1>2. \A d \in Dirs : Cardinality(Holders(d)) = 0
  BY <1>1, FS_EmptySet
<1> QED BY <1>2 DEF Init, Access, Counted, Running

\* Steps that leave the handlers and the entries alone and start no sandbox.
LEMMA AccessKept ==
    ASSUME Access, UNCHANGED <<handler, acls>>, drv' = "ended" <=> drv = "ended",
           \A k \in Keys : Running(k)' => Running(k)
    PROVE  Access'
<1>1. \A d : Holders(d)' = Holders(d)
  BY DEF Holders, Hold
<1> QED BY <1>1 DEF Access, Counted, Stopped, acls

\* A handler goes on to step h: it takes what it comes to hold and drops what it
\* held.
Moves(k, h) ==
    /\ handler' = [handler EXCEPT ![k] = h]
    /\ refs' \in [Dirs -> Nat] /\ acl' \in [Dirs -> BOOLEAN]
    /\ \A d \in Dirs :
         /\ refs'[d] = refs[d] + (IF h \in Hold(d) THEN 1 ELSE 0)
                               - (IF handler[k] \in Hold(d) THEN 1 ELSE 0)
         /\ refs'[d] > 0 => acl'[d]
    /\ \A j \in Keys \ {k} : Running(j)' => Running(j)
    /\ Running(k)' => h \in {"relay", "write", "reap"}

LEMMA AccessMoves ==
    ASSUME TypeInv, Access, drv # "ended", drv' = drv, NEW k \in Keys, NEW h, Moves(k, h)
    PROVE  Access'
<1>1. ASSUME NEW d \in Dirs PROVE refs'[d] = Cardinality(Holders(d)')
  <2>1. refs[d] = Cardinality(Holders(d))
    BY DEF Access, Counted
  <2>2. Cardinality(Holders(d)') =
          Cardinality(Holders(d)) + (IF h \in Hold(d) THEN 1 ELSE 0)
                                  - (IF handler[k] \in Hold(d) THEN 1 ELSE 0)
    BY HolderMoves DEF Moves
  <2> QED BY <2>1, <2>2 DEF Moves
<1>2. \A j \in Keys : Running(j)' => handler'[j] \in {"relay", "write", "reap"}
  BY DEF Access, Counted, TypeInv, Typed, Moves
<1> QED BY <1>1, <1>2 DEF Access, Counted, Moves

\* A handler that goes on and keeps what it holds.
LEMMA AccessSame ==
    ASSUME TypeInv, Access, drv # "ended", drv' = drv, UNCHANGED acls,
           NEW k \in Keys, NEW h, handler' = [handler EXCEPT ![k] = h],
           \A d \in Dirs : handler[k] \in Hold(d) <=> h \in Hold(d),
           \A j \in Keys \ {k} : Running(j)' => Running(j),
           Running(k)' => h \in {"relay", "write", "reap"}
    PROVE  Access'
<1>1. refs' = refs /\ acl' = acl /\ refs \in [Dirs -> Nat] /\ acl \in [Dirs -> BOOLEAN]
  BY DEF acls, Access
<1>2. \A d \in Dirs : /\ refs'[d] = refs[d] + (IF h \in Hold(d) THEN 1 ELSE 0)
                                            - (IF handler[k] \in Hold(d) THEN 1 ELSE 0)
                      /\ refs'[d] > 0 => acl'[d]
  BY <1>1 DEF Access, Counted
<1>3. Moves(k, h)
  BY <1>1, <1>2 DEF Moves
<1> QED BY <1>3, AccessMoves

\* Taking a reference.
LEMMA AccessTakes ==
    ASSUME TypeInv, Access, drv # "ended", drv' = drv, NEW e \in Dirs, Acquire(e),
           NEW k \in Keys, NEW h, handler' = [handler EXCEPT ![k] = h],
           handler[k] \notin Hold(e), h \in Hold(e),
           \A d \in Dirs \ {e} : handler[k] \in Hold(d) <=> h \in Hold(d),
           \A j \in Keys : Running(j)' => Running(j), ~Running(k)'
    PROVE  Access'
<1>1. /\ refs \in [Dirs -> Nat] /\ acl \in [Dirs -> BOOLEAN]
      /\ \A d \in Dirs : refs[d] > 0 => acl[d]
  BY DEF Access, Counted
<1>2. refs' = [refs EXCEPT ![e] = @ + 1] /\ acl' = [acl EXCEPT ![e] = TRUE]
  BY DEF Acquire
<1>3. refs' \in [Dirs -> Nat] /\ acl' \in [Dirs -> BOOLEAN]
  BY <1>1, <1>2
<1>4. \A d \in Dirs : /\ refs'[d] = refs[d] + (IF h \in Hold(d) THEN 1 ELSE 0)
                                            - (IF handler[k] \in Hold(d) THEN 1 ELSE 0)
                      /\ refs'[d] > 0 => acl'[d]
  BY <1>1, <1>2
<1>5. Moves(k, h)
  BY <1>3, <1>4 DEF Moves
<1> QED BY <1>5, AccessMoves

\* Dropping references: an entry that stays in use stays.
LEMMA AccessDrops ==
    ASSUME TypeInv, Access, drv # "ended", drv' = drv, NEW D \in SUBSET Dirs, Drop(D),
           NEW k \in Keys, NEW h, handler' = [handler EXCEPT ![k] = h],
           \A d \in D : handler[k] \in Hold(d) /\ h \notin Hold(d),
           \A d \in Dirs \ D : handler[k] \in Hold(d) <=> h \in Hold(d),
           \A j \in Keys : Running(j)' => Running(j), ~Running(k)'
    PROVE  Access'
<1>1. /\ refs \in [Dirs -> Nat] /\ acl \in [Dirs -> BOOLEAN]
      /\ \A d \in Dirs : refs[d] > 0 => acl[d]
  BY DEF Access, Counted
<1>2. PICK kept : acl' = [d \in Dirs |-> acl[d] /\ d \notin ({d0 \in D : refs[d0] = 1} \ kept)]
  BY DEF Drop
<1>3. refs' = [d \in Dirs |-> IF d \in D THEN refs[d] - 1 ELSE refs[d]]
  BY DEF Drop
<1>4. \A d \in D : refs[d] > 0
  <2> SUFFICES ASSUME NEW d \in D PROVE refs[d] > 0
    OBVIOUS
  <2>1. k \in Holders(d)
    BY DEF Holders
  <2>2. Cardinality(Holders(d)) # 0
    BY <2>1, HoldersFinite, FS_EmptySet
  <2> QED BY <2>2, HoldersFinite DEF Access, Counted
<1>5. refs' \in [Dirs -> Nat] /\ acl' \in [Dirs -> BOOLEAN]
  <2>1. acl' \in [Dirs -> BOOLEAN]
    BY <1>1, <1>2
  <2> QED BY <1>1, <1>3, <1>4, <2>1
<1>6. \A d \in Dirs : refs'[d] > 0 => acl'[d]
  <2> SUFFICES ASSUME NEW d \in Dirs, refs'[d] > 0 PROVE acl'[d]
    OBVIOUS
  <2>1. acl[d] /\ ~(d \in D /\ refs[d] = 1)
    BY <1>1, <1>3
  <2> QED BY <1>2, <2>1
<1>7. \A d \in Dirs : refs'[d] = refs[d] + (IF h \in Hold(d) THEN 1 ELSE 0)
                                         - (IF handler[k] \in Hold(d) THEN 1 ELSE 0)
  BY <1>1, <1>3
<1>8. Moves(k, h)
  BY <1>5, <1>6, <1>7 DEF Moves
<1> QED BY <1>8, AccessMoves

LEMMA AccessStep == TypeInv /\ LaunchOnce /\ Access /\ Next => Access'
<1> SUFFICES ASSUME TypeInv, LaunchOnce, Access, Next PROVE Access'
  OBVIOUS
<1> DEFINE Kept == /\ UNCHANGED <<handler, acls>> /\ (drv' = "ended" <=> drv = "ended")
                   /\ \A k \in Keys : Running(k)' => Running(k)
<1>a. /\ refs \in [Dirs -> Nat] /\ acl \in [Dirs -> BOOLEAN]
      /\ \A k \in Keys : handler[k] \notin {"idle", "done"} => drv # "ended"
      /\ drv # "ended" => \A d \in Dirs : refs[d] > 0 => acl[d]
      /\ drv # "ended" => \A k \in Keys : Running(k) => handler[k] \in {"relay", "write", "reap"}
  BY DEF Access, Stopped, Counted
<1>b. "output" \in Dirs /\ "traverse" \in Dirs /\ \A d \in Dirs : d \in {"output", "traverse"}
  BY DEF Dirs
<1>c. handler \in [Keys -> {"idle", "grant_output", "grant_traverse", "spawn", "relay", "write", "reap",
                            "drop_traverse", "drop_output", "drop_token", "done"}]
  BY DEF TypeInv, Typed
<1>1. ASSUME (DriverStep /\ ~CloseAll) \/ ControlTimeout \/ BrokerStep PROVE Kept
  BY <1>1 DEF DriverStep, RegisterOuter, StartOuterWorker, Activated, ReleaseOuter,
       Released,
     ControlTimeout, BrokerStep, BrokerRegister, BrokerActivate, BrokerRelease, Release,
     BrokerRevokeNext, Running
<1>2. ASSUME CloseAll PROVE Access'
  <2>1. \A k \in Keys : proc'[k] \in {"none", "dead"} /\ handler'[k] \in {"idle", "done"}
    BY <1>2 DEF CloseAll
  <2> QED BY <1>2, <1>a, <2>1 DEF CloseAll, Access, Stopped, Running, acls
<1>3. ASSUME WorkerStep \/ WorkerDies PROVE Kept
  <2>1. /\ seat # None /\ client \notin Gone /\ proc[<<outer, seat>>] \notin {"none", "dead"}
        /\ UNCHANGED proc \/ \E q : Goto(q)
        /\ UNCHANGED <<handler, acls, pipe>>
    BY <1>3 DEF WorkerStep, WorkerDies, WorkerBoots, WorkerTakes, WorkerSends,
         WorkerResumes, At
  <2> QED BY <2>1 DEF Goto, Running, TypeInv, Typed, pipe
<1>4. ASSUME (ClientStep /\ ~Connect) \/ OuterCrashes \/ Ended PROVE Kept
  BY <1>4 DEF ClientStep, ReadInit, Invoke, SendCall, ReadAside, CallFails, CallSucceeds,
     OuterExits, OuterCrashes, Ended, world, pipe, Running
<1>5. ASSUME Connect PROVE Access'
  <2>1. UNCHANGED <<pipe, proc, acls>> /\ client = "connect"
    BY <1>5 DEF Connect
  <2>k. PICK k \in Keys : k = <<outer, target>>
    BY <2>1 DEF TypeInv, Typed, SeatOpen, Keys
  <2>2. CASE UNCHANGED handler
    <3>1. Kept
      BY <2>1, <2>2 DEF pipe, Running
    <3> QED BY <3>1, AccessKept
  <2>3. CASE scope[k] = "free" /\ handler' = [handler EXCEPT ![k] = "grant_output"]
    <3>1. handler[k] = "idle" /\ drv # "ended"
      BY <2>1, <2>3 DEF LaunchOnce
    <3>2. /\ drv' = drv /\ UNCHANGED proc
          /\ \A d \in Dirs : handler[k] \in Hold(d) <=> "grant_output" \in Hold(d)
      BY <2>1, <3>1 DEF pipe, Hold
    <3>3. ~Running(k)' /\ \A j \in Keys : Running(j)' => Running(j)
      BY <1>a, <3>1, <3>2 DEF Running
    <3> QED BY <2>1, <2>3, <3>1, <3>2, <3>3, AccessSame
  <2> QED BY <1>5, <2>k, <2>2, <2>3 DEF Connect, Reserve
<1>6. ASSUME NEW k \in Keys, HandlerStep(k) \/ RelayWrite(k) PROVE Access'
  <2>1. drv # "ended" /\ drv' = drv
    BY <1>6, <1>a DEF HandlerStep, RelayWrite, RelayBlocks, RelayWrote, GrantOutput,
         GrantTraverse, Spawn, LaunchFails, RelayEnds, Reap, Reclaim, pipe
  <2>2. CASE GrantOutput(k) \/ GrantTraverse(k)
    <3>1. PICK e \in Dirs, h \in {"grant_traverse", "spawn"} :
            /\ handler[k] = (IF e = "output" THEN "grant_output" ELSE "grant_traverse")
            /\ h = (IF e = "output" THEN "grant_traverse" ELSE "spawn")
            /\ handler' = [handler EXCEPT ![k] = h] /\ Acquire(e) /\ UNCHANGED proc
      BY <2>2, <1>b DEF GrantOutput, GrantTraverse, GrantTrees
    <3>2. /\ handler[k] \notin Hold(e) /\ h \in Hold(e)
          /\ \A d \in Dirs \ {e} : handler[k] \in Hold(d) <=> h \in Hold(d)
      BY <3>1, <1>b DEF Hold
    <3>3. ~Running(k)' /\ \A j \in Keys : Running(j)' => Running(j)
      BY <1>a, <2>1, <3>1 DEF Running
    <3> QED BY <2>1, <3>1, <3>2, <3>3, AccessTakes
  <2>4. CASE Spawn(k) \/ RelayEnds(k) \/ RelayWrite(k)
    <3>1. PICK h \in {"relay", "write", "reap"} : handler' = [handler EXCEPT ![k] = h]
      BY <2>4 DEF Spawn, RelayEnds, RelayWrite, RelayBlocks, RelayWrote
    <3>2. /\ UNCHANGED acls /\ handler[k] \in {"spawn", "relay", "write"}
          /\ UNCHANGED proc \/ proc' = [proc EXCEPT ![k] = "boot"]
      BY <2>4 DEF Spawn, RelayEnds, RelayWrite, RelayBlocks, RelayWrote
    <3>3. \A d \in Dirs : handler[k] \in Hold(d) <=> h \in Hold(d)
      BY <3>1, <3>2 DEF Hold
    <3>4. \A j \in Keys \ {k} : Running(j)' => Running(j)
      BY <3>2 DEF Running, TypeInv, Typed
    <3> QED BY <2>1, <3>1, <3>2, <3>3, <3>4, AccessSame
  <2>5. CASE LaunchFails(k)
    <3> DEFINE D == {d \in Dirs : \/ handler[k] = "spawn"
                                  \/ handler[k] = "grant_traverse" /\ d = "output"}
    <3>1. /\ handler[k] \in {"grant_output", "grant_traverse", "spawn"}
          /\ handler' = [handler EXCEPT ![k] = "done"] /\ Drop(D) /\ UNCHANGED proc
      BY <2>5 DEF LaunchFails
    <3>2. /\ D \in SUBSET Dirs /\ \A d \in D : handler[k] \in Hold(d) /\ "done" \notin Hold(d)
          /\ \A d \in Dirs \ D : handler[k] \in Hold(d) <=> "done" \in Hold(d)
      BY <3>1, <1>b DEF Hold
    <3>3. ~Running(k)' /\ \A j \in Keys : Running(j)' => Running(j)
      BY <1>a, <2>1, <3>1 DEF Running
    <3> HIDE DEF D
    <3> QED BY <2>1, <3>1, <3>2, <3>3, AccessDrops
  <2>6. CASE Reap(k)
    <3>1. /\ handler[k] = "reap" /\ handler' = [handler EXCEPT ![k] = "drop_traverse"]
          /\ proc' = [proc EXCEPT ![k] = "dead"] /\ UNCHANGED acls
      BY <2>6 DEF Reap
    <3>2. \A d \in Dirs : handler[k] \in Hold(d) <=> "drop_traverse" \in Hold(d)
      BY <3>1 DEF Hold
    <3>3. ~Running(k)' /\ \A j \in Keys \ {k} : Running(j)' => Running(j)
      BY <3>1 DEF Running, TypeInv, Typed
    <3> QED BY <2>1, <3>1, <3>2, <3>3, AccessSame
  <2>7. CASE Reclaim(k)
    <3>0. UNCHANGED proc /\ handler[k] \in {"drop_traverse", "drop_output", "drop_token"}
      BY <2>7 DEF Reclaim
    <3>1. ~Running(k)' /\ \A j \in Keys : Running(j)' => Running(j)
      BY <1>a, <2>1, <3>0 DEF Running
    <3>2. CASE handler[k] = "drop_token"
      <4>1. handler' = [handler EXCEPT ![k] = "done"] /\ UNCHANGED acls
        BY <2>7, <3>2 DEF Reclaim
      <4>2. \A d \in Dirs : handler[k] \in Hold(d) <=> "done" \in Hold(d)
        BY <3>2 DEF Hold
      <4> QED BY <2>1, <3>1, <4>1, <4>2, AccessSame
    <3>3. CASE handler[k] # "drop_token"
      <4>1. PICK e \in Dirs, h \in {"drop_output", "drop_token"} :
              /\ handler[k] = (IF e = "output" THEN "drop_output" ELSE "drop_traverse")
              /\ h = (IF e = "output" THEN "drop_token" ELSE "drop_output")
              /\ handler' = [handler EXCEPT ![k] = h] /\ Drop({e})
        BY <2>7, <3>3, <1>b DEF Reclaim, ReclaimTrees
      <4>2. /\ {e} \in SUBSET Dirs /\ \A d \in {e} : handler[k] \in Hold(d) /\ h \notin Hold(d)
            /\ \A d \in Dirs \ {e} : handler[k] \in Hold(d) <=> h \in Hold(d)
        BY <4>1, <1>b DEF Hold
      <4> QED BY <2>1, <3>1, <4>1, <4>2, AccessDrops
    <3> QED BY <3>2, <3>3
  <2> QED BY <1>6, <2>2, <2>4, <2>5, <2>6, <2>7 DEF HandlerStep
<1> HIDE DEF Kept
<1>7. Kept => Access'
  BY AccessKept DEF Kept
<1> QED BY <1>1, <1>2, <1>3, <1>4, <1>5, <1>6, <1>7 DEF Next

-----------------------------------------------------------------------------
(***************************************************************************)
(* Parent and worker take turns.  What waits in the channel is known from  *)
(* the steps of both: before the last message of a call only events wait,  *)
(* and a worker that is not dead owes the parent one answer or has sent it.*)
(***************************************************************************)
Asides == \A i \in 1..Len(toParent) :
            toParent[i].id = callId /\ (i < Len(toParent) => toParent[i].type = "event")
EndsWith(T) == toParent # <<>> /\ toParent[Len(toParent)].type \in T
Finals == {"result", "bad_result", "error"}

Booting(p) ==
    \/ p = "boot" /\ toParent = <<>> /\ toChild = <<>>
    \/ p = "ready" /\ toChild = <<>> /\ \E m : m.type = "ready" /\ toParent = <<m>>
    \/ p = "dead" /\ (toParent = <<>> \/ \E m : toParent = <<m>>)
Resting(p) ==
    toParent = <<>> /\ (p = "dead" \/ (p = "ready" /\ toChild = <<>>))
InCall(p) ==
    /\ Asides
    /\ \/ p = "dead"
       \/ p = "ready" /\ toParent = <<>> /\ toChild = <<[type |-> "call", id |-> callId]>>
       \/ p = "ready" /\ toChild = <<>> /\ EndsWith(Finals)
       \/ /\ p = "serving" /\ childCall = callId /\ toChild = <<>>
          /\ toParent = <<>> \/ EndsWith({"event"})
       \/ p = "asking" /\ childCall = callId /\ toChild = <<>> /\ EndsWith({"broker_call"})
       \/ /\ p = "asking" /\ childCall = callId /\ toParent = <<>>
          /\ toChild = <<[type |-> "broker_result", id |-> callId]>>

Turns(p) ==
    /\ client = "init" => Booting(p)
    /\ client \in {"idle", "send"} => Resting(p)
    /\ client = "calling" => InCall(p)
Sync == seat # None => Turns(proc[<<outer, seat>>])

\* The worker sends a message during a call.
LEMMA AsidesAppend ==
    ASSUME TypeInv, Asides, toParent = <<>> \/ EndsWith({"event"}), callId' = callId,
           NEW type \in {"event", "broker_call", "result", "bad_result", "error"},
           childCall = callId, Tell(type)
    PROVE  Asides' /\ \A T : type \in T => EndsWith(T)'
<1> DEFINE m == [type |-> type, id |-> childCall]
<1>1. toParent \in Seq(Replies) /\ m \in Replies
  BY MessageTypes DEF TypeInv, Queues
<1>2. /\ toParent' = Append(toParent, m) /\ toParent' # <<>>
      /\ Len(toParent') = Len(toParent) + 1 /\ Len(toParent) \in Nat
      /\ \A i \in 1..Len(toParent) : toParent'[i] = toParent[i]
      /\ toParent'[Len(toParent) + 1] = m
  BY <1>1, AppendProperties, LenProperties DEF Tell
<1>3. toParent = <<>> => Len(toParent) = 0
  OBVIOUS
<1>4. \A i \in 1..Len(toParent) : toParent[i].type = "event" /\ toParent[i].id = callId
  BY <1>2, <1>3 DEF Asides, EndsWith
<1> QED BY <1>2, <1>4 DEF Asides, EndsWith

\* The parent reads the first message.
LEMMA AsidesTail ==
    ASSUME TypeInv, Asides, toParent # <<>>, callId' = callId, toParent' = Tail(toParent)
    PROVE  /\ Asides' /\ Head(toParent).id = callId
           /\ Head(toParent).type = "event" =>
                /\ \A T : EndsWith(T) /\ "event" \notin T => EndsWith(T)'
                /\ EndsWith({"event"}) => toParent' = <<>> \/ EndsWith({"event"})'
           /\ Head(toParent).type # "event" =>
                /\ toParent' = <<>>
                /\ \A T : EndsWith(T) => Head(toParent).type \in T
<1>1. toParent \in Seq(Replies) /\ Len(toParent) \in Nat \ {0} /\ Head(toParent) = toParent[1]
  BY EmptySeq DEF TypeInv, Queues
<1>2. /\ toParent' \in Seq(Replies) /\ Len(toParent') = Len(toParent) - 1
      /\ \A i \in 1..Len(toParent') : toParent'[i] = toParent[i + 1]
  BY <1>1, HeadTailProperties
<1>3. toParent' = <<>> <=> Len(toParent) = 1
  <2>1. toParent' = <<>> => Len(toParent') = 0
    OBVIOUS
  <2>2. toParent' # <<>> => Len(toParent') \in Nat \ {0}
    BY <1>2, EmptySeq
  <2> QED BY <1>1, <1>2, <2>1, <2>2
<1>4. Asides' /\ Head(toParent).id = callId
  BY <1>1, <1>2 DEF Asides
<1>5. Head(toParent).type # "event" => Len(toParent) = 1
  <2>1. 1 \in 1..Len(toParent)
    BY <1>1
  <2>2. 1 < Len(toParent) => toParent[1].type = "event"
    BY <2>1 DEF Asides
  <2>3. Head(toParent).type = toParent[1].type /\ Len(toParent) \in Nat \ {0}
    BY <1>1
  <2>4. \A n \in Nat \ {0} : ~(1 < n) => n = 1
    OBVIOUS
  <2> QED BY <2>2, <2>3, <2>4, Zenon
<1>6. Len(toParent) # 1 => toParent'[Len(toParent')] = toParent[Len(toParent)]
  BY <1>1, <1>2
<1> QED BY <1>1, <1>3, <1>4, <1>5, <1>6 DEF EndsWith

\* Steps elsewhere, and steps that close the channel.
LEMMA SyncKept ==
    ASSUME Sync, UNCHANGED <<client, seat, outer, callId, chan>>,
           seat # None => UNCHANGED proc[<<outer, seat>>]
    PROVE  Sync'
BY DEF Sync, Turns, Booting, Resting, InCall, Asides, EndsWith, chan

\* A worker may die at any point.
LEMMA SyncDies ==
    ASSUME TypeInv, Sync, UNCHANGED <<client, seat, outer, callId, chan>>,
           seat # None => proc'[<<outer, seat>>] = "dead"
    PROVE  Sync'
BY DEF Sync, Turns, Booting, Resting, InCall, Asides, EndsWith, chan

LEMMA SyncInit == Init => Sync
BY DEF Init, Sync

LEMMA SyncWorker == TypeInv /\ Sync /\ (WorkerStep \/ WorkerDies) => Sync'
<1> SUFFICES ASSUME TypeInv, Sync, WorkerStep \/ WorkerDies PROVE Sync'
  OBVIOUS
<1> DEFINE p == proc[<<outer, seat>>]
<1>1. /\ seat # None /\ client \notin Gone /\ p # "none" /\ <<outer, seat>> \in Keys
      /\ UNCHANGED <<client, seat, outer, callId>>
  BY DEF WorkerStep, WorkerDies, WorkerBoots, WorkerTakes, WorkerSends, WorkerResumes,
       At, cli,
     pipe, TypeInv, Typed, SeatOpen, Keys
<1>2. client \in {"init", "idle", "send", "calling"} /\ Turns(p)
  BY <1>1 DEF Sync, TypeInv, SeatOpen, Typed
<1>3. ASSUME NEW q, Goto(q) PROVE proc'[<<outer', seat'>>] = q
  BY <1>1, <1>3 DEF Goto, TypeInv, Typed
<1>4. CASE WorkerDies
  <2>1. UNCHANGED chan /\ proc'[<<outer, seat>>] = "dead"
    BY <1>1, <1>3, <1>4 DEF WorkerDies
  <2> QED BY <1>1, <2>1, SyncDies
<1>5. CASE WorkerBoots
  <2>1. p = "boot" /\ UNCHANGED toChild
    BY <1>5 DEF WorkerBoots, At
  <2>2. client = "init" /\ toParent = <<>> /\ toChild = <<>>
    BY <1>2, <2>1 DEF Turns, Booting, Resting, InCall
  <2>3. \/ toParent' = <<[type |-> "ready", id |-> childCall]>> /\ Goto("ready")
        \/ toParent' = <<[type |-> "error", id |-> childCall]>> /\ Goto("dead")
    BY <1>5, <2>2, OneMessage DEF WorkerBoots, Tell
  <2>4. Booting(proc[<<outer, seat>>])'
    BY <1>3, <2>1, <2>2, <2>3 DEF Booting
  <2> QED BY <1>1, <2>2, <2>4 DEF Sync, Turns
<1>6. CASE WorkerTakes
  <2>1. /\ p = "ready" /\ toChild # <<>> /\ childCall' = Head(toChild).id
        /\ toChild' = Tail(toChild) /\ Goto("serving") /\ UNCHANGED toParent
    BY <1>6 DEF WorkerTakes, At
  <2>2. /\ client = "calling" /\ Asides /\ toParent = <<>>
        /\ toChild = <<[type |-> "call", id |-> callId]>>
    BY <1>2, <2>1 DEF Turns, Booting, Resting, InCall
  <2>3. toChild' = <<>> /\ childCall' = callId
    BY <2>1, <2>2, OneMessage
  <2>4. InCall(proc[<<outer, seat>>])'
    BY <1>1, <1>3, <2>1, <2>2, <2>3 DEF InCall, Asides
  <2> QED BY <1>1, <2>2, <2>4 DEF Sync, Turns
<1>7. CASE WorkerSends
  <2>1. p = "serving" /\ UNCHANGED <<toChild, childCall>>
    BY <1>7 DEF WorkerSends, At
  <2>2. /\ client = "calling" /\ Asides /\ toChild = <<>> /\ childCall = callId
        /\ toParent = <<>> \/ EndsWith({"event"})
    BY <1>2, <2>1 DEF Turns, Booting, Resting, InCall
  <2>3. CASE Tell("event") /\ UNCHANGED proc
    <3>1. Asides' /\ EndsWith({"event"})'
      BY <1>1, <2>2, <2>3, AsidesAppend
    <3>2. InCall(proc[<<outer, seat>>])'
      BY <1>1, <2>1, <2>2, <2>3, <3>1 DEF InCall
    <3> QED BY <1>1, <2>2, <3>2 DEF Sync, Turns
  <2>4. CASE Tell("broker_call") /\ Goto("asking")
    <3>1. Asides' /\ EndsWith({"broker_call"})'
      BY <1>1, <2>2, <2>4, AsidesAppend
    <3>2. InCall(proc[<<outer, seat>>])'
      BY <1>1, <1>3, <2>1, <2>2, <2>4, <3>1 DEF InCall
    <3> QED BY <1>1, <2>2, <3>2 DEF Sync, Turns
  <2>5. CASE (\E type \in Finals : Tell(type)) /\ Goto("ready")
    <3>1. Asides' /\ EndsWith(Finals)'
      BY <1>1, <2>2, <2>5, AsidesAppend DEF Finals
    <3>2. InCall(proc[<<outer, seat>>])'
      BY <1>1, <1>3, <2>1, <2>2, <2>5, <3>1 DEF InCall
    <3> QED BY <1>1, <2>2, <3>2 DEF Sync, Turns
  <2> QED BY <1>7, <2>3, <2>4, <2>5 DEF WorkerSends, Finals
<1>8. CASE WorkerResumes
  <2>1. /\ p = "asking" /\ toChild # <<>> /\ toChild' = Tail(toChild)
        /\ Goto(IF Head(toChild) = [type |-> "broker_result", id |-> childCall]
                THEN "serving" ELSE "dead")
        /\ UNCHANGED <<toParent, childCall>>
    BY <1>8 DEF WorkerResumes, At
  <2>2. /\ client = "calling" /\ Asides /\ toParent = <<>> /\ childCall = callId
        /\ toChild = <<[type |-> "broker_result", id |-> callId]>>
    BY <1>2, <2>1 DEF Turns, Booting, Resting, InCall
  <2>3. toChild' = <<>> /\ Goto("serving")
    BY <2>1, <2>2, OneMessage
  <2>4. InCall(proc[<<outer, seat>>])'
    BY <1>1, <1>3, <2>1, <2>2, <2>3 DEF InCall, Asides
  <2> QED BY <1>1, <2>2, <2>4 DEF Sync, Turns
<1> QED BY <1>4, <1>5, <1>6, <1>7, <1>8 DEF WorkerStep

LEMMA SyncHandler ==
    ASSUME TypeInv, Sync, NEW k \in Keys, HandlerStep(k) \/ RelayWrite(k)
    PROVE  Sync'
<1>0. UNCHANGED <<pipe, callId>>
  BY DEF HandlerStep, RelayWrite, RelayBlocks, RelayWrote, GrantOutput, GrantTraverse, Spawn,
       LaunchFails, RelayEnds, Reap, Reclaim, cli
<1>1. CASE GrantOutput(k) \/ GrantTraverse(k) \/ RelayEnds(k) \/ RelayWrite(k) \/ Reclaim(k)
  BY <1>0, <1>1, SyncKept DEF GrantOutput, GrantTraverse, RelayEnds, RelayWrite, RelayBlocks,
     RelayWrote, Reclaim, cli, pipe
<1>2. CASE LaunchFails(k)
  <2>1. UNCHANGED <<proc, chan>> /\ (seat' = None \/ UNCHANGED <<client, seat>>)
    BY <1>2 DEF LaunchFails, StartFailed
  <2> QED BY <1>0, <2>1, SyncKept DEF Sync, pipe
<1>3. CASE Reap(k)
  <2>1. UNCHANGED <<cli, chan>> /\ proc' = [proc EXCEPT ![k] = "dead"]
    BY <1>3 DEF Reap
  <2>2. CASE seat # None /\ k = <<outer, seat>>
    <3>1. proc'[<<outer, seat>>] = "dead"
      BY <2>1, <2>2 DEF TypeInv, Typed
    <3> QED BY <1>0, <2>1, <3>1, SyncDies DEF cli, pipe
  <2>3. CASE ~(seat # None /\ k = <<outer, seat>>)
    <3>1. seat # None => UNCHANGED proc[<<outer, seat>>]
      BY <1>0, <2>1, <2>3 DEF TypeInv, Typed, cli, pipe
    <3> QED BY <1>0, <2>1, <3>1, SyncKept DEF cli, pipe
  <2> QED BY <2>2, <2>3
<1>4. CASE Spawn(k)
  <2>1. handler[k] = "spawn" /\ proc' = [proc EXCEPT ![k] = "boot"]
    BY <1>4 DEF Spawn
  <2>2. seat # None => k # <<outer, seat>>
    BY <2>1 DEF TypeInv, SeatOpen
  <2>3. CASE Connected(k)
    <3>1. client' = "init" /\ seat' = target /\ toParent' = <<>> /\ toChild' = <<>>
      BY <1>4, <2>3 DEF Spawn
    <3>2. k = <<outer, target>>
      BY <2>2, <2>3, SeatAssumption DEF Connected, Keys, Seats, TypeInv, SeatOpen
    <3>3. proc'[<<outer', seat'>>] = "boot"
      BY <1>0, <2>1, <3>1, <3>2 DEF TypeInv, Typed, pipe
    <3> QED BY <3>1, <3>3 DEF Sync, Turns, Booting
  <2>4. CASE ~Connected(k)
    <3>1. UNCHANGED <<client, seat, chan>>
      BY <1>4, <2>4 DEF Spawn
    <3>2. seat # None => UNCHANGED proc[<<outer, seat>>]
      BY <1>0, <2>1, <2>2, <3>1 DEF TypeInv, Typed, pipe
    <3> QED BY <1>0, <3>1, <3>2, SyncKept DEF pipe
  <2> QED BY <2>3, <2>4
<1> QED BY <1>1, <1>2, <1>3, <1>4 DEF HandlerStep

LEMMA SyncClient == TypeInv /\ Sync /\ (ClientStep \/ OuterCrashes) => Sync'
<1> SUFFICES ASSUME TypeInv, Sync, ClientStep \/ OuterCrashes PROVE Sync'
  OBVIOUS
<1> DEFINE p == proc[<<outer, seat>>]
<1>a. UNCHANGED <<proc, outer>>
  BY DEF ClientStep, Connect, ReadInit, Invoke, SendCall, ReadAside, CallFails,
       CallSucceeds,
     OuterExits, OuterCrashes, pipe
<1>b. client \in {"init", "send", "calling"} => seat # None
  BY SeatAssumption DEF TypeInv, SeatOpen, Seats
<1>1. CASE Connect \/ CallFails \/ OuterExits \/ OuterCrashes
  <2>1. seat' = None
    BY <1>1 DEF Connect, CallFails, OuterExits, OuterCrashes, StartFailed, TypeInv, SeatOpen
  <2> QED BY <2>1 DEF Sync
<1>2. ASSUME NEW s \in Seats, Invoke(s) PROVE Sync'
  BY <1>2, <1>a DEF Invoke, StartWorker, Sync, Turns, Resting, chan
<1>3. CASE ReadInit
  <2>1. CASE Front("ready")
    <3>1. /\ client' \in {"send", "idle"} /\ UNCHANGED <<seat, toChild>>
          /\ toParent' = Tail(toParent)
      BY <1>3, <2>1 DEF ReadInit, Eof, Front
    <3>2. Booting(p) /\ toParent # <<>>
      BY <1>3, <1>b, <2>1 DEF ReadInit, Front, Sync, Turns
    <3>3. \E m : toParent = <<m>>
      BY <3>2 DEF Booting
    <3>4. Resting(proc[<<outer, seat>>])'
      BY <1>a, <3>1, <3>2, <3>3, OneMessage DEF Booting, Resting
    <3> QED BY <3>1, <3>4 DEF Sync, Turns
  <2>2. CASE ~Front("ready")
    <3>1. /\ Front("error") \/ Eof
          /\ toParent' = <<>> /\ (seat' = None \/ (client' = "idle" /\ seat' = seat))
      BY <1>3, <2>2 DEF ReadInit, StartFailed
    <3>2. Booting(p)
      BY <1>3, <1>b DEF ReadInit, Sync, Turns
    <3>3. p = "dead"
      BY <3>1, <3>2, OneMessage DEF Booting, Front, Eof, At
    <3> QED BY <1>a, <3>1, <3>3 DEF Sync, Turns, Resting
  <2> QED BY <2>1, <2>2
<1>4. CASE SendCall
  <2>1. /\ client' = "calling" /\ callId' = callId + 1 /\ UNCHANGED <<seat, toParent>>
        /\ toChild' = Append(toChild, [type |-> "call", id |-> callId'])
        /\ Resting(p)
    BY <1>4, <1>b DEF SendCall, Sync, Turns
  <2>2. Asides'
    BY <2>1 DEF Resting, Asides
  <2>3. InCall(proc[<<outer, seat>>])'
    BY <1>a, <2>1, <2>2, OneMessage DEF Resting, InCall
  <2> QED BY <2>1, <2>3 DEF Sync, Turns
<1>5. CASE ReadAside
  <2>1. /\ client = "calling" /\ InCall(p) /\ toParent # <<>> /\ toParent' = Tail(toParent)
        /\ UNCHANGED <<client, seat, callId, childCall>>
    BY <1>5, <1>b DEF ReadAside, Front, Sync, Turns, cli
  <2>2. CASE Head(toParent).type = "event"
    <3>1. UNCHANGED toChild
      BY <1>5, <2>2 DEF ReadAside, Front
    <3>2. /\ Asides' /\ \A T : EndsWith(T) /\ "event" \notin T => EndsWith(T)'
          /\ EndsWith({"event"}) => toParent' = <<>> \/ EndsWith({"event"})'
      BY <2>1, <2>2, AsidesTail DEF InCall
    <3>3. /\ EndsWith(Finals) => EndsWith(Finals)'
          /\ EndsWith({"broker_call"}) => EndsWith({"broker_call"})'
      BY <3>2 DEF Finals
    <3>4. InCall(proc[<<outer, seat>>])'
      BY <1>a, <2>1, <3>1, <3>2, <3>3 DEF InCall
    <3> QED BY <2>1, <3>4 DEF Sync, Turns
  <2>3. CASE Head(toParent).type # "event"
    <3>1. Head(toParent).type = "broker_call" /\ Dispatch
      BY <1>5, <2>3 DEF ReadAside, Front
    <3>2. Asides' /\ toParent' = <<>> /\ \A T : EndsWith(T) => "broker_call" \in T
      BY <2>1, <2>3, <3>1, AsidesTail DEF InCall
    <3>3. ~EndsWith(Finals) /\ ~EndsWith({"event"})
      BY <3>2 DEF Finals
    <3>4. p = "dead" \/ (p = "asking" /\ childCall = callId /\ toChild = <<>>)
      BY <2>1, <3>3 DEF InCall
    <3>5. InCall(proc[<<outer, seat>>])'
      BY <1>a, <2>1, <3>1, <3>2, <3>4, OneMessage DEF InCall, Dispatch
    <3> QED BY <2>1, <3>5 DEF Sync, Turns
  <2> QED BY <2>2, <2>3
<1>6. CASE CallSucceeds
  <2>1. /\ client = "calling" /\ InCall(p) /\ toParent # <<>> /\ toParent' = Tail(toParent)
        /\ Head(toParent).type = "result" /\ client' = "idle"
        /\ UNCHANGED <<seat, callId, toChild>>
    BY <1>6, <1>b DEF CallSucceeds, Sync, Turns
  <2>2. toParent' = <<>> /\ \A T : EndsWith(T) => "result" \in T
    BY <2>1, AsidesTail DEF InCall
  <2>3. ~EndsWith({"event"}) /\ ~EndsWith({"broker_call"})
    BY <2>2
  <2>4. p = "dead" \/ (p = "ready" /\ toChild = <<>>)
    BY <2>1, <2>3 DEF InCall
  <2> QED BY <1>a, <2>1, <2>2, <2>4 DEF Sync, Turns, Resting
<1> QED BY <1>1, <1>2, <1>3, <1>4, <1>5, <1>6 DEF ClientStep

LEMMA SyncStep == TypeInv /\ Sync /\ Next => Sync'
<1> SUFFICES ASSUME TypeInv, Sync, Next PROVE Sync'
  OBVIOUS
<1>1. CASE DriverStep \/ ControlTimeout
  <2>1. CASE StartOuterWorker \/ ReleaseOuter \/ CloseAll
    <3>1. seat' = None \/ UNCHANGED <<outer, proc, cli, chan>>
      BY <2>1 DEF StartOuterWorker, StartWorker, ReleaseOuter, CloseAll
    <3> QED BY <3>1, SyncKept DEF Sync, cli
  <2>2. CASE RegisterOuter \/ Activated \/ ControlTimeout
    BY <2>2, SyncKept DEF RegisterOuter, Activated, ControlTimeout, cli
  <2>3. CASE Released
    <3>1. UNCHANGED <<proc, chan, seat, callId>>
          /\ (client = "exited" \/ UNCHANGED <<outer, client>>)
      BY <2>3 DEF Released
    <3>2. client = "exited" => seat' = None
      BY <3>1 DEF TypeInv, SeatOpen, Gone
    <3> QED BY <3>1, <3>2, SyncKept DEF Sync
  <2> QED BY <1>1, <2>1, <2>2, <2>3 DEF DriverStep
<1>2. CASE BrokerStep
  BY <1>2, SyncKept DEF BrokerStep, BrokerRegister, BrokerActivate, BrokerRelease, Release,
     BrokerRevokeNext, cli
<1>3. CASE Ended
  BY <1>3, SyncKept DEF Ended, world, pipe, cli
<1> QED BY <1>1, <1>2, <1>3, SyncHandler, SyncWorker, SyncClient DEF Next

-----------------------------------------------------------------------------
ServedInv == TokenInv /\ TypeInv /\ LaunchOnce /\ Access /\ Sync

LEMMA ServedNext == ServedInv /\ [Next]_vars => ServedInv'
<1> SUFFICES ASSUME ServedInv, [Next]_vars PROVE ServedInv'
  OBVIOUS
<1>1. CASE Next
  BY <1>1, TokenNext, TypeStep, LaunchStep, AccessStep, SyncStep DEF ServedInv
<1>2. CASE UNCHANGED vars
  <2>1. TokenInv'
    BY <1>2, TokenNext DEF ServedInv
  <2>2. TypeInv'
    BY <1>2 DEF ServedInv, TypeInv, Typed, Flagged, Queues, Numbered, SeatOpen, Asked, vars,
       world, brk, acls, pipe, cli, chan
  <2>3. LaunchOnce'
    BY <1>2, LaunchKept DEF ServedInv, vars, world, brk, pipe, cli
  <2>4. Access'
    BY <1>2, AccessKept DEF ServedInv, vars, world, pipe, Running
  <2>5. Sync'
    BY <1>2, SyncKept DEF ServedInv, vars, world, pipe, cli
  <2> QED BY <2>1, <2>2, <2>3, <2>4, <2>5 DEF ServedInv
<1> QED BY <1>1, <1>2

\* For any number of outers, slots, retries, calls and messages and any failures, a
\* running sandbox keeps its ACL entries, whatever the handlers of other seats take
\* back, and its client reads nothing that was sent in another call.
THEOREM SeatsServe == Spec => []WorkersServed
<1>1. Init => ServedInv
  BY TokenInit, TypeInit, LaunchInit, AccessInit, SyncInit DEF ServedInv
<1>2. ServedInv => WorkersServed
  <2> SUFFICES ASSUME ServedInv PROVE WorkersServed
    OBVIOUS
  <2>1. WorkerKeepsAccess
    <3> SUFFICES ASSUME NEW k \in Keys, Running(k), NEW d \in Dirs PROVE acl[d]
      BY DEF WorkerKeepsAccess
    <3>1. drv # "ended" /\ handler[k] \in {"relay", "write", "reap"}
      BY DEF ServedInv, Access, Stopped, Counted
    <3>2. k \in Holders(d)
      BY <3>1 DEF Holders, Hold
    <3>3. Cardinality(Holders(d)) # 0 /\ Cardinality(Holders(d)) \in Nat
      BY <3>2, HoldersFinite, FS_EmptySet
    <3> QED BY <3>1, <3>3 DEF ServedInv, Access, Counted
  <2>2. InSync
    <3>1. ASSUME client = "calling" PROVE Asides
      BY <3>1, SeatAssumption DEF ServedInv, TypeInv, SeatOpen, Seats, Sync, Turns, InCall
    <3>2. DOMAIN toParent = 1..Len(toParent)
      BY LenProperties DEF ServedInv, TypeInv, Queues
    <3> QED BY <3>1, <3>2 DEF InSync, Asides
  <2>3. TypeOK
    <3>1. \A i \in DOMAIN toParent : toParent[i].id \in 0..MaxId
      <4>1. toParent \in Seq(Replies) /\ DOMAIN toParent = 1..Len(toParent)
        BY LenProperties DEF ServedInv, TypeInv, Queues
      <4>2. \A i \in 1..Len(toParent) : toParent[i] \in Replies
        BY <4>1, ElementOfSeq
      <4> QED BY <4>1, <4>2 DEF Replies
    <3>2. callId \in 0..MaxId
      BY SeatAssumption DEF ServedInv, TypeInv, Numbered, MaxId
    <3> QED BY <3>1, <3>2 DEF ServedInv, TypeInv, Typed, Flagged, Numbered, SeatOpen,
         Access,
              MaxId, TypeOK
  <2> QED BY <2>1, <2>2, <2>3 DEF WorkersServed
<1> QED BY <1>1, <1>2, ServedNext, PTL DEF Spec

-----------------------------------------------------------------------------
(***************************************************************************)
(* The dry runs of CodeRepo, for any sessions, registries and retry bound  *)
(* and with faults of the git layer: the work tree is HEAD whenever nobody *)
(* holds _TREE_LOCK, verdicts do not depend on the other session, and      *)
(* commits never make the registries worse.                                *)
(***************************************************************************)

Trees    == [Files -> Health]
Critical == {"leave", "report", "apply", "compare", "accept", "reject"}

\* Shapes of the variables the argument is about.
Shapes ==
    /\ head \in Trees /\ work \in Trees
    /\ lock \in Sessions \cup {Nothing}
    /\ pc \in [Sessions -> SessionSteps]
    /\ patch \in [Sessions -> Patch \cup {Nothing}]
    /\ before \in [Sessions -> Trees \cup {Nothing}]
    /\ broken \in BOOLEAN
    /\ phase \in {"sessions", "apply", "ended", "aborted"}

\* _TREE_LOCK is held exactly by the session inside check_patch, and by nobody
\* once the sessions are joined.
Exclusive ==
    /\ \A s \in Sessions : pc[s] \in Critical => lock = s
    /\ lock # Nothing => pc[lock] \in Critical
    /\ phase # "sessions" => \A s \in Sessions : pc[s] = "ended"

\* The tree outside a dry run: HEAD, unless a report raised on it.
TreeAtRest == work = head \/ ReportRaises(work)

\* What a session at each step knows of the tree and of its patch.
Knows(s) ==
    /\ pc[s] \in {"leave", "report"} => TreeAtRest
    /\ pc[s] = "apply" => work = head /\ before[s] = head /\ ~ReportRaises(head)
    /\ pc[s] = "compare" =>
           /\ before[s] = head /\ ~ReportRaises(head)
           /\ patch[s] \in Health /\ work = With(head, s, patch[s])
    /\ pc[s] = "accept" => Accepts(head, s, patch[s])
    /\ pc[s] = "edit" => patch[s] = Nothing
    /\ pc[s] = "ended" /\ patch[s] # Nothing /\ phase = "sessions" =>
           Accepts(head, s, patch[s])

Knowledge == \A s \in Sessions : Knows(s)

\* The inductive invariant.
Inv ==
    /\ Shapes /\ Exclusive
    /\ broken => phase \in {"sessions", "aborted"}
    /\ ~broken => (lock = Nothing => TreeAtRest) /\ Knowledge

\* A tree with one entry replaced is a tree.
LEMMA WithType ==
    ASSUME NEW tree \in Trees, NEW r, NEW h \in Health
    PROVE  With(tree, r, h) \in Trees
  BY DEF With, Trees

\* Initially the work tree is HEAD and no session has begun.
LEMMA InitInv == RepoInit => Inv
<1> SUFFICES ASSUME RepoInit PROVE Inv
  OBVIOUS
<1>1. head \in Trees
  BY RepoAssumption DEF RepoInit, Trees, Health
<1>2. Shapes
  BY <1>1 DEF RepoInit, Shapes, SessionSteps
<1>3. Exclusive
  BY DEF RepoInit, Exclusive, Critical
<1>4. TreeAtRest /\ Knowledge
  BY DEF RepoInit, TreeAtRest, Knowledge, Knows
<1> QED
  BY <1>2, <1>3, <1>4 DEF Inv, RepoInit

\* Every step of a session keeps the invariant.
LEMMA SessionInv ==
    ASSUME Inv, NEW s \in Sessions, SessionStep(s)
    PROVE  Inv'
<1> USE RepoAssumption
<1>0. s # Nothing /\ s \in Files
  OBVIOUS
<1>1. ASSUME NEW p \in Patch, ProposePatch(s, p) PROVE Inv'
  BY <1>0, <1>1 DEF Inv, ProposePatch, Shapes, Exclusive, TreeAtRest, Knowledge,
     Knows, GoTo, Critical, SessionSteps, Accepts
<1>2. CASE EndWithoutPatch(s)
  BY <1>0, <1>2 DEF Inv, EndWithoutPatch, Shapes, Exclusive, TreeAtRest,
     Knowledge, Knows, GoTo, Critical, SessionSteps, Accepts
<1>3. CASE AcquireLock(s)
  BY <1>0, <1>3 DEF Inv, AcquireLock, Shapes, Exclusive, TreeAtRest, Knowledge,
     Knows, GoTo, Critical, SessionSteps, Accepts
<1>4. CASE ReadReport(s)
  BY <1>0, <1>4 DEF Inv, ReadReport, Shapes, Exclusive, TreeAtRest, Knowledge,
     Knows, GoTo, Critical, SessionSteps, Accepts
<1>5. CASE ApplyPatch(s)
  BY <1>0, <1>5, WithType DEF Inv, ApplyPatch, Shapes, Exclusive, TreeAtRest,
     Knowledge, Knows, GoTo, Critical, SessionSteps, Accepts
<1>6. CASE Compare(s)
  BY <1>0, <1>6 DEF Inv, Compare, Shapes, Exclusive, TreeAtRest, Knowledge,
     Knows, GoTo, Critical, SessionSteps, Accepts
<1>7. CASE Rollback(s)
  BY <1>0, <1>7 DEF Inv, Rollback, Conclude, Shapes, Exclusive, TreeAtRest,
     Knowledge, Knows, GoTo, Critical, SessionSteps, Accepts
<1>8. CASE LeaveUntouched(s)
  BY <1>0, <1>8 DEF Inv, LeaveUntouched, Conclude, Shapes, Exclusive,
     TreeAtRest, Knowledge, Knows, GoTo, Critical, SessionSteps, Accepts
<1>9. CASE SessionRaises(s)
  BY <1>0, <1>9 DEF Inv, SessionRaises, Shapes, Exclusive, TreeAtRest,
     Knowledge, Knows, GoTo, Critical, SessionSteps, Accepts
<1>10. CASE IntegrityError(s)
  BY <1>0, <1>10, WithType DEF Inv, IntegrityError, Shapes, Exclusive,
     GoTo, Critical, SessionSteps
<1>11. CASE LoseResult(s)
  BY <1>0, <1>11 DEF Inv, LoseResult, Shapes, Exclusive, TreeAtRest, Knowledge,
     Knows, Critical, SessionSteps, Accepts
<1>12. CASE SandboxedDryRun(s)
  <2>1. CASE patch[s] = Outside
    BY <1>0, <1>12, <2>1 DEF Inv, SandboxedDryRun, Conclude, Shapes, Exclusive,
       TreeAtRest, Knowledge, Knows, GoTo, Critical, SessionSteps, Accepts
  <2>2. CASE patch[s] # Outside
    BY <1>0, <1>12, <2>2 DEF Inv, SandboxedDryRun, Shapes, Exclusive, GoTo,
       Critical, SessionSteps
  <2> QED
    BY <2>1, <2>2
<1> QED
  BY <1>1, <1>2, <1>3, <1>4, <1>5, <1>6, <1>7, <1>8, <1>9, <1>10, <1>11, <1>12
     DEF SessionStep

\* With no session in check_patch the lock is free, and an unbroken tree that
\* the report can read is HEAD.
LEMMA JoinedTree ==
    ASSUME Inv, phase = "apply", ~ReportRaises(work)
    PROVE  lock = Nothing /\ ~broken /\ work = head
<1>1. \A s \in Sessions : pc[s] = "ended"
  BY DEF Inv, Exclusive
<1>2. lock = Nothing
  BY <1>1 DEF Inv, Shapes, Exclusive, Critical
<1> QED
  BY <1>2 DEF Inv, TreeAtRest

\* Joining, committing and ending a round keep the invariant.
LEMMA MainInv ==
    ASSUME Inv, MainStep
    PROVE  Inv'
<1>1. CASE Join
  <2>1. Shapes' /\ Exclusive'
    BY <1>1 DEF Inv, Join, dryRun, Shapes, Exclusive, Critical
  <2>2. ~broken' => (lock' = Nothing => TreeAtRest') /\ Knowledge'
    BY <1>1 DEF Inv, Join, dryRun, TreeAtRest, Knowledge, Knows
  <2> QED
    BY <1>1, <2>1, <2>2 DEF Inv, Join
<1>2. CASE CommitPatch
  <2>1. lock = Nothing /\ ~broken /\ work = head
    BY <1>2, JoinedTree DEF CommitPatch
  <2>2. head' \in Trees /\ work' = head'
    <3>1. CASE Accepts(work, Head(todo), patch[Head(todo)])
      BY <1>2, <3>1, <2>1, WithType DEF CommitPatch, Accepts, Inv, Shapes
    <3>2. CASE ~Accepts(work, Head(todo), patch[Head(todo)])
      BY <1>2, <3>2, <2>1 DEF CommitPatch, Inv, Shapes
    <3> QED
      BY <3>1, <3>2
  <2>3. Shapes' /\ Exclusive'
    BY <1>2, <2>2 DEF CommitPatch, dryRun, Inv, Shapes, Exclusive
  <2>4. TreeAtRest' /\ Knowledge'
    BY <1>2, <2>2 DEF CommitPatch, dryRun, Inv, Exclusive, TreeAtRest, Knowledge, Knows
  <2> QED
    BY <1>2, <2>1, <2>3, <2>4 DEF CommitPatch, Inv
<1>3. CASE CommitRaises
  BY <1>3 DEF CommitRaises, dryRun, Inv, Shapes, Exclusive, TreeAtRest, Knowledge, Knows
<1>4. CASE CommitFails
  BY <1>4, WithType DEF CommitFails, dryRun, Inv, Shapes, Exclusive
<1>5. CASE EndRound
  BY <1>5 DEF EndRound, dryRun, Inv, Shapes, Exclusive, TreeAtRest, Knowledge, Knows
<1> QED
  BY <1>1, <1>2, <1>3, <1>4, <1>5 DEF MainStep

\* The invariant is inductive.
LEMMA NextInv == Inv /\ [RepoNext]_repoVars => Inv'
<1> SUFFICES ASSUME Inv, [RepoNext]_repoVars PROVE Inv'
  OBVIOUS
<1>1. ASSUME NEW s \in Sessions, SessionStep(s) PROVE Inv'
  BY <1>1, SessionInv
<1>2. CASE MainStep
  BY <1>2, MainInv
<1>3. CASE NextOuter
  <2>1. lock = Nothing
    BY <1>3, RepoAssumption DEF NextOuter, Inv, Shapes, Exclusive, Critical
  <2>2. Shapes' /\ Exclusive'
    BY <1>3, <2>1 DEF NextOuter, Inv, Shapes, Exclusive, Critical, SessionSteps
  <2> QED
    BY <1>3, <2>2 DEF NextOuter, Inv, TreeAtRest, Knowledge, Knows
<1>4. CASE UNCHANGED repoVars
  BY <1>4 DEF repoVars, dryRun, Inv, Shapes, Exclusive, TreeAtRest, Knowledge, Knows
<1> QED
  BY <1>1, <1>2, <1>3, <1>4 DEF RepoNext

\* Every reachable state satisfies the invariant.
LEMMA AlwaysInv == RepoSpec => []Inv
<1> QED
  BY InitInv, NextInv, PTL DEF RepoSpec

\* The parts of RepoTypeOK the argument above does not need.
Counters ==
    /\ attempts \in [Sessions -> 0..RetryK] /\ rounds \in 1..MaxRounds
    /\ todo \in Seq(Sessions) /\ refused \subseteq Sessions
    /\ sandboxed \in BOOLEAN

\* Every step of a session keeps the retry counters within patch_retry_k.
LEMMA SessionCounters ==
    ASSUME Counters, NEW s \in Sessions, SessionStep(s)
    PROVE  Counters'
<1> USE RepoAssumption
<1>1. UNCHANGED <<rounds, todo, refused, sandboxed>>
  BY DEF SessionStep, ProposePatch, EndWithoutPatch, AcquireLock, ReadReport,
     ApplyPatch, Compare, Rollback, LeaveUntouched, SessionRaises,
     IntegrityError, SandboxedDryRun, LoseResult
<1>2. \/ attempts' = attempts
      \/ attempts[s] < RetryK /\ attempts' = [attempts EXCEPT ![s] = @ + 1]
  BY DEF SessionStep, ProposePatch, EndWithoutPatch, AcquireLock, ReadReport,
     ApplyPatch, Compare, Rollback, LeaveUntouched, SessionRaises,
     IntegrityError, SandboxedDryRun, LoseResult, Conclude
<1>3. attempts' \in [Sessions -> 0..RetryK]
  BY <1>2 DEF Counters
<1> QED
  BY <1>1, <1>3 DEF Counters

\* The patches to apply are those of sessions.
LEMMA DueType == DueInOrder \in Seq(Sessions)
<1>1. \A r : Due(r) \in Seq(Sessions)
  BY DEF Due
<1> QED
  BY <1>1 DEF DueInOrder

\* Every reachable state is well typed; in particular no session retries more
\* often than patch_retry_k, and only sessions' patches are applied.
THEOREM TypeCorrect == RepoSpec => []RepoTypeOK
<1>1. RepoInit => Counters
  BY RepoAssumption DEF RepoInit, Counters
<1>2. Counters /\ [RepoNext]_repoVars => Counters'
  <2> SUFFICES ASSUME Counters, [RepoNext]_repoVars PROVE Counters'
    OBVIOUS
  <2>1. ASSUME NEW s \in Sessions, SessionStep(s) PROVE Counters'
    BY <2>1, SessionCounters
  <2>2. CASE Join
    BY <2>2, DueType DEF Join, dryRun, Counters
  <2>3. CASE CommitPatch
    BY <2>3 DEF CommitPatch, dryRun, Counters
  <2>4. CASE CommitRaises \/ CommitFails \/ EndRound
    BY <2>4 DEF CommitRaises, CommitFails, EndRound, dryRun, Counters
  <2>5. CASE NextOuter
    BY <2>5, RepoAssumption DEF NextOuter, Counters
  <2>6. CASE UNCHANGED repoVars
    BY <2>6 DEF repoVars, dryRun, Counters
  <2> QED
    BY <2>1, <2>2, <2>3, <2>4, <2>5, <2>6 DEF RepoNext, MainStep
<1>3. Inv /\ Counters => RepoTypeOK
  BY DEF Inv, Shapes, Trees, Counters, RepoTypeOK
<1> QED
  BY <1>1, <1>2, <1>3, AlwaysInv, PTL DEF RepoSpec

\* Whatever the sessions propose and in whatever order their dry runs are
\* interleaved, the work tree is HEAD whenever _TREE_LOCK is free, as long as
\* the git layer works and the registry report did not raise (check_patch).
THEOREM TreeCleanWhenFree == RepoSpec => []CleanWhenFree
<1>1. Inv => CleanWhenFree
  BY DEF Inv, CleanWhenFree, TreeAtRest
<1> QED
  BY <1>1, AlwaysInv, PTL

\* A session that ends with a patch ends with one that passes on HEAD alone:
\* the other session's dry runs never show in its verdict (self_improve).
THEOREM VerdictsAreSolitary == RepoSpec => []VerdictIsSolitary
<1>1. Inv => VerdictIsSolitary
  BY DEF Inv, VerdictIsSolitary, Knowledge, Knows
<1> QED
  BY <1>1, AlwaysInv, PTL

\* Only the commit of an accepted patch moves HEAD.
LEMMA HeadMovesByCommit ==
    ASSUME Inv, RepoNext, head' # head
    PROVE  /\ ~broken /\ work = head
           /\ ~Worsened(head, head')
<1>1. CommitPatch
  BY DEF RepoNext, SessionStep, MainStep, ProposePatch, EndWithoutPatch, AcquireLock,
     ReadReport, ApplyPatch, Compare, Rollback, LeaveUntouched, SessionRaises,
     IntegrityError, SandboxedDryRun, LoseResult, Join, CommitRaises, CommitFails, EndRound, NextOuter
<1>2. ~broken /\ work = head
  BY <1>1, JoinedTree DEF CommitPatch
<1>3. Accepts(work, Head(todo), patch[Head(todo)])
  BY <1>1 DEF CommitPatch
<1>4. head' = With(work, Head(todo), patch[Head(todo)])
  BY <1>1, <1>3 DEF CommitPatch
<1> QED
  BY <1>2, <1>3, <1>4 DEF Accepts

\* No commit adds an unparseable, invalid or clashing registry to HEAD: the
\* differential gate holds along the whole run (_registry_worsened).
THEOREM RegistriesNeverWorsen == RepoSpec => HealthNeverWorse
<1> DEFINE A == /\ Unparseable(head') \subseteq Unparseable(head)
                /\ Invalid(head') \subseteq Invalid(head)
                /\ Clash(head') \subseteq Clash(head)
<1>1. Inv /\ [RepoNext]_repoVars => [A]_head
  <2> SUFFICES ASSUME Inv, RepoNext, head' # head PROVE A
    BY DEF repoVars
  <2>1. ~Worsened(head, head')
    BY HeadMovesByCommit
  <2> QED
    BY <2>1 DEF Worsened
<1> QED
  BY <1>1, AlwaysInv, PTL DEF RepoSpec, HealthNeverWorse

\* Every commit is made on a clean, unbroken tree (apply_code_patch after the
\* join of the sessions).
THEOREM CommitsNeedCleanTree == RepoSpec => CommitsOnCleanTree
<1>1. Inv /\ [RepoNext]_repoVars => [~broken /\ work = head]_head
  <2> SUFFICES ASSUME Inv, RepoNext, head' # head PROVE ~broken /\ work = head
    BY DEF repoVars
  <2> QED
    BY HeadMovesByCommit
<1> QED
  BY <1>1, AlwaysInv, PTL DEF RepoSpec, CommitsOnCleanTree

-----------------------------------------------------------------------------
(***************************************************************************)
(* The verdict of the dry run is that of the commit: the second patch is   *)
(* accepted after the first was committed, as each was on the tree both    *)
(* were tried on.  Neither can introduce what the other one's registry has *)
(* not, and strict mode lets no patch by that leaves the tree unsound.     *)
(***************************************************************************)

\* A patch accepted on a tree is accepted after the accepted patch of another
\* role is committed there.
LEMMA AcceptedAfterOther ==
    ASSUME NEW tree \in Trees, NEW r \in Files, NEW s \in Files, r # s,
           NEW p, NEW q, Accepts(tree, r, p), Accepts(tree, s, q)
    PROVE  Accepts(With(tree, r, p), s, q)
<1> DEFINE b == With(tree, r, p)
           a == With(b, s, q)
<1>1. \A f \in Files : /\ b[f] = IF f = r THEN p ELSE tree[f]
                       /\ a[f] = IF f = s THEN q ELSE b[f]
                       /\ With(tree, s, q)[f] = IF f = s THEN q ELSE tree[f]
  BY DEF With, Trees
<1>2. p \in Health /\ q \in Health /\ ~ReportRaises(b) /\ ~ReportRaises(With(tree, s, q))
  BY DEF Accepts
<1>3. ~ReportRaises(a)
  BY <1>1, <1>2 DEF ReportRaises
<1>4. Unparseable(b) # {} => FALSE
  <2> SUFFICES ASSUME NEW f \in Unparseable(b) PROVE FALSE
    OBVIOUS
  <2>1. Unparseable(b) \subseteq Unparseable(tree)
    BY DEF Accepts, Worsened
  <2> QED
    BY <2>1 DEF Accepts, Worsened
<1>5. Unparseable(a) \subseteq Unparseable(b)
  <2>1. Unparseable(With(tree, s, q)) \subseteq Unparseable(tree)
    BY DEF Accepts, Worsened
  <2> QED
    BY <1>1, <2>1 DEF Unparseable
<1>6. Invalid(a) \subseteq Invalid(b)
  <2>1. Invalid(With(tree, s, q)) \subseteq Invalid(tree)
    BY DEF Accepts, Worsened
  <2> QED
    BY <1>1, <2>1 DEF Invalid
<1>7. Clash(a) \subseteq Clash(b)
  <2>1. Clash(With(tree, s, q)) \subseteq Clash(tree)
    BY DEF Accepts, Worsened
  <2> QED
    BY <1>1, <2>1 DEF Clash
<1> QED
  BY <1>2, <1>3, <1>4, <1>5, <1>6, <1>7 DEF Accepts, Worsened

\* Nothing was refused so far, and while patches are applied those that are
\* still due pass on HEAD as it is now.
DuePasses ==
    /\ refused = {}
    /\ phase = "apply" =>
           /\ todo \in {<<>>, <<"evaluator">>, <<"planner">>, <<"evaluator", "planner">>}
           /\ \A i \in 1..Len(todo) :
                  todo[i] \in Sessions /\ Accepts(head, todo[i], patch[todo[i]])

\* The commit of one patch leaves the other one acceptable.
LEMMA CommitKeepsDue ==
    ASSUME Inv, DuePasses, CommitPatch
    PROVE  DuePasses'
<1> DEFINE r == Head(todo)
<1>1. work = head /\ phase = "apply" /\ phase' = phase /\ patch' = patch /\ todo # <<>>
  BY JoinedTree DEF CommitPatch, dryRun
<1>2. todo' = Tail(todo)
  BY DEF CommitPatch
<1>3. r \in Sessions /\ Accepts(head, r, patch[r])
  <2>1. CASE todo = <<"evaluator">>
    BY <1>1, <2>1 DEF DuePasses
  <2>2. CASE todo = <<"planner">>
    BY <1>1, <2>2 DEF DuePasses
  <2>3. CASE todo = <<"evaluator", "planner">>
    BY <1>1, <2>3 DEF DuePasses
  <2> QED
    BY <1>1, <2>1, <2>2, <2>3 DEF DuePasses
<1>4. head' = With(head, r, patch[r]) /\ refused' = {}
  BY <1>1, <1>3 DEF CommitPatch, DuePasses
<1>5. CASE todo = <<"evaluator">> \/ todo = <<"planner">>
  <2>1. todo' = <<>>
    BY <1>2, <1>5
  <2> QED
    BY <2>1, <1>4 DEF DuePasses
<1>6. CASE todo = <<"evaluator", "planner">>
  <2>1. todo' = <<"planner">> /\ r = "evaluator"
    BY <1>2, <1>6
  <2>2. todo[2] = "planner" /\ 2 \in 1..Len(todo)
    BY <1>6
  <2>3. "planner" \in Sessions /\ Accepts(head, "planner", patch["planner"])
    BY <1>1, <2>2 DEF DuePasses
  <2>4. Accepts(head', "planner", patch["planner"])
    BY <1>3, <1>4, <2>1, <2>3, AcceptedAfterOther, RepoAssumption DEF Inv, Shapes
  <2>5. Len(todo') = 1 /\ todo'[1] = "planner"
    BY <2>1
  <2> QED
    BY <1>1, <1>4, <2>1, <2>3, <2>4, <2>5 DEF DuePasses
<1> QED
  BY <1>1, <1>5, <1>6 DEF DuePasses

\* Concatenations of at most two roles.
LEMMA InOrder ==
    /\ <<"evaluator">> \o <<"planner">> = <<"evaluator", "planner">>
    /\ <<"evaluator">> \o <<>> = <<"evaluator">>
    /\ <<>> \o <<"planner">> = <<"planner">>
    /\ <<>> \o <<>> = <<>>
<1> DEFINE Roles == {"evaluator", "planner"}
           both == <<"evaluator">> \o <<"planner">>
<1>1. <<"evaluator">> \in Seq(Roles) /\ <<"planner">> \in Seq(Roles)
      /\ <<>> \in Seq(Roles) /\ <<"evaluator", "planner">> \in Seq(Roles)
  OBVIOUS
<1>2. both \in Seq(Roles) /\ Len(both) = 2 /\ both[1] = "evaluator" /\ both[2] = "planner"
  <2>1. Len(<<"evaluator">>) = 1 /\ Len(<<"planner">>) = 1
        /\ <<"evaluator">>[1] = "evaluator" /\ <<"planner">>[1] = "planner"
    OBVIOUS
  <2>2. both \in Seq(Roles) /\ Len(both) = 2
    BY <1>1, <2>1, ConcatProperties
  <2>3. \A i \in 1..2 : both[i] = IF i <= 1 THEN <<"evaluator">>[i] ELSE <<"planner">>[i - 1]
    BY <1>1, <2>1, ConcatProperties
  <2> QED
    BY <2>1, <2>2, <2>3
<1>3. both = <<"evaluator", "planner">>
  <2> HIDE DEF both
  <2>1. Len(both) = Len(<<"evaluator", "planner">>)
        /\ \A i \in 1..Len(both) : both[i] = <<"evaluator", "planner">>[i]
    <3>1. Len(<<"evaluator", "planner">>) = 2
          /\ <<"evaluator", "planner">>[1] = "evaluator"
          /\ <<"evaluator", "planner">>[2] = "planner"
      OBVIOUS
    <3>2. \A i \in 1..Len(both) : i = 1 \/ i = 2
      BY <1>2
    <3> QED
      BY <1>2, <3>1, <3>2
  <2> QED
    BY <1>1, <1>2, <2>1, SeqEqual
<1> QED
  <2>1. \A q \in Seq(Roles) : q \o <<>> = q /\ <<>> \o q = q
    BY ConcatEmptySeq
  <2> QED
    BY <1>1, <1>3, <2>1

\* After the join the patches due are those the dry runs accepted.
LEMMA JoinMakesDue ==
    ASSUME Inv, DuePasses, Join
    PROVE  DuePasses'
<1>1. refused' = {} /\ head' = head /\ patch' = patch /\ phase = "sessions"
  BY DEF Join, dryRun, DuePasses
<1> SUFFICES ASSUME phase' = "apply"
             PROVE  /\ todo' \in {<<>>, <<"evaluator">>, <<"planner">>, <<"evaluator", "planner">>}
                    /\ \A i \in 1..Len(todo') :
                         todo'[i] \in Sessions /\ Accepts(head, todo'[i], patch[todo'[i]])
  BY <1>1 DEF DuePasses
<1>2. ~broken /\ \A s \in Sessions : pc[s] = "ended"
  BY DEF Join
<1>3. \A s \in Sessions : patch[s] # Nothing => Accepts(head, s, patch[s])
  BY <1>1, <1>2 DEF Inv, Knowledge, Knows
<1>4. todo' = DueInOrder
  BY DEF Join
<1> DEFINE E == "evaluator" \in Sessions /\ patch["evaluator"] # Nothing
           P == "planner" \in Sessions /\ patch["planner"] # Nothing
<1>5. CASE E /\ P
  <2>1. Due("evaluator") = <<"evaluator">> /\ Due("planner") = <<"planner">>
    BY <1>5 DEF Due
  <2>2. todo' = <<"evaluator", "planner">>
    BY <1>4, <2>1, InOrder DEF DueInOrder
  <2> QED
    BY <1>3, <1>5, <2>2
<1>6. CASE E /\ ~P
  <2>1. Due("evaluator") = <<"evaluator">> /\ Due("planner") = <<>>
    BY <1>6 DEF Due
  <2>2. todo' = <<"evaluator">>
    BY <1>4, <2>1, InOrder DEF DueInOrder
  <2> QED
    BY <1>3, <1>6, <2>2
<1>7. CASE ~E /\ P
  <2>1. Due("evaluator") = <<>> /\ Due("planner") = <<"planner">>
    BY <1>7 DEF Due
  <2>2. todo' = <<"planner">>
    BY <1>4, <2>1, InOrder DEF DueInOrder
  <2> QED
    BY <1>3, <1>7, <2>2
<1>8. CASE ~E /\ ~P
  <2>1. Due("evaluator") = <<>> /\ Due("planner") = <<>>
    BY <1>8 DEF Due
  <2>2. todo' = <<>>
    BY <1>4, <2>1, InOrder DEF DueInOrder
  <2> QED
    BY <2>2
<1> QED
  BY <1>5, <1>6, <1>7, <1>8

\* No patch that passed its dry run is refused at the commit, although the
\* other role's commit may come between: the safety part of RoundCompletes
\* (_apply_self_patch after check_patch, loop.py:1066, code_repo.py:536).
THEOREM PassedPatchesAreCommitted == RepoSpec => []PassedIsCommitted
<1>1. RepoInit => DuePasses
  BY DEF RepoInit, DuePasses
<1>2. Inv /\ DuePasses /\ [RepoNext]_repoVars => DuePasses'
  <2> SUFFICES ASSUME Inv, DuePasses, [RepoNext]_repoVars PROVE DuePasses'
    OBVIOUS
  <2>1. ASSUME NEW s \in Sessions, SessionStep(s) PROVE DuePasses'
    <3>1. refused' = refused /\ phase' = phase
      BY <2>1 DEF SessionStep, ProposePatch, EndWithoutPatch, AcquireLock, ReadReport,
         ApplyPatch, Compare, Rollback, LeaveUntouched, SessionRaises,
         IntegrityError, SandboxedDryRun, LoseResult
    <3>2. phase # "apply"
      <4> SUFFICES ASSUME phase = "apply" PROVE FALSE
        OBVIOUS
      <4>1. pc[s] = "ended"
        BY DEF Inv, Exclusive
      <4> QED
        BY <2>1, <4>1 DEF SessionStep, ProposePatch, EndWithoutPatch, AcquireLock,
           ReadReport, ApplyPatch, Compare, Rollback, LeaveUntouched, SessionRaises,
           IntegrityError, SandboxedDryRun, LoseResult
    <3> QED
      BY <3>1, <3>2 DEF DuePasses
  <2>2. CASE Join
    BY <2>2, JoinMakesDue
  <2>3. CASE CommitPatch
    BY <2>3, CommitKeepsDue
  <2>4. CASE CommitRaises \/ CommitFails \/ EndRound
    BY <2>4 DEF CommitRaises, CommitFails, EndRound, dryRun, DuePasses
  <2>5. CASE NextOuter
    BY <2>5 DEF NextOuter, DuePasses
  <2>6. CASE UNCHANGED repoVars
    BY <2>6 DEF repoVars, dryRun, DuePasses
  <2> QED
    BY <2>1, <2>2, <2>3, <2>4, <2>5, <2>6 DEF RepoNext, MainStep
<1>3. DuePasses => PassedIsCommitted
  BY DEF DuePasses, PassedIsCommitted
<1> QED
  BY <1>1, <1>2, <1>3, AlwaysInv, PTL DEF RepoSpec
=============================================================================
