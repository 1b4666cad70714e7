----------------------------- MODULE RoleSeats -----------------------------
(***************************************************************************)
(* The seats of one role: gan/framework/role_broker.py (the privileged     *)
(* launcher), gan/framework/role_process.py (the loop's proxy object and   *)
(* the worker behind it) and the role broker's controller in gan/driver.py.*)
(*                                                                         *)
(* The driver issues one proxy token per seat and outer, registers them    *)
(* with the broker, activates the outer, waits for the outer worker and    *)
(* releases the outer.  RoleProcess asks the broker for a sandboxed worker *)
(* of a seat; a handler thread of the broker grants ACLs, starts it,       *)
(* relays bytes and takes everything back when either side goes away.      *)
(* Calls run over the relay: the worker may send events and ask for the    *)
(* access broker in the middle of a call.                                  *)
(*                                                                         *)
(* Two roles share nothing but the slots of the socket server, because     *)
(* scopes, ACL entries and reference counts are keyed by role.             *)
(***************************************************************************)
EXTENDS Integers, FiniteSets, Sequences

CONSTANTS
    None,
    MaxOuter,   \* number of outers
    Slots,      \* connection slots of the socket server (8)
    Retries,    \* bound: connection attempts before giving up (51)
    MaxCalls,   \* bound: plan or evaluate calls per outer
    MaxEvents,  \* bound: messages a worker sends during one call before it answers
    FaultSets   \* combinations of failures that are explored

FaultKinds == {"acl", "spawn", "boot", "child", "outer", "event", "revoke", "control", "pipe"}

ASSUME SeatAssumption ==
    /\ MaxOuter \in Nat \ {0} /\ Slots \in Nat /\ Retries \in Nat
    /\ MaxCalls \in Nat /\ MaxEvents \in Nat /\ FaultSets \subseteq SUBSET FaultKinds
    /\ None \notin {"work", "self_improve"}

\* _ROLE_SEATS of one role: its working seat (plan or evaluate) and the other.
Seats  == {"work", "self_improve"}
Outers == 1..MaxOuter
Keys   == Outers \X Seats
\* The two kinds of ACL entries with a reference count: the output directory
\* (_active) and the directories above the writable ones (_traverse_refs).
Dirs   == {"output", "traverse"}

VARIABLES
    \* the broker process
    scope,     \* per key: "none", "free" or "consumed"
    active,    \* activated outers
    revoking,  \* tokens release_outer still has to revoke
    handler,   \* per key: step of the handler thread that launches it
    proc,      \* per key: step of the sandboxed worker
    refs, acl, \* per directory: reference count and ACL entry
    live,      \* keys whose proxy token is accepted by the LLM proxy
    \* the driver and its control pipe
    drv, outer, requests, replies,
    \* the RoleProcess of the current outer worker
    client,    \* "none", "connect", "auth", "init", "idle", "send", "calling",
               \* "exited" or "crashed"
    byCall,    \* a worker is started by a call, not by the constructor
    seat,      \* _seat: the seat whose channel is open, or None
    target,    \* the seat being started
    tries, callId, calls,
    \* the channel of the started seat
    toChild, toParent, events, childCall,
    faults     \* what may fail in this behaviour

brk  == <<scope, active, revoking>>
acls == <<refs, acl>>
pipe == <<drv, outer, requests, replies>>
cli  == <<client, byCall, seat, target, tries, callId, calls>>
chan == <<toChild, toParent, events, childCall>>
world == <<brk, handler, proc, acls, live, pipe, cli, chan>>
vars == <<world, faults>>

Gone == {"none", "exited", "crashed"}
\* Handler threads that occupy a connection slot.
Busy == {k \in Keys : handler[k] \notin {"idle", "done"}}
\* The client end of key k's connection is open.
Connected(k) ==
    /\ k[1] = outer
    /\ \/ client = "auth" /\ target = k[2]
       \/ client \notin Gone /\ seat = k[2]
Running(k) == proc[k] \notin {"none", "dead"}

Init ==
    /\ scope = [k \in Keys |-> "none"] /\ active = {} /\ revoking = {}
    /\ handler = [k \in Keys |-> "idle"] /\ proc = [k \in Keys |-> "none"]
    /\ refs = [d \in Dirs |-> 0] /\ acl = [d \in Dirs |-> FALSE]
    /\ live = {}
    /\ drv = "register" /\ outer = 1 /\ requests = <<>> /\ replies = <<>>
    /\ client = "none" /\ byCall = FALSE /\ seat = None /\ target = None
    /\ tries = 0 /\ callId = 0 /\ calls = 0
    /\ toChild = <<>> /\ toParent = <<>> /\ events = 0 /\ childCall = 0
    /\ faults \in FaultSets

-----------------------------------------------------------------------------
(* The driver.  Every control call sends a request and polls for an answer; *)
(* an answer that comes too late stays in the pipe.                        *)

Send(op) == requests' = Append(requests, [op |-> op, outer |-> outer])
\* The answer of the pending control call, taken out of the pipe.
Receive  == replies # <<>> /\ replies' = Tail(replies)

\* _start_worker: the old channel is closed and the seat asked for.
StartWorker(s, call) ==
    /\ client' = "connect" /\ byCall' = call
    /\ target' = s /\ seat' = None /\ tries' = 0

\* issue_scope for every seat, then register_outer.
RegisterOuter ==
    /\ drv = "register"
    /\ live' = live \cup {k \in Keys : k[1] = outer}
    /\ Send("register") /\ drv' = "registering"
    /\ UNCHANGED <<brk, handler, proc, acls, outer, replies, cli, chan>>

\* The outer worker is started: its role object asks for the working seat at
\* once, while the driver activates the outer.
StartOuterWorker ==
    /\ drv = "registering" /\ Receive
    /\ \/ /\ Head(replies).ok
          /\ drv' = "activating" /\ Send("activate")
          /\ StartWorker("work", FALSE) /\ callId' = 0 /\ calls' = 0
       \/ ~Head(replies).ok /\ drv' = "closing" /\ UNCHANGED <<requests, cli>>
    /\ UNCHANGED <<brk, handler, proc, acls, live, outer, chan>>

Activated ==
    /\ drv = "activating" /\ Receive
    /\ drv' = IF Head(replies).ok THEN "waiting" ELSE "failing"
    /\ UNCHANGED <<brk, handler, proc, acls, live, outer, requests, cli, chan>>

\* poll(10) ran out: the call raises, its answer is still to come.
ControlTimeout ==
    /\ "control" \in faults /\ replies = <<>>
    /\ drv \in {"registering", "activating", "releasing", "failed_release"}
    /\ drv' = IF drv = "activating" THEN "failing" ELSE "closing"
    /\ UNCHANGED <<brk, handler, proc, acls, live, outer, requests, replies, cli, chan>>

\* The worker exited, or is terminated because activation failed.
ReleaseOuter ==
    /\ \/ drv = "waiting" /\ client \in Gone /\ drv' = "releasing" /\ UNCHANGED cli
       \/ /\ drv = "failing" /\ drv' = "failed_release"
          /\ client' = "crashed" /\ seat' = None
          /\ UNCHANGED <<byCall, target, tries, callId, calls>>
    /\ Send("release")
    /\ UNCHANGED <<brk, handler, proc, acls, live, outer, replies, chan>>

\* The next outer, or the end: a failed release and a failed worker abort.
Released ==
    /\ drv \in {"releasing", "failed_release"} /\ Receive
    /\ IF drv = "releasing" /\ Head(replies).ok /\ client = "exited" /\ outer < MaxOuter
       THEN drv' = "register" /\ outer' = outer + 1 /\ client' = "none"
       ELSE drv' = "closing" /\ UNCHANGED <<outer, client>>
    /\ UNCHANGED <<brk, handler, proc, acls, live, requests, chan,
                   byCall, seat, target, tries, callId, calls>>

\* proxy.close() and role_broker.close(): with the broker its daemon threads
\* and, through --die-with-parent, the sandboxes go.  ACL entries stay.
CloseAll ==
    /\ drv = "closing"
    /\ drv' = "ended" /\ live' = {}
    /\ handler' = [k \in Keys |-> IF handler[k] = "idle" THEN "idle" ELSE "done"]
    /\ proc' = [k \in Keys |-> IF proc[k] = "none" THEN "none" ELSE "dead"]
    /\ requests' = <<>> /\ revoking' = {}
    /\ client' = "exited" /\ seat' = None
    /\ UNCHANGED <<scope, active, acls, outer, replies, byCall, target, tries,
                   callId, calls, chan>>

DriverStep ==
    \/ RegisterOuter \/ StartOuterWorker \/ Activated \/ ReleaseOuter
    \/ Released \/ CloseAll

-----------------------------------------------------------------------------
(* The broker's control loop (broker_process_main).                        *)

Asked(op)  == requests # <<>> /\ Head(requests).op = op
Answer(ok) == /\ replies' = Append(replies, [op |-> Head(requests).op, ok |-> ok])
              /\ requests' = Tail(requests)
ScopesOf(o) == {k \in Keys : k[1] = o /\ scope[k] # "none"}

\* register_outer: refused when a scope of the outer exists already.
BrokerRegister ==
    /\ Asked("register")
    /\ LET o == Head(requests).outer
           fresh == ScopesOf(o) = {} /\ o \notin active
       IN  /\ scope' = [k \in Keys |-> IF fresh /\ k[1] = o THEN "free" ELSE scope[k]]
           /\ Answer(fresh)
    /\ UNCHANGED <<active, revoking, handler, proc, acls, live, drv, outer, cli, chan>>

\* activate_outer.  A supervisor that ended already is a zombie of the driver
\* and passes the checks on its process entry.
BrokerActivate ==
    /\ Asked("activate")
    /\ LET o  == Head(requests).outer
           ok == ScopesOf(o) # {} /\ o \notin active
       IN  active' = (IF ok THEN active \cup {o} ELSE active) /\ Answer(ok)
    /\ UNCHANGED <<scope, revoking, handler, proc, acls, live, drv, outer, cli, chan>>

\* release_outer takes the outer and its scopes out under the lock and then
\* revokes the collected tokens (BrokerRevokeNext).
Release(tokens) ==
    /\ Asked("release") /\ revoking = {}
    /\ LET o == Head(requests).outer IN
       /\ active' = active \ {o}
       /\ scope' = [k \in Keys |-> IF k[1] = o THEN "none" ELSE scope[k]]
    /\ revoking' = tokens
    /\ IF tokens = {} THEN Answer(TRUE) ELSE UNCHANGED <<requests, replies>>
    /\ UNCHANGED <<handler, proc, acls, live, drv, outer, cli, chan>>

\* Mutant of BrokerRelease: seats that were launched are left to reclaim().
BrokerRelease_Unlaunched ==
    Release({k \in ScopesOf(Head(requests).outer) : scope[k] = "free"})

BrokerRelease == Release(ScopesOf(Head(requests).outer))

\* One token after the other; a revoke that fails leaves the remaining ones.
BrokerRevokeNext ==
    /\ \E k \in revoking :
         \/ /\ live' = live \ {k} /\ revoking' = revoking \ {k}
            /\ IF revoking' = {} THEN Answer(TRUE) ELSE UNCHANGED <<requests, replies>>
         \/ /\ "revoke" \in faults
            /\ revoking' = {} /\ Answer(FALSE) /\ UNCHANGED live
    /\ UNCHANGED <<scope, active, handler, proc, acls, drv, outer, cli, chan>>

BrokerStep == BrokerRegister \/ BrokerActivate \/ BrokerRelease \/ BrokerRevokeNext

-----------------------------------------------------------------------------
(* ACL entries with reference counts, under _acl_lock.                     *)

Acquire(d) ==
    /\ acl' = [acl EXCEPT ![d] = TRUE] /\ refs' = [refs EXCEPT ![d] = @ + 1]

\* Mutant of Drop: the entry goes with the first handler that ends.
Drop_First(D) ==
    /\ refs' = [d \in Dirs |-> IF d \in D THEN refs[d] - 1 ELSE refs[d]]
    /\ acl' = [d \in Dirs |-> acl[d] /\ d \notin D]

\* The entries of D go with the last reference; setfacl -x may fail and leave
\* an entry, the count is taken down first.
Drop(D) ==
    /\ refs' = [d \in Dirs |-> IF d \in D THEN refs[d] - 1 ELSE refs[d]]
    /\ LET last == {d \in D : refs[d] = 1} IN
       \E kept \in {{}} \cup (IF "acl" \in faults THEN {last} ELSE {}) :
         acl' = [d \in Dirs |-> acl[d] /\ d \notin (last \ kept)]

-----------------------------------------------------------------------------
(* RoleProcess: starting a worker (_start_worker) and the handler thread.  *)

\* The launch was denied or failed.  In the constructor that ends the outer
\* worker, in a call it fails the call; no channel is kept.
StartFailed ==
    /\ client' = IF byCall THEN "idle" ELSE "crashed"
    /\ seat' = None /\ target' = None /\ tries' = 0

\* reserve(), under the broker's lock.
Reserve(k) ==
    /\ outer \in active /\ scope[k] = "free"
    /\ scope' = [scope EXCEPT ![k] = "consumed"]

\* Connect and ask for the seat: an outer that is not active yet is retried, a
\* consumed seat is denied, a connection without a slot is closed unanswered.
Connect ==
    /\ client = "connect"
    /\ LET k == <<outer, target>>
           slot == Cardinality(Busy) < Slots
       IN
       \/ /\ slot /\ Reserve(k)
          /\ handler' = [handler EXCEPT ![k] = "grant_output"]
          /\ client' = "auth" /\ UNCHANGED <<seat, target, tries>>
       \/ /\ slot /\ outer \notin active /\ tries < Retries
          /\ tries' = tries + 1 /\ UNCHANGED <<scope, handler, client, seat, target>>
       \/ /\ \/ ~slot
             \/ outer \notin active /\ tries = Retries
             \/ outer \in active /\ scope[k] # "free"
          /\ StartFailed /\ UNCHANGED <<scope, handler>>
    /\ UNCHANGED <<active, revoking, proc, acls, live, pipe, byCall, callId, calls, chan>>

\* The runtime projection is copied and the roots are opened, then the first
\* entry is granted.
GrantOutput(k) ==
    /\ handler[k] = "grant_output" /\ Acquire("output")
    /\ handler' = [handler EXCEPT ![k] = "grant_traverse"]
    /\ UNCHANGED <<brk, proc, live, pipe, cli, chan>>

\* The writable trees of a seat are opened and granted entry by entry, with the
\* directories above them; and taken back.
GrantTrees   == Acquire("traverse")
ReclaimTrees == Drop({"traverse"})

GrantTraverse(k) ==
    /\ handler[k] = "grant_traverse" /\ GrantTrees
    /\ handler' = [handler EXCEPT ![k] = "spawn"]
    /\ UNCHANGED <<brk, proc, live, pipe, cli, chan>>

\* The sandbox is started with its token and the client is told; if the client
\* is gone the reply fails and the handler goes to its finally clause.
Spawn(k) ==
    /\ handler[k] = "spawn"
    /\ proc' = [proc EXCEPT ![k] = "boot"]
    /\ IF Connected(k)
       THEN /\ handler' = [handler EXCEPT ![k] = "relay"]
            /\ client' = "init" /\ seat' = target
            /\ toChild' = <<>> /\ toParent' = <<>> /\ events' = 0 /\ childCall' = 0
       ELSE handler' = [handler EXCEPT ![k] = "reap"] /\ UNCHANGED <<client, seat, chan>>
    /\ UNCHANGED <<brk, acls, live, pipe, byCall, target, tries, callId, calls>>

\* A step of the launch raises: what was granted is taken back and the client
\* reads an error.  The seat stays consumed and its token lives on.
LaunchFails(k) ==
    /\ \/ "acl" \in faults /\ handler[k] \in {"grant_output", "grant_traverse"}
       \/ "spawn" \in faults /\ handler[k] = "spawn"
    /\ Drop({d \in Dirs : \/ handler[k] = "spawn"
                          \/ handler[k] = "grant_traverse" /\ d = "output"})
    /\ handler' = [handler EXCEPT ![k] = "done"]
    /\ IF Connected(k) THEN StartFailed ELSE UNCHANGED <<client, seat, target, tries>>
    /\ UNCHANGED <<brk, proc, live, pipe, byCall, callId, calls, chan>>

\* _relay writes what the client sent (init, calls, replies, shutdown) with
\* blocking calls: input that the sandbox's pipe does not hold keeps the
\* handler in the write, where it sees neither end.
RelayBlocks(k) ==
    /\ "pipe" \in faults /\ handler[k] = "relay" /\ Running(k)
    /\ handler' = [handler EXCEPT ![k] = "write"]
    /\ UNCHANGED <<brk, proc, acls, live, pipe, cli, chan>>

\* The sandbox takes the input after all: the handler relays again, or has
\* passed on everything a client that is gone had sent and reads the end.
RelayWrote(k) ==
    /\ handler[k] = "write" /\ Running(k)
    /\ handler' = [handler EXCEPT ![k] = IF Connected(k) THEN "relay" ELSE "reap"]
    /\ UNCHANGED <<brk, proc, acls, live, pipe, cli, chan>>

RelayWrite(k) == RelayBlocks(k) \/ RelayWrote(k)

\* Mutant of RelayEnds: the relay watches the worker only.
RelayEnds_WorkerOnly(k) ==
    /\ handler[k] \in {"relay", "write"} /\ proc[k] = "dead"
    /\ handler' = [handler EXCEPT ![k] = "reap"]
    /\ UNCHANGED <<brk, proc, acls, live, pipe, cli, chan>>

\* _relay returns when either end is closed; a write in progress ends only with
\* the worker.
RelayEnds(k) ==
    /\ \/ handler[k] \in {"relay", "write"} /\ proc[k] = "dead"
       \/ handler[k] = "relay" /\ ~Connected(k)
    /\ handler' = [handler EXCEPT ![k] = "reap"]
    /\ UNCHANGED <<brk, proc, acls, live, pipe, cli, chan>>

\* The handler's finally clause: terminate, wait, kill.
Reap(k) ==
    /\ handler[k] = "reap"
    /\ proc' = [proc EXCEPT ![k] = "dead"]
    /\ handler' = [handler EXCEPT ![k] = "drop_traverse"]
    /\ UNCHANGED <<brk, acls, live, pipe, cli, chan>>

\* reclaim(): trees and directories above, output directory, token.  A revoke
\* that fails here is only logged.
Reclaim(k) ==
    /\ \/ /\ handler[k] = "drop_traverse" /\ ReclaimTrees
          /\ handler' = [handler EXCEPT ![k] = "drop_output"] /\ UNCHANGED live
       \/ /\ handler[k] = "drop_output" /\ Drop({"output"})
          /\ handler' = [handler EXCEPT ![k] = "drop_token"] /\ UNCHANGED live
       \/ /\ handler[k] = "drop_token" /\ UNCHANGED acls
          /\ handler' = [handler EXCEPT ![k] = "done"]
          /\ \/ live' = live \ {k}
             \/ "revoke" \in faults /\ UNCHANGED live
    /\ UNCHANGED <<brk, proc, pipe, cli, chan>>

HandlerStep(k) ==
    \/ GrantOutput(k) \/ GrantTraverse(k) \/ Spawn(k) \/ LaunchFails(k)
    \/ RelayEnds(k) \/ Reap(k) \/ Reclaim(k)

-----------------------------------------------------------------------------
(* The worker behind the open channel (_worker_main, _RemoteBroker).        *)

\* The worker of the open channel is at step p, and goes on to step q.
At(p)   == seat # None /\ client \notin Gone /\ proc[<<outer, seat>>] = p
Goto(q) == proc' = [proc EXCEPT ![<<outer, seat>>] = q]
Tell(type) == toParent' = Append(toParent, [type |-> type, id |-> childCall])

\* Before its loop: the role is built and "ready" is sent, or an error.
WorkerBoots ==
    /\ At("boot")
    /\ \/ Tell("ready") /\ Goto("ready")
       \/ "boot" \in faults /\ Tell("error") /\ Goto("dead")
    /\ UNCHANGED <<brk, handler, acls, live, pipe, cli, toChild, events, childCall>>

WorkerTakes ==
    /\ At("ready") /\ toChild # <<>>
    /\ childCall' = Head(toChild).id /\ toChild' = Tail(toChild) /\ events' = 0
    /\ Goto("serving")
    /\ UNCHANGED <<brk, handler, acls, live, pipe, cli, toParent>>

\* During a call: an event, a request for the access broker, or the answer.
WorkerSends ==
    /\ At("serving")
    /\ \/ /\ events < MaxEvents /\ events' = events + 1
          /\ \/ Tell("event") /\ UNCHANGED proc
             \/ Tell("broker_call") /\ Goto("asking")
       \/ /\ Tell("result") \/ Tell("bad_result") \/ Tell("error")
          /\ Goto("ready") /\ UNCHANGED events
    /\ UNCHANGED <<brk, handler, acls, live, pipe, cli, toChild, childCall>>

\* _RemoteBroker._rpc reads the answer, a result or an error to raise.
WorkerResumes ==
    /\ At("asking") /\ toChild # <<>>
    /\ toChild' = Tail(toChild)
    /\ Goto(IF Head(toChild) = [type |-> "broker_result", id |-> childCall]
            THEN "serving" ELSE "dead")
    /\ UNCHANGED <<brk, handler, acls, live, pipe, cli, toParent, events, childCall>>

WorkerStep == WorkerBoots \/ WorkerTakes \/ WorkerSends \/ WorkerResumes

WorkerDies ==
    /\ "child" \in faults /\ (At("boot") \/ At("serving") \/ At("asking"))
    /\ Goto("dead")
    /\ UNCHANGED <<brk, handler, acls, live, pipe, cli, chan>>

-----------------------------------------------------------------------------
(* The parent's end of a call (_start_worker's handshake and _invoke).      *)

Front(type) == toParent # <<>> /\ Head(toParent).type = type
Eof         == toParent = <<>> /\ At("dead")

\* The reply to init.  In the constructor an error closes the object; in a call
\* it leaves _seat and the streams, so that the next call meets a dead worker.
ReadInit ==
    /\ client = "init"
    /\ \/ /\ Front("ready") /\ toParent' = Tail(toParent)
          /\ client' = (IF byCall THEN "send" ELSE "idle")
          /\ UNCHANGED <<seat, target, tries>>
       \/ /\ Front("error") \/ Eof
          /\ toParent' = <<>>
          /\ IF byCall THEN client' = "idle" /\ UNCHANGED <<seat, target, tries>>
             ELSE StartFailed
    /\ UNCHANGED <<brk, handler, proc, acls, live, pipe, byCall, callId, calls,
                   toChild, events, childCall>>

\* _invoke: rounds on the working seat, then one self-improve session.  A call
\* on another seat than the running one stops the worker and asks for a new
\* one; the broker reaps the old one in its own time.
Invoke(s) ==
    /\ client = "idle" /\ calls <= MaxCalls /\ (s = "work" => calls < MaxCalls)
    /\ calls' = IF s = "work" THEN calls + 1 ELSE MaxCalls + 1
    /\ \/ seat = s /\ client' = "send" /\ UNCHANGED <<byCall, seat, target, tries>>
       \/ seat # s /\ StartWorker(s, TRUE)
    /\ UNCHANGED <<brk, handler, proc, acls, live, pipe, callId, chan>>

\* The access broker's session is opened and the call is sent.
SendCall ==
    /\ client = "send"
    /\ client' = "calling" /\ callId' = callId + 1
    /\ toChild' = Append(toChild, [type |-> "call", id |-> callId + 1])
    /\ UNCHANGED <<brk, handler, proc, acls, live, pipe, byCall, seat, target, tries, calls,
                   toParent, events, childCall>>

\* _dispatch_broker: whatever the access broker returns or raises is sent back.
Dispatch == toChild' = Append(toChild, [type |-> "broker_result", id |-> callId])

\* An event is stored and a broker call is dispatched to the access broker;
\* the parent goes on waiting.
ReadAside ==
    /\ client = "calling"
    /\ \/ Front("event") /\ UNCHANGED toChild
       \/ /\ Front("broker_call") /\ Head(toParent).id = callId /\ Dispatch
    /\ toParent' = Tail(toParent)
    /\ UNCHANGED <<brk, handler, proc, acls, live, pipe, cli, events, childCall>>

\* An error reply, a reply that is invalid or of another call, the end of the
\* channel, an event that cannot be stored.
CallBroken ==
    \/ Front("error") \/ Front("bad_result") \/ Eof
    \/ (Front("result") \/ Front("broker_call")) /\ Head(toParent).id # callId
    \/ "event" \in faults /\ Front("event")

\* The call raises; the worker is stopped and the session closed.
CallFails ==
    /\ client = "calling" /\ CallBroken
    /\ client' = "idle" /\ seat' = None /\ toParent' = <<>> /\ toChild' = <<>>
    /\ UNCHANGED <<brk, handler, proc, acls, live, pipe, byCall, target, tries,
                   callId, calls, events, childCall>>

CallSucceeds ==
    /\ client = "calling" /\ toParent # <<>>
    /\ Head(toParent) = [type |-> "result", id |-> callId]
    /\ toParent' = Tail(toParent) /\ client' = "idle"
    /\ UNCHANGED <<brk, handler, proc, acls, live, pipe, byCall, seat, target, tries,
                   callId, calls, toChild, events, childCall>>

\* The outer is over: close() stops the worker and the process exits.
OuterExits ==
    /\ client = "idle" /\ client' = "exited" /\ seat' = None
    /\ UNCHANGED <<brk, handler, proc, acls, live, pipe, byCall, target, tries, callId,
                   calls, chan>>

\* The outer worker dies at any point: the channel closes.
OuterCrashes ==
    /\ "outer" \in faults /\ client \notin Gone
    /\ client' = "crashed" /\ seat' = None
    /\ UNCHANGED <<brk, handler, proc, acls, live, pipe, byCall, target, tries, callId,
                   calls, chan>>

ClientStep ==
    \/ Connect \/ ReadInit \/ (\E s \in Seats : Invoke(s)) \/ SendCall \/ ReadAside
    \/ CallFails \/ CallSucceeds \/ OuterExits

\* The driver has returned.
Ended == drv = "ended" /\ UNCHANGED world

Next ==
    /\ \/ DriverStep \/ ControlTimeout
       \/ BrokerStep
       \/ \E k \in Keys : HandlerStep(k) \/ RelayWrite(k)
       \/ WorkerStep \/ WorkerDies
       \/ ClientStep \/ OuterCrashes
       \/ Ended
    /\ UNCHANGED faults

Spec == Init /\ [][Next]_vars

\* The handler threads of the broker keep running, but for a blocked write.
\* Nothing is assumed of the driver, the outer worker or the sandbox.
FairSpec == Spec /\ \A k \in Keys : WF_world(HandlerStep(k))

-----------------------------------------------------------------------------
(* Properties.                                                             *)

\* The type of every variable.
TypeOK ==
    /\ scope \in [Keys -> {"none", "free", "consumed"}]
    /\ active \subseteq Outers /\ revoking \subseteq Keys /\ live \subseteq Keys
    /\ handler \in [Keys -> {"idle", "grant_output", "grant_traverse", "spawn",
                             "relay", "write", "reap", "drop_traverse", "drop_output",
                             "drop_token", "done"}]
    /\ proc \in [Keys -> {"none", "boot", "ready", "serving", "asking", "dead"}]
    /\ refs \in [Dirs -> Nat] /\ acl \in [Dirs -> BOOLEAN]
    /\ outer \in Outers /\ tries \in 0..Retries /\ calls \in 0..(MaxCalls + 1)
    /\ callId \in 0..(MaxCalls + 1) /\ childCall \in 0..(MaxCalls + 1)
    /\ client \in Gone \cup {"connect", "auth", "init", "idle", "send", "calling"}
    /\ seat \in Seats \cup {None} /\ target \in Seats \cup {None} /\ byCall \in BOOLEAN
    /\ \A i \in DOMAIN toParent : toParent[i].id \in 0..(MaxCalls + 1)

\* A sandbox keeps its ACL entries for as long as it runs, although handlers of
\* other seats of the same role grant and take back the same entries: the
\* counts are exact (_acquire_output_acl, _release_traverse, reclaim).
WorkerKeepsAccess == \A k \in Keys : Running(k) => \A d \in Dirs : acl[d]

\* When the driver works on an outer, no token of an earlier outer is accepted
\* by the LLM proxy any more, although the handlers that launched its seats may
\* still be reclaiming and any single revoke may fail (release_outer, the
\* driver's finally clause).
TokensDieWithOuter ==
    drv \notin {"closing", "ended"} => \A k \in live : k[1] >= outer

\* What the parent reads during a call was sent in that call: a reply of an
\* earlier, failed call is never waiting in the channel (_invoke).
InSync == client = "calling" => \A i \in DOMAIN toParent : toParent[i].id = callId

\* A sandbox whose client is gone (the seat was switched, the call failed, the
\* outer worker died) is terminated by its handler, even if the driver waits
\* for ever, unless the handler hangs for good in a write of input that the
\* sandbox never takes: then only the end of the broker ends both (_relay,
\* handle's finally).  Stated for the seats of the first outer, which see every
\* later step.
OrphanReaped ==
    \A s \in Seats :
        (Running(<<1, s>>) /\ ~Connected(<<1, s>>))
            ~> (~Running(<<1, s>>) \/ [](handler[<<1, s>>] = "write"))

\* A running sandbox keeps its access, whatever other seats take back, and its
\* client reads no answer of another call (role_broker.py, role_process.py).
WorkersServed == TypeOK /\ WorkerKeepsAccess /\ InSync
=============================================================================
