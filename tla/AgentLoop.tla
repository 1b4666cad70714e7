----------------------------- MODULE AgentLoop -----------------------------
(***************************************************************************)
(* One chat session of an agent: chat_with_agent (agent/llm_withtools.py)  *)
(* calls the model, dispatches one tool per reply through the shared       *)
(* thread pool, and stops on a final answer, the tool budget, the token    *)
(* budget, a repeated call or malformed replies.  Every call passes the    *)
(* history through the context-management session of ContextView when the  *)
(* caller gave one (mode "none": it did not).                              *)
(***************************************************************************)
EXTENDS ContextView

CONSTANTS
    Tools,          \* the tools of the session, besides the ctx_* faces
    RepeatLimit,    \* tool_repeat_limit
    PoolWorkers,    \* max_workers of the tool executor
    WedgeLimit,     \* _WEDGE_DISABLE_LIMIT
    Sessions        \* the sessions tried, see SessionKinds

(* What the caller of chat_with_agent fixes: the context management mode   *)
(* and the named assembly, max_tool_calls, max_total_tokens (0: none), and *)
(* whether it holds a capability (GAN_SECURE_CAPABILITY_HOLDER).  `hangs`  *)
(* says whether its tools may overrun, `edits` bounds the operations on    *)
(* the view.                                                               *)
SessionKinds ==
    [mode : Modes \cup {"none"}, assembly : {"none", "given", "refused"},
     tools : Nat \ {0}, tokens : Nat, secure : BOOLEAN, hangs : BOOLEAN, edits : Nat]

ASSUME AgentAssumption ==
    /\ {PoolWorkers, WedgeLimit} \subseteq Nat \ {0}
    /\ RepeatLimit \in Nat
    /\ Tools # {} /\ IsFiniteSet(Tools)
    /\ Sessions \subseteq SessionKinds

VARIABLES
    session,   \* the session examined
    pc,        \* where the loop is
    cm,        \* the context-management session
    hist,      \* the canonical history (kept only with a session to manage it)
    msg,       \* the outgoing text of the current call
    sent,      \* the form of the copy of each entry of the history, see Wire
    raw,       \* the seam failed and the history is sent as it is
    phase,     \* "first", "loop" or "summary": which of the loop's calls this is
    attempt,   \* attempt of the backoff decorator
    resp,      \* the last reply
    ntools, malformed, tokens, \* num_tool_calls, malformed_feedback, ...
    last, repeat,  \* the last tool call's fingerprint and how often it came in a row
    stop,      \* why the session was cut short, or "no"
    calls,     \* tool calls given to the executor
    sysout,    \* the call whose proxy is sys.stdout, 0 for the real stream
    wedges,    \* per tool: timeouts so far
    left, recs, edits  \* policy op budget, records of the turn, edits so far

loopVars == <<hist, resp, ntools, malformed, tokens, last, repeat, stop>>
toolVars == <<calls, sysout, wedges>>
vars == <<session, pc, cm, hist, msg, sent, raw, phase, attempt, resp, ntools, malformed,
          tokens, last, repeat, stop, calls, sysout, wedges, left, recs, edits>>

HasCm == cm.mode # "none"
AllTools == Tools \cup {"ctx"}
Ended == pc \in {"done", "failed", "exited"}
Halted == Ended \/ pc = "hung"

(* What the model may answer: prose, an answer payload, a tool call (to a  *)
(* known or unknown tool, with or without its required parameters), JSON   *)
(* that does not parse, or a call cut off by the output limit.  Sessions   *)
(* with a context manager are examined on ctx_* calls and answers only: a  *)
(* ctx_* call that leaves the view alone is any other tool to it.          *)
Reply == [kind : {"prose", "answer", "tool", "malformed", "cut"},
          tool : AllTools \cup {"ghost"}, args : BOOLEAN, quotes : Nat]
Said(kind) == [kind |-> kind, tool |-> "ghost", args |-> TRUE, quotes |-> 0]
Call(t, args) == [kind |-> "tool", tool |-> t, args |-> args, quotes |-> 0]
Replies ==
    IF HasCm
    THEN {Said("answer"), Call("ctx", TRUE)}
         \cup {[Call("ctx", TRUE) EXCEPT !.quotes = b] :
                 b \in {c \in Blocks(cm) : cm.blocks[c].form = "placeholder"}}
    ELSE {Said(k) : k \in {"prose", "answer", "malformed", "cut"}}
         \cup {Call(t, TRUE) : t \in Tools \cup {"ghost"}}
         \cup {Call(CHOOSE t \in Tools : TRUE, FALSE)}

ReplyText(r) == [n |-> 100 + Len(hist), len |-> 500, hdr |-> FALSE, quotes |-> r.quotes]
UserText(n, len) == [n |-> n, len |-> len, hdr |-> TRUE, quotes |-> 0]
Framework == 3   \* a message of the loop itself: feedback, summary request

Init ==
    /\ session \in Sessions /\ cm = NewSession(session.mode, session.assembly)
    /\ pc = "seam" /\ phase = "first" /\ attempt = 1 /\ hist = <<>> /\ sent = <<>> /\ raw = FALSE
    /\ msg = UserText(Framework + 1, 3000)
    /\ resp = Said("prose") /\ ntools = 0 /\ malformed = 0 /\ tokens = 0
    /\ last = <<"none", "none">> /\ repeat = 0 /\ stop = "no"
    /\ calls = <<>> /\ sysout = 0 /\ wedges = [t \in AllTools |-> 0]
    /\ left = 0 /\ recs = 0 /\ edits = 0

-----------------------------------------------------------------------------
(* The seam: CMSession.assemble_turn before every call.                    *)

ToModel(s, forms) ==
    /\ pc' = "llm" /\ cm' = s /\ sent' = forms /\ raw' = FALSE /\ attempt' = 1
    /\ left' = 0 /\ recs' = 0
Raw == [i \in DOMAIN hist |-> "full"]
Registered(s) == register_outgoing(register_history(s, hist), msg)

(* The warning record of a turn that begins at 80% of its token budget.    *)
Checkpoint == IF session.tokens > 0 /\ 5 * tokens >= 4 * session.tokens THEN 1 ELSE 0

(* What the model sees of an entry.  The client moves "text" to "content", *)
(* over whatever is there, and takes it out of the dict it was handed: an  *)
(* entry with both keys goes out as it is, and a retry, handed the same    *)
(* dicts, sends the copy's content, or nothing for a text-only entry.      *)
Wire(i) ==
    CASE hist[i].keys = "none" -> "lost"
      [] hist[i].keys = "text" -> IF attempt = 1 THEN sent[i] ELSE "lost"
      [] hist[i].keys = "both" -> IF attempt = 1 THEN "full" ELSE sent[i]

SeamOff ==
    /\ pc = "seam" /\ ~HasCm
    /\ ToModel(cm, Raw)
    /\ UNCHANGED <<msg, phase, edits, loopVars, toolVars, session>>

SeamBegins ==
    /\ pc = "seam" /\ HasCm
    /\ cm' = BeginTurn(cm)
    /\ pc' = IF RunsNamed(cm') THEN "assembly0" ELSE "preset"
    /\ left' = MaxOps /\ recs' = 0
    /\ UNCHANGED <<msg, sent, raw, phase, attempt, edits, loopVars, toolVars, session>>

(* A preset: register, the stages, and the post segment; custom runs the   *)
(* agent's policy in between, or leaves the record that it is switched off. *)
Preset ==
    /\ pc = "preset"
    /\ \E r \in {Registered(cm)} :
       CASE cm.mode = "passthrough" -> ToModel(emit_view(r), Raw)
         [] cm.mode = "custom" /\ ~cm.policyDisabled ->
              /\ pc' = "policy" /\ cm' = Stages(r) /\ left' = MaxOps
              /\ recs' = StageRecords(r, Checkpoint)
              /\ UNCHANGED <<sent, raw, attempt>>
         [] OTHER ->
              LET refused == IF cm.mode = "custom" THEN {StageRecords(r, Checkpoint) + 1}
                             ELSE StageRefused(r, Checkpoint)
                  f == finalize_turn(Stages(r), refused)
              IN  ToModel(f, render(f, hist))
    /\ UNCHANGED <<msg, phase, edits, loopVars, toolVars, session>>

(* Operations the policy face is tried with.                               *)
PolicyOps ==
    {[op |-> o, refs |-> <<b>>, form |-> "excerpt"] : o \in {"drop", "compact", "unpin"},
                                                      b \in Blocks(cm)}
    \cup {[op |-> "substitute", refs |-> <<b>>, form |-> "placeholder"] : b \in Blocks(cm)}
    \cup {[op |-> "compact", refs |-> <<b, c>>, form |-> "merge"] :
            b \in Blocks(cm), c \in Blocks(cm)}
    \cup {[op |-> "call", refs |-> <<1>>, form |-> "full"]}
AgentOps ==
    {[op |-> o, refs |-> <<b>>, form |-> "full"] : o \in {"fetch", "pin", "pin_note", "unpin"},
                                                   b \in Blocks(cm)}
    \cup {[op |-> "fetch", refs |-> <<b>>, form |-> "placeholder"] : b \in Blocks(cm)}
    \cup {[op |-> o, refs |-> <<1>>, form |-> "full"] : o \in {"note", "drop"}}

(* One operation of the policy, or of a method the assembly calls.         *)
PolicyOp ==
    /\ pc \in {"policy", "assembly1", "assembly2"} /\ edits < session.edits
    /\ \E op \in PolicyOps :
         /\ op.form = "merge" => op.refs[1] # op.refs[2]
         /\ cm' = Handle(cm, "policy", left, op)
    /\ left' = IF left > 0 THEN left - 1 ELSE 0
    /\ edits' = edits + 1
    /\ UNCHANGED <<pc, msg, sent, raw, phase, attempt, recs, loopVars, toolVars, session>>

(* apply() returns its records, or it fails: it raises, overruns, returns  *)
(* no list or a record that is not a dict.                                 *)
PolicyReturns ==
    /\ pc = "policy"
    /\ LET f == finalize_turn(policy_succeeded(cm), {}) IN ToModel(f, render(f, hist))
    /\ UNCHANGED <<msg, phase, edits, loopVars, toolVars, session>>

PolicyFails ==
    /\ pc = "policy"
    /\ LET f == finalize_turn(note_policy_failure(cm), {recs + 1}) IN ToModel(f, render(f, hist))
    /\ UNCHANGED <<msg, phase, edits, loopVars, toolVars, session>>

(* A record whose "saved" is no number breaks the post segment itself: the *)
(* loop logs it and sends the raw view.                                    *)
PolicyPoisons ==
    /\ pc = "policy"
    /\ pc' = "llm" /\ cm' = policy_succeeded(cm) /\ sent' = Raw /\ raw' = TRUE /\ attempt' = 1
    /\ left' = 0 /\ recs' = 0
    /\ UNCHANGED <<msg, phase, edits, loopVars, toolVars, session>>

(* The named assembly runs any prefix of register, stages, finalize.       *)
AssemblyStep ==
    /\ \/ pc = "assembly0" /\ cm' = Registered(cm) /\ pc' = "assembly1"
       \/ pc = "assembly1" /\ cm' = Stages(cm) /\ pc' = "assembly2"
       \/ pc = "assembly2" /\ cm' = finalize_turn(cm, {}) /\ pc' = "assembly3"
    /\ UNCHANGED <<msg, sent, raw, phase, attempt, left, recs, edits, loopVars, toolVars, session>>

InAssembly == pc \in {"assembly0", "assembly1", "assembly2", "assembly3"}

(* The seam emits the brief an assembly left out.                          *)
AssemblyReturns ==
    /\ InAssembly
    /\ LET s == IF cm.views = 0 THEN emit_view(cm) ELSE cm
       IN  ToModel(s, IF pc = "assembly3" THEN render(s, hist) ELSE Raw)
    /\ UNCHANGED <<msg, phase, edits, loopVars, toolVars, session>>

(* Any failure re-runs the preset on the state the assembly left.          *)
AssemblyFails ==
    /\ InAssembly
    /\ cm' = note_assembly_failure(cm)
    /\ pc' = "preset"
    /\ UNCHANGED <<msg, sent, raw, phase, attempt, left, recs, edits, loopVars, toolVars, session>>

(* Leaving the executor waits for its thread: code that never returns      *)
(* holds the session until somebody kills the process.                     *)
AgentCodeHangs ==
    /\ pc = "policy" \/ InAssembly
    /\ pc' = "hung"
    /\ UNCHANGED <<cm, msg, sent, raw, phase, attempt, left, recs, edits, loopVars, toolVars, session>>

-----------------------------------------------------------------------------
(* The model call and its backoff.                                         *)

(* A retry meets the dicts the first attempt has taken the text from: the  *)
(* copies of a viewed history, the history itself when it is sent raw.     *)
Transient ==
    /\ pc = "llm" /\ attempt = 1
    /\ attempt' = 2
    /\ hist' = IF raw THEN [i \in DOMAIN hist |-> IF hist[i].keys = "text"
                                                  THEN [hist[i] EXCEPT !.keys = "none"]
                                                  ELSE hist[i]]
               ELSE hist
    /\ UNCHANGED <<pc, cm, msg, sent, raw, phase, resp, ntools, malformed, tokens, last, repeat,
                   stop, left, recs, edits, toolVars, session>>

(* An error that is not retried, or a retry that runs out: only the final  *)
(* summary call swallows it.                                               *)
CallFails ==
    /\ pc = "llm"
    /\ pc' = IF phase = "summary" THEN "done" ELSE "failed"
    /\ UNCHANGED <<cm, msg, sent, raw, phase, attempt, left, recs, edits, loopVars, toolVars, session>>

(* The canonical history gets the raw user turn and the reply.  A viewed   *)
(* history gets the user turn back in text form only; any other is the     *)
(* client's list, in which every text is under both keys.                  *)
Remember(r) ==
    LET viewed == Len(sent) > 0 /\ ~raw
        both(e) == IF e.keys = "text" THEN [e EXCEPT !.keys = "both"] ELSE e
        older == IF viewed THEN hist ELSE [i \in DOMAIN hist |-> both(hist[i])]
    IN  hist' = IF ~HasCm THEN hist
                ELSE older \o <<[role |-> "user", text |-> msg,
                                 keys |-> IF viewed THEN "text" ELSE "both"],
                                [role |-> "assistant", text |-> ReplyText(r), keys |-> "both"]>>

Answered ==
    /\ pc = "llm"
    /\ \E r \in Replies, usage \in 0..1 :
         /\ session.tokens = 0 => usage = 0
         /\ resp' = r /\ Remember(r)
         /\ tokens' = Min({tokens + usage, session.tokens})
    /\ pc' = "decide"
    /\ UNCHANGED <<cm, msg, sent, raw, phase, attempt, ntools, malformed, last, repeat, stop,
                   left, recs, edits, toolVars, session>>

-----------------------------------------------------------------------------
(* What the loop does with a reply.                                        *)

Send(text, ph) == pc' = "seam" /\ msg' = text /\ phase' = ph
WantsLoop == resp.kind \in {"tool", "malformed", "cut"}
OutOfTokens == session.tokens > 0 /\ tokens >= session.tokens
OutOfTools == ntools >= session.tools
MayContinue == pc = "decide" /\ phase # "summary" /\ WantsLoop /\ ~OutOfTokens /\ ~OutOfTools

FirstProse ==
    /\ pc = "decide" /\ phase = "first" /\ resp.kind = "prose"
    /\ Send(UserText(Framework, 400), "loop")
    /\ UNCHANGED <<cm, sent, raw, attempt, left, recs, edits, loopVars, toolVars, session>>

Finish ==
    /\ pc = "decide"
    /\ \/ phase = "summary"
       \/ ~WantsLoop /\ ~(phase = "first" /\ resp.kind = "prose")
       \/ MayContinue /\ resp.kind = "malformed" /\ malformed >= 2
    /\ pc' = "done"
    /\ UNCHANGED <<cm, msg, sent, raw, phase, attempt, left, recs, edits, loopVars, toolVars, session>>

(* Budgets are checked before the next tool turn, tokens first.            *)
BudgetStop ==
    /\ pc = "decide" /\ phase # "summary" /\ WantsLoop
    /\ OutOfTokens \/ OutOfTools
    /\ stop' = IF OutOfTokens THEN "tokens" ELSE "tools"
    /\ Send(UserText(Framework, 400), "summary")
    /\ UNCHANGED <<cm, sent, raw, attempt, hist, resp, ntools, malformed, tokens, last, repeat,
                   left, recs, edits, toolVars, session>>

MalformedFeedback_NotCounted ==
    /\ MayContinue /\ resp.kind = "malformed" /\ malformed < 2
    /\ Send(UserText(Framework, 400), "loop")
    /\ UNCHANGED <<cm, sent, raw, attempt, left, recs, edits, loopVars, toolVars, session>>

MalformedFeedback ==
    /\ MayContinue /\ resp.kind = "malformed" /\ malformed < 2
    /\ malformed' = malformed + 1
    /\ Send(UserText(Framework, 400), "loop")
    /\ UNCHANGED <<cm, sent, raw, attempt, hist, resp, ntools, tokens, last, repeat, stop,
                   left, recs, edits, toolVars, session>>

CutRetry ==
    /\ MayContinue /\ resp.kind = "cut"
    /\ Send(UserText(Framework, 400), "loop")
    /\ UNCHANGED <<cm, sent, raw, attempt, left, recs, edits, loopVars, toolVars, session>>

(* process_tool_call came back: the anti-thrash breaker compares the call  *)
(* and its output with the previous one.                                   *)
AfterTool(tool, out, len) ==
    LET rep == IF out # "new" /\ last = <<tool, out>> THEN repeat + 1 ELSE 1
        n == CASE out = "same" -> 1 [] out = "err" -> 2 [] OTHER -> 10 + Len(hist)
    IN  /\ ntools' = ntools + 1 /\ last' = <<tool, out>> /\ repeat' = rep
        /\ IF RepeatLimit > 0 /\ rep >= RepeatLimit
           THEN stop' = "repeat" /\ Send(UserText(Framework, 400), "summary")
           ELSE stop' = stop /\ Send(UserText(n, len), "loop")
        /\ UNCHANGED <<hist, resp, malformed, tokens>>

(* Refused before any tool code runs: an unknown tool, a disabled one, a   *)
(* missing required parameter.                                             *)
Refused ==
    /\ MayContinue /\ resp.kind = "tool"
    /\ \/ resp.tool = "ghost"
       \/ resp.tool # "ghost" /\ wedges[resp.tool] >= WedgeLimit
       \/ ~resp.args
    /\ AfterTool(resp.tool, "err", 100)
    /\ UNCHANGED <<cm, sent, raw, attempt, left, recs, edits, toolVars, session>>

-----------------------------------------------------------------------------
(* The executor.  Each call's capture proxy wraps what sys.stdout is when  *)
(* the loop submits it; the thread redirects sys.stdout when it starts and *)
(* puts back what it found there when it ends.                             *)

Running == {c \in DOMAIN calls : calls[c].st = "running"}
Current == Len(calls)

Submit ==
    /\ MayContinue /\ resp.kind = "tool" /\ resp.args /\ resp.tool # "ghost"
    /\ wedges[resp.tool] < WedgeLimit
    /\ calls' = Append(calls, [tool |-> resp.tool, st |-> "queued", over |-> sysout,
                               saved |-> 0, captures |-> TRUE, ran |-> FALSE])
    /\ pc' = "wait"
    /\ UNCHANGED <<cm, msg, sent, raw, phase, attempt, sysout, wedges, left, recs, edits,
                   loopVars, session>>

ThreadStarts(c) ==
    /\ calls[c].st = "queued" /\ Cardinality(Running) < PoolWorkers
    /\ \A d \in 1..c - 1 : calls[d].st # "queued"
    /\ calls' = [calls EXCEPT ![c].st = "running", ![c].saved = sysout, ![c].ran = TRUE]
    /\ sysout' = c
    /\ UNCHANGED <<pc, cm, msg, sent, raw, phase, attempt, wedges, left, recs, edits,
                   loopVars, session>>

(* The tool returns; a ctx_* tool has worked on the live session.          *)
ThreadEnds(c) ==
    /\ calls[c].st = "running"
    /\ calls' = [calls EXCEPT ![c].st = "over", ![c].captures = FALSE]
    /\ sysout' = calls[c].saved
    /\ \/ calls[c].tool = "ctx" /\ edits < session.edits
          /\ \E op \in AgentOps : cm' = Handle(cm, "agent", 0, op)
          /\ edits' = edits + 1
       \/ UNCHANGED <<cm, edits>>
    /\ UNCHANGED <<pc, msg, sent, raw, phase, attempt, wedges, left, recs, loopVars, session>>

ToolAnswers ==
    /\ pc = "wait" /\ calls[Current].st = "over"
    /\ \E out \in {"same", "new"} :
          AfterTool(calls[Current].tool, out, IF out = "new" THEN 3000 ELSE 100)
    /\ UNCHANGED <<cm, sent, raw, attempt, left, recs, edits, toolVars, session>>

ToolTimesOut_NoRelease ==
    /\ pc = "wait" /\ calls[Current].st # "over" /\ session.hangs
    /\ IF session.secure
       THEN pc' = "exited" /\ UNCHANGED <<msg, phase, wedges, loopVars>>
       ELSE /\ wedges' = [wedges EXCEPT ![calls[Current].tool] = @ + 1]
            /\ AfterTool(calls[Current].tool, "err", 100)
    /\ UNCHANGED <<cm, sent, raw, attempt, calls, sysout, left, recs, edits, session>>

(* fut.result timed out: the proxies are released; a secure holder exits,  *)
(* anybody else abandons the thread and counts a wedge.                    *)
ToolTimesOut ==
    /\ pc = "wait" /\ calls[Current].st # "over" /\ session.hangs
    /\ calls' = [calls EXCEPT ![Current].captures = FALSE]
    /\ IF session.secure
       THEN pc' = "exited" /\ UNCHANGED <<msg, phase, wedges, loopVars>>
       ELSE /\ wedges' = [wedges EXCEPT ![calls[Current].tool] = @ + 1]
            /\ AfterTool(calls[Current].tool, "err", 100)
    /\ UNCHANGED <<cm, sent, raw, attempt, sysout, left, recs, edits, session>>

Stopped == Halted /\ UNCHANGED vars

Main == \/ SeamOff \/ SeamBegins \/ Preset \/ PolicyOp \/ PolicyReturns \/ PolicyFails
        \/ PolicyPoisons \/ AssemblyStep \/ AssemblyReturns \/ AssemblyFails \/ AgentCodeHangs
        \/ CallFails \/ Answered \/ FirstProse \/ Finish \/ BudgetStop
        \/ MalformedFeedback \/ CutRetry \/ Refused \/ Submit \/ ToolAnswers \/ ToolTimesOut
Thread == ~Halted /\ \E c \in DOMAIN calls : ThreadStarts(c) \/ ThreadEnds(c)
Next == Main \/ Transient \/ Thread \/ Stopped

Spec == Init /\ [][Next]_vars
FairSpec == Spec /\ WF_vars(Main) /\ WF_vars(~session.hangs /\ Thread)

-----------------------------------------------------------------------------
(* Properties.                                                             *)

(* The state is well formed.                                               *)
TypeOK ==
    /\ pc \in {"seam", "preset", "policy", "assembly0", "assembly1", "assembly2",
               "assembly3", "llm", "decide", "wait"} \/ Halted
    /\ phase \in {"first", "loop", "summary"} /\ attempt \in 1..2 /\ resp \in Reply
    /\ ntools \in 0..session.tools /\ malformed \in 0..2 /\ tokens \in 0..session.tokens
    /\ stop \in {"no", "tokens", "tools", "repeat"} /\ sysout \in 0..Len(calls)
    /\ DOMAIN sent \subseteq DOMAIN hist /\ Range(sent) \subseteq Forms
    /\ \A b \in Blocks(cm) : /\ cm.blocks[b].form \in Forms /\ cm.blocks[b].kind \in Kinds
                             /\ cm.blocks[b].to \in 0..Len(cm.blocks)
                             /\ cm.blocks[b].idx \in 0..Len(hist)
                             /\ cm.blocks[b].sources \subseteq 1..b - 1

(* While the loop is not waiting for a tool, whatever it prints reaches    *)
(* the real stream: sys.stdout is the real stream or a chain of proxies    *)
(* that all pass through, whichever abandoned tool threads are still       *)
(* running, starting or ending (_CaptureProxy, process_tool_call).         *)
MainOutputVisible ==
    LET visible[c \in 0..Len(calls)] == c = 0 \/ (~calls[c].captures /\ visible[calls[c].over])
    IN  pc # "wait" => visible[sysout]

(* A tool call is never charged for the tools before it: as long as the    *)
(* pool has room for every wedge the breaker of process_tool_call admits,  *)
(* the call the loop waits for finds a thread, however many abandoned      *)
(* calls still hold theirs.                                                *)
WedgesAreOwn ==
    pc = "wait" /\ calls[Current].st = "queued" /\ WedgeLimit * Cardinality(Tools) <= PoolWorkers
    => Cardinality(Running) < PoolWorkers

(* Once the loop has cut the session short (token budget, tool budget,     *)
(* repeated call) no further tool runs, and the model is asked at most     *)
(* once more, for the final summary.                                       *)
NothingAfterStop ==
    [][stop # "no" => /\ ntools' = ntools /\ stop' = stop
                      /\ (pc = "seam" => phase = "summary")
                      /\ (pc = "decide" => pc' \in {"decide", "done"})]_vars

(* A session ends, however long the model goes on calling tools, emitting  *)
(* malformed calls or hanging tools, with two exceptions.  Every reply     *)
(* from some point on is cut off by the output limit: that retry is the    *)
(* only turn of the loop no budget counts.  Or the session's own policy or *)
(* assembly never returns: the execution budgets of failopen.py and        *)
(* assembly.py are noticed at future.result, but leaving the executor's    *)
(* with block then waits for the thread, so they do not bind it.           *)
SessionEnds == <>[](resp.kind # "cut") /\ [](pc # "hung") => <>Ended

(* Every turn that the model sees through the context manager has its      *)
(* cm_view brief, the turns of an assembly that skips the post segment     *)
(* and the turns a preset took over from a failed one included.            *)
AuditedTurns == pc = "llm" /\ HasCm /\ ~raw => cm.views >= 1

(* A pinned block that is shown in its own form is never elided by a       *)
(* stage, a policy, an assembly or a compaction (the view re-points only   *)
(* hosts and pointers of a derived block it consumes).                     *)
PinRespected ==
    [][\A b \in Blocks(cm) :
         /\ cm.blocks[b].pinned /\ cm.blocks[b].to = 0
         /\ cm.blocks[b].form \notin {"placeholder", "derived_host"}
         => cm'.blocks[b].form \notin {"placeholder", "derived_host"}]_vars

(* The derivation of compacted blocks is a tree: a derived block nobody    *)
(* unpinned by hand is a source of at most one other block, and no rule    *)
(* of the view points to a block that was consumed.                        *)
LineageIsTree ==
    \A d \in Blocks(cm) : cm.blocks[d].kind = "derived" /\ ~cm.blocks[d].freed =>
        LET users == {e \in Blocks(cm) : d \in cm.blocks[e].sources}
        IN  /\ Cardinality(users) <= 1
            /\ users # {} => \A b \in Blocks(cm) : cm.blocks[b].to # d

(* Each refusal is counted as a violation once, on the handle or in the    *)
(* post segment, but for the records past the cap of count_ops (stage      *)
(* records come first, so a policy's failure may be one of them).          *)
ViolationsExact == cm.violations + cm.uncounted = cm.refusals

(* Two failures switch a named assembly off for the session, two in a row  *)
(* the policy.                                                             *)
BreakersHold ==
    /\ cm.assemblyFailures <= Strikes /\ cm.policyStrikes <= Strikes
    /\ cm.policyDisabled => cm.policyFailures >= Strikes

(* What a preset sends of its window: with WindowK rounds counted from the *)
(* outgoing text, the newest entries go out in full and every older user   *)
(* turn above the drop floor, except the pinned instruction, is elided or  *)
(* cut.  An older reply is not, whatever the view says: it goes out in     *)
(* full (it carries both keys).  All this is the first attempt; a retry    *)
(* sends no user turn but the first at all.  Holds for a session the agent *)
(* has not edited and in which no reply quotes a block marker (such a      *)
(* reply is bound to the block it quotes).                                 *)
WindowIsSent ==
    pc = "llm" /\ cm.mode \in {"slice", "compact_conservative"} /\ cm.assembly = "none"
    /\ edits = 0 /\ (\A i \in DOMAIN hist : hist[i].text.quotes = 0)
    => \A i \in DOMAIN hist :
          LET reply == hist[i].role = "assistant" IN
          IF attempt = 1
          THEN IF i + WindowK > Len(hist) + 1 \/ reply THEN Wire(i) = "full"
               ELSE hist[i].text.len >= DropFloor /\ i # 1 => Wire(i) \in {"placeholder", "excerpt"}
          ELSE ~reply /\ i # 1 => Wire(i) = "lost"

\* A tool thread that outlives its timeout stays contained: the main output is
\* visible again and only own calls count as wedged (llm_withtools.py:189-250).
ToolsContained == TypeOK /\ MainOutputVisible /\ WedgesAreOwn

\* The context seam keeps its books over failing policies and assemblies: every
\* turn is audited, lineages stay trees, violations are counted exactly, broken
\* features stay off, and what is sent is the window (cm/session.py, cm/ops.py).
SeamSound ==
    AuditedTurns /\ LineageIsTree /\ ViolationsExact /\ BreakersHold /\ WindowIsSent

\* A step never goes back on what was promised: nothing is called after a stop,
\* and a pinned block is never dropped (llm_withtools.py:566; cm/ops.py:52).
PromisesKept == NothingAfterStop /\ PinRespected
=============================================================================
