-------------------------- MODULE AgentLoopProofs --------------------------
(***************************************************************************)
(* Theorems about AgentLoop, one chat session with its tool executor and   *)
(* its context manager, for every value of the constants.                  *)
(***************************************************************************)
EXTENDS AgentLoop, FiniteSetTheorems, FunctionTheorems, SequenceTheorems,
        WellFoundedInduction, TLAPS

-----------------------------------------------------------------------------
(*                        The inductive invariant                          *)

Entry == [role : {"user", "assistant"}, text : Text, keys : {"text", "both", "none"}]

CallRecord == [tool : AllTools, st : {"queued", "running", "over"}, over : Nat, saved : Nat,
               captures : BOOLEAN, ran : BOOLEAN]

\* The loop's own variables.
Types ==
    /\ session \in SessionKinds
    /\ pc \in {"seam", "preset", "policy", "assembly0", "assembly1", "assembly2", "assembly3",
               "llm", "decide", "wait", "done", "failed", "exited", "hung"}
    /\ phase \in {"first", "loop", "summary"} /\ attempt \in 1..2 /\ resp \in Reply
    /\ hist \in Seq(Entry) /\ msg \in Text
    /\ ntools \in 0..session.tools /\ malformed \in 0..2 /\ tokens \in 0..session.tokens
    /\ stop \in {"no", "tokens", "tools", "repeat"}
    /\ DOMAIN sent \subseteq DOMAIN hist /\ \A i \in DOMAIN sent : sent[i] \in Forms
    /\ edits \in Nat /\ recs \in Nat

\* The tools a session has: the ctx_* faces are what a managed one is examined on.
Offered == IF HasCm THEN {"ctx"} ELSE Tools

\* What the loop knows at each of its steps: a tool call is under budget, and
\* after a stop only the summary is left.
Steps ==
    /\ cm.mode = session.mode
    /\ pc = "decide" /\ resp.kind = "tool" => resp.tool \in Offered \cup {"ghost"}
    /\ pc = "wait" => ntools < session.tools /\ phase # "summary"
    /\ stop # "no" => phase = "summary"

\* The tool calls: each redirects over an older one, and only the one the loop
\* waits for captures the output.
Redirected ==
    /\ calls \in Seq(CallRecord) /\ sysout \in 0..Len(calls)
    /\ \A c \in DOMAIN calls :
          /\ calls[c].tool \in Offered /\ calls[c].over < c /\ calls[c].saved <= Len(calls)
          /\ calls[c].captures => pc = "wait" /\ c = Len(calls) /\ calls[c].st # "over"
    /\ pc = "wait" => calls # <<>>

\* The calls that were given up and still hold, or wait for, a thread.
GivenUp == {c \in DOMAIN calls : /\ calls[c].st # "over"
                                 /\ pc \in {"wait", "exited"} => c < Len(calls)}

\* The breaker counts at least the calls given up.
Wedged ==
    /\ wedges \in [AllTools -> 0..WedgeLimit]
    /\ \A t \in AllTools : Cardinality({c \in GivenUp : calls[c].tool = t}) <= wedges[t]
    /\ pc = "wait" => wedges[calls[Len(calls)].tool] < WedgeLimit

-----------------------------------------------------------------------------
(*                     The context-management session                      *)

Elided == {"placeholder", "derived_host"}

\* A list of n elements, whatever they are.
ListOf(f, n) == n \in Nat /\ f = [b \in 1..n |-> f[b]]

\* A block is a record, a session a record with a list of blocks.
IsBlock(k) ==
    k = [kind |-> k.kind, text |-> k.text, len |-> k.len, pinned |-> k.pinned, idx |-> k.idx,
         form |-> k.form, to |-> k.to, sources |-> k.sources, freed |-> k.freed]

IsSession(s) ==
    /\ s = [mode |-> s.mode, assembly |-> s.assembly, named |-> s.named, owner |-> s.owner,
            harvested |-> s.harvested, turn |-> s.turn, blocks |-> s.blocks,
            seenUser |-> s.seenUser, policyStrikes |-> s.policyStrikes,
            policyFailures |-> s.policyFailures, policyDisabled |-> s.policyDisabled,
            assemblyFailures |-> s.assemblyFailures, assemblyDisabled |-> s.assemblyDisabled,
            degraded |-> s.degraded, views |-> s.views, violations |-> s.violations,
            uncounted |-> s.uncounted, refusals |-> s.refusals]
    /\ ListOf(s.blocks, Len(s.blocks))
    /\ \A b \in Blocks(s) : IsBlock(s.blocks[b])

\* The values of the blocks, for a history of n entries.
BlocksTyped(s, n) ==
    \A b \in Blocks(s) :
        /\ s.blocks[b].form \in Forms /\ s.blocks[b].kind \in Kinds
        /\ s.blocks[b].to \in 0..Len(s.blocks) /\ s.blocks[b].idx \in 0..n
        /\ s.blocks[b].sources \subseteq 1..b - 1
        /\ s.blocks[b].pinned \in BOOLEAN /\ s.blocks[b].freed \in BOOLEAN

\* A consumed derived block is pinned, shown nowhere, and consumed once.
ConsumedOnce(s) ==
    \A d, e \in Blocks(s) :
        s.blocks[d].kind = "derived" /\ ~s.blocks[d].freed /\ d \in s.blocks[e].sources =>
            /\ s.blocks[d].pinned
            /\ \A b \in Blocks(s) : s.blocks[b].to # d /\ (d \in s.blocks[b].sources => b = e)

ViewOK(s, n) == IsSession(s) /\ BlocksTyped(s, n) /\ ConsumedOnce(s)

\* Every refusal is counted, as a violation or past the cap.
Tally(s) ==
    /\ s.violations \in Nat /\ s.uncounted \in Nat
    /\ s.violations + s.uncounted = s.refusals

\* The books of the context manager, with the step the loop is at: a policy only
\* runs while it is on, a named assembly while it is given and on, and a turn is
\* sent with its brief.
Books ==
    /\ cm.views \in Nat /\ Tally(cm)
    /\ cm.policyStrikes \in Nat /\ cm.policyFailures \in Nat /\ cm.assemblyFailures \in Nat
    /\ cm.policyStrikes <= cm.policyFailures
    /\ cm.policyStrikes <= Strikes /\ (~cm.policyDisabled => cm.policyStrikes < Strikes)
    /\ cm.policyDisabled => cm.policyFailures >= Strikes
    /\ cm.assemblyFailures <= Strikes /\ (~cm.assemblyDisabled => cm.assemblyFailures < Strikes)
    /\ pc = "policy" => cm.mode = "custom" /\ ~cm.policyDisabled
    /\ InAssembly => cm.assembly # "none" /\ ~cm.assemblyDisabled
    /\ AuditedTurns

\* The texts of the history: each reply is told from all others by its place,
\* and only a reply lacks the header.
Heard ==
    /\ \A i \in DOMAIN hist : ~hist[i].text.hdr => hist[i].text.n = 98 + i
    /\ hist # <<>> => ~hist[Len(hist)].text.hdr
    /\ msg.hdr /\ msg.quotes = 0

\* A session whose window WindowIsSent speaks of; Keyed below shows that it has
\* all its texts.
Windowed ==
    /\ cm.mode \in {"slice", "compact_conservative"} /\ cm.assembly = "none"
    /\ edits = 0 /\ \A i \in DOMAIN hist : hist[i].text.quotes = 0 /\ HasText(hist[i])

\* The copies of the history are its window.
CopiesWindowed ==
    pc = "llm" /\ Windowed => \A i \in DOMAIN hist :
        IF i + WindowK > Len(hist) + 1 THEN sent[i] = "full"
        ELSE hist[i].text.len >= DropFloor /\ i # 1 => sent[i] \in {"placeholder", "excerpt"}

\* What block b of such a session is: the b-th entry of the history xs, or the
\* outgoing text x behind it, elided once WindowK newer ones are registered.
Mirrors(s, b, xs, x) ==
    LET k == s.blocks[b] IN
    /\ k.kind = "turn_output" /\ k.text = (IF b \in DOMAIN xs THEN xs[b].text ELSE x)
    /\ k.len = k.text.len /\ (k.pinned <=> b = 1)
    /\ k.idx = IF b < Len(s.blocks) THEN b ELSE 0
    /\ k.form \in {"full", "placeholder", "excerpt", "dedup"}
    /\ k.form = "dedup" => k.text.hdr
    /\ b + WindowK > Len(s.blocks) => k.form = "full"
    /\ b + WindowK <= Len(s.blocks) /\ b # 1 /\ k.len >= DropFloor
         => k.form \in {"placeholder", "excerpt"}

MirrorOf(s, n, xs, x) ==
    /\ Len(s.blocks) = n /\ (s.seenUser <=> n > 0)
    /\ \A b \in 1..n : Mirrors(s, b, xs, x)

\* Its blocks are the history without the reply not yet registered, and while the
\* model is asked, all of the history with the outgoing text.
Mirror ==
    Windowed => /\ pc = "llm" => MirrorOf(cm, Len(hist) + 1, hist, msg)
                /\ pc \in {"seam", "preset", "decide", "wait"} =>
                     MirrorOf(cm, IF hist = <<>> THEN 0 ELSE Len(hist) - 1, hist, msg)

IInv ==
    /\ Types /\ Steps /\ Redirected /\ Wedged /\ ViewOK(cm, Len(hist)) /\ Books
    /\ Heard /\ Mirror /\ CopiesWindowed

\* What every method on blocks keeps: all but blocks, and what pins promise.
SameControl(s, t) == t = [s EXCEPT !.blocks = t.blocks, !.seenUser = t.seenUser]
PinsKept(s, t) ==
    \A b \in Blocks(s) :
        s.blocks[b].pinned /\ s.blocks[b].to = 0 /\ s.blocks[b].form \notin Elided =>
            t.blocks[b].form \notin Elided
Kept(s, t) == SameControl(s, t) /\ PinsKept(s, t)

\* How a method that consumes no derived block may change one.
Touched(k, l) ==
    /\ IsBlock(l) /\ l.kind = k.kind /\ l.sources = k.sources
    /\ l.to \in {k.to, 0} /\ l.form \in Forms
    /\ l.pinned \in BOOLEAN /\ l.freed \in BOOLEAN
    /\ k.freed => l.freed
    /\ k.pinned /\ ~l.freed => l.pinned
    /\ k.pinned /\ k.to = 0 /\ k.form \notin Elided => l.form \notin Elided

\* A block as it is registered.
Newborn(k) ==
    /\ IsBlock(k) /\ k.kind \in Kinds /\ k.form = "full" /\ k.to = 0 /\ k.sources = {}
    /\ k.pinned \in BOOLEAN /\ k.freed = FALSE

\* A nonempty set of naturals has a least element.
LEMMA LeastNatural ==
    ASSUME NEW T, T \subseteq Nat, T # {}
    PROVE  \E x \in T : \A y \in T : x <= y
<1> DEFINE R == OpToRel(<, Nat)
<1>1. \A x, y \in Nat : y < x => <<y, x>> \in R
  BY DEF OpToRel
<1>2. IsWellFoundedOn(R, Nat)
  BY NatLessThanWellFounded
<1> HIDE DEF R
<1>3. PICK x \in T : \A y \in T : <<y, x>> \notin R
  BY <1>2, WFMin
<1>4. \A y \in T : x \in Nat /\ y \in Nat /\ ~(y < x)
  BY <1>3, <1>1
<1>5. \A y \in T : x <= y
  BY <1>4
<1> QED BY <1>5

\* A bounded set of numbers has a greatest element.
LEMMA MaxIn ==
    ASSUME NEW n \in Nat, NEW S, S \subseteq 1..n, S # {}
    PROVE  Max(S) \in S /\ \A y \in S : y <= Max(S)
<1> DEFINE gaps == {n - y : y \in S}
<1>1. \A y \in S : y \in Nat /\ y <= n /\ n - y \in Nat
  OBVIOUS
<1>2. gaps \subseteq Nat /\ gaps # {}
  BY <1>1
<1>3. PICK k \in gaps : \A j \in gaps : k <= j
  <2> HIDE DEF gaps
  <2> QED BY <1>2, LeastNatural
<1>4. PICK x \in S : k = n - x
  OBVIOUS
<1>5. \A y \in S : x >= y
  <2> TAKE y \in S
  <2>1. n - y \in gaps
    OBVIOUS
  <2> QED BY <1>1, <1>3, <1>4, <2>1
<1>6. Max(S) \in S /\ \A y \in S : Max(S) >= y
  BY <1>4, <1>5 DEF Max
<1> QED BY <1>1, <1>6

\* A function on an interval from 1 is a list of that length.
LEMMA ListLen ==
    ASSUME NEW n, NEW f, ListOf(f, n)
    PROVE  n \in Nat /\ Len(f) = n /\ DOMAIN f = 1..n
<1> DEFINE any == {f[b] : b \in 1..n}
<1>1. f \in [1..n -> any] /\ n \in Nat
  BY DEF ListOf
<1>2. f \in Seq(any)
  <2> HIDE DEF any
  <2> QED BY <1>1, SeqDef
<1>3. DOMAIN f = 1..n
  BY <1>1
<1> HIDE DEF any
<1> QED BY <1>1, <1>2, <1>3, LenProperties

\* Appending to a list, position by position.
LEMMA ListAppend ==
    ASSUME NEW n, NEW f, ListOf(f, n), NEW e
    PROVE  /\ Append(f, e) = [b \in 1..(n + 1) |-> IF b \in 1..n THEN f[b] ELSE e]
           /\ Len(f) = n
<1> DEFINE any == {f[b] : b \in 1..n} \cup {e}
<1>1. f \in [1..n -> any] /\ e \in any /\ n \in Nat
  BY DEF ListOf
<1>2. Len(f) = n
  BY ListLen
<1>3. f \in Seq(any)
  <2> HIDE DEF any
  <2> QED BY <1>1, SeqDef
<1> HIDE DEF any
<1>4. /\ Append(f, e) \in Seq(any) /\ Len(Append(f, e)) = n + 1
      /\ \A b \in 1..n : Append(f, e)[b] = f[b]
      /\ Append(f, e)[n + 1] = e
  BY <1>1, <1>2, <1>3, AppendProperties
<1>5. Append(f, e) = [b \in 1..(n + 1) |-> Append(f, e)[b]]
  BY <1>4, LenProperties
<1>6. \A b \in 1..(n + 1) : Append(f, e)[b] = IF b \in 1..n THEN f[b] ELSE e
  BY <1>1, <1>4
<1> QED BY <1>1, <1>2, <1>5, <1>6

\* A method that touches blocks and registers new ones keeps the view sound.
LEMMA Evolves ==
    ASSUME NEW n \in Nat, NEW s, ViewOK(s, n), NEW t, SameControl(s, t),
           NEW m, ListOf(t.blocks, m), m >= Len(s.blocks),
           \A b \in Blocks(s) : Touched(s.blocks[b], t.blocks[b]),
           \A b \in (1..m) \ Blocks(s) : Newborn(t.blocks[b]),
           \A b \in 1..m : t.blocks[b].idx \in 0..n
    PROVE  ViewOK(t, n) /\ Kept(s, t) /\ Len(t.blocks) = m
<1>1. /\ m \in Nat /\ Len(t.blocks) = m /\ Blocks(t) = 1..m
      /\ Blocks(s) \subseteq 1..m /\ Len(s.blocks) \in Nat
  BY ListLen DEF Blocks, ViewOK, IsSession
<1>2. IsSession(t)
  <2>1. t = [mode |-> s.mode, assembly |-> s.assembly, named |-> s.named, owner |-> s.owner,
             harvested |-> s.harvested, turn |-> s.turn, blocks |-> t.blocks,
             seenUser |-> t.seenUser, policyStrikes |-> s.policyStrikes,
             policyFailures |-> s.policyFailures, policyDisabled |-> s.policyDisabled,
             assemblyFailures |-> s.assemblyFailures, assemblyDisabled |-> s.assemblyDisabled,
             degraded |-> s.degraded, views |-> s.views, violations |-> s.violations,
             uncounted |-> s.uncounted, refusals |-> s.refusals]
    BY DEF SameControl, ViewOK, IsSession
  <2>2. \A b \in 1..m : IsBlock(t.blocks[b])
    BY <1>1 DEF Touched, Newborn
  <2> QED BY <1>1, <2>1, <2>2 DEF IsSession
<1>3. BlocksTyped(t, n)
  <2> SUFFICES ASSUME NEW b \in 1..m
               PROVE  /\ t.blocks[b].form \in Forms /\ t.blocks[b].kind \in Kinds
                      /\ t.blocks[b].to \in 0..m /\ t.blocks[b].idx \in 0..n
                      /\ t.blocks[b].sources \subseteq 1..b - 1
                      /\ t.blocks[b].pinned \in BOOLEAN /\ t.blocks[b].freed \in BOOLEAN
    BY <1>1 DEF BlocksTyped
  <2>1. CASE b \in Blocks(s)
    <3>1. Touched(s.blocks[b], t.blocks[b])
      BY <2>1
    <3>2. /\ s.blocks[b].kind \in Kinds /\ s.blocks[b].sources \subseteq 1..b - 1
          /\ s.blocks[b].to \in 0..Len(s.blocks)
      BY <2>1 DEF ViewOK, BlocksTyped
    <3> QED BY <1>1, <3>1, <3>2 DEF Touched
  <2>2. CASE b \notin Blocks(s)
    <3>1. Newborn(t.blocks[b])
      BY <2>2
    <3>2. t.blocks[b].form \in Forms /\ t.blocks[b].kind \in Kinds
      BY <3>1 DEF Newborn, Forms
    <3>3. t.blocks[b].to \in 0..m
      BY <3>1, <1>1 DEF Newborn
    <3>4. t.blocks[b].sources \subseteq 1..b - 1
      BY <3>1 DEF Newborn
    <3>5. t.blocks[b].pinned \in BOOLEAN /\ t.blocks[b].freed \in BOOLEAN
      BY <3>1 DEF Newborn
    <3> QED BY <3>2, <3>3, <3>4, <3>5
  <2> QED BY <2>1, <2>2
<1>4. ConsumedOnce(t)
  <2> SUFFICES ASSUME NEW d \in 1..m, NEW e \in 1..m, t.blocks[d].kind = "derived",
                      ~t.blocks[d].freed, d \in t.blocks[e].sources, NEW b \in 1..m
               PROVE  /\ t.blocks[d].pinned /\ t.blocks[b].to # d
                      /\ d \in t.blocks[b].sources => b = e
    BY <1>1 DEF ConsumedOnce
  <2>1. e \in Blocks(s) /\ d \in s.blocks[e].sources
    BY DEF Newborn, Touched
  <2>2. d \in Blocks(s)
    BY <2>1, <1>1 DEF ViewOK, BlocksTyped, Blocks
  <2>3. s.blocks[d].kind = "derived" /\ ~s.blocks[d].freed
    BY <2>2 DEF Touched
  <2>4. s.blocks[d].pinned /\ t.blocks[d].pinned
    BY <2>1, <2>2, <2>3 DEF ViewOK, ConsumedOnce, Touched
  <2>5. CASE b \in Blocks(s)
    <3>1. s.blocks[b].to # d /\ (d \in s.blocks[b].sources => b = e)
      BY <2>1, <2>2, <2>3, <2>5 DEF ViewOK, ConsumedOnce
    <3>2. Touched(s.blocks[b], t.blocks[b]) /\ d # 0
      BY <2>5
    <3>3. t.blocks[b].to # d
      BY <3>1, <3>2 DEF Touched
    <3>4. d \in t.blocks[b].sources => b = e
      BY <3>1, <3>2 DEF Touched
    <3> QED BY <2>4, <3>3, <3>4
  <2>6. CASE b \notin Blocks(s)
    <3>1. Newborn(t.blocks[b]) /\ d # 0
      BY <2>6
    <3>2. t.blocks[b].to # d /\ d \notin t.blocks[b].sources
      BY <3>1 DEF Newborn
    <3> QED BY <2>4, <3>2
  <2> QED BY <2>4, <2>5, <2>6
<1>5. PinsKept(s, t)
  BY DEF PinsKept, Touched
<1> QED BY <1>1, <1>2, <1>3, <1>4, <1>5 DEF ViewOK, Kept

-----------------------------------------------------------------------------
(*                              The methods                                *)

\* What a method on the blocks leaves alone.
LEMMA SameFields ==
    ASSUME NEW s, IsSession(s), NEW t, SameControl(s, t)
    PROVE  /\ t.mode = s.mode /\ t.assembly = s.assembly /\ t.named = s.named
           /\ t.owner = s.owner /\ t.harvested = s.harvested
           /\ t.policyStrikes = s.policyStrikes /\ t.policyFailures = s.policyFailures
           /\ t.policyDisabled = s.policyDisabled
           /\ t.assemblyFailures = s.assemblyFailures
           /\ t.assemblyDisabled = s.assemblyDisabled
           /\ t.views = s.views /\ t.violations = s.violations /\ t.refusals = s.refusals /\ t.uncounted = s.uncounted
<1> DEFINE bs == t.blocks
<1> DEFINE su == t.seenUser
<1>1. t = [s EXCEPT !.blocks = bs, !.seenUser = su]
  BY DEF SameControl
<1> HIDE DEF bs, su
<1> QED BY <1>1 DEF IsSession

\* A change of the other fields leaves the view what it was.
LEMMA SameView ==
    ASSUME NEW n, NEW s, ViewOK(s, n), NEW t, IsSession(t), t.blocks = s.blocks
    PROVE  ViewOK(t, n) /\ PinsKept(s, t)
<1> DEFINE bs == s.blocks
<1>1. t.blocks = bs /\ s.blocks = bs
  OBVIOUS
<1>2. BlocksTyped(s, n) /\ ConsumedOnce(s)
  BY DEF ViewOK
<1> HIDE DEF bs
<1>3. BlocksTyped(t, n)
  BY <1>1, <1>2 DEF BlocksTyped, Blocks
<1>4. ConsumedOnce(t)
  BY <1>1, <1>2 DEF ConsumedOnce, Blocks
<1>5. PinsKept(s, t)
  BY <1>1 DEF PinsKept
<1> QED BY <1>3, <1>4, <1>5 DEF ViewOK

\* A method that only touches blocks.
Rewritten(s, t, f) == t = [s EXCEPT !.blocks = f]

LEMMA Rewrites ==
    ASSUME NEW n \in Nat, NEW s, ViewOK(s, n), NEW f, ListOf(f, Len(s.blocks)),
           NEW t, Rewritten(s, t, f),
           \A b \in Blocks(s) : Touched(s.blocks[b], f[b]) /\ f[b].idx = s.blocks[b].idx
    PROVE  /\ ViewOK(t, n) /\ Kept(s, t) /\ t.blocks = f /\ t.seenUser = s.seenUser
           /\ Len(t.blocks) = Len(s.blocks)
<1> DEFINE m == Len(s.blocks)
<1>1. IsSession(s) /\ m \in Nat /\ Blocks(s) = 1..m
  BY ListLen DEF ViewOK, IsSession, Blocks
<1>2. t.blocks = f /\ t.seenUser = s.seenUser /\ t = [s EXCEPT !.blocks = f, !.seenUser = s.seenUser]
  BY <1>1 DEF IsSession, Rewritten
<1>3. SameControl(s, t)
  BY <1>2 DEF SameControl
<1>4. \A b \in Blocks(s) : Touched(s.blocks[b], t.blocks[b])
  BY <1>2
<1>5. \A b \in 1..m : t.blocks[b].idx \in 0..n
  BY <1>1, <1>2 DEF ViewOK, BlocksTyped
<1>6. \A b \in (1..m) \ Blocks(s) : Newborn(t.blocks[b])
  BY <1>1
<1>7. ListOf(t.blocks, m) /\ m >= Len(s.blocks)
  BY <1>1, <1>2
<1> HIDE DEF m
<1>8. ViewOK(t, n) /\ Kept(s, t) /\ Len(t.blocks) = m
  BY <1>3, <1>4, <1>5, <1>6, <1>7, Evolves
<1> QED BY <1>2, <1>8 DEF m

LEMMA SetFormKeeps ==
    ASSUME NEW n \in Nat, NEW s, ViewOK(s, n), NEW b \in Blocks(s), NEW form \in Forms,
           form \in Elided => ~s.blocks[b].pinned
    PROVE  ViewOK(SetForm(s, b, form, 0), n) /\ Kept(s, SetForm(s, b, form, 0))
<1> DEFINE k == [s.blocks[b] EXCEPT !.form = form, !.to = 0]
<1> DEFINE f == [c \in Blocks(s) |-> IF c = b THEN k ELSE s.blocks[c]]
<1>1. /\ IsSession(s) /\ Blocks(s) = 1..Len(s.blocks) /\ Len(s.blocks) \in Nat
      /\ DOMAIN s.blocks = Blocks(s)
  BY ListLen DEF ViewOK, IsSession, Blocks
<1>2. Rewritten(s, SetForm(s, b, form, 0), f)
  BY <1>1 DEF SetForm, IsSession, ListOf, Rewritten
<1>3. ListOf(f, Len(s.blocks))
  BY <1>1 DEF ListOf
<1>4. \A c \in Blocks(s) : Touched(s.blocks[c], f[c]) /\ f[c].idx = s.blocks[c].idx
  <2> TAKE c \in Blocks(s)
  <2>1. IsBlock(s.blocks[c]) /\ s.blocks[c].form \in Forms
        /\ s.blocks[c].pinned \in BOOLEAN /\ s.blocks[c].freed \in BOOLEAN
    BY DEF ViewOK, IsSession, BlocksTyped
  <2>2. CASE c = b
    <3>1. f[c] = [s.blocks[c] EXCEPT !.form = form, !.to = 0]
      BY <2>2
    <3> HIDE DEF f
    <3> QED BY <2>1, <2>2, <3>1 DEF Touched, IsBlock
  <2>3. CASE c # b
    <3>1. f[c] = s.blocks[c]
      BY <2>3
    <3> HIDE DEF f
    <3> QED BY <2>1, <3>1 DEF Touched
  <2> QED BY <2>2, <2>3
<1> HIDE DEF f, k
<1> QED BY <1>2, <1>3, <1>4, Rewrites

\* The single changes of a block that no promise forbids.
LEMMA Touches ==
    ASSUME NEW k, IsBlock(k), k.form \in Forms, k.pinned \in BOOLEAN, k.freed \in BOOLEAN
    PROVE  /\ Touched(k, k)
           /\ \A l \in {[k EXCEPT !.pinned = TRUE],
                       [k EXCEPT !.pinned = TRUE, !.to = 0],
                       [k EXCEPT !.pinned = FALSE, !.freed = TRUE]} :
                 Touched(k, l) /\ l.idx = k.idx
           /\ \A form \in Forms : \A l :
                 (form \in Elided => ~k.pinned) /\ l = [k EXCEPT !.form = form, !.to = 0]
                 => Touched(k, l) /\ l.idx = k.idx
<1>1. Touched(k, k)
  BY DEF Touched
<1>2. ASSUME NEW l, \/ l = [k EXCEPT !.pinned = TRUE]
                    \/ l = [k EXCEPT !.pinned = TRUE, !.to = 0]
                    \/ l = [k EXCEPT !.pinned = FALSE, !.freed = TRUE]
      PROVE  Touched(k, l) /\ l.idx = k.idx
  BY <1>2 DEF IsBlock, Touched
<1>3. ASSUME NEW form \in Forms, NEW l, form \in Elided => ~k.pinned,
             l = [k EXCEPT !.form = form, !.to = 0]
      PROVE  Touched(k, l) /\ l.idx = k.idx
  BY <1>3 DEF IsBlock, Touched
<1> QED BY <1>1, <1>2, <1>3

\* A method that rewrites one block.
LEMMA RewritesOne ==
    ASSUME NEW n \in Nat, NEW s, ViewOK(s, n), NEW b \in Blocks(s), NEW k,
           Touched(s.blocks[b], k), k.idx = s.blocks[b].idx,
           NEW t, Rewritten(s, t, [c \in Blocks(s) |-> IF c = b THEN k ELSE s.blocks[c]])
    PROVE  ViewOK(t, n) /\ Kept(s, t)
<1> DEFINE f == [c \in Blocks(s) |-> IF c = b THEN k ELSE s.blocks[c]]
<1>1. Blocks(s) = 1..Len(s.blocks) /\ Len(s.blocks) \in Nat
  BY ListLen DEF ViewOK, IsSession, Blocks
<1>2. ListOf(f, Len(s.blocks))
  BY <1>1 DEF ListOf
<1>3. \A c \in Blocks(s) : Touched(s.blocks[c], f[c]) /\ f[c].idx = s.blocks[c].idx
  <2> TAKE c \in Blocks(s)
  <2>1. IsBlock(s.blocks[c]) /\ s.blocks[c].form \in Forms
        /\ s.blocks[c].pinned \in BOOLEAN /\ s.blocks[c].freed \in BOOLEAN
    BY DEF ViewOK, IsSession, BlocksTyped
  <2>2. CASE c = b
    BY <2>2
  <2>3. CASE c # b
    <3>1. f[c] = s.blocks[c]
      BY <2>3
    <3> HIDE DEF f
    <3> QED BY <2>1, <3>1 DEF Touched
  <2> QED BY <2>2, <2>3
<1>4. Rewritten(s, t, f)
  OBVIOUS
<1> HIDE DEF f
<1> QED BY <1>2, <1>3, <1>4, Rewrites

LEMMA PinKeeps ==
    ASSUME NEW n \in Nat, NEW s, ViewOK(s, n), NEW b \in Blocks(s)
    PROVE  /\ LET t == [s EXCEPT !.blocks[b].pinned = TRUE] IN ViewOK(t, n) /\ Kept(s, t)
           /\ LET t == [s EXCEPT !.blocks[b].pinned = TRUE, !.blocks[b].to = 0]
              IN  ViewOK(t, n) /\ Kept(s, t)
           /\ LET t == [s EXCEPT !.blocks[b].pinned = FALSE, !.blocks[b].freed = TRUE]
              IN  ViewOK(t, n) /\ Kept(s, t)
<1>1. IsSession(s) /\ DOMAIN s.blocks = Blocks(s) /\ ListOf(s.blocks, Len(s.blocks))
  BY ListLen DEF ViewOK, IsSession, Blocks
<1>2. IsBlock(s.blocks[b]) /\ s.blocks[b].form \in Forms
      /\ s.blocks[b].pinned \in BOOLEAN /\ s.blocks[b].freed \in BOOLEAN
  BY DEF ViewOK, IsSession, BlocksTyped
<1>3. LET t == [s EXCEPT !.blocks[b].pinned = TRUE] IN ViewOK(t, n) /\ Kept(s, t)
  <2> DEFINE k == [s.blocks[b] EXCEPT !.pinned = TRUE]
  <2> DEFINE t == [s EXCEPT !.blocks[b].pinned = TRUE]
  <2>1. Touched(s.blocks[b], k) /\ k.idx = s.blocks[b].idx
    BY <1>2, Touches
  <2>2. Rewritten(s, t, [c \in Blocks(s) |-> IF c = b THEN k ELSE s.blocks[c]])
    BY <1>1 DEF Rewritten, IsSession, ListOf
  <2> HIDE DEF k, t
  <2>3. ViewOK(t, n) /\ Kept(s, t)
    BY <2>1, <2>2, RewritesOne
  <2> QED BY <2>3, SMTT(30) DEF t
<1>4. LET t == [s EXCEPT !.blocks[b].pinned = TRUE, !.blocks[b].to = 0]
      IN  ViewOK(t, n) /\ Kept(s, t)
  <2> DEFINE k == [s.blocks[b] EXCEPT !.pinned = TRUE, !.to = 0]
  <2> DEFINE t == [s EXCEPT !.blocks[b].pinned = TRUE, !.blocks[b].to = 0]
  <2>1. Touched(s.blocks[b], k) /\ k.idx = s.blocks[b].idx
    BY <1>2, Touches
  <2>2. Rewritten(s, t, [c \in Blocks(s) |-> IF c = b THEN k ELSE s.blocks[c]])
    BY <1>1 DEF Rewritten, IsSession, ListOf
  <2> HIDE DEF k, t
  <2>3. ViewOK(t, n) /\ Kept(s, t)
    BY <2>1, <2>2, RewritesOne
  <2> QED BY <2>3 DEF t
<1>5. LET t == [s EXCEPT !.blocks[b].pinned = FALSE, !.blocks[b].freed = TRUE]
      IN  ViewOK(t, n) /\ Kept(s, t)
  <2> DEFINE k == [s.blocks[b] EXCEPT !.pinned = FALSE, !.freed = TRUE]
  <2> DEFINE t == [s EXCEPT !.blocks[b].pinned = FALSE, !.blocks[b].freed = TRUE]
  <2>1. Touched(s.blocks[b], k) /\ k.idx = s.blocks[b].idx
    BY <1>2, Touches
  <2>2. Rewritten(s, t, [c \in Blocks(s) |-> IF c = b THEN k ELSE s.blocks[c]])
    BY <1>1 DEF Rewritten, IsSession, ListOf
  <2> HIDE DEF k, t
  <2>3. ViewOK(t, n) /\ Kept(s, t)
    BY <2>1, <2>2, RewritesOne
  <2> QED BY <2>3 DEF t
<1> QED BY <1>3, <1>4, <1>5

\* A stage restyles a block: it changes how it is shown, and elides no pinned one.
Restyled(k, l) ==
    /\ IsBlock(l) /\ l.form \in Forms /\ l.to \in {k.to, 0}
    /\ l.kind = k.kind /\ l.text = k.text /\ l.len = k.len /\ l.pinned = k.pinned
    /\ l.idx = k.idx /\ l.sources = k.sources /\ l.freed = k.freed
    /\ k.pinned /\ k.form \notin Elided => l.form \notin Elided

LEMMA SubstituteRestyles ==
    ASSUME NEW k, IsBlock(k), k.form \in Forms, NEW when, NEW form \in Forms,
           when /\ form \in Elided => ~k.pinned
    PROVE  Restyled(k, Substitute(k, when, form))
<1>1. CASE when
  <2>1. PICK l : l = [k EXCEPT !.form = form, !.to = 0]
    OBVIOUS
  <2>2. Substitute(k, when, form) = l
    BY <1>1, <2>1 DEF Substitute
  <2>3. /\ l.form = form /\ l.to = 0
        /\ l.kind = k.kind /\ l.text = k.text /\ l.len = k.len /\ l.pinned = k.pinned
        /\ l.idx = k.idx /\ l.sources = k.sources /\ l.freed = k.freed
    BY <2>1 DEF IsBlock
  <2>4. IsBlock(l)
    BY <2>1 DEF IsBlock
  <2> QED BY <1>1, <2>2, <2>3, <2>4 DEF Restyled
<1>2. CASE ~when
  BY <1>2 DEF Substitute, Restyled
<1> QED BY <1>1, <1>2

LEMMA RestyledTwice ==
    ASSUME NEW k, NEW l, NEW m, Restyled(k, l), Restyled(l, m)
    PROVE  Restyled(k, m)
BY DEF Restyled

LEMMA RestyledTouches ==
    ASSUME NEW k, NEW l, Restyled(k, l), k.pinned \in BOOLEAN, k.freed \in BOOLEAN
    PROVE  Touched(k, l) /\ l.idx = k.idx
BY DEF Restyled, Touched

LEMMA StagesRestyle ==
    ASSUME NEW k, IsBlock(k), k.form \in Forms, NEW mode
    PROVE  Restyled(k, StagesOf(mode, k))
<1>1. ASSUME NEW l, Restyled(k, l)
      PROVE  Restyled(k, window_defaults(l)) /\ Restyled(k, dedup_prefix(l))
  <2>1. IsBlock(l) /\ l.form \in Forms
    BY <1>1 DEF Restyled
  <2>2. Restyled(l, window_defaults(l))
    BY <2>1, SubstituteRestyles DEF window_defaults, Forms
  <2>3. Restyled(l, dedup_prefix(l))
    BY <2>1, SubstituteRestyles DEF dedup_prefix, Forms, Elided
  <2> QED BY <1>1, <2>2, <2>3, RestyledTwice
<1>2. Restyled(k, k)
  BY DEF Restyled
<1>3. Restyled(k, conservative_compaction(k))
  BY SubstituteRestyles DEF conservative_compaction, Forms, Elided
<1>4. Restyled(k, window_defaults(k))
  BY <1>1, <1>2
<1>5. Restyled(k, window_defaults(conservative_compaction(k)))
  BY <1>1, <1>3
<1>6. Restyled(k, dedup_prefix(window_defaults(k)))
  BY <1>1, <1>4
<1>7. Restyled(k, dedup_prefix(window_defaults(conservative_compaction(k))))
  BY <1>1, <1>5
<1> QED BY <1>2, <1>6, <1>7 DEF StagesOf

LEMMA StagesKeep ==
    ASSUME NEW n \in Nat, NEW s, ViewOK(s, n)
    PROVE  /\ ViewOK(Stages(s), n) /\ Kept(s, Stages(s))
           /\ Stages(s).seenUser = s.seenUser /\ Len(Stages(s).blocks) = Len(s.blocks)
           /\ \A b \in Blocks(s) : Stages(s).blocks[b] = IF b \in Older(s)
                                                         THEN StagesOf(s.mode, s.blocks[b])
                                                         ELSE s.blocks[b]
<1> DEFINE f == [b \in Blocks(s) |-> IF b \in Older(s) THEN StagesOf(s.mode, s.blocks[b])
                                     ELSE s.blocks[b]]
<1>1. IsSession(s) /\ DOMAIN s.blocks = Blocks(s) /\ ListOf(s.blocks, Len(s.blocks))
  BY ListLen DEF ViewOK, IsSession, Blocks
<1>2. Rewritten(s, Stages(s), f)
  BY <1>1 DEF Rewritten, Stages, IsSession
<1>3. ListOf(f, Len(s.blocks))
  BY <1>1 DEF ListOf, Blocks
<1>4. \A b \in Blocks(s) : Touched(s.blocks[b], f[b]) /\ f[b].idx = s.blocks[b].idx
  <2> TAKE b \in Blocks(s)
  <2>1. IsBlock(s.blocks[b]) /\ s.blocks[b].form \in Forms
        /\ s.blocks[b].pinned \in BOOLEAN /\ s.blocks[b].freed \in BOOLEAN
    BY DEF ViewOK, IsSession, BlocksTyped
  <2>2. Restyled(s.blocks[b], StagesOf(s.mode, s.blocks[b]))
    BY <2>1, StagesRestyle
  <2>3. CASE b \in Older(s)
    <3>1. f[b] = StagesOf(s.mode, s.blocks[b])
      BY <2>3, SMTT(30)
    <3> HIDE DEF f
    <3> QED BY <2>1, <2>2, <3>1, RestyledTouches
  <2>4. CASE b \notin Older(s)
    <3>1. f[b] = s.blocks[b]
      BY <2>4
    <3> HIDE DEF f
    <3> QED BY <2>1, <3>1, Touches
  <2> QED BY <2>3, <2>4
<1>5. \A b \in Blocks(s) : f[b] = IF b \in Older(s) THEN StagesOf(s.mode, s.blocks[b])
                                  ELSE s.blocks[b]
  OBVIOUS
<1> HIDE DEF f
<1> QED BY <1>2, <1>3, <1>4, <1>5, Rewrites

LEMMA NewBlockIsNewborn ==
    ASSUME NEW kind \in Kinds, NEW text, NEW len, NEW pinned \in BOOLEAN,
           NEW k, k = NewBlock(kind, text, len, pinned, {})
    PROVE  Newborn(k) /\ k.idx = 0 /\ k.text = text /\ k.kind = kind /\ k.len = len
           /\ k.pinned = pinned
<1>1. k = [kind |-> kind, text |-> text, len |-> len, pinned |-> pinned, idx |-> 0,
           form |-> "full", to |-> 0, sources |-> {}, freed |-> FALSE]
  BY DEF NewBlock
<1>2. /\ k.kind = kind /\ k.text = text /\ k.len = len /\ k.pinned = pinned /\ k.idx = 0
      /\ k.form = "full" /\ k.to = 0 /\ k.sources = {} /\ k.freed = FALSE
  BY <1>1
<1>3. IsBlock(k)
  BY <1>1, <1>2 DEF IsBlock
<1> QED BY <1>2, <1>3 DEF Newborn

\* Registering one block.
LEMMA RegistersOne ==
    ASSUME NEW n \in Nat, NEW s, ViewOK(s, n), NEW t, SameControl(s, t),
           NEW e, Newborn(e), e.idx = 0, t.blocks = Append(s.blocks, e)
    PROVE  /\ ViewOK(t, n) /\ Kept(s, t) /\ Len(t.blocks) = Len(s.blocks) + 1
           /\ \A b \in Blocks(s) : t.blocks[b] = s.blocks[b]
           /\ t.blocks[Len(s.blocks) + 1] = e
<1> DEFINE m == Len(s.blocks)
<1>1. /\ IsSession(s) /\ ListOf(s.blocks, m) /\ m \in Nat /\ Blocks(s) = 1..m
      /\ BlocksTyped(s, n)
  BY ListLen DEF ViewOK, IsSession, Blocks
<1>2. t.blocks = [b \in 1..(m + 1) |-> IF b \in 1..m THEN s.blocks[b] ELSE e]
  BY <1>1, ListAppend
<1>3. ListOf(t.blocks, m + 1) /\ (m + 1) \in Nat /\ m + 1 >= Len(s.blocks)
  BY <1>1, <1>2 DEF ListOf
<1>4. /\ \A b \in Blocks(s) : t.blocks[b] = s.blocks[b]
      /\ t.blocks[m + 1] = e
  BY <1>1, <1>2, SMTT(30)
<1>5. \A b \in Blocks(s) : Touched(s.blocks[b], t.blocks[b])
  <2> TAKE b \in Blocks(s)
  <2>1. IsBlock(s.blocks[b]) /\ s.blocks[b].form \in Forms
        /\ s.blocks[b].pinned \in BOOLEAN /\ s.blocks[b].freed \in BOOLEAN
    BY <1>1 DEF IsSession, BlocksTyped
  <2> QED BY <1>4, <2>1, Touches
<1>6. \A b \in (1..(m + 1)) \ Blocks(s) : Newborn(t.blocks[b])
  <2> TAKE b \in (1..(m + 1)) \ Blocks(s)
  <2>1. b = m + 1
    BY <1>1
  <2> QED BY <1>4, <2>1
<1>7. \A b \in 1..(m + 1) : t.blocks[b].idx \in 0..n
  <2> TAKE b \in 1..(m + 1)
  <2>1. CASE b \in Blocks(s)
    BY <1>1, <1>4, <2>1 DEF BlocksTyped
  <2>2. CASE b \notin Blocks(s)
    <3>1. b = m + 1
      BY <1>1, <2>2
    <3> QED BY <1>4, <3>1
  <2> QED BY <2>1, <2>2
<1> HIDE DEF m
<1>8. ViewOK(t, n) /\ Kept(s, t) /\ Len(t.blocks) = m + 1
  BY <1>3, <1>5, <1>6, <1>7, Evolves
<1> QED BY <1>4, <1>8 DEF m

LEMMA NoteKeeps ==
    ASSUME NEW n \in Nat, NEW s, ViewOK(s, n)
    PROVE  ViewOK(register_note(s), n) /\ Kept(s, register_note(s))
<1> PICK p \in BOOLEAN : p = TRUE
  OBVIOUS
<1>1. PICK e : e = NewBlock("note", NoText, MinCompactSave, p, {})
  OBVIOUS
<1>2. PICK t : t = register_note(s)
  OBVIOUS
<1>3. t = [s EXCEPT !.blocks = Append(s.blocks, e)] /\ IsSession(s)
  BY <1>1, <1>2 DEF register_note, Register, ViewOK
<1>4. t.blocks = Append(s.blocks, e) /\ t.seenUser = s.seenUser
      /\ t = [s EXCEPT !.blocks = t.blocks, !.seenUser = t.seenUser]
  BY <1>3 DEF IsSession
<1>5. SameControl(s, t)
  BY <1>4 DEF SameControl
<1>6. "note" \in Kinds
  BY DEF Kinds
<1>7. Newborn(e) /\ e.idx = 0
  <2> HIDE DEF MinCompactSave, NoText
  <2> QED BY ONLY <1>1, <1>6, p \in BOOLEAN, NewBlockIsNewborn
<1>8. t.blocks = Append(s.blocks, e)
  BY <1>4
<1>9. ViewOK(t, n) /\ Kept(s, t)
  BY <1>5, <1>7, <1>8, RegistersOne
<1> QED BY <1>2, <1>9

\* The view with the text x registered behind it.
OutgoingIn(s, x, t) ==
    /\ Len(t.blocks) = Len(s.blocks) + 1 /\ t.seenUser = TRUE
    /\ \A b \in Blocks(s) : t.blocks[b] = s.blocks[b]
    /\ LET e == t.blocks[Len(s.blocks) + 1]
       IN  /\ Newborn(e) /\ e.idx = 0 /\ e.text = x /\ e.kind = "turn_output"
           /\ e.len = x.len /\ (e.pinned <=> ~s.seenUser)

LEMMA OutgoingKeeps ==
    ASSUME NEW n \in Nat, NEW s, ViewOK(s, n), NEW x, NEW t, t = register_outgoing(s, x)
    PROVE  ViewOK(t, n) /\ Kept(s, t) /\ OutgoingIn(s, x, t)
<1>1. PICK p \in BOOLEAN : p <=> ~s.seenUser
  OBVIOUS
<1>2. PICK e : e = NewBlock("turn_output", x, x.len, p, {})
  OBVIOUS
<1>4. (~s.seenUser) = p
  BY <1>1
<1>5. t = [[s EXCEPT !.blocks = Append(s.blocks, e)] EXCEPT !.seenUser = TRUE] /\ IsSession(s)
  BY <1>2, <1>4 DEF register_outgoing, Register, ViewOK
<1>6. t.blocks = Append(s.blocks, e) /\ t.seenUser = TRUE
      /\ t = [s EXCEPT !.blocks = t.blocks, !.seenUser = t.seenUser]
  BY <1>5 DEF IsSession
<1>7. SameControl(s, t)
  BY <1>6 DEF SameControl
<1>8. "turn_output" \in Kinds
  BY DEF Kinds
<1>9. Newborn(e) /\ e.idx = 0 /\ e.text = x /\ e.kind = "turn_output" /\ e.len = x.len
      /\ e.pinned = p
  BY <1>2, <1>8, NewBlockIsNewborn
<1>10. t.blocks = Append(s.blocks, e) /\ t.seenUser = TRUE /\ Newborn(e) /\ e.idx = 0
  BY <1>6, <1>9
<1>11. /\ ViewOK(t, n) /\ Kept(s, t) /\ Len(t.blocks) = Len(s.blocks) + 1
       /\ \A b \in Blocks(s) : t.blocks[b] = s.blocks[b]
       /\ t.blocks[Len(s.blocks) + 1] = e
  BY ONLY n \in Nat, ViewOK(s, n), <1>7, <1>10, RegistersOne, ZenonT(60)
<1>12. e.pinned <=> ~s.seenUser
  BY <1>1, <1>9
<1> QED BY <1>9, <1>10, <1>11, <1>12 DEF OutgoingIn

\* How merge and template change a block k of the view, the x-th, when they
\* consume used into the derived block d.
Consumed(k, l, x, d, used) ==
    /\ IsBlock(l) /\ l.kind = k.kind /\ l.sources = k.sources
    /\ l.freed = k.freed /\ l.idx = k.idx
    /\ l.form \in Forms /\ l.to \in {k.to, d} \ used
    /\ l.pinned \in BOOLEAN /\ (l.pinned <=> k.pinned \/ x \in used)

ConsumedAs(k, l, x, d, used, refs) ==
    LET p == k.pinned \/ x \in used
    IN  \/ x \in refs /\ l = [k EXCEPT !.form = "derived_host", !.to = d, !.pinned = p]
        \/ /\ x \in refs \/ k.to \in used
           /\ l = [k EXCEPT !.form = "placeholder", !.to = d, !.pinned = p]
        \/ l = [k EXCEPT !.pinned = p] /\ k.to \notin used

LEMMA ConsumedBlock ==
    ASSUME NEW k, IsBlock(k), k.form \in Forms, k.pinned \in BOOLEAN,
           NEW x, NEW d, NEW used, d \notin used, 0 \notin used, NEW refs, NEW l,
           ConsumedAs(k, l, x, d, used, refs)
    PROVE  /\ Consumed(k, l, x, d, used)
           /\ x \notin refs /\ k.to = 0 => l.form = k.form
<1> PICK p : p = (k.pinned \/ x \in used)
  OBVIOUS
<1>1. p \in BOOLEAN /\ (p <=> k.pinned \/ x \in used)
  OBVIOUS
<1>2. CASE x \in refs /\ l = [k EXCEPT !.form = "derived_host", !.to = d, !.pinned = p]
  <2>1. /\ l.kind = k.kind /\ l.sources = k.sources /\ l.freed = k.freed /\ l.idx = k.idx
        /\ l.form = "derived_host" /\ l.to = d /\ l.pinned = p
    BY <1>2 DEF IsBlock
  <2>2. IsBlock(l)
    BY <1>2 DEF IsBlock
  <2>3. l.form \in Forms
    BY <2>1 DEF Forms
  <2> QED BY <1>1, <1>2, <2>1, <2>2, <2>3 DEF Consumed
<1>3. CASE /\ x \in refs \/ k.to \in used
           /\ l = [k EXCEPT !.form = "placeholder", !.to = d, !.pinned = p]
  <2>1. /\ l.kind = k.kind /\ l.sources = k.sources /\ l.freed = k.freed /\ l.idx = k.idx
        /\ l.form = "placeholder" /\ l.to = d /\ l.pinned = p
    BY <1>3 DEF IsBlock
  <2>2. IsBlock(l)
    BY <1>3 DEF IsBlock
  <2>3. l.form \in Forms
    BY <2>1 DEF Forms
  <2> QED BY <1>1, <1>3, <2>1, <2>2, <2>3 DEF Consumed
<1>4. CASE l = [k EXCEPT !.pinned = p] /\ k.to \notin used
  <2>1. /\ l.kind = k.kind /\ l.sources = k.sources /\ l.freed = k.freed /\ l.idx = k.idx
        /\ l.form = k.form /\ l.to = k.to /\ l.pinned = p
    BY <1>4 DEF IsBlock
  <2>2. IsBlock(l)
    BY <1>4 DEF IsBlock
  <2> QED BY <1>1, <1>4, <2>1, <2>2 DEF Consumed
<1> QED BY <1>2, <1>3, <1>4 DEF ConsumedAs

\* What merge and template make of the view s when they consume the blocks b and c:
\* the derived block e, the d-th, is hosted at one of the two.
Merged(s, t, b, c, d, used, e, host) ==
    /\ d = Len(s.blocks) + 1 /\ host \in {b, c}
    /\ used = {x \in {b, c} : s.blocks[x].kind = "derived"}
    /\ IsBlock(e) /\ e.kind = "derived" /\ e.form = "full" /\ e.to = 0
    /\ e.sources = {b, c} /\ e.pinned = FALSE /\ e.freed = FALSE /\ e.idx = 0
    /\ SameControl(s, t) /\ ListOf(t.blocks, d) /\ t.blocks[d] = e
    /\ \A x \in Blocks(s) : ConsumedAs(s.blocks[x], t.blocks[x], x, d, used, {b, c})

LEMMA ConsumeMerges ==
    ASSUME NEW n \in Nat, NEW s, ViewOK(s, n), NEW b \in Blocks(s), NEW c \in Blocks(s),
           NEW strategy, Hosts(s, <<b, c>>) # {}
    PROVE  \E d, used, e, host : Merged(s, Consume(s, <<b, c>>, strategy), b, c, d, used, e, host)
<1> DEFINE refs == <<b, c>>
<1> DEFINE d == Len(s.blocks) + 1
<1> DEFINE host == refs[Min(Hosts(s, refs))]
<1> DEFINE used == {x \in Range(refs) : s.blocks[x].kind = "derived"}
<1> DEFINE e == NewBlock("derived", NoText, DerivedLen(s, refs, strategy), FALSE, Range(refs))
<1> DEFINE minted == Register(s, e)
<1> DEFINE kept(x) == [minted.blocks[x] EXCEPT !.pinned = @ \/ x \in used]
<1> DEFINE moved(x) == \/ x \in Range(refs) /\ minted.blocks[x].idx # 0
                       \/ minted.blocks[x].to \in used
<1> DEFINE g(x) ==
      IF x = host THEN [kept(x) EXCEPT !.form = "derived_host", !.to = d]
      ELSE IF moved(x) THEN [kept(x) EXCEPT !.form = "placeholder", !.to = d]
      ELSE kept(x)
<1> DEFINE t == Consume(s, refs, strategy)
<1>1. t = [minted EXCEPT !.blocks = [x \in DOMAIN minted.blocks |-> g(x)]]
  BY DEF Consume
<1>2. Range(refs) = {b, c}
  BY DEF Range
<1>3. host \in {b, c}
  <2>1. Hosts(s, refs) \subseteq {1, 2}
    BY DEF Hosts
  <2>2. \E i \in Hosts(s, refs) : \A j \in Hosts(s, refs) : i <= j
    BY <2>1
  <2>3. Min(Hosts(s, refs)) \in Hosts(s, refs)
    BY <2>2 DEF Min
  <2>4. Min(Hosts(s, refs)) \in {1, 2}
    BY <2>1, <2>3
  <2> QED BY <2>4
<1>4. used = {x \in {b, c} : s.blocks[x].kind = "derived"}
  BY <1>2
<1>5. /\ IsBlock(e) /\ e.kind = "derived" /\ e.form = "full" /\ e.to = 0
      /\ e.sources = {b, c} /\ e.pinned = FALSE /\ e.freed = FALSE /\ e.idx = 0
  <2> DEFINE dl == DerivedLen(s, refs, strategy)
  <2>1. e = [kind |-> "derived", text |-> NoText, len |-> dl, pinned |-> FALSE, idx |-> 0,
             form |-> "full", to |-> 0, sources |-> {b, c}, freed |-> FALSE]
    BY <1>2 DEF NewBlock
  <2> HIDE DEF dl, e
  <2> QED BY <2>1 DEF IsBlock
<1>6. IsSession(s) /\ ListOf(s.blocks, Len(s.blocks)) /\ Len(s.blocks) \in Nat
  BY ListLen DEF ViewOK, IsSession
<1>7. minted = [s EXCEPT !.blocks = Append(s.blocks, e)]
  BY DEF Register
<1> HIDE DEF e, minted, host, used, t, g
<1>8. minted.blocks = Append(s.blocks, e)
  BY <1>6, <1>7 DEF IsSession
<1>9. /\ DOMAIN minted.blocks = 1..d /\ d \in 1..d /\ d \notin Blocks(s)
      /\ \A x \in Blocks(s) : x \in 1..d /\ x # d /\ minted.blocks[x] = s.blocks[x]
      /\ minted.blocks[d] = e /\ d \in Nat
  <2>1. Append(s.blocks, e) = [x \in 1..d |-> IF x \in Blocks(s) THEN s.blocks[x] ELSE e]
    BY <1>6, ListAppend DEF Blocks
  <2>2. d \notin Blocks(s) /\ d \in 1..d /\ \A x \in Blocks(s) : x \in 1..d /\ x # d
    BY <1>6 DEF Blocks
  <2> QED BY <1>6, <1>8, <2>1, <2>2
<1> HIDE DEF d, refs
<1>10. t = [s EXCEPT !.blocks = [x \in 1..d |-> g(x)]]
  BY <1>1, <1>6, <1>7, <1>9 DEF IsSession
<1>11. /\ t.blocks = [x \in 1..d |-> g(x)]
       /\ t = [s EXCEPT !.blocks = t.blocks, !.seenUser = t.seenUser]
  BY <1>6, <1>10 DEF IsSession
<1>12. SameControl(s, t)
  BY <1>11 DEF SameControl
<1>13. ListOf(t.blocks, d)
  BY <1>9, <1>11 DEF ListOf
<1>14. t.blocks[d] = e
  <2>1. d \notin used /\ 0 \notin used /\ d # host
    BY <1>3, <1>4, <1>6, <1>9 DEF Blocks
  <2>2. PICK l : l = [e EXCEPT !.pinned = FALSE]
    OBVIOUS
  <2>3. l = e
    BY <1>5, <2>2 DEF IsBlock
  <2>4. (e.pinned \/ d \in used) = FALSE
    BY <1>5, <2>1
  <2>5. g(d) = l
    BY <1>2, <1>5, <1>9, <2>1, <2>2, <2>4 DEF g
  <2> QED BY <1>9, <1>11, <2>3, <2>5
<1>15. \A x \in Blocks(s) : ConsumedAs(s.blocks[x], t.blocks[x], x, d, used, {b, c})
  <2> TAKE x \in Blocks(s)
  <2> DEFINE k == s.blocks[x]
  <2> DEFINE p == k.pinned \/ x \in used
  <2>1. IsBlock(k) /\ t.blocks[x] = g(x) /\ minted.blocks[x] = k
    BY <1>6, <1>9, <1>11 DEF IsSession, Blocks
  <2>2. PICK q : q = [k EXCEPT !.pinned = p]
    OBVIOUS
  <2>3. kept(x) = q
    BY <2>1, <2>2
  <2> HIDE DEF k, p
  <2>4. /\ [q EXCEPT !.form = "derived_host", !.to = d]
             = [k EXCEPT !.form = "derived_host", !.to = d, !.pinned = p]
        /\ [q EXCEPT !.form = "placeholder", !.to = d]
             = [k EXCEPT !.form = "placeholder", !.to = d, !.pinned = p]
    BY <2>1, <2>2 DEF IsBlock
  <2>5. g(x) = IF x = host THEN [q EXCEPT !.form = "derived_host", !.to = d]
               ELSE IF (x \in {b, c} /\ k.idx # 0) \/ k.to \in used
               THEN [q EXCEPT !.form = "placeholder", !.to = d]
               ELSE q
    BY <1>2, <2>1, <2>3 DEF g
  <2> QED BY <1>3, <2>1, <2>2, <2>4, <2>5 DEF k, p, ConsumedAs
<1>16. Merged(s, t, b, c, d, used, e, host)
  BY <1>3, <1>4, <1>5, <1>12, <1>13, <1>14, <1>15 DEF Merged, d
<1> QED BY <1>16 DEF t, refs

\* merge and template keep the view sound when they consume droppable blocks.
LEMMA MergeKeeps ==
    ASSUME NEW n \in Nat, NEW s, ViewOK(s, n), NEW b \in Blocks(s), NEW c \in Blocks(s),
           ~s.blocks[b].pinned, ~s.blocks[c].pinned,
           NEW t, NEW d, NEW used, NEW e, NEW host, Merged(s, t, b, c, d, used, e, host)
    PROVE  ViewOK(t, n) /\ Kept(s, t)
<1> DEFINE m == Len(s.blocks)
<1>1. /\ IsSession(s) /\ m \in Nat /\ Blocks(s) = 1..m /\ d = m + 1
      /\ BlocksTyped(s, n) /\ ConsumedOnce(s)
  BY ListLen DEF ViewOK, IsSession, Blocks, Merged
<1>2. Len(t.blocks) = d /\ Blocks(t) = 1..d /\ 1..d = Blocks(s) \cup {d} /\ d \notin Blocks(s)
  <2>1. Len(t.blocks) = d
    BY ListLen DEF Merged
  <2> QED BY <1>1, <2>1 DEF Blocks
<1>3. /\ t.blocks[d] = e /\ SameControl(s, t) /\ ListOf(t.blocks, d)
      /\ IsBlock(e) /\ e.kind = "derived" /\ e.form = "full" /\ e.to = 0
      /\ e.sources = {b, c} /\ e.pinned = FALSE /\ e.freed = FALSE /\ e.idx = 0
      /\ used = {x \in {b, c} : s.blocks[x].kind = "derived"}
  BY DEF Merged
<1>4. d \notin used /\ 0 \notin used /\ used \subseteq {b, c}
  BY <1>1, <1>3
<1>5. ASSUME NEW x \in Blocks(s)
      PROVE  /\ Consumed(s.blocks[x], t.blocks[x], x, d, used)
             /\ s.blocks[x].pinned /\ s.blocks[x].to = 0 => t.blocks[x].form = s.blocks[x].form
  <2>1. /\ IsBlock(s.blocks[x]) /\ s.blocks[x].form \in Forms /\ s.blocks[x].pinned \in BOOLEAN
        /\ ConsumedAs(s.blocks[x], t.blocks[x], x, d, used, {b, c})
    BY <1>1 DEF IsSession, BlocksTyped, Merged
  <2>2. x \in {b, c} => ~s.blocks[x].pinned
    OBVIOUS
  <2> QED BY <1>4, <2>1, <2>2, ConsumedBlock
<1>6. IsSession(t)
  <2>1. t = [mode |-> s.mode, assembly |-> s.assembly, named |-> s.named, owner |-> s.owner,
             harvested |-> s.harvested, turn |-> s.turn, blocks |-> t.blocks,
             seenUser |-> t.seenUser, policyStrikes |-> s.policyStrikes,
             policyFailures |-> s.policyFailures, policyDisabled |-> s.policyDisabled,
             assemblyFailures |-> s.assemblyFailures, assemblyDisabled |-> s.assemblyDisabled,
             degraded |-> s.degraded, views |-> s.views, violations |-> s.violations,
             uncounted |-> s.uncounted, refusals |-> s.refusals]
    BY <1>1, <1>3 DEF SameControl, IsSession
  <2>2. \A x \in 1..d : IsBlock(t.blocks[x])
    BY <1>2, <1>3, <1>5 DEF Consumed
  <2>3. PICK bs : bs = t.blocks
    OBVIOUS
  <2>4. PICK su : su = t.seenUser
    OBVIOUS
  <2>5. t = [mode |-> s.mode, assembly |-> s.assembly, named |-> s.named, owner |-> s.owner,
             harvested |-> s.harvested, turn |-> s.turn, blocks |-> bs,
             seenUser |-> su, policyStrikes |-> s.policyStrikes,
             policyFailures |-> s.policyFailures, policyDisabled |-> s.policyDisabled,
             assemblyFailures |-> s.assemblyFailures, assemblyDisabled |-> s.assemblyDisabled,
             degraded |-> s.degraded, views |-> s.views, violations |-> s.violations,
             uncounted |-> s.uncounted, refusals |-> s.refusals]
    BY <2>1, <2>3, <2>4
  <2> QED BY <1>2, <1>3, <2>2, <2>5 DEF IsSession
<1>7. BlocksTyped(t, n)
  <2> SUFFICES ASSUME NEW x \in 1..d
               PROVE  /\ t.blocks[x].form \in Forms /\ t.blocks[x].kind \in Kinds
                      /\ t.blocks[x].to \in 0..d /\ t.blocks[x].idx \in 0..n
                      /\ t.blocks[x].sources \subseteq 1..x - 1
                      /\ t.blocks[x].pinned \in BOOLEAN /\ t.blocks[x].freed \in BOOLEAN
    BY <1>2 DEF BlocksTyped
  <2>1. CASE x \in Blocks(s)
    <3>1. Consumed(s.blocks[x], t.blocks[x], x, d, used)
      BY <1>5, <2>1
    <3>2. /\ s.blocks[x].kind \in Kinds /\ s.blocks[x].sources \subseteq 1..x - 1
          /\ s.blocks[x].to \in 0..m /\ s.blocks[x].freed \in BOOLEAN
          /\ s.blocks[x].idx \in 0..n
      BY <1>1, <2>1 DEF BlocksTyped
    <3>3. t.blocks[x].to \in 0..d
      <4>1. t.blocks[x].to \in {s.blocks[x].to, d}
        BY <3>1 DEF Consumed
      <4>2. m \in Nat /\ d = m + 1 /\ s.blocks[x].to \in 0..m
        BY <1>1, <3>2
      <4> HIDE DEF m
      <4> QED BY <4>1, <4>2
    <3>4. /\ t.blocks[x].form \in Forms /\ t.blocks[x].pinned \in BOOLEAN
          /\ t.blocks[x].kind = s.blocks[x].kind /\ t.blocks[x].idx = s.blocks[x].idx
          /\ t.blocks[x].sources = s.blocks[x].sources
          /\ t.blocks[x].freed = s.blocks[x].freed
      BY <3>1 DEF Consumed
    <3> QED BY <3>2, <3>3, <3>4
  <2>2. CASE x = d
    <3>1. t.blocks[x] = e
      BY <1>3, <2>2
    <3>2. e.form \in Forms /\ e.kind \in Kinds
      BY <1>3 DEF Forms, Kinds
    <3>3. e.sources \subseteq 1..x - 1
      BY <1>1, <1>3, <2>2
    <3>4. e.to \in 0..d /\ e.idx \in 0..n
      BY <1>1, <1>3
    <3>5. e.pinned \in BOOLEAN /\ e.freed \in BOOLEAN
      BY <1>3
    <3> QED BY <3>1, <3>2, <3>3, <3>4, <3>5
  <2> QED BY <1>2, <2>1, <2>2
<1>8. ConsumedOnce(t)
  <2> SUFFICES ASSUME NEW x \in 1..d, NEW y \in 1..d, t.blocks[x].kind = "derived",
                      ~t.blocks[x].freed, x \in t.blocks[y].sources, NEW z \in 1..d
               PROVE  /\ t.blocks[x].pinned /\ t.blocks[z].to # x
                      /\ x \in t.blocks[z].sources => z = y
    BY <1>2 DEF ConsumedOnce
  <2>1. \A v \in Blocks(s) : /\ t.blocks[v].sources = s.blocks[v].sources
                             /\ t.blocks[v].sources \subseteq Blocks(s)
    BY <1>1, <1>5 DEF Consumed, BlocksTyped
  <2>2. x \in Blocks(s) /\ x # d /\ x # 0
    <3>1. x \in Blocks(s)
      <4>1. CASE y = d
        BY <1>3, <4>1
      <4>2. CASE y \in Blocks(s)
        BY <2>1, <4>2
      <4> QED BY <1>2, <4>1, <4>2
    <3> QED BY <1>1, <1>2, <3>1
  <2>3. s.blocks[x].kind = "derived" /\ ~s.blocks[x].freed
    BY <1>5, <2>2 DEF Consumed
  <2>4. CASE y = d
    <3>1. x \in used
      BY <1>3, <2>3, <2>4
    <3>2. t.blocks[x].pinned
      BY <1>5, <2>2, <3>1 DEF Consumed
    <3>3. t.blocks[z].to # x
      <4>1. CASE z = d
        BY <1>3, <2>2, <4>1
      <4>2. CASE z \in Blocks(s)
        <5>1. Consumed(s.blocks[z], t.blocks[z], z, d, used)
          BY <1>5, <4>2
        <5> QED BY <3>1, <5>1 DEF Consumed
      <4> QED BY <1>2, <4>1, <4>2
    <3>4. x \in t.blocks[z].sources => z = y
      <4>1. CASE z \in Blocks(s) /\ x \in t.blocks[z].sources
        <5>1. x \in s.blocks[z].sources
          BY <2>1, <4>1
        <5>2. s.blocks[x].pinned
          BY <1>1, <2>2, <2>3, <4>1, <5>1 DEF ConsumedOnce
        <5> QED BY <1>4, <3>1, <5>2
      <4> QED BY <1>2, <2>4, <4>1
    <3> QED BY <3>2, <3>3, <3>4
  <2>5. CASE y \in Blocks(s)
    <3>1. x \in s.blocks[y].sources
      BY <2>1, <2>5
    <3>2. /\ s.blocks[x].pinned
          /\ \A v \in Blocks(s) : s.blocks[v].to # x /\ (x \in s.blocks[v].sources => v = y)
      BY <1>1, <2>2, <2>3, <2>5, <3>1 DEF ConsumedOnce
    <3>3. t.blocks[x].pinned
      BY <1>5, <2>2, <3>2 DEF Consumed
    <3>4. CASE z = d
      <4>1. x \notin {b, c}
        BY <3>2
      <4> QED BY <1>3, <2>2, <3>3, <3>4, <4>1
    <3>5. CASE z \in Blocks(s)
      <4>1. Consumed(s.blocks[z], t.blocks[z], z, d, used)
        BY <1>5, <3>5
      <4>2. t.blocks[z].to # x
        BY <2>2, <3>2, <3>5, <4>1 DEF Consumed
      <4>3. x \in t.blocks[z].sources => z = y
        BY <2>1, <3>2, <3>5
      <4> QED BY <3>3, <4>2, <4>3
    <3> QED BY <1>2, <3>4, <3>5
  <2> QED BY <1>2, <2>4, <2>5
<1>9. PinsKept(s, t)
  BY <1>5 DEF PinsKept
<1> QED BY <1>3, <1>6, <1>7, <1>8, <1>9 DEF ViewOK, Kept

LEMMA ExcerptKeeps ==
    ASSUME NEW n \in Nat, NEW s, ViewOK(s, n), NEW b \in Blocks(s)
    PROVE  ViewOK(compact(s, <<b>>, "excerpt"), n) /\ Kept(s, compact(s, <<b>>, "excerpt"))
<1>1. IsSession(s) /\ DOMAIN s.blocks = Blocks(s) /\ ListOf(s.blocks, Len(s.blocks))
  BY ListLen DEF ViewOK, IsSession, Blocks
<1>2. IsBlock(s.blocks[b]) /\ s.blocks[b].form \in Forms
      /\ s.blocks[b].pinned \in BOOLEAN /\ s.blocks[b].freed \in BOOLEAN
  BY DEF ViewOK, IsSession, BlocksTyped
<1>3. Range(<<b>>) = {b}
  BY DEF Range
<1> DEFINE k == [s.blocks[b] EXCEPT !.form = "excerpt", !.to = 0]
<1> DEFINE t == compact(s, <<b>>, "excerpt")
<1>4. "excerpt" \in Forms /\ "excerpt" \notin Elided
  BY DEF Forms, Elided
<1>5. Touched(s.blocks[b], k) /\ k.idx = s.blocks[b].idx
  <2>1. PICK kb : kb = s.blocks[b]
    OBVIOUS
  <2>2. PICK form : form = "excerpt"
    OBVIOUS
  <2>3. k = [kb EXCEPT !.form = form, !.to = 0] /\ form \in Forms /\ form \notin Elided
    BY <1>4, <2>1, <2>2
  <2> HIDE DEF k
  <2>4. IsBlock(kb) /\ kb.form \in Forms /\ kb.pinned \in BOOLEAN /\ kb.freed \in BOOLEAN
    BY <1>2, <2>1, SMTT(30)
  <2>5. Touched(kb, k) /\ k.idx = kb.idx
    BY ONLY <2>3, <2>4, Touches
  <2> QED BY <2>1, <2>5
<1>6. t = [s EXCEPT !.blocks = [c \in Blocks(s) |-> IF c = b THEN k ELSE s.blocks[c]]]
  BY <1>1, <1>3 DEF compact
<1>7. Rewritten(s, t, [c \in Blocks(s) |-> IF c = b THEN k ELSE s.blocks[c]])
  BY <1>6 DEF Rewritten
<1> HIDE DEF k, t
<1>8. ViewOK(t, n) /\ Kept(s, t)
  BY <1>5, <1>7, RewritesOne
<1> QED BY <1>8 DEF t

\* An operation on the view, on blocks that it has.
IsOp(s, face, op) ==
    \/ op.op \in {"drop", "pin", "pin_note", "unpin"} /\ \E b \in Blocks(s) : op.refs = <<b>>
    \/ /\ op.op \in {"substitute", "fetch"} /\ op.form \in {"full", "placeholder"}
       /\ \E b \in Blocks(s) : op.refs = <<b>>
    \/ op.op = "compact" /\ op.form = "excerpt" /\ \E b \in Blocks(s) : op.refs = <<b>>
    \/ op.op = "compact" /\ op.form = "merge" /\ \E b, c \in Blocks(s) : op.refs = <<b, c>>
    \/ op.op \in {"note", "call"}
    \/ op.op = "drop" /\ face = "agent"

LEMMA EffectKeeps ==
    ASSUME NEW n \in Nat, NEW s, ViewOK(s, n), NEW face, NEW op, IsOp(s, face, op),
           face_allows(face, op), Valid(s, op)
    PROVE  ViewOK(Effect(s, op), n) /\ Kept(s, Effect(s, op))
<1>1. CASE op.op = "drop"
  <2>1. face # "agent"
    BY <1>1 DEF face_allows, AGENT_FACES
  <2>2. PICK b \in Blocks(s) : op.refs = <<b>>
    BY <1>1, <2>1 DEF IsOp
  <2>3. Effect(s, op) = SetForm(s, b, "placeholder", 0) /\ Droppable(s, b)
    BY <1>1, <2>2 DEF Effect, Valid
  <2>4. "placeholder" \in Forms /\ ~s.blocks[b].pinned
    BY <2>3 DEF Forms, Droppable
  <2> QED BY <2>3, <2>4, SetFormKeeps
<1>2. CASE op.op \in {"substitute", "fetch"}
  <2>1. PICK b \in Blocks(s) : op.refs = <<b>>
    BY <1>2 DEF IsOp
  <2>2. op.form \in {"full", "placeholder"}
    BY <1>2 DEF IsOp
  <2>3. Effect(s, op) = SetForm(s, b, op.form, 0)
    BY <1>2, <2>1 DEF Effect
  <2>4. op.form = "placeholder" => ~s.blocks[b].pinned
    BY <1>2, <2>1 DEF Valid, Substitutable
  <2>5. op.form \in Forms /\ (op.form \in Elided => ~s.blocks[b].pinned)
    BY <2>2, <2>4 DEF Forms, Elided
  <2> QED BY <2>3, <2>5, SetFormKeeps
<1>3. CASE op.op = "compact"
  <2>1. Effect(s, op) = compact(s, op.refs, op.form) /\ Compactable(s, op.refs, op.form)
    BY <1>3 DEF Effect, Valid
  <2>2. CASE op.form = "excerpt"
    <3>1. PICK b \in Blocks(s) : op.refs = <<b>>
      BY <1>3, <2>2 DEF IsOp
    <3> QED BY <2>1, <2>2, <3>1, ExcerptKeeps
  <2>3. CASE op.form = "merge"
    <3>1. PICK b, c \in Blocks(s) : op.refs = <<b, c>>
      BY <1>3, <2>3 DEF IsOp
    <3>2. Range(<<b, c>>) = {b, c}
      BY DEF Range
    <3>3. Effect(s, op) = Consume(s, <<b, c>>, "merge")
      BY <2>1, <2>3, <3>1 DEF compact
    <3>4. Hosts(s, <<b, c>>) # {} /\ ~s.blocks[b].pinned /\ ~s.blocks[c].pinned
      BY <2>1, <2>3, <3>1, <3>2 DEF Compactable, Droppable
    <3>5. PICK d, used, e, host :
               Merged(s, Consume(s, <<b, c>>, "merge"), b, c, d, used, e, host)
      BY <3>4, ConsumeMerges
    <3>6. PICK t : t = Consume(s, <<b, c>>, "merge")
      OBVIOUS
    <3>7. ViewOK(t, n) /\ Kept(s, t)
      BY <3>4, <3>5, <3>6, MergeKeeps
    <3> QED BY <3>3, <3>6, <3>7
  <2> QED BY <1>3, <2>2, <2>3 DEF IsOp
<1>4. CASE op.op \in {"pin", "pin_note", "unpin"}
  <2>1. PICK b \in Blocks(s) : op.refs = <<b>>
    BY <1>4 DEF IsOp
  <2>2. op.refs[1] = b
    BY <2>1, SMTT(30)
  <2>3. CASE op.op = "pin"
    BY <2>2, <2>3, PinKeeps, ZenonT(60) DEF Effect
  <2>4. CASE op.op = "pin_note"
    BY <2>2, <2>4, PinKeeps DEF Effect
  <2>5. CASE op.op = "unpin"
    BY <2>2, <2>5, PinKeeps DEF Effect
  <2> QED BY <1>4, <2>3, <2>4, <2>5
<1>5. CASE op.op = "note"
  <2>1. Effect(s, op) = register_note(s)
    BY <1>5 DEF Effect
  <2> QED BY <2>1, NoteKeeps
<1>6. CASE op.op = "call"
  <2>1. Effect(s, op) = s
    BY <1>6 DEF Effect
  <2>2. SameControl(s, s)
    BY DEF SameControl, ViewOK, IsSession
  <2>3. PinsKept(s, s)
    BY DEF PinsKept
  <2> QED BY <2>1, <2>2, <2>3 DEF Kept
<1> QED BY <1>1, <1>2, <1>3, <1>4, <1>5, <1>6 DEF IsOp

\* What an operation leaves alone; a refusal is counted twice, in the same step.
SameBooks(s, t) ==
    /\ t.mode = s.mode /\ t.assembly = s.assembly /\ t.views = s.views
    /\ t.policyStrikes = s.policyStrikes /\ t.policyFailures = s.policyFailures
    /\ t.policyDisabled = s.policyDisabled
    /\ t.assemblyFailures = s.assemblyFailures /\ t.assemblyDisabled = s.assemblyDisabled

LEMMA HandleKeeps ==
    ASSUME NEW n \in Nat, NEW s, ViewOK(s, n), NEW face, NEW budget, NEW op, IsOp(s, face, op),
           Tally(s)
    PROVE  LET t == Handle(s, face, budget, op)
           IN  /\ ViewOK(t, n) /\ PinsKept(s, t) /\ SameBooks(s, t)
               /\ Tally(t)
<1>1. PICK t : t = Handle(s, face, budget, op)
  OBVIOUS
<1>2. CASE t = Effect(s, op) /\ face_allows(face, op) /\ Valid(s, op)
  <2>1. ViewOK(t, n) /\ Kept(s, t)
    BY <1>2, EffectKeeps
  <2>2. SameBooks(s, t) /\ Tally(t)
    BY <2>1, SameFields DEF SameBooks, ViewOK, Kept, Tally
  <2> QED BY <1>1, <2>1, <2>2 DEF Kept
<1>3. CASE t = Refuse(s, face)
  <2>1. IsSession(s)
    BY DEF ViewOK
  <2>2. CASE face = "policy"
    <3>1. t = [[s EXCEPT !.refusals = s.refusals + 1] EXCEPT !.violations = s.violations + 1]
      BY <1>3, <2>1, <2>2 DEF Refuse, note_violation, IsSession
    <3>2. PICK r, v : r = s.refusals + 1 /\ v = s.violations + 1
      OBVIOUS
    <3>3. t = [[s EXCEPT !.refusals = r] EXCEPT !.violations = v]
      BY <3>1, <3>2
    <3>4. IsSession(t) /\ t.blocks = s.blocks /\ SameBooks(s, t)
          /\ t.refusals = r /\ t.violations = v /\ t.uncounted = s.uncounted
      BY <2>1, <3>3 DEF IsSession, SameBooks, Blocks
    <3>5. Tally(t)
      BY <3>2, <3>4 DEF Tally
    <3> QED BY <1>1, <3>4, <3>5, SameView
  <2>3. CASE face # "policy"
    <3>1. t = [s EXCEPT !.refusals = s.refusals]
      BY <1>3, <2>3 DEF Refuse
    <3>2. t = s
      BY <2>1, <3>1 DEF IsSession
    <3>3. PinsKept(s, s) /\ SameBooks(s, s)
      BY DEF PinsKept, SameBooks
    <3> QED BY <1>1, <3>2, <3>3
  <2> QED BY <2>2, <2>3
<1> QED BY <1>1, <1>2, <1>3 DEF Handle

\* What register_history makes of the history h: the entry behind a new block, the
\* text of a block, and the entries a block is bound to.
EntryOf(s, h, b) ==
    CHOOSE i \in NewEntries(s, h) :
        Cardinality({j \in NewEntries(s, h) : j <= i}) = b - Len(s.blocks)
TextOf(s, h, b) == IF b \in Blocks(s) THEN s.blocks[b].text ELSE h[EntryOf(s, h, b)].text
EntriesOf(s, h, b) ==
    {i \in DOMAIN h :
       /\ HasText(h[i])
       /\ IF BindsTo(s, h[i]) # {} THEN b = Max(BindsTo(s, h[i]))
          ELSE b \notin Blocks(s) /\ TextOf(s, h, b) = h[i].text}
BoundTo(s, h, b, k) == k.idx = IF EntriesOf(s, h, b) = {} THEN 0 ELSE Max(EntriesOf(s, h, b))

HistoryIn(s, h, t) ==
    /\ Cardinality(NewEntries(s, h)) \in Nat
    /\ Len(t.blocks) = Len(s.blocks) + Cardinality(NewEntries(s, h))
    /\ t.seenUser = (s.seenUser \/ NewEntries(s, h) # {})
    /\ \A b \in Blocks(s) :
          \E x : /\ t.blocks[b] = [s.blocks[b] EXCEPT !.idx = x]
                /\ x = IF EntriesOf(s, h, b) = {} THEN s.blocks[b].idx
                       ELSE Max(EntriesOf(s, h, b))
    /\ \A b \in (Len(s.blocks) + 1)..(Len(s.blocks) + Cardinality(NewEntries(s, h))) :
          LET k == t.blocks[b]
          IN  /\ Newborn(k) /\ k.kind = "turn_output"
              /\ k.text = h[EntryOf(s, h, b)].text /\ k.len = h[EntryOf(s, h, b)].text.len
              /\ k.pinned <=> ~s.seenUser /\ EntryOf(s, h, b) = Min(NewEntries(s, h))
              /\ BoundTo(s, h, b, k)

LEMMA HistoryKeeps ==
    ASSUME NEW n \in Nat, NEW s, ViewOK(s, n), NEW h, DOMAIN h = 1..n,
           NEW t, t = register_history(s, h)
    PROVE  ViewOK(t, n) /\ Kept(s, t) /\ HistoryIn(s, h, t)
<1> DEFINE new == NewEntries(s, h)
<1> DEFINE m == Len(s.blocks)
<1> DEFINE N == Cardinality(new)
<1> DEFINE entry(b) == CHOOSE i \in new : Cardinality({j \in new : j <= i}) = b - m
<1> DEFINE block(i) == NewBlock("turn_output", h[i].text, h[i].text.len,
                                ~s.seenUser /\ i = Min(new), {})
<1> DEFINE all(b) == IF b \in Blocks(s) THEN s.blocks[b] ELSE block(entry(b))
<1> DEFINE ents(b) == {i \in DOMAIN h :
                         /\ HasText(h[i])
                         /\ IF BindsTo(s, h[i]) # {} THEN b = Max(BindsTo(s, h[i]))
                            ELSE b \notin Blocks(s) /\ all(b).text = h[i].text}
<1> DEFINE bound(b) == [all(b) EXCEPT !.idx = IF ents(b) = {} THEN @ ELSE Max(ents(b))]
<1>1. t = [s EXCEPT !.seenUser = @ \/ new # {}, !.blocks = [b \in 1..m + N |-> bound(b)]]
  BY DEF register_history
<1>2. /\ IsSession(s) /\ ListOf(s.blocks, m) /\ m \in Nat /\ Blocks(s) = 1..m
      /\ BlocksTyped(s, n)
  BY ListLen DEF ViewOK, IsSession, Blocks
<1>3. new \subseteq 1..n
  BY DEF NewEntries
<1>4. N \in Nat
  <2>1. IsFiniteSet(1..n)
    BY FS_Interval
  <2> HIDE DEF new
  <2>2. IsFiniteSet(new)
    BY <1>3, <2>1, FS_Subset
  <2> QED BY <2>2, FS_CardinalityType
<1> DEFINE text(b) == IF b \in Blocks(s) THEN s.blocks[b].text ELSE h[entry(b)].text
<1> DEFINE entries(b) == {i \in DOMAIN h :
                            /\ HasText(h[i])
                            /\ IF BindsTo(s, h[i]) # {} THEN b = Max(BindsTo(s, h[i]))
                               ELSE b \notin Blocks(s) /\ text(b) = h[i].text}
<1>5. \A b : block(entry(b)).text = h[entry(b)].text
  BY DEF NewBlock
<1>6. \A b : all(b).text = text(b)
  BY <1>5
<1>7. \A b : ents(b) = entries(b) /\ entries(b) \subseteq 1..n
  <2> HIDE DEF all, text
  <2> QED BY <1>6
<1>8. \A b : ~(entries(b) = {}) => Max(entries(b)) \in 0..n
  <2> TAKE b
  <2>1. entries(b) \subseteq 1..n
    BY <1>7
  <2> HIDE DEF entries
  <2> SUFFICES ASSUME entries(b) # {} PROVE Max(entries(b)) \in 0..n
    OBVIOUS
  <2>2. Max(entries(b)) \in entries(b)
    BY <2>1, MaxIn, SMTT(30)
  <2> QED BY <2>1, <2>2
<1>9. t = [s EXCEPT !.seenUser = (s.seenUser \/ new # {}), !.blocks = [b \in 1..m + N |-> bound(b)]]
  BY <1>1
<1> HIDE DEF bound, ents, all, block, N, new
<1> DEFINE su == s.seenUser \/ new # {}
<1> DEFINE bs == [b \in 1..m + N |-> bound(b)]
<1>10. t = [s EXCEPT !.seenUser = su, !.blocks = bs]
  BY <1>9
<1> HIDE DEF su, bs
<1>11. t.blocks = bs /\ t.seenUser = su /\ t = [s EXCEPT !.blocks = t.blocks, !.seenUser = t.seenUser]
  BY <1>2, <1>10 DEF IsSession
<1>12. SameControl(s, t)
  BY <1>11 DEF SameControl
<1>13. m + N \in Nat /\ m + N >= Len(s.blocks)
  BY <1>2, <1>4
<1>14. ListOf(t.blocks, m + N) /\ \A b \in 1..m + N : t.blocks[b] = bound(b)
  BY <1>11, <1>13 DEF ListOf, bs
<1>15. ASSUME NEW b \in Blocks(s)
       PROVE  /\ t.blocks[b] = [s.blocks[b] EXCEPT
                   !.idx = IF entries(b) = {} THEN @ ELSE Max(entries(b))]
              /\ Touched(s.blocks[b], t.blocks[b]) /\ t.blocks[b].idx \in 0..n
  <2>1. b \in 1..m + N /\ t.blocks[b] = bound(b)
    BY <1>2, <1>4, <1>14
  <2>2. all(b) = s.blocks[b]
    BY DEF all
  <2>3. PICK k : k = s.blocks[b]
    OBVIOUS
  <2>4. PICK x : x = IF entries(b) = {} THEN k.idx ELSE Max(entries(b))
    OBVIOUS
  <2>5. bound(b) = [k EXCEPT !.idx = x]
    BY <1>7, <2>2, <2>3, <2>4 DEF bound
  <2>6. /\ IsBlock(k) /\ k.form \in Forms /\ k.pinned \in BOOLEAN /\ k.freed \in BOOLEAN
        /\ k.idx \in 0..n
    BY <1>2, <2>3 DEF IsSession, BlocksTyped
  <2>7. x \in 0..n
    BY <1>8, <2>4, <2>6
  <2>8. PICK l : l = [k EXCEPT !.idx = x]
    OBVIOUS
  <2>9. IsBlock(l) /\ l.idx = x /\ l.kind = k.kind /\ l.sources = k.sources /\ l.to = k.to
        /\ l.form = k.form /\ l.pinned = k.pinned /\ l.freed = k.freed
    BY <2>6, <2>8 DEF IsBlock
  <2>10. Touched(k, l)
    BY <2>6, <2>9 DEF Touched
  <2>11. t.blocks[b] = l /\ l.idx \in 0..n
    BY <2>1, <2>5, <2>7, <2>8, <2>9
  <2>12. t.blocks[b] = [s.blocks[b] EXCEPT !.idx = IF entries(b) = {} THEN @ ELSE Max(entries(b))]
    BY <2>3, <2>4, <2>8, <2>11
  <2> QED BY <2>3, <2>10, <2>11, <2>12
<1>16. ASSUME NEW b \in (1..m + N) \ Blocks(s)
       PROVE  LET k == t.blocks[b]
              IN  /\ Newborn(k) /\ k.kind = "turn_output" /\ k.text = h[entry(b)].text
                  /\ k.len = h[entry(b)].text.len
                  /\ k.pinned <=> ~s.seenUser /\ entry(b) = Min(new)
                  /\ k.idx = IF entries(b) = {} THEN 0 ELSE Max(entries(b))
                  /\ k.idx \in 0..n
  <2>1. t.blocks[b] = bound(b)
    BY <1>14
  <2>2. PICK i : i = entry(b)
    OBVIOUS
  <2>3. PICK p \in BOOLEAN : p = (~s.seenUser /\ i = Min(new))
    OBVIOUS
  <2>4. PICK k : k = NewBlock("turn_output", h[i].text, h[i].text.len, p, {})
    OBVIOUS
  <2>5. all(b) = k
    BY <2>2, <2>3, <2>4 DEF all, block
  <2>6. "turn_output" \in Kinds
    BY DEF Kinds
  <2>7. Newborn(k) /\ k.idx = 0 /\ k.text = h[i].text /\ k.kind = "turn_output"
        /\ k.len = h[i].text.len /\ k.pinned = p
    <3> DEFINE tx == h[i].text
    <3> DEFINE ln == h[i].text.len
    <3>1. k = NewBlock("turn_output", tx, ln, p, {})
      BY <2>4
    <3> HIDE DEF tx, ln
    <3>2. Newborn(k) /\ k.idx = 0 /\ k.text = tx /\ k.kind = "turn_output"
          /\ k.len = ln /\ k.pinned = p
      BY ONLY <2>6, <3>1, p \in BOOLEAN, NewBlockIsNewborn
    <3> QED BY <3>2 DEF tx, ln
  <2>8. PICK x : x = IF entries(b) = {} THEN 0 ELSE Max(entries(b))
    OBVIOUS
  <2>9. x \in 0..n
    <3> HIDE DEF entries
    <3>1. CASE entries(b) = {}
      BY <2>8, <3>1
    <3>2. CASE entries(b) # {}
      BY <1>8, <2>8, <3>2
    <3> QED BY <3>1, <3>2
  <2>10. PICK l : l = [k EXCEPT !.idx = x]
    OBVIOUS
  <2>11. bound(b) = l
    BY <1>7, <2>5, <2>7, <2>8, <2>10 DEF bound
  <2>12. IsBlock(k)
    BY <2>7 DEF Newborn
  <2>13. IsBlock(l) /\ l.idx = x /\ l.kind = k.kind /\ l.sources = k.sources /\ l.to = k.to
         /\ l.form = k.form /\ l.pinned = k.pinned /\ l.freed = k.freed /\ l.text = k.text
         /\ l.len = k.len
    BY <2>10, <2>12 DEF IsBlock
  <2>14. Newborn(l)
    BY <2>7, <2>13 DEF Newborn
  <2>15. l.text = h[i].text /\ l.len = h[i].text.len /\ (l.pinned <=> ~s.seenUser /\ i = Min(new))
         /\ l.kind = "turn_output"
    BY <2>3, <2>7, <2>13
  <2>16. t.blocks[b] = l
    BY <2>1, <2>11
  <2> HIDE DEF entry, entries
  <2> QED BY <2>2, <2>8, <2>9, <2>13, <2>14, <2>15, <2>16
<1>17. ViewOK(t, n) /\ Kept(s, t) /\ Len(t.blocks) = m + N
  <2>1. \A b \in Blocks(s) : Touched(s.blocks[b], t.blocks[b])
    BY <1>15
  <2>2. \A b \in (1..m + N) \ Blocks(s) : Newborn(t.blocks[b])
    BY <1>16
  <2>3. \A b \in 1..m + N : t.blocks[b].idx \in 0..n
    BY <1>15, <1>16
  <2>4. PICK M : M = m + N
    OBVIOUS
  <2>5. /\ ListOf(t.blocks, M) /\ M >= Len(s.blocks)
        /\ \A b \in (1..M) \ Blocks(s) : Newborn(t.blocks[b])
        /\ \A b \in 1..M : t.blocks[b].idx \in 0..n
    BY <1>13, <1>14, <2>2, <2>3, <2>4
  <2>6. ViewOK(t, n) /\ Kept(s, t) /\ Len(t.blocks) = M
    BY <1>12, <2>1, <2>5, Evolves
  <2> QED BY <2>4, <2>6
<1>18. \A b \in (m + 1)..(m + N) : b \in (1..m + N) \ Blocks(s)
  BY <1>2, <1>4
<1>19. t.seenUser = (s.seenUser \/ new # {})
  BY <1>11 DEF su
<1>20. \A b : entry(b) = EntryOf(s, h, b) /\ entries(b) = EntriesOf(s, h, b)
  BY DEF new, EntryOf, EntriesOf, TextOf
<1> HIDE DEF entry, entries, text
<1>21. ASSUME NEW b \in Blocks(s)
       PROVE  \E x : /\ t.blocks[b] = [s.blocks[b] EXCEPT !.idx = x]
                    /\ x = IF EntriesOf(s, h, b) = {} THEN s.blocks[b].idx
                           ELSE Max(EntriesOf(s, h, b))
  <2>1. PICK x : x = IF EntriesOf(s, h, b) = {} THEN s.blocks[b].idx ELSE Max(EntriesOf(s, h, b))
    OBVIOUS
  <2>2. t.blocks[b] = [s.blocks[b] EXCEPT !.idx = x]
    BY <1>15, <1>20, <2>1
  <2> QED BY <2>1, <2>2
<1>22. ASSUME NEW b \in (m + 1)..(m + N)
       PROVE  LET k == t.blocks[b]
              IN  /\ Newborn(k) /\ k.kind = "turn_output"
                  /\ k.text = h[EntryOf(s, h, b)].text /\ k.len = h[EntryOf(s, h, b)].text.len
                  /\ k.pinned <=> ~s.seenUser /\ EntryOf(s, h, b) = Min(new)
                  /\ BoundTo(s, h, b, k)
  BY <1>16, <1>18, <1>20 DEF BoundTo
<1> QED BY <1>4, <1>17, <1>19, <1>21, <1>22 DEF new, N, HistoryIn

-----------------------------------------------------------------------------
(*                          The steps of the loop                          *)

\* The tool calls while the loop works on something else.
LEMMA ToolsIdle ==
    ASSUME IInv, UNCHANGED toolVars, cm'.mode = cm.mode,
           pc \notin {"wait", "exited"}, pc' \notin {"wait", "exited"}
    PROVE  Redirected' /\ Wedged'
<1>1. calls' = calls /\ sysout' = sysout /\ wedges' = wedges
  BY DEF toolVars
<1>2. Offered' = Offered
  BY DEF Offered, HasCm
<1>3. Redirected'
  BY <1>1, <1>2 DEF IInv, Redirected
<1>4. GivenUp' = GivenUp
  BY <1>1 DEF GivenUp
<1>5. Wedged'
  BY <1>1, <1>4 DEF IInv, Wedged
<1> QED BY <1>3, <1>5

\* Blocks that stand for entries do not depend on the outgoing text.
LEMMA MirrorsEntries ==
    ASSUME NEW s, NEW xs, NEW n \in Nat, \A b \in 1..n : b \in DOMAIN xs, NEW x, NEW y,
           MirrorOf(s, n, xs, x)
    PROVE  MirrorOf(s, n, xs, y)
<1>1. \A b \in 1..n : Mirrors(s, b, xs, y)
  <2> TAKE b \in 1..n
  <2>1. Mirrors(s, b, xs, x) /\ b \in DOMAIN xs
    BY DEF MirrorOf
  <2> QED BY <2>1 DEF Mirrors
<1> QED BY <1>1 DEF MirrorOf

LEMMA Entries ==
    ASSUME Types
    PROVE  /\ Len(hist) \in Nat /\ DOMAIN hist = 1..Len(hist)
           /\ hist # <<>> => Len(hist) >= 1
           /\ hist = <<>> => Len(hist) = 0
           /\ \A i \in DOMAIN hist : hist[i] \in Entry
           /\ (IF hist = <<>> THEN 0 ELSE Len(hist) - 1) \in Nat
           /\ \A b \in 1..(IF hist = <<>> THEN 0 ELSE Len(hist) - 1) : b \in DOMAIN hist
<1>1. hist \in Seq(Entry)
  BY DEF Types
<1>2. Len(hist) \in Nat /\ DOMAIN hist = 1..Len(hist) /\ hist \in [1..Len(hist) -> Entry]
  BY <1>1, LenProperties
<1>3. hist # <<>> => Len(hist) >= 1
  BY <1>1, <1>2, EmptySeq
<1>4. hist = <<>> => Len(hist) = 0
  BY EmptySeq
<1> QED BY <1>2, <1>3, <1>4

\* A step of the loop that leaves the view, the history and the tools alone.
LEMMA LoopStep ==
    ASSUME IInv, Types', UNCHANGED <<session, cm, hist, sent, raw, edits, resp, toolVars>>,
           pc \notin {"wait", "exited"}, pc' \in {"seam", "llm", "done", "failed", "hung"},
           pc' = "llm" => pc = "llm" /\ msg' = msg,
           pc' = "seam" => pc = "decide", msg' = msg \/ (msg'.hdr /\ msg'.quotes = 0),
           stop' # "no" => phase' = "summary"
    PROVE  IInv'
<1>1. Redirected' /\ Wedged'
  BY ToolsIdle
<1>2. Steps'
  BY DEF IInv, Steps
<1>3. ViewOK(cm, Len(hist))'
  BY DEF IInv
<1>4. Books'
  BY DEF IInv, Books, InAssembly, AuditedTurns, HasCm
<1>5. Heard'
  BY DEF IInv, Heard
<1>6. Mirror'
  <2> SUFFICES ASSUME Windowed'
               PROVE  /\ pc' = "llm" => MirrorOf(cm, Len(hist) + 1, hist, msg')
                      /\ pc' = "seam" =>
                           MirrorOf(cm, IF hist = <<>> THEN 0 ELSE Len(hist) - 1, hist, msg')
    BY DEF Mirror
  <2>1. Windowed
    BY DEF Windowed
  <2>2. pc' = "llm" => MirrorOf(cm, Len(hist) + 1, hist, msg')
    BY <2>1 DEF IInv, Mirror
  <2>3. ASSUME pc' = "seam"
        PROVE  MirrorOf(cm, IF hist = <<>> THEN 0 ELSE Len(hist) - 1, hist, msg')
    <3>1. PICK n : n = IF hist = <<>> THEN 0 ELSE Len(hist) - 1
      OBVIOUS
    <3>2. MirrorOf(cm, n, hist, msg)
      BY <2>1, <2>3, <3>1, SMTT(30) DEF IInv, Mirror
    <3>3. n \in Nat /\ \A b \in 1..n : b \in DOMAIN hist
      BY <3>1, Entries DEF IInv
    <3> HIDE DEF IInv
    <3> QED BY <3>1, <3>2, <3>3, MirrorsEntries
  <2> QED BY <2>2, <2>3
<1>7. CopiesWindowed'
  BY DEF IInv, CopiesWindowed, Windowed
<1> QED BY <1>1, <1>2, <1>3, <1>4, <1>5, <1>6, <1>7 DEF IInv

LEMMA UserTexts ==
    ASSUME NEW i \in Nat, NEW l \in Nat
    PROVE  UserText(i, l) \in Text /\ UserText(i, l).hdr /\ UserText(i, l).quotes = 0
BY DEF UserText, Text

\* The steps that only move on, or stop.
LEMMA MovesOn ==
    ASSUME IInv, CallFails \/ FirstProse \/ Finish \/ CutRetry \/ AgentCodeHangs
    PROVE  IInv'
<1>1. Types /\ Steps
  BY DEF IInv
<1>3. CASE CallFails
  <2>1. Types'
    BY <1>1, <1>3 DEF CallFails, Types, loopVars
  <2>2. /\ UNCHANGED <<session, cm, hist, sent, raw, edits, resp, toolVars>>
        /\ pc \notin {"wait", "exited"} /\ pc' \in {"seam", "llm", "done", "failed", "hung"}
        /\ (pc' = "llm" => pc = "llm" /\ msg' = msg) /\ (pc' = "seam" => pc = "decide")
        /\ (stop' # "no" => phase' = "summary")
    BY <1>1, <1>3, <2>1 DEF CallFails, loopVars, Steps
  <2>3. msg' = msg
    BY <1>3 DEF CallFails
  <2> QED BY <2>1, <2>2, <2>3, LoopStep
<1>4. CASE FirstProse
  <2>1. msg' = UserText(Framework, 400) /\ phase = "first"
    BY <1>4 DEF FirstProse, Send
  <2>2. Types'
    BY <1>1, <1>4, <2>1, UserTexts DEF FirstProse, Send, Types, loopVars, Framework
  <2>3. /\ UNCHANGED <<session, cm, hist, sent, raw, edits, resp, toolVars>>
        /\ pc \notin {"wait", "exited"} /\ pc' \in {"seam", "llm", "done", "failed", "hung"}
        /\ (pc' = "llm" => pc = "llm" /\ msg' = msg) /\ (pc' = "seam" => pc = "decide")
        /\ (stop' # "no" => phase' = "summary")
    BY <1>1, <1>4, <2>1 DEF FirstProse, Send, loopVars, Steps
  <2>4. msg'.hdr /\ msg'.quotes = 0
    BY <2>1, UserTexts DEF Framework
  <2> QED BY <2>2, <2>3, <2>4, LoopStep
<1>5. CASE Finish
  <2>1. Types'
    BY <1>1, <1>5 DEF Finish, Types, loopVars
  <2>2. /\ UNCHANGED <<session, cm, hist, sent, raw, edits, resp, toolVars>>
        /\ pc \notin {"wait", "exited"} /\ pc' \in {"seam", "llm", "done", "failed", "hung"}
        /\ (pc' = "llm" => pc = "llm" /\ msg' = msg) /\ (pc' = "seam" => pc = "decide")
        /\ (stop' # "no" => phase' = "summary")
    BY <1>1, <1>5, <2>1 DEF Finish, loopVars, Steps
  <2>3. msg' = msg
    BY <1>5 DEF Finish
  <2> QED BY <2>1, <2>2, <2>3, LoopStep
<1>6. CASE CutRetry
  <2>1. msg' = UserText(Framework, 400) /\ phase # "summary"
    BY <1>6 DEF CutRetry, Send, MayContinue
  <2>2. Types'
    BY <1>1, <1>6, <2>1, UserTexts DEF CutRetry, Send, MayContinue, Types, loopVars, Framework
  <2>3. /\ UNCHANGED <<session, cm, hist, sent, raw, edits, resp, toolVars>>
        /\ pc \notin {"wait", "exited"} /\ pc' \in {"seam", "llm", "done", "failed", "hung"}
        /\ (pc' = "llm" => pc = "llm" /\ msg' = msg) /\ (pc' = "seam" => pc = "decide")
        /\ (stop' # "no" => phase' = "summary")
    BY <1>1, <1>6, <2>1 DEF CutRetry, Send, MayContinue, loopVars, Steps
  <2>4. msg'.hdr /\ msg'.quotes = 0
    BY <2>1, UserTexts DEF Framework
  <2> QED BY <2>2, <2>3, <2>4, LoopStep
<1>7. CASE AgentCodeHangs
  <2>1. Types'
    BY <1>1, <1>7 DEF AgentCodeHangs, Types, loopVars
  <2>2. /\ UNCHANGED <<session, cm, hist, sent, raw, edits, resp, toolVars>>
        /\ pc \notin {"wait", "exited"} /\ pc' \in {"seam", "llm", "done", "failed", "hung"}
        /\ (pc' = "llm" => pc = "llm" /\ msg' = msg) /\ (pc' = "seam" => pc = "decide")
        /\ (stop' # "no" => phase' = "summary")
    BY <1>1, <1>7, <2>1 DEF AgentCodeHangs, loopVars, Steps, InAssembly
  <2>3. msg' = msg
    BY <1>7 DEF AgentCodeHangs
  <2> QED BY <2>1, <2>2, <2>3, LoopStep
<1> QED BY <1>3, <1>4, <1>5, <1>6, <1>7

\* A retry leaves every text of the history as it was registered; the entries may
\* have lost theirs.
LEMMA TransientKeeps ==
    ASSUME IInv, Transient
    PROVE  IInv'
<1>1. Types /\ Steps /\ ViewOK(cm, Len(hist)) /\ Books /\ Heard /\ Mirror /\ CopiesWindowed
  BY DEF IInv
<1>2. /\ pc = "llm" /\ pc' = "llm" /\ attempt' = 2
      /\ UNCHANGED <<cm, msg, sent, raw, phase, resp, ntools, malformed, tokens, last, repeat,
                     stop, left, recs, edits, toolVars, session>>
  BY DEF Transient
<1>3. Len(hist) \in Nat /\ DOMAIN hist = 1..Len(hist) /\ \A i \in DOMAIN hist : hist[i] \in Entry
  BY <1>1, Entries
<1>4. /\ hist' \in Seq(Entry) /\ Len(hist') = Len(hist) /\ DOMAIN hist' = DOMAIN hist
      /\ \A i \in DOMAIN hist : hist'[i].text = hist[i].text
                              /\ ((HasText(hist'[i]) => HasText(hist[i])))
  <2>1. CASE ~raw
    BY <1>1, <2>1 DEF Transient, Types
  <2>2. CASE raw
    <3> DEFINE lost(e) == IF e.keys = "text" THEN [e EXCEPT !.keys = "none"] ELSE e
    <3>1. \A e \in Entry : /\ lost(e) \in Entry /\ lost(e).text = e.text
                           /\ (HasText(lost(e)) => HasText(e))
      BY DEF Entry, HasText
    <3>2. hist' = [i \in 1..Len(hist) |-> lost(hist[i])]
      BY <1>3, <2>2 DEF Transient
    <3> HIDE DEF lost
    <3>3. hist' \in [1..Len(hist) -> Entry]
      BY <1>3, <3>1, <3>2
    <3>4. hist' \in Seq(Entry) /\ Len(hist') = Len(hist)
      BY <1>3, <3>3, SeqDef, LenProperties
    <3> QED BY <1>3, <3>1, <3>2, <3>4
  <2> QED BY <2>1, <2>2
<1>5. Types'
  BY <1>1, <1>2, <1>4 DEF Types
<1>6. Steps'
  <2>1. Offered' = Offered
    BY <1>2 DEF Offered, HasCm
  <2> QED BY <1>1, <1>2, <2>1 DEF Steps
<1>7. Redirected' /\ Wedged'
  BY <1>2, ToolsIdle
<1>8. ViewOK(cm, Len(hist))'
  BY <1>1, <1>2, <1>4
<1>9. Books'
  BY <1>1, <1>2 DEF Books, InAssembly, AuditedTurns, HasCm
<1>10. Heard'
  <2>1. hist' # <<>> => hist # <<>>
    <3>1. Len(<<>>) = 0
      OBVIOUS
    <3> QED BY <1>1, <1>4, <3>1, EmptySeq DEF Types
  <2>2. hist # <<>> => Len(hist) \in DOMAIN hist
    BY <1>1, <1>3, Entries
  <2> QED BY <1>1, <1>2, <1>4, <2>1, <2>2 DEF Heard
<1>11. Windowed' => Windowed
  BY <1>2, <1>4 DEF Windowed
<1>12. Mirror'
  <2> SUFFICES ASSUME Windowed' PROVE MirrorOf(cm, Len(hist) + 1, hist', msg)
    BY <1>2, <1>4 DEF Mirror
  <2>1. MirrorOf(cm, Len(hist) + 1, hist, msg)
    BY <1>1, <1>2, <1>11 DEF Mirror
  <2>2. ASSUME NEW b \in 1..Len(hist) + 1
        PROVE  Mirrors(cm, b, hist', msg)
    <3>1. Mirrors(cm, b, hist, msg)
      BY <2>1 DEF MirrorOf
    <3>2. (IF b \in DOMAIN hist THEN hist[b].text ELSE msg)
             = (IF b \in DOMAIN hist' THEN hist'[b].text ELSE msg)
      BY <1>4
    <3> QED BY <3>1, <3>2 DEF Mirrors
  <2> QED BY <2>1, <2>2 DEF MirrorOf
<1>13. CopiesWindowed'
  BY <1>1, <1>2, <1>4, <1>11 DEF CopiesWindowed
<1> QED BY <1>5, <1>6, <1>7, <1>8, <1>9, <1>10, <1>12, <1>13 DEF IInv

\* Feedback on a malformed reply, and the summary request after a budget ran out.
LEMMA AsksAgain ==
    ASSUME IInv, MalformedFeedback \/ BudgetStop
    PROVE  IInv'
<1>1. Types /\ Steps
  BY DEF IInv
<1>2. CASE MalformedFeedback
  <2>1. msg' = UserText(Framework, 400) /\ phase # "summary"
    BY <1>2 DEF MalformedFeedback, Send, MayContinue
  <2>2. Types'
    BY <1>1, <1>2, <2>1, UserTexts DEF MalformedFeedback, Send, MayContinue, Types, Framework
  <2>3. /\ UNCHANGED <<session, cm, hist, sent, raw, edits, resp, toolVars>>
        /\ pc \notin {"wait", "exited"} /\ pc' \in {"seam", "llm", "done", "failed", "hung"}
        /\ (pc' = "llm" => pc = "llm" /\ msg' = msg) /\ (pc' = "seam" => pc = "decide")
        /\ (stop' # "no" => phase' = "summary")
    BY <1>1, <1>2, <2>1 DEF MalformedFeedback, Send, MayContinue, Steps
  <2>4. msg'.hdr /\ msg'.quotes = 0
    BY <2>1, UserTexts DEF Framework
  <2> QED BY <2>2, <2>3, <2>4, LoopStep
<1>3. CASE BudgetStop
  <2>1. msg' = UserText(Framework, 400)
    BY <1>3 DEF BudgetStop, Send
  <2>2. Types'
    BY <1>1, <1>3, <2>1, UserTexts DEF BudgetStop, Send, Types, Framework
  <2>3. /\ UNCHANGED <<session, cm, hist, sent, raw, edits, resp, toolVars>>
        /\ pc \notin {"wait", "exited"} /\ pc' \in {"seam", "llm", "done", "failed", "hung"}
        /\ (pc' = "llm" => pc = "llm" /\ msg' = msg) /\ (pc' = "seam" => pc = "decide")
        /\ (stop' # "no" => phase' = "summary")
    BY <1>1, <1>3, <2>1 DEF BudgetStop, Send, Steps
  <2>4. msg'.hdr /\ msg'.quotes = 0
    BY <2>1, UserTexts DEF Framework
  <2> QED BY <2>2, <2>3, <2>4, LoopStep
<1> QED BY <1>2, <1>3

LEMMA LesserOf ==
    ASSUME NEW a \in Nat, NEW b \in Nat
    PROVE  Min({a, b}) \in Nat /\ Min({a, b}) <= b
<1>1. \E x \in {a, b} : \A y \in {a, b} : x <= y
  <2>1. a <= b \/ b <= a
    OBVIOUS
  <2> QED BY <2>1
<1>2. Min({a, b}) \in {a, b} /\ \A y \in {a, b} : Min({a, b}) <= y
  BY <1>1 DEF Min
<1> QED BY <1>2

LEMMA ViewGrows ==
    ASSUME NEW n \in Nat, NEW m \in Nat, n <= m, NEW s, ViewOK(s, n)
    PROVE  ViewOK(s, m)
<1>1. \A k \in 0..n : k \in 0..m
  OBVIOUS
<1> QED BY <1>1 DEF ViewOK, BlocksTyped

\* What the model may answer is a reply.
LEMMA RepliesTyped ==
    ASSUME Types, Steps, ViewOK(cm, Len(hist)), NEW r \in Replies
    PROVE  r \in Reply /\ (r.kind = "tool" => r.tool \in Offered \cup {"ghost"})
<1>1. "ctx" \in AllTools /\ Tools \subseteq AllTools
  BY DEF AllTools
<1>2. ASSUME NEW k \in {"prose", "answer", "malformed", "cut"}
      PROVE  Said(k) \in Reply /\ Said(k).kind # "tool"
  BY <1>2 DEF Said, Reply
<1>3. ASSUME NEW t \in AllTools \cup {"ghost"}, NEW a \in BOOLEAN
      PROVE  Call(t, a) \in Reply /\ Call(t, a).tool = t
  BY <1>3 DEF Call, Reply
<1>4. ASSUME NEW q \in Nat
      PROVE  LET c == [Call("ctx", TRUE) EXCEPT !.quotes = q] IN c \in Reply /\ c.tool = "ctx"
  BY <1>1 DEF Call, Reply
<1>5. CASE HasCm
  <2>1. Offered = {"ctx"}
    BY <1>5 DEF Offered
  <2>2. \/ r = Said("answer") \/ r = Call("ctx", TRUE)
        \/ \E b \in Blocks(cm) : r = [Call("ctx", TRUE) EXCEPT !.quotes = b]
    BY <1>5 DEF Replies
  <2>3. \A b \in Blocks(cm) : b \in Nat
    BY DEF Blocks
  <2> QED BY <1>1, <1>2, <1>3, <1>4, <2>1, <2>2, <2>3
<1>6. CASE ~HasCm
  <2>1. Offered = Tools
    BY <1>6 DEF Offered
  <2>2. \/ \E k \in {"prose", "answer", "cut", "malformed"} : r = Said(k)
        \/ \E t \in Tools \cup {"ghost"} : r = Call(t, TRUE)
        \/ r = Call(CHOOSE t \in Tools : TRUE, FALSE)
    BY <1>6 DEF Replies
  <2>3. (CHOOSE t \in Tools : TRUE) \in Tools
    BY AgentAssumption
  <2>4. CASE \E k \in {"prose", "answer", "cut", "malformed"} : r = Said(k)
    BY <1>2, <2>4
  <2>5. CASE \E t \in Tools \cup {"ghost"} : r = Call(t, TRUE)
    BY <1>1, <1>3, <2>1, <2>5
  <2>6. CASE r = Call(CHOOSE t \in Tools : TRUE, FALSE)
    <3>1. PICK t \in Tools : r = Call(t, FALSE)
      BY <2>3, <2>6
    <3> QED BY <1>1, <1>3, <2>1, <3>1
  <2> QED BY <2>2, <2>4, <2>5, <2>6
<1> QED BY <1>5, <1>6

\* The history after an answer.
LEMMA Remembered ==
    ASSUME IInv, NEW r \in Reply, Remember(r)
    PROVE  /\ hist' \in Seq(Entry)
           /\ ~HasCm => hist' = hist
           /\ HasCm => /\ Len(hist') = Len(hist) + 2 /\ DOMAIN hist' = 1..(Len(hist) + 2)
                       /\ \A i \in 1..Len(hist) : /\ hist'[i].text = hist[i].text
                                                  /\ (HasText(hist'[i]) => HasText(hist[i]))
                       /\ hist'[Len(hist) + 1].text = msg
                       /\ hist'[Len(hist) + 2].text = ReplyText(r)
<1>1. hist \in Seq(Entry) /\ msg \in Text /\ Len(hist) \in Nat
  BY Entries DEF IInv, Types
<1>2. CASE ~HasCm
  BY <1>1, <1>2 DEF Remember
<1>3. CASE HasCm
  <2>1. ReplyText(r) \in Text
    BY <1>1 DEF ReplyText, Text, Reply
  <2> DEFINE viewed == Len(sent) > 0 /\ ~raw
  <2> DEFINE both(e) == IF e.keys = "text" THEN [e EXCEPT !.keys = "both"] ELSE e
  <2> DEFINE older == IF viewed THEN hist ELSE [i \in DOMAIN hist |-> both(hist[i])]
  <2> DEFINE u == [role |-> "user", text |-> msg, keys |-> IF viewed THEN "text" ELSE "both"]
  <2> DEFINE a == [role |-> "assistant", text |-> ReplyText(r), keys |-> "both"]
  <2>2. u \in Entry /\ a \in Entry /\ u.text = msg /\ a.text = ReplyText(r)
    BY <1>1, <2>1 DEF Entry
  <2>3. hist' = older \o <<u, a>>
    BY <1>3 DEF Remember
  <2>9. /\ older \in Seq(Entry) /\ Len(older) = Len(hist)
        /\ \A i \in 1..Len(hist) : /\ older[i].text = hist[i].text
                                   /\ (HasText(older[i]) => HasText(hist[i]))
    <3>1. \A e \in Entry : both(e) \in Entry /\ both(e).text = e.text
                           /\ (HasText(both(e)) => HasText(e))
      BY DEF Entry, HasText
    <3>2. DOMAIN hist = 1..Len(hist) /\ \A i \in 1..Len(hist) : hist[i] \in Entry
      BY Entries DEF IInv
    <3> HIDE DEF both, viewed
    <3>3. CASE viewed
      BY <1>1, <3>3
    <3>4. CASE ~viewed
      <4>1. older = [i \in 1..Len(hist) |-> both(hist[i])]
        BY <3>2, <3>4
      <4> HIDE DEF older
      <4>2. older \in [1..Len(hist) -> Entry]
        BY <3>1, <3>2, <4>1
      <4>3. older \in Seq(Entry) /\ Len(older) = Len(hist)
        BY <1>1, <4>2, SeqDef, LenProperties
      <4> QED BY <3>1, <3>2, <4>1, <4>3
    <3> QED BY <3>3, <3>4
  <2> HIDE DEF u, a, older
  <2>4. <<u, a>> \in Seq(Entry) /\ Len(<<u, a>>) = 2
    BY <2>2
  <2>5. /\ hist' \in Seq(Entry) /\ Len(hist') = Len(hist) + 2
        /\ \A i \in 1..(Len(hist) + 2) :
              hist'[i] = IF i <= Len(hist) THEN older[i] ELSE <<u, a>>[i - Len(hist)]
    BY <1>1, <2>3, <2>4, <2>9, ConcatProperties
  <2>6. hist'[Len(hist) + 1] = u /\ hist'[Len(hist) + 2] = a
    <3>1. Len(hist) + 1 \in 1..(Len(hist) + 2) /\ Len(hist) + 2 \in 1..(Len(hist) + 2)
      BY <1>1
    <3>2. hist'[Len(hist) + 1] = <<u, a>>[(Len(hist) + 1) - Len(hist)]
      BY <1>1, <2>5, <3>1
    <3>3. hist'[Len(hist) + 2] = <<u, a>>[(Len(hist) + 2) - Len(hist)]
      BY <1>1, <2>5, <3>1
    <3>4. (Len(hist) + 1) - Len(hist) = 1 /\ (Len(hist) + 2) - Len(hist) = 2
      BY <1>1
    <3> QED BY <3>2, <3>3, <3>4
  <2>7. DOMAIN hist' = 1..(Len(hist) + 2)
    BY <2>5, LenProperties
  <2>8. \A i \in 1..Len(hist) : /\ hist'[i].text = hist[i].text
                               /\ (HasText(hist'[i]) => HasText(hist[i]))
    BY <1>1, <2>5, <2>9
  <2> QED BY <1>3, <2>2, <2>5, <2>6, <2>7, <2>8
<1> QED BY <1>2, <1>3

LEMMA AnsweredKeeps ==
    ASSUME IInv, Answered
    PROVE  IInv'
<1>1. Types /\ Steps /\ ViewOK(cm, Len(hist)) /\ Books /\ Heard /\ Mirror
  BY DEF IInv
<1>2. PICK r \in Replies, usage \in 0..1 :
         /\ session.tokens = 0 => usage = 0
         /\ resp' = r /\ Remember(r) /\ tokens' = Min({tokens + usage, session.tokens})
  BY DEF Answered
<1>3. /\ pc = "llm" /\ pc' = "decide"
      /\ UNCHANGED <<cm, msg, sent, raw, phase, attempt, ntools, malformed, last, repeat, stop,
                     left, recs, edits, toolVars, session>>
  BY DEF Answered
<1>4. r \in Reply /\ (r.kind = "tool" => r.tool \in Offered \cup {"ghost"})
  BY <1>1, RepliesTyped
<1>5. /\ hist' \in Seq(Entry)
      /\ ~HasCm => hist' = hist
      /\ HasCm => /\ Len(hist') = Len(hist) + 2 /\ DOMAIN hist' = 1..(Len(hist) + 2)
                  /\ \A i \in 1..Len(hist) : /\ hist'[i].text = hist[i].text
                                             /\ (HasText(hist'[i]) => HasText(hist[i]))
                  /\ hist'[Len(hist) + 1].text = msg
                  /\ hist'[Len(hist) + 2].text = ReplyText(r)
  BY <1>2, <1>4, Remembered
<1>6. Len(hist) \in Nat /\ DOMAIN hist = 1..Len(hist)
  BY <1>1, Entries
<1>7. DOMAIN hist \subseteq DOMAIN hist'
  BY <1>5, <1>6
<1>8. Types'
  <2>1. tokens' \in 0..session.tokens
    <3>1. tokens + usage \in Nat /\ session.tokens \in Nat
      BY <1>1 DEF Types, SessionKinds
    <3> QED BY <1>2, <3>1, LesserOf
  <2>2. DOMAIN sent' \subseteq DOMAIN hist'
    BY <1>1, <1>3, <1>7 DEF Types
  <2> QED BY <1>1, <1>2, <1>3, <1>4, <1>5, <2>1, <2>2 DEF Types
<1>9. Steps'
  <2>1. Offered' = Offered
    BY <1>3 DEF Offered, HasCm
  <2> QED BY <1>1, <1>2, <1>3, <1>4, <2>1 DEF Steps
<1>10. Redirected' /\ Wedged'
  BY <1>3, ToolsIdle
<1>11. ViewOK(cm, Len(hist))'
  <2>1. Len(hist') \in Nat /\ Len(hist) <= Len(hist')
    BY <1>5, <1>6
  <2>2. cm' = cm
    BY <1>3
  <2> QED BY <1>1, <1>6, <2>1, <2>2, ViewGrows
<1>12. Books'
  BY <1>1, <1>3 DEF Books, InAssembly, AuditedTurns
<1>13. Heard'
  <2>1. CASE ~HasCm
    BY <1>1, <1>3, <1>5, <2>1 DEF Heard
  <2>2. CASE HasCm
    <3>1. hist'[Len(hist')].text = ReplyText(r)
      BY <1>5, <2>2
    <3>2. ~ReplyText(r).hdr /\ ReplyText(r).n = 100 + Len(hist)
      BY DEF ReplyText
    <3>3. msg' = msg /\ msg.hdr /\ msg.quotes = 0
      BY <1>1, <1>3 DEF Heard
    <3>4. ASSUME NEW i \in DOMAIN hist', ~hist'[i].text.hdr
          PROVE  hist'[i].text.n = 98 + i
      <4>1. CASE i \in 1..Len(hist)
        BY <1>1, <1>5, <1>6, <2>2, <3>4, <4>1 DEF Heard
      <4>2. CASE i = Len(hist) + 1
        BY <1>5, <2>2, <3>3, <3>4, <4>2
      <4>3. CASE i = Len(hist) + 2
        <5>1. hist'[i].text = ReplyText(r)
          BY <1>5, <2>2, <4>3
        <5> QED BY <1>6, <3>2, <4>3, <5>1
      <4> QED BY <1>5, <1>6, <2>2, <4>1, <4>2, <4>3
    <3> QED BY <3>1, <3>2, <3>3, <3>4 DEF Heard
  <2> QED BY <2>1, <2>2
<1>14. Mirror'
  <2> SUFFICES ASSUME Windowed'
               PROVE  MirrorOf(cm, IF hist' = <<>> THEN 0 ELSE Len(hist') - 1, hist', msg)
    BY <1>3 DEF Mirror
  <2>1. HasCm
    BY <1>3 DEF Windowed, HasCm
  <2>2. Windowed
    <3>1. \A i \in DOMAIN hist : /\ hist'[i].text = hist[i].text /\ i \in DOMAIN hist'
                                 /\ (HasText(hist'[i]) => HasText(hist[i]))
      BY <1>5, <1>6, <2>1
    <3> QED BY <1>3, <3>1 DEF Windowed
  <2>3. MirrorOf(cm, Len(hist) + 1, hist, msg)
    BY <1>1, <1>3, <2>2 DEF Mirror
  <2>4. PICK n : n = Len(hist) + 1
    OBVIOUS
  <2>5. (IF hist' = <<>> THEN 0 ELSE Len(hist') - 1) = n
    <3>1. Len(<<>>) = 0
      OBVIOUS
    <3> QED BY <1>5, <1>6, <2>1, <2>4, <3>1
  <2>6. ASSUME NEW b \in 1..n
        PROVE  Mirrors(cm, b, hist', msg)
    <3>1. Mirrors(cm, b, hist, msg)
      BY <2>3, <2>4 DEF MirrorOf
    <3>2. (IF b \in DOMAIN hist THEN hist[b].text ELSE msg) = hist'[b].text /\ b \in DOMAIN hist'
      BY <1>5, <1>6, <2>1, <2>4
    <3> QED BY <3>1, <3>2 DEF Mirrors
  <2> QED BY <2>3, <2>4, <2>5, <2>6 DEF MirrorOf
<1>15. CopiesWindowed'
  BY <1>3 DEF CopiesWindowed
<1> QED BY <1>8, <1>9, <1>10, <1>11, <1>12, <1>13, <1>14, <1>15 DEF IInv

\* A call of a session without a context manager.
LEMMA SeamOffKeeps ==
    ASSUME IInv, SeamOff
    PROVE  IInv'
<1>1. Types /\ Steps /\ ViewOK(cm, Len(hist)) /\ Books /\ Heard
  BY DEF IInv
<1>2. /\ pc = "seam" /\ cm.mode = "none" /\ pc' = "llm" /\ sent' = [i \in DOMAIN hist |-> "full"]
      /\ attempt' = 1 /\ recs' = 0
      /\ UNCHANGED <<cm, msg, phase, edits, session, toolVars>>
      /\ UNCHANGED loopVars
  BY DEF SeamOff, ToModel, Raw, HasCm
<1>3. Types'
  <2>1. "full" \in Forms
    BY DEF Forms
  <2> QED BY <1>1, <1>2, <2>1 DEF Types, loopVars
<1>4. Steps'
  BY <1>1, <1>2 DEF Steps, loopVars
<1>5. Redirected' /\ Wedged'
  BY <1>2, ToolsIdle
<1>6. ViewOK(cm, Len(hist))'
  BY <1>1, <1>2 DEF loopVars
<1>7. Books'
  BY <1>1, <1>2 DEF Books, InAssembly, AuditedTurns, HasCm
<1>8. Heard'
  BY <1>1, <1>2 DEF Heard, loopVars
<1>9. Mirror' /\ CopiesWindowed'
  BY <1>2 DEF Mirror, Windowed, CopiesWindowed
<1> QED BY <1>3, <1>4, <1>5, <1>6, <1>7, <1>8, <1>9 DEF IInv

-----------------------------------------------------------------------------
(*                      The steps of the context seam                      *)

\* A change of the books only.
SameBlocks(s, t) ==
    /\ IsSession(t) /\ t.blocks = s.blocks /\ t.seenUser = s.seenUser
    /\ t.mode = s.mode /\ t.assembly = s.assembly

LEMMA EmitBooks ==
    ASSUME NEW s, IsSession(s), NEW t, t = emit_view(s)
    PROVE  /\ SameBlocks(s, t) /\ t.views = s.views + 1
           /\ t.violations = s.violations /\ t.refusals = s.refusals /\ t.uncounted = s.uncounted
           /\ t.policyStrikes = s.policyStrikes /\ t.policyFailures = s.policyFailures
           /\ t.policyDisabled = s.policyDisabled
           /\ t.assemblyFailures = s.assemblyFailures /\ t.assemblyDisabled = s.assemblyDisabled
<1>1. PICK v : v = s.views + 1
  OBVIOUS
<1>2. t = [s EXCEPT !.views = v]
  BY <1>1 DEF emit_view
<1> QED BY <1>1, <1>2 DEF IsSession, SameBlocks, Blocks

LEMMA FinalizeBooks ==
    ASSUME NEW s, IsSession(s), NEW R, NEW t, t = finalize_turn(s, R)
    PROVE  /\ SameBlocks(s, t) /\ t.views = s.views + 1
           /\ t.violations = s.violations + Cardinality({p \in R : p <= MaxOps})
           /\ t.uncounted = s.uncounted + Cardinality({p \in R : p > MaxOps})
           /\ t.refusals = s.refusals + Cardinality(R)
           /\ t.policyStrikes = s.policyStrikes /\ t.policyFailures = s.policyFailures
           /\ t.policyDisabled = s.policyDisabled
           /\ t.assemblyFailures = s.assemblyFailures /\ t.assemblyDisabled = s.assemblyDisabled
<1>1. PICK w : w = s.violations + Cardinality({p \in R : p <= MaxOps})
  OBVIOUS
<1>2. PICK u : u = s.uncounted + Cardinality({p \in R : p > MaxOps})
  OBVIOUS
<1>3. PICK x : x = s.refusals + Cardinality(R)
  OBVIOUS
<1>4. PICK r : r = [s EXCEPT !.refusals = x]
  OBVIOUS
<1>5. PICK q : q = [r EXCEPT !.violations = w, !.uncounted = u]
  OBVIOUS
<1>6. IsSession(r) /\ r.blocks = s.blocks /\ r.seenUser = s.seenUser /\ r.mode = s.mode
      /\ r.assembly = s.assembly /\ r.refusals = x /\ r.violations = s.violations
      /\ r.uncounted = s.uncounted
      /\ r.policyStrikes = s.policyStrikes /\ r.policyFailures = s.policyFailures
      /\ r.policyDisabled = s.policyDisabled /\ r.views = s.views
      /\ r.assemblyFailures = s.assemblyFailures /\ r.assemblyDisabled = s.assemblyDisabled
  BY <1>4 DEF IsSession, Blocks
<1>7. q = count_ops(r, R)
  BY <1>1, <1>2, <1>5, <1>6 DEF count_ops
<1>8. IsSession(q) /\ q.blocks = r.blocks /\ q.seenUser = r.seenUser /\ q.mode = r.mode
      /\ q.assembly = r.assembly /\ q.refusals = x /\ q.violations = w /\ q.uncounted = u
      /\ q.policyStrikes = r.policyStrikes /\ q.policyFailures = r.policyFailures
      /\ q.policyDisabled = r.policyDisabled /\ q.views = r.views
      /\ q.assemblyFailures = r.assemblyFailures /\ q.assemblyDisabled = r.assemblyDisabled
  BY <1>5, <1>6 DEF IsSession, Blocks
<1>9. t = emit_view(q)
  BY <1>3, <1>4, <1>7 DEF finalize_turn
<1>10. /\ SameBlocks(q, t) /\ t.views = q.views + 1
       /\ t.violations = q.violations /\ t.refusals = q.refusals /\ t.uncounted = q.uncounted
       /\ t.policyStrikes = q.policyStrikes /\ t.policyFailures = q.policyFailures
       /\ t.policyDisabled = q.policyDisabled
       /\ t.assemblyFailures = q.assemblyFailures /\ t.assemblyDisabled = q.assemblyDisabled
  BY <1>8, <1>9, EmitBooks
<1> QED BY <1>1, <1>2, <1>3, <1>6, <1>8, <1>10 DEF SameBlocks

LEMMA SucceededBooks ==
    ASSUME NEW s, IsSession(s), NEW t, t = policy_succeeded(s)
    PROVE  /\ SameBlocks(s, t) /\ t.views = s.views
           /\ t.violations = s.violations /\ t.refusals = s.refusals /\ t.uncounted = s.uncounted
           /\ t.policyStrikes = 0 /\ t.policyFailures = s.policyFailures
           /\ t.policyDisabled = s.policyDisabled
           /\ t.assemblyFailures = s.assemblyFailures /\ t.assemblyDisabled = s.assemblyDisabled
<1>1. PICK r : r = [s EXCEPT !.policyStrikes = 0, !.harvested = TRUE]
  OBVIOUS
<1>2. IsSession(r) /\ r.blocks = s.blocks /\ r.seenUser = s.seenUser /\ r.mode = s.mode
      /\ r.assembly = s.assembly /\ r.refusals = s.refusals /\ r.uncounted = s.uncounted /\ r.violations = s.violations
      /\ r.policyStrikes = 0 /\ r.policyFailures = s.policyFailures
      /\ r.policyDisabled = s.policyDisabled /\ r.views = s.views
      /\ r.assemblyFailures = s.assemblyFailures /\ r.assemblyDisabled = s.assemblyDisabled
  BY <1>1 DEF IsSession, Blocks
<1>3. CASE t = r
  BY <1>2, <1>3 DEF SameBlocks
<1>4. CASE t = merge_methods(r, "policy")
  <2>1. PICK o : o = IF r.owner = "none" THEN "policy" ELSE r.owner
    OBVIOUS
  <2>2. t = [r EXCEPT !.owner = o]
    BY <1>4, <2>1 DEF merge_methods
  <2>3. IsSession(t) /\ t.blocks = r.blocks /\ t.seenUser = r.seenUser /\ t.mode = r.mode
      /\ t.assembly = r.assembly /\ t.refusals = r.refusals /\ t.uncounted = r.uncounted /\ t.violations = r.violations
      /\ t.policyStrikes = r.policyStrikes /\ t.policyFailures = r.policyFailures
      /\ t.policyDisabled = r.policyDisabled /\ t.views = r.views
      /\ t.assemblyFailures = r.assemblyFailures /\ t.assemblyDisabled = r.assemblyDisabled
    BY <1>2, <2>2 DEF IsSession, Blocks
  <2> QED BY <1>2, <2>3 DEF SameBlocks
<1> QED BY <1>1, <1>3, <1>4 DEF policy_succeeded

LEMMA PolicyFailedBooks ==
    ASSUME NEW s, IsSession(s), NEW t, t = note_policy_failure(s)
    PROVE  /\ SameBlocks(s, t) /\ t.views = s.views
           /\ t.violations = s.violations /\ t.refusals = s.refusals /\ t.uncounted = s.uncounted
           /\ t.policyStrikes = s.policyStrikes + 1 /\ t.policyFailures = s.policyFailures + 1
           /\ (t.policyDisabled <=> s.policyDisabled \/ s.policyStrikes + 1 >= Strikes)
           /\ t.assemblyFailures = s.assemblyFailures /\ t.assemblyDisabled = s.assemblyDisabled
<1>1. PICK n : n = s.policyStrikes + 1
  OBVIOUS
<1>2. PICK m : m = s.policyFailures + 1
  OBVIOUS
<1>3. PICK off : off = (s.policyDisabled \/ n >= Strikes)
  OBVIOUS
<1>4. t = [s EXCEPT !.policyFailures = m, !.policyStrikes = n, !.policyDisabled = off]
  BY <1>1, <1>2, <1>3 DEF note_policy_failure
<1>5. /\ SameBlocks(s, t) /\ t.views = s.views
      /\ t.violations = s.violations /\ t.refusals = s.refusals /\ t.uncounted = s.uncounted
      /\ t.policyStrikes = n /\ t.policyFailures = m /\ t.policyDisabled = off
      /\ t.assemblyFailures = s.assemblyFailures /\ t.assemblyDisabled = s.assemblyDisabled
  BY <1>4 DEF IsSession, SameBlocks, Blocks
<1> QED BY <1>1, <1>2, <1>3, <1>5

LEMMA AssemblyFailedBooks ==
    ASSUME NEW s, IsSession(s), NEW t, t = note_assembly_failure(s)
    PROVE  /\ SameBlocks(s, t) /\ t.views = s.views
           /\ t.violations = s.violations /\ t.refusals = s.refusals /\ t.uncounted = s.uncounted
           /\ t.policyStrikes = s.policyStrikes /\ t.policyFailures = s.policyFailures
           /\ t.policyDisabled = s.policyDisabled
           /\ t.assemblyFailures = s.assemblyFailures + 1
           /\ (t.assemblyDisabled <=> s.assemblyDisabled \/ s.assemblyFailures + 1 >= Strikes)
<1>1. PICK n : n = s.assemblyFailures + 1
  OBVIOUS
<1>2. PICK off : off = (s.assemblyDisabled \/ n >= Strikes)
  OBVIOUS
<1>3. t = [s EXCEPT !.assemblyFailures = n, !.degraded = TRUE, !.assemblyDisabled = off]
  BY <1>1, <1>2 DEF note_assembly_failure
<1>4. /\ SameBlocks(s, t) /\ t.views = s.views
      /\ t.violations = s.violations /\ t.refusals = s.refusals /\ t.uncounted = s.uncounted
      /\ t.policyStrikes = s.policyStrikes /\ t.policyFailures = s.policyFailures
      /\ t.policyDisabled = s.policyDisabled
      /\ t.assemblyFailures = n /\ t.assemblyDisabled = off
  BY <1>3 DEF IsSession, SameBlocks, Blocks
<1> QED BY <1>1, <1>2, <1>4

\* A turn begins: no brief yet; a named assembly runs only while it is on.
LEMMA BeginBooks ==
    ASSUME NEW s, IsSession(s), NEW t, t = BeginTurn(s)
    PROVE  /\ SameBlocks(s, t) /\ t.views = 0
           /\ t.violations = s.violations /\ t.refusals = s.refusals /\ t.uncounted = s.uncounted
           /\ t.policyStrikes = s.policyStrikes /\ t.policyFailures = s.policyFailures
           /\ t.policyDisabled = s.policyDisabled
           /\ t.assemblyFailures = s.assemblyFailures /\ t.assemblyDisabled = s.assemblyDisabled
           /\ RunsNamed(t) => t.assembly # "none" /\ ~t.assemblyDisabled
<1>1. PICK n : n = s.turn + 1
  OBVIOUS
<1>2. PICK r : r = [s EXCEPT !.turn = n, !.degraded = FALSE, !.views = 0]
  OBVIOUS
<1>3. IsSession(r) /\ r.blocks = s.blocks /\ r.seenUser = s.seenUser /\ r.mode = s.mode
      /\ r.assembly = s.assembly /\ r.refusals = s.refusals /\ r.uncounted = s.uncounted /\ r.violations = s.violations
      /\ r.policyStrikes = s.policyStrikes /\ r.policyFailures = s.policyFailures
      /\ r.policyDisabled = s.policyDisabled /\ r.views = 0
      /\ r.assemblyFailures = s.assemblyFailures /\ r.assemblyDisabled = s.assemblyDisabled
  BY <1>2 DEF IsSession, Blocks
<1>4. t \in {r, load_named(r)}
  BY <1>1, <1>2 DEF BeginTurn
<1> DEFINE Like(q) == IsSession(q) /\ q.blocks = r.blocks /\ q.seenUser = r.seenUser /\ q.mode = r.mode
      /\ q.assembly = r.assembly /\ q.refusals = r.refusals /\ q.uncounted = r.uncounted /\ q.violations = r.violations
      /\ q.policyStrikes = r.policyStrikes /\ q.policyFailures = r.policyFailures
      /\ q.policyDisabled = r.policyDisabled /\ q.views = r.views
      /\ q.assemblyFailures = r.assemblyFailures /\ q.assemblyDisabled = r.assemblyDisabled
<1>5. Like(t)
  <2>1. CASE t = r
    BY <1>3, <2>1
  <2>2. CASE t = [r EXCEPT !.named = "failed"]
    BY <1>3, <2>2 DEF IsSession, Blocks
  <2>3. CASE t = merge_methods([r EXCEPT !.named = "loaded"], "assembly")
    <3>1. PICK q : q = [r EXCEPT !.named = "loaded"]
      OBVIOUS
    <3>2. Like(q)
      BY <1>3, <3>1 DEF IsSession, Blocks
    <3>3. PICK o : o = IF q.owner = "none" THEN "assembly" ELSE q.owner
      OBVIOUS
    <3>4. t = [q EXCEPT !.owner = o]
      BY <2>3, <3>1, <3>3 DEF merge_methods
    <3>5. IsSession(t) /\ t.blocks = q.blocks /\ t.seenUser = q.seenUser /\ t.mode = q.mode
      /\ t.assembly = q.assembly /\ t.refusals = q.refusals /\ t.uncounted = q.uncounted /\ t.violations = q.violations
      /\ t.policyStrikes = q.policyStrikes /\ t.policyFailures = q.policyFailures
      /\ t.policyDisabled = q.policyDisabled /\ t.views = q.views
      /\ t.assemblyFailures = q.assemblyFailures /\ t.assemblyDisabled = q.assemblyDisabled
      BY <3>2, <3>4 DEF IsSession, Blocks
    <3> QED BY <3>2, <3>5
  <2> QED BY <1>4, <2>1, <2>2, <2>3 DEF load_named
<1>6. RunsNamed(t) => t.assembly # "none" /\ ~t.assemblyDisabled
  BY DEF RunsNamed, Wanted
<1> QED BY <1>3, <1>5, <1>6 DEF SameBlocks

\* Registering and restyling leave pins and pointers to derived blocks alone.
Steady(s, t) ==
    \A b \in Blocks(s) :
        /\ b \in Blocks(t)
        /\ t.blocks[b].pinned = s.blocks[b].pinned /\ t.blocks[b].to \in {s.blocks[b].to, 0}
        /\ s.blocks[b].pinned /\ s.blocks[b].to = 0 /\ s.blocks[b].form \notin Elided =>
              t.blocks[b].form \notin Elided

LEMMA SteadyTwice ==
    ASSUME NEW s, NEW t, NEW u, Steady(s, t), Steady(t, u)
    PROVE  Steady(s, u) /\ PinsKept(s, u)
BY DEF Steady, PinsKept

LEMMA StagesSteady ==
    ASSUME NEW n \in Nat, NEW s, ViewOK(s, n)
    PROVE  Steady(s, Stages(s))
<1>1. \A b \in Blocks(s) : Stages(s).blocks[b] = IF b \in Older(s)
                                                 THEN StagesOf(s.mode, s.blocks[b])
                                                 ELSE s.blocks[b]
  BY StagesKeep
<1>2. Len(Stages(s).blocks) = Len(s.blocks)
  BY StagesKeep
<1> SUFFICES ASSUME NEW b \in Blocks(s)
             PROVE  LET k == s.blocks[b]
                        l == Stages(s).blocks[b]
                    IN  /\ l.pinned = k.pinned /\ l.to \in {k.to, 0}
                        /\ k.pinned /\ k.form \notin Elided => l.form \notin Elided
  BY <1>2 DEF Steady, Blocks
<1>3. IsBlock(s.blocks[b]) /\ s.blocks[b].form \in Forms
  BY DEF ViewOK, IsSession, BlocksTyped
<1>4. Restyled(s.blocks[b], StagesOf(s.mode, s.blocks[b]))
  BY <1>3, StagesRestyle
<1> QED BY <1>1, <1>4 DEF Restyled

\* register_history followed by register_outgoing.
LEMMA RegisteredKeeps ==
    ASSUME NEW n \in Nat, NEW s, ViewOK(s, n), NEW h, DOMAIN h = 1..n, NEW x,
           NEW t, t = register_outgoing(register_history(s, h), x)
    PROVE  /\ ViewOK(t, n) /\ Steady(s, t) /\ SameBooks(s, t)
           /\ t.violations = s.violations /\ t.refusals = s.refusals /\ t.uncounted = s.uncounted
<1>1. PICK r : r = register_history(s, h)
  OBVIOUS
<1>2. ViewOK(r, n) /\ Kept(s, r) /\ HistoryIn(s, h, r)
  BY <1>1, HistoryKeeps
<1>3. ViewOK(t, n) /\ Kept(r, t) /\ OutgoingIn(r, x, t)
  <2>1. t = register_outgoing(r, x) /\ ViewOK(r, n)
    BY <1>1, <1>2
  <2> QED BY ONLY <2>1, n \in Nat, OutgoingKeeps
<1>4. SameBooks(s, t) /\ t.violations = s.violations /\ t.refusals = s.refusals /\ t.uncounted = s.uncounted
  <2>1. IsSession(s) /\ IsSession(r) /\ SameControl(s, r) /\ SameControl(r, t)
    BY <1>2, <1>3 DEF ViewOK, Kept
  <2>2. SameBooks(s, r) /\ r.violations = s.violations /\ r.refusals = s.refusals /\ r.uncounted = s.uncounted
    BY <2>1, SameFields DEF SameBooks
  <2>3. SameBooks(r, t) /\ t.violations = r.violations /\ t.refusals = r.refusals /\ t.uncounted = r.uncounted
    BY <2>1, SameFields DEF SameBooks
  <2> QED BY <2>2, <2>3 DEF SameBooks
<1>5. \A b \in Blocks(s) : b \in Blocks(r) /\ b \in Blocks(t)
  <2>1. Len(s.blocks) \in Nat
    BY ListLen DEF ViewOK, IsSession
  <2> QED BY <1>2, <1>3, <2>1 DEF Blocks, HistoryIn, OutgoingIn
<1>6. ASSUME NEW b \in Blocks(s)
      PROVE  /\ t.blocks[b].pinned = s.blocks[b].pinned /\ t.blocks[b].to = s.blocks[b].to
             /\ t.blocks[b].form = s.blocks[b].form
  <2>1. PICK y : r.blocks[b] = [s.blocks[b] EXCEPT !.idx = y]
    BY <1>2 DEF HistoryIn
  <2>2. IsBlock(s.blocks[b])
    BY DEF ViewOK, IsSession
  <2>3. t.blocks[b] = [s.blocks[b] EXCEPT !.idx = y]
    BY <1>3, <1>5, <2>1 DEF OutgoingIn
  <2> QED BY <2>2, <2>3 DEF IsBlock
<1> QED BY <1>3, <1>4, <1>5, <1>6 DEF Steady

-----------------------------------------------------------------------------
(*                        The window of a preset                           *)

\* A history as Heard and Windowed describe it, of n entries.
Told(h, n) ==
    /\ DOMAIN h = 1..n
    /\ \A i \in 1..n : /\ HasText(h[i]) /\ h[i].text.quotes = 0
                       /\ ~h[i].text.hdr => h[i].text.n = 98 + i
    /\ n # 0 => ~h[n].text.hdr

\* The view whose p blocks are all but the newest of those n entries.
Unread(s, h, n, p, x) ==
    /\ n \in Nat /\ p \in Nat /\ p = (IF n = 0 THEN 0 ELSE n - 1)
    /\ Told(h, n) /\ MirrorOf(s, p, h, x)

\* The block b of a view that has registered the history h of n entries and the
\* text x behind it, the first p of its n + 1 blocks styled before.
Registers(t, b, h, n, p, x) ==
    LET k == t.blocks[b] IN
    /\ k.kind = "turn_output" /\ k.text = (IF b \in 1..n THEN h[b].text ELSE x)
    /\ k.len = k.text.len /\ (k.pinned <=> b = 1)
    /\ k.idx = IF b <= n THEN b ELSE 0
    /\ k.form \in {"full", "placeholder", "excerpt", "dedup"}
    /\ k.form = "dedup" => k.text.hdr
    /\ b + WindowK > p => k.form = "full"
    /\ b + WindowK <= p /\ b # 1 /\ k.len >= DropFloor => k.form \in {"placeholder", "excerpt"}

\* The blocks known for the text of an entry: those of the entries with that text.
LEMMA KnownEntries ==
    ASSUME NEW n, NEW h, NEW p, NEW s, NEW x, Unread(s, h, n, p, x)
    PROVE  \A i \in 1..n :
              /\ BindsTo(s, h[i]) \subseteq 1..p
              /\ \A c \in 1..p : c \in BindsTo(s, h[i]) <=> h[c].text = h[i].text
              /\ i <= p => i \in BindsTo(s, h[i])
              /\ i = n => BindsTo(s, h[i]) = {}
<1> TAKE i \in 1..n
<1>0. /\ n \in Nat /\ p \in Nat /\ p = (IF n = 0 THEN 0 ELSE n - 1)
      /\ Told(h, n) /\ MirrorOf(s, p, h, x)
  BY DEF Unread
<1>1. Blocks(s) = 1..p /\ h[i].text.quotes = 0 /\ 1..p \subseteq 1..n
  BY <1>0 DEF Blocks, MirrorOf, Told
<1>2. \A b \in 1..p : s.blocks[b].kind = "turn_output" /\ s.blocks[b].text = h[b].text
  <2> TAKE b \in 1..p
  <2>1. Mirrors(s, b, h, x) /\ b \in DOMAIN h
    BY <1>0, <1>1 DEF MirrorOf, Told
  <2> QED BY <2>1 DEF Mirrors
<1>3. BindsTo(s, h[i]) = {b \in 1..p : h[b].text = h[i].text}
  BY <1>1, <1>2 DEF BindsTo, Known
<1>4. i <= p => i \in BindsTo(s, h[i])
  BY <1>3
<1>5. ASSUME i = n, NEW b \in 1..p
      PROVE  h[b].text # h[i].text
  <2>1. ~h[n].text.hdr /\ h[n].text.n = 98 + n /\ (~h[b].text.hdr => h[b].text.n = 98 + b) /\ b < n
    BY <1>0, <1>1, <1>5 DEF Told
  <2> QED BY <1>5, <2>1
<1>6. i = n => BindsTo(s, h[i]) = {}
  BY <1>3, <1>5
<1> QED BY <1>3, <1>4, <1>6

\* Only the newest entry is new, and it becomes the next block.
LEMMA NewestEntry ==
    ASSUME NEW n, NEW h, NEW p, NEW s, NEW x, Unread(s, h, n, p, x)
    PROVE  /\ NewEntries(s, h) = (IF n = 0 THEN {} ELSE {n})
           /\ Cardinality(NewEntries(s, h)) = n - p
           /\ n # 0 => EntryOf(s, h, n) = n /\ EntriesOf(s, h, n) = {n}
<1>0. /\ n \in Nat /\ p \in Nat /\ p = (IF n = 0 THEN 0 ELSE n - 1)
      /\ Told(h, n) /\ MirrorOf(s, p, h, x)
  BY DEF Unread
<1>10. \A i \in 1..n :
         /\ BindsTo(s, h[i]) \subseteq 1..p
         /\ \A c \in 1..p : c \in BindsTo(s, h[i]) <=> h[c].text = h[i].text
         /\ i <= p => i \in BindsTo(s, h[i])
         /\ i = n => BindsTo(s, h[i]) = {}
  BY KnownEntries
<1>1. DOMAIN h = 1..n /\ Blocks(s) = 1..p
  BY <1>0 DEF Told, Blocks, MirrorOf
<1>2. ASSUME n # 0, NEW j \in 1..n - 1
      PROVE  h[j].text # h[n].text
  <2>1. ~h[n].text.hdr /\ h[n].text.n = 98 + n /\ (~h[j].text.hdr => h[j].text.n = 98 + j) /\ j < n
    BY <1>0, <1>2 DEF Told
  <2> QED BY <1>0, <2>1
<1>3. NewEntries(s, h) = IF n = 0 THEN {} ELSE {n}
  <2>1. \A i \in 1..n : i <= p => BindsTo(s, h[i]) # {}
    BY <1>10
  <2>2. \A i \in 1..n : i = n => BindsTo(s, h[i]) = {}
    BY <1>10
  <2>3. n # 0 => n \in 1..n /\ \A i \in 1..n : i <= p \/ i = n
    BY <1>0
  <2>4. \A i \in 1..n : HasText(h[i])
    BY <1>0 DEF Told
  <2> QED BY <1>1, <1>2, <2>1, <2>2, <2>3, <2>4 DEF NewEntries
<1>4. Cardinality({}) = 0 /\ \A y : Cardinality({y}) = 1
  BY FS_EmptySet, FS_Singleton
<1>5. Cardinality(NewEntries(s, h)) = n - p
  <2>1. CASE n = 0
    BY <1>0, <1>3, <1>4, <2>1
  <2>2. CASE n # 0
    <3>1. n - p = 1
      BY <1>0, <2>2
    <3> QED BY <1>3, <1>4, <2>2, <3>1
  <2> QED BY <2>1, <2>2
<1>6. ASSUME n # 0
      PROVE  EntryOf(s, h, n) = n /\ EntriesOf(s, h, n) = {n}
  <2>1. NewEntries(s, h) = {n} /\ n - Len(s.blocks) = 1
    BY <1>0, <1>3, <1>6 DEF MirrorOf
  <2>2. {j \in {n} : j <= n} = {n}
    BY <1>0
  <2>3. EntryOf(s, h, n) = n
    <3> DEFINE Count(i) == Cardinality({j \in NewEntries(s, h) : j <= i})
    <3>1. Count(n) = 1
      BY <1>4, <2>1, <2>2
    <3>2. EntryOf(s, h, n) = CHOOSE i \in {n} : Count(i) = 1
      BY <2>1 DEF EntryOf
    <3> HIDE DEF Count
    <3> QED BY <3>1, <3>2
  <2>4. n \notin Blocks(s) /\ TextOf(s, h, n) = h[n].text
    BY <1>0, <1>1, <1>6, <2>3 DEF TextOf
  <2>5. ASSUME NEW i \in 1..n, i # n
        PROVE  BindsTo(s, h[i]) # {} /\ n # Max(BindsTo(s, h[i]))
    <3>1. BindsTo(s, h[i]) # {} /\ BindsTo(s, h[i]) \subseteq 1..p
      <4>1. i <= p
        BY <1>0, <2>5
      <4> QED BY <1>10, <4>1
    <3>2. Max(BindsTo(s, h[i])) \in 1..p
      BY <1>0, <3>1, MaxIn
    <3> QED BY <1>0, <3>1, <3>2, <1>6
  <2>6. BindsTo(s, h[n]) = {}
    BY <1>0, <1>6, <1>10
  <2>8. HasText(h[n])
    BY <1>0, <1>6 DEF Told
  <2>7. \A i \in 1..n : i \in EntriesOf(s, h, n) <=> i = n
    BY <1>1, <2>4, <2>5, <2>6, <2>8 DEF EntriesOf
  <2> QED BY <1>0, <1>1, <1>6, <2>3, <2>7 DEF EntriesOf
<1> QED BY <1>3, <1>5, <1>6

\* A block there is stays with its entry, or is bound to it: where texts repeat, all
\* their entries go to the newest block, and the older blocks keep their own.
LEMMA BoundEntries ==
    ASSUME NEW n, NEW h, NEW p, NEW s, NEW x, Unread(s, h, n, p, x), NEW b \in 1..p
    PROVE  (IF EntriesOf(s, h, b) = {} THEN s.blocks[b].idx ELSE Max(EntriesOf(s, h, b))) = b
<1>0. /\ n \in Nat /\ p \in Nat /\ p = (IF n = 0 THEN 0 ELSE n - 1)
      /\ Told(h, n) /\ MirrorOf(s, p, h, x)
  BY DEF Unread
<1>1. DOMAIN h = 1..n /\ Blocks(s) = 1..p /\ b \in 1..n
  BY <1>0 DEF Told, Blocks, MirrorOf
<1>10. \A i \in 1..n :
         /\ BindsTo(s, h[i]) \subseteq 1..p
         /\ \A c \in 1..p : c \in BindsTo(s, h[i]) <=> h[c].text = h[i].text
         /\ i <= p => i \in BindsTo(s, h[i])
         /\ i = n => BindsTo(s, h[i]) = {}
  BY KnownEntries
<1>2. \A i \in 1..n : /\ BindsTo(s, h[i]) \subseteq 1..p
                     /\ \A c \in 1..p : c \in BindsTo(s, h[i]) <=> h[c].text = h[i].text
  BY <1>10
<1>3. b \in BindsTo(s, h[b])
  BY <1>1, <1>10
<1>4. PICK z : z = Max(BindsTo(s, h[b]))
  OBVIOUS
<1>5. z \in BindsTo(s, h[b]) /\ \A y \in BindsTo(s, h[b]) : y <= z
  <2>1. BindsTo(s, h[b]) \subseteq 1..p
    BY <1>1, <1>2
  <2> QED BY <1>0, <1>3, <1>4, <2>1, MaxIn
<1>6. z \in 1..p /\ b <= z
  BY <1>0, <1>1, <1>2, <1>3, <1>5
<1>7. ASSUME NEW i \in EntriesOf(s, h, b)
      PROVE  i \in 1..n /\ b = z /\ i <= b
  <2>1. i \in 1..n /\ BindsTo(s, h[i]) # {} /\ b = Max(BindsTo(s, h[i]))
    BY <1>1 DEF EntriesOf
  <2>2. BindsTo(s, h[i]) \subseteq 1..p
    BY <1>2, <2>1
  <2>3. b \in BindsTo(s, h[i]) /\ \A y \in BindsTo(s, h[i]) : y <= b
    BY <1>0, <2>1, <2>2, MaxIn
  <2>4. h[b].text = h[i].text
    BY <1>2, <2>1, <2>3
  <2>5. BindsTo(s, h[i]) = BindsTo(s, h[b])
    BY <1>1, <1>2, <2>1, <2>4
  <2>6. i <= p
    <3>1. i # n
      BY <1>10, <2>1
    <3> QED BY <1>0, <2>1, <3>1
  <2>7. i \in BindsTo(s, h[i])
    BY <1>10, <2>1, <2>6
  <2> QED BY <1>4, <2>1, <2>3, <2>5, <2>7
<1>8. CASE b = z
  <2>1. b \in EntriesOf(s, h, b)
    BY <1>0, <1>1, <1>3, <1>4, <1>8 DEF EntriesOf, Told
  <2>2. EntriesOf(s, h, b) \subseteq 1..n
    BY <1>7
  <2>3. Max(EntriesOf(s, h, b)) \in EntriesOf(s, h, b) /\ b <= Max(EntriesOf(s, h, b))
    BY <1>0, <2>1, <2>2, MaxIn
  <2>4. Max(EntriesOf(s, h, b)) <= b /\ Max(EntriesOf(s, h, b)) \in 1..n
    BY <1>7, <2>3
  <2> QED BY <1>0, <1>1, <2>1, <2>3, <2>4
<1>9. CASE b # z
  <2>1. EntriesOf(s, h, b) = {}
    BY <1>7, <1>9
  <2>2. b < p
    BY <1>0, <1>6, <1>9
  <2>3. Mirrors(s, b, h, x) /\ Len(s.blocks) = p
    BY <1>0 DEF MirrorOf
  <2> QED BY <2>1, <2>2, <2>3 DEF Mirrors
<1> QED BY <1>8, <1>9

\* What registering makes of the view, block by block.
LEMMA RegisteredMirror ==
    ASSUME NEW n, NEW h, NEW p, NEW s, NEW x, Unread(s, h, n, p, x), ViewOK(s, n),
           NEW t, t = register_outgoing(register_history(s, h), x)
    PROVE  /\ Len(t.blocks) = n + 1 /\ t.seenUser = TRUE
           /\ \A b \in 1..n + 1 : Registers(t, b, h, n, p, x)
<1>0. /\ n \in Nat /\ p \in Nat /\ p = (IF n = 0 THEN 0 ELSE n - 1)
      /\ Told(h, n) /\ MirrorOf(s, p, h, x) /\ WindowK \in Nat \ {0}
  BY ContextAssumption DEF Unread
<1>1. PICK r : r = register_history(s, h)
  OBVIOUS
<1>2. ViewOK(r, n) /\ HistoryIn(s, h, r)
  <2>1. DOMAIN h = 1..n
    BY <1>0 DEF Told
  <2> QED BY <1>0, <1>1, <2>1, HistoryKeeps
<1>3. OutgoingIn(r, x, t)
  <2>1. t = register_outgoing(r, x) /\ ViewOK(r, n) /\ n \in Nat
    BY <1>0, <1>1, <1>2
  <2> QED BY ONLY <2>1, OutgoingKeeps
<1>4. /\ NewEntries(s, h) = (IF n = 0 THEN {} ELSE {n}) /\ Cardinality(NewEntries(s, h)) = n - p
      /\ n # 0 => EntryOf(s, h, n) = n /\ EntriesOf(s, h, n) = {n}
  BY NewestEntry
<1>5. Len(s.blocks) = p /\ Blocks(s) = 1..p /\ (s.seenUser <=> p > 0)
  BY <1>0 DEF Blocks, MirrorOf
<1>6. Len(r.blocks) = n /\ Blocks(r) = 1..n
  BY <1>0, <1>2, <1>4, <1>5 DEF HistoryIn, Blocks
<1>7. Len(t.blocks) = n + 1 /\ t.seenUser = TRUE
  BY <1>3, <1>6 DEF OutgoingIn
<1>8. r.seenUser <=> n # 0
  <2>1. NewEntries(s, h) # {} <=> n # 0
    BY <1>4
  <2>2. s.seenUser => n # 0
    BY <1>0, <1>5
  <2>3. r.seenUser = (s.seenUser \/ NewEntries(s, h) # {})
    BY <1>2 DEF HistoryIn
  <2> QED BY <2>1, <2>2, <2>3
<1>9. ASSUME NEW b \in 1..p
      PROVE  Registers(t, b, h, n, p, x)
  <2>1. b \in 1..n /\ b \in DOMAIN h
    BY <1>0 DEF Told
  <2>2. Mirrors(s, b, h, x)
    BY <1>0 DEF MirrorOf
  <2>3. PICK y : /\ r.blocks[b] = [s.blocks[b] EXCEPT !.idx = y]
                 /\ y = IF EntriesOf(s, h, b) = {} THEN s.blocks[b].idx
                        ELSE Max(EntriesOf(s, h, b))
    BY <1>2, <1>5 DEF HistoryIn
  <2>4. y = b
    BY <2>3, BoundEntries
  <2>5. t.blocks[b] = [s.blocks[b] EXCEPT !.idx = b]
    BY <1>3, <1>6, <2>1, <2>3, <2>4 DEF OutgoingIn
  <2>6. IsBlock(s.blocks[b])
    BY <1>5 DEF ViewOK, IsSession
  <2>7. PICK k : k = s.blocks[b]
    OBVIOUS
  <2>8. PICK l : l = t.blocks[b]
    OBVIOUS
  <2>9. l.kind = k.kind /\ l.text = k.text /\ l.len = k.len /\ l.pinned = k.pinned
        /\ l.form = k.form /\ l.idx = b
    BY <2>5, <2>6, <2>7, <2>8 DEF IsBlock
  <2>10. /\ k.kind = "turn_output" /\ k.text = h[b].text
         /\ k.len = k.text.len /\ (k.pinned <=> b = 1)
         /\ k.form \in {"full", "placeholder", "excerpt", "dedup"}
         /\ k.form = "dedup" => k.text.hdr
         /\ b + WindowK > p => k.form = "full"
         /\ b + WindowK <= p /\ b # 1 /\ k.len >= DropFloor => k.form \in {"placeholder", "excerpt"}
    BY <1>5, <2>1, <2>2, <2>7 DEF Mirrors
  <2>11. b <= n
    BY <2>1
  <2> QED BY <2>1, <2>8, <2>9, <2>10, <2>11 DEF Registers
<1>10. ASSUME n # 0
       PROVE  Registers(t, n, h, n, p, x)
  <2>1. /\ n \in (Len(s.blocks) + 1)..(Len(s.blocks) + Cardinality(NewEntries(s, h)))
        /\ n \in 1..n
    BY <1>0, <1>4, <1>5, <1>10
  <2>2. PICK k : k = r.blocks[n]
    OBVIOUS
  <2>3. t.blocks[n] = k
    BY <1>3, <1>6, <2>1, <2>2 DEF OutgoingIn
  <2>4. /\ Newborn(k) /\ k.kind = "turn_output" /\ k.text = h[n].text /\ k.len = h[n].text.len
        /\ (k.pinned <=> ~s.seenUser /\ n = Min(NewEntries(s, h))) /\ BoundTo(s, h, n, k)
    BY <1>2, <1>4, <1>10, <2>1, <2>2 DEF HistoryIn
  <2>5. Max({n}) = n /\ Min({n}) = n
    BY <1>0 DEF Max, Min
  <2>6. k.idx = n
    BY <1>4, <1>10, <2>4, <2>5 DEF BoundTo
  <2>7. k.pinned <=> n = 1
    BY <1>0, <1>4, <1>5, <1>10, <2>4, <2>5
  <2>8. k.form = "full" /\ ~(n + WindowK <= p) /\ n <= n
    BY <1>0, <1>10, <2>4 DEF Newborn
  <2> QED BY <2>1, <2>3, <2>4, <2>6, <2>7, <2>8 DEF Registers
<1>11. Registers(t, n + 1, h, n, p, x)
  <2>1. PICK e : e = t.blocks[n + 1]
    OBVIOUS
  <2>2. /\ Newborn(e) /\ e.idx = 0 /\ e.text = x /\ e.kind = "turn_output"
        /\ e.len = x.len /\ (e.pinned <=> ~r.seenUser)
    BY <1>3, <1>6, <2>1 DEF OutgoingIn
  <2>3. (n + 1) \notin 1..n /\ ~(n + 1 <= n) /\ ~(n + 1 + WindowK <= p) /\ (n + 1 = 1 <=> n = 0)
    BY <1>0
  <2>4. e.form = "full" /\ (e.pinned <=> n + 1 = 1)
    BY <1>8, <2>2, <2>3 DEF Newborn
  <2> QED BY <2>1, <2>2, <2>3, <2>4 DEF Registers
<1>12. \A b \in 1..n + 1 : b \in 1..p \/ (n # 0 /\ b = n) \/ b = n + 1
  BY <1>0
<1> QED BY <1>7, <1>9, <1>10, <1>11, <1>12

\* A block is older when WindowK newer ones are registered.
LEMMA OlderBlocks ==
    ASSUME NEW m \in Nat, NEW t, Len(t.blocks) = m,
           \A b \in 1..m : t.blocks[b].kind = "turn_output"
    PROVE  \A b \in 1..m : b \in Older(t) <=> b + WindowK <= m
<1> TAKE b \in 1..m
<1>1. WindowK \in Nat \ {0} /\ Blocks(t) = 1..m
  BY ContextAssumption DEF Blocks
<1>2. {c \in b..m : t.blocks[c].kind = "turn_output"} = b..m
  OBVIOUS
<1>3. Rounds(t, b) = Cardinality(b..m)
  BY <1>2 DEF Rounds
<1>4. Cardinality(b..m) = m - b + 1
  <2>1. b \in Int /\ m \in Int /\ b <= m
    OBVIOUS
  <2> QED BY <2>1, FS_Interval
<1> QED BY <1>1, <1>3, <1>4 DEF Older

\* What the stages make of such a block.
LEMMA StagesWindow ==
    ASSUME NEW k, IsBlock(k), NEW mode \in {"slice", "compact_conservative"},
           k.form \in {"full", "placeholder", "excerpt", "dedup"}, k.form = "dedup" => k.text.hdr,
           k.len \in Nat, k.pinned \in BOOLEAN,
           NEW l, l = StagesOf(mode, k)
    PROVE  /\ l.form \in {"full", "placeholder", "excerpt", "dedup"}
           /\ l.form = "dedup" => l.text.hdr
           /\ ~k.pinned /\ k.len >= DropFloor /\ k.form \in {"full", "placeholder", "excerpt"}
                => l.form \in {"placeholder", "excerpt"}
<1> DEFINE Styled(a) ==
      /\ IsBlock(a) /\ a.text = k.text /\ a.len = k.len /\ a.pinned = k.pinned
      /\ a.form \in {"full", "placeholder", "excerpt", "dedup"}
      /\ a.form = "dedup" => a.text.hdr
      /\ k.form \in {"full", "placeholder", "excerpt"} => a.form # "dedup"
<1>1. ASSUME NEW a, Styled(a), NEW when, NEW form, NEW c, c = Substitute(a, when, form)
      PROVE  /\ ~when => c = a
             /\ when => /\ IsBlock(c) /\ c.form = form /\ c.text = a.text /\ c.len = a.len
                        /\ c.pinned = a.pinned
  <2>1. CASE when
    <3>1. c = [a EXCEPT !.form = form, !.to = 0]
      BY <1>1, <2>1 DEF Substitute
    <3> QED BY <1>1, <2>1, <3>1 DEF IsBlock
  <2>2. CASE ~when
    BY <1>1, <2>2 DEF Substitute
  <2> QED BY <2>1, <2>2
<1>2. ASSUME NEW a, Styled(a), NEW c, c = conservative_compaction(a)
      PROVE  Styled(c) /\ (a.form # "full" => c.form = a.form)
  <2> DEFINE when == Excerptable(a) /\ a.len >= DropFloor
  <2>1. c = Substitute(a, when, "excerpt") /\ (when => a.form = "full")
    BY <1>2 DEF conservative_compaction, Excerptable
  <2> HIDE DEF when
  <2>2. /\ ~when => c = a
        /\ when => IsBlock(c) /\ c.form = "excerpt" /\ c.text = a.text /\ c.len = a.len
                   /\ c.pinned = a.pinned
    BY <1>1, <1>2, <2>1
  <2> QED BY <1>2, <2>1, <2>2
<1>3. ASSUME NEW a, Styled(a), NEW c, c = window_defaults(a)
      PROVE  Styled(c) /\ (~k.pinned /\ k.len >= DropFloor => c.form # "full")
  <2> DEFINE when == a.form = "full" /\ ~a.pinned /\ a.len >= DropFloor
  <2>1. c = Substitute(a, when, "placeholder")
    BY <1>3 DEF window_defaults
  <2>2. when <=> a.form = "full" /\ ~k.pinned /\ k.len >= DropFloor
    BY <1>3
  <2> HIDE DEF when
  <2>3. /\ ~when => c = a
        /\ when => IsBlock(c) /\ c.form = "placeholder" /\ c.text = a.text /\ c.len = a.len
                   /\ c.pinned = a.pinned
    BY <1>1, <1>3, <2>1
  <2> QED BY <1>3, <2>2, <2>3
<1>4. ASSUME NEW a, Styled(a), NEW c, c = dedup_prefix(a)
      PROVE  /\ c.form \in {"full", "placeholder", "excerpt", "dedup"}
             /\ c.form = "dedup" => c.text.hdr
             /\ a.form # "full" => c.form = a.form
  <2> DEFINE when == a.form = "full" /\ a.text.hdr /\ a.len >= DropFloor + HeaderLen
  <2>1. c = Substitute(a, when, "dedup") /\ (when => a.form = "full" /\ a.text.hdr)
    BY <1>4 DEF dedup_prefix
  <2> HIDE DEF when
  <2>2. /\ ~when => c = a
        /\ when => IsBlock(c) /\ c.form = "dedup" /\ c.text = a.text /\ c.len = a.len
                   /\ c.pinned = a.pinned
    BY <1>1, <1>4, <2>1
  <2> QED BY <1>4, <2>1, <2>2
<1>5. Styled(k)
  OBVIOUS
<1> HIDE DEF Styled
<1>6. PICK c : c = IF mode = "compact_conservative" THEN conservative_compaction(k) ELSE k
  OBVIOUS
<1>7. Styled(c)
  BY <1>2, <1>5, <1>6
<1>8. PICK w : w = window_defaults(c)
  OBVIOUS
<1>9. Styled(w) /\ (~k.pinned /\ k.len >= DropFloor => w.form # "full")
  BY <1>3, <1>7, <1>8
<1>10. l = dedup_prefix(w)
  BY <1>6, <1>8 DEF StagesOf
<1>11. /\ l.form \in {"full", "placeholder", "excerpt", "dedup"}
       /\ l.form = "dedup" => l.text.hdr
       /\ w.form # "full" => l.form = w.form
  BY <1>4, <1>9, <1>10
<1> QED BY <1>9, <1>11 DEF Styled


\* The stages of a preset make the registered view the window that Mirror speaks of.
LEMMA StagesMirror ==
    ASSUME NEW n, NEW h, NEW p, NEW s, NEW x, Unread(s, h, n, p, x),
           NEW t, ViewOK(t, n), Len(t.blocks) = n + 1, t.seenUser = TRUE,
           \A b \in 1..n + 1 : Registers(t, b, h, n, p, x),
           t.mode \in {"slice", "compact_conservative"},
           x.len \in Nat, \A i \in 1..n : h[i].text.len \in Nat
    PROVE  MirrorOf(Stages(t), n + 1, h, x)
<1>0. /\ n \in Nat /\ p \in Nat /\ p = (IF n = 0 THEN 0 ELSE n - 1)
      /\ DOMAIN h = 1..n /\ WindowK \in Nat \ {0}
  BY ContextAssumption DEF Unread, Told
<1>1. PICK u : u = Stages(t)
  OBVIOUS
<1>2. /\ u.seenUser = t.seenUser /\ Len(u.blocks) = n + 1
      /\ \A b \in 1..n + 1 : u.blocks[b] = IF b \in Older(t) THEN StagesOf(t.mode, t.blocks[b])
                                           ELSE t.blocks[b]
  BY <1>0, <1>1, StagesKeep DEF Blocks
<1>3. \A b \in 1..n + 1 : b \in Older(t) <=> b + WindowK <= n + 1
  <2>1. \A b \in 1..n + 1 : t.blocks[b].kind = "turn_output"
    BY DEF Registers
  <2>2. n + 1 \in Nat
    BY <1>0
  <2> QED BY <2>1, <2>2, OlderBlocks
<1>4. ASSUME NEW b \in 1..n + 1
      PROVE  Mirrors(u, b, h, x)
  <2>1. PICK k : k = t.blocks[b]
    OBVIOUS
  <2>2. PICK l : l = u.blocks[b]
    OBVIOUS
  <2>3. IsBlock(k) /\ k.form \in Forms /\ k.pinned \in BOOLEAN
    BY <2>1 DEF ViewOK, IsSession, BlocksTyped, Blocks
  <2>4. /\ k.kind = "turn_output" /\ k.text = (IF b \in 1..n THEN h[b].text ELSE x)
        /\ k.len = k.text.len /\ (k.pinned <=> b = 1)
        /\ k.idx = IF b <= n THEN b ELSE 0
        /\ k.form \in {"full", "placeholder", "excerpt", "dedup"}
        /\ k.form = "dedup" => k.text.hdr
        /\ b + WindowK > p => k.form = "full"
        /\ b + WindowK <= p /\ b # 1 /\ k.len >= DropFloor => k.form \in {"placeholder", "excerpt"}
    BY <2>1 DEF Registers
  <2>5. k.len \in Nat
    BY <2>4
  <2>6. l.kind = k.kind /\ l.text = k.text /\ l.len = k.len /\ l.pinned = k.pinned /\ l.idx = k.idx
    <3>1. CASE b \in Older(t)
      <4>1. l = StagesOf(t.mode, k)
        BY <1>2, <2>1, <2>2, <3>1
      <4> QED BY <2>3, <4>1, StagesRestyle DEF Restyled
    <3>2. CASE b \notin Older(t)
      BY <1>2, <2>1, <2>2, <3>2
    <3> QED BY <3>1, <3>2
  <2>7. /\ l.form \in {"full", "placeholder", "excerpt", "dedup"}
        /\ l.form = "dedup" => l.text.hdr
        /\ b + WindowK > n + 1 => l.form = "full"
        /\ b + WindowK <= n + 1 /\ b # 1 /\ l.len >= DropFloor => l.form \in {"placeholder", "excerpt"}
    <3>1. CASE b \in Older(t)
      <4>1. l = StagesOf(t.mode, k)
        BY <1>2, <2>1, <2>2, <3>1
      <4>2. /\ l.form \in {"full", "placeholder", "excerpt", "dedup"}
            /\ l.form = "dedup" => l.text.hdr
            /\ ~k.pinned /\ k.len >= DropFloor /\ k.form \in {"full", "placeholder", "excerpt"}
                 => l.form \in {"placeholder", "excerpt"}
        BY <2>3, <2>4, <2>5, <4>1, StagesWindow
      <4>3. ~(b + WindowK > n + 1)
        BY <1>0, <1>3, <3>1
      <4>4. b # 1 /\ l.len >= DropFloor => l.form \in {"placeholder", "excerpt"}
        <5> SUFFICES ASSUME b # 1, l.len >= DropFloor PROVE l.form \in {"placeholder", "excerpt"}
          OBVIOUS
        <5>1. ~k.pinned /\ k.len >= DropFloor
          BY <2>4, <2>6
        <5>2. b + WindowK > p \/ b + WindowK <= p
          BY <1>0
        <5>3. k.form \in {"full", "placeholder", "excerpt"}
          BY <2>4, <5>1, <5>2
        <5> QED BY <4>2, <5>1, <5>3
      <4> QED BY <4>2, <4>3, <4>4
    <3>2. CASE b \notin Older(t)
      <4>1. l = k
        BY <1>2, <2>1, <2>2, <3>2
      <4>2. b + WindowK > n + 1 /\ ~(b + WindowK <= n + 1) /\ b + WindowK > p
        BY <1>0, <1>3, <3>2
      <4> QED BY <2>4, <4>1, <4>2
    <3> QED BY <3>1, <3>2
  <2>8. (IF b <= n THEN b ELSE 0) = (IF b < n + 1 THEN b ELSE 0)
    BY <1>0
  <2>9. (IF b \in 1..n THEN h[b].text ELSE x) = (IF b \in DOMAIN h THEN h[b].text ELSE x)
    BY <1>0
  <2> HIDE DEF Older
  <2> QED BY <1>2, <2>2, <2>4, <2>6, <2>7, <2>8, <2>9 DEF Mirrors
<1>5. u.seenUser <=> n + 1 > 0
  BY <1>0, <1>2
<1> QED BY <1>1, <1>2, <1>4, <1>5 DEF MirrorOf

\* The books do not change what the blocks mirror.
LEMMA MirrorBooks ==
    ASSUME NEW s, NEW t, t.blocks = s.blocks, t.seenUser = s.seenUser,
           NEW n, NEW xs, NEW x, MirrorOf(s, n, xs, x)
    PROVE  MirrorOf(t, n, xs, x)
BY DEF MirrorOf, Mirrors

\* What render sends of such a view is the form of each entry's own block.
LEMMA RenderMirror ==
    ASSUME NEW n \in Nat, NEW h, Told(h, n), NEW s, NEW x, MirrorOf(s, n + 1, h, x),
           NEW i \in 1..n
    PROVE  render(s, h)[i] = s.blocks[i].form
<1>1. /\ DOMAIN h = 1..n /\ Blocks(s) = 1..n + 1 /\ Len(s.blocks) = n + 1
      /\ h[i].text.quotes = 0 /\ HasText(h[i])
  BY DEF Told, MirrorOf, Blocks
<1> DEFINE of(j) == {b \in Blocks(s) : /\ s.blocks[b].idx = j /\ ~Shown(s, b)
                                      /\ HasText(h[j]) /\ h[j].text.quotes # b
                                      /\ ~(s.blocks[b].form = "derived_host" /\ s.blocks[b].to = 0)
                                      /\ (s.blocks[b].form = "dedup" => h[j].text.hdr)}
<1> DEFINE out(j) == IF of(j) = {} THEN "full"
                     ELSE IF Cardinality(of(j)) > 1 THEN "placeholder"
                     ELSE s.blocks[CHOOSE b \in of(j) : TRUE].form
<1> DEFINE bs == of(i)
<1>2. render(s, h)[i] = IF bs = {} THEN "full"
                        ELSE IF Cardinality(bs) > 1 THEN "placeholder"
                        ELSE s.blocks[CHOOSE b \in bs : TRUE].form
  <2>1. render(s, h) = [j \in DOMAIN h |-> out(j)]
    BY DEF render
  <2>2. render(s, h)[i] = out(i)
    <3> HIDE DEF out
    <3> QED BY <1>1, <2>1
  <2> HIDE DEF of
  <2> QED BY <2>2
<1>3. \A b \in 1..n + 1 : s.blocks[b].idx = i => b = i
  <2> TAKE b \in 1..n + 1
  <2>1. s.blocks[b].idx = IF b < n + 1 THEN b ELSE 0
    BY <1>1 DEF MirrorOf, Mirrors
  <2> QED BY <2>1
<1>4. i \in 1..n + 1 /\ i < n + 1
  OBVIOUS
<1>5. /\ s.blocks[i].idx = i /\ s.blocks[i].text = h[i].text
      /\ s.blocks[i].form \in {"full", "placeholder", "excerpt", "dedup"}
      /\ s.blocks[i].form = "dedup" => h[i].text.hdr
  <2>1. Mirrors(s, i, h, x)
    BY <1>4 DEF MirrorOf
  <2> QED BY <1>1, <1>4, <2>1 DEF Mirrors
<1>6. bs \subseteq {i}
  BY <1>1, <1>3
<1>7. CASE s.blocks[i].form = "full"
  <2>1. i \notin bs
    BY <1>7 DEF Shown
  <2>2. bs = {}
    BY <1>6, <2>1
  <2> HIDE DEF bs
  <2> QED BY <1>2, <1>7, <2>2
<1>8. CASE s.blocks[i].form # "full"
  <2>1. i \in bs
    BY <1>1, <1>4, <1>5, <1>8 DEF Shown
  <2>2. bs = {i}
    BY <1>6, <2>1
  <2>3. Cardinality({i}) = 1 /\ (CHOOSE b \in {i} : TRUE) = i
    BY FS_Singleton
  <2> HIDE DEF bs
  <2> QED BY <1>2, <2>2, <2>3
<1> QED BY <1>7, <1>8

-----------------------------------------------------------------------------
(*                     The steps of the context seam                       *)

\* What a step of the seam leaves alone, and where it goes.
SeamSteps ==
    /\ UNCHANGED <<session, msg, phase>> /\ UNCHANGED loopVars /\ UNCHANGED toolVars
    /\ pc \in {"seam", "preset", "policy", "assembly0", "assembly1", "assembly2", "assembly3"}
    /\ pc' \in {"preset", "policy", "assembly0", "assembly1", "assembly2", "assembly3", "llm"}
    /\ attempt' \in 1..2 /\ edits' \in {edits, edits + 1} /\ recs' \in Nat
    /\ sent' = sent \/ (DOMAIN sent' = DOMAIN hist /\ \A i \in DOMAIN sent' : sent'[i] \in Forms)

LEMMA SeamMoves ==
    ASSUME IInv, SeamSteps, cm'.mode = cm.mode, ViewOK(cm', Len(hist)), Books',
           Mirror' /\ CopiesWindowed'
    PROVE  IInv'
<1>1. Types'
  BY DEF IInv, Types, SeamSteps, loopVars
<1>2. Steps'
  BY DEF IInv, Steps, SeamSteps, loopVars
<1>3. Redirected' /\ Wedged'
  BY ToolsIdle DEF SeamSteps
<1>4. ViewOK(cm, Len(hist))'
  BY DEF SeamSteps, loopVars
<1>5. Heard'
  BY DEF IInv, Heard, SeamSteps, loopVars
<1> QED BY <1>1, <1>2, <1>3, <1>4, <1>5 DEF IInv

\* A session that is edited, customised or run by an assembly has no such window.
LEMMA NoWindow ==
    ASSUME \/ cm'.mode \notin {"slice", "compact_conservative"}
           \/ cm'.assembly # "none" \/ edits' # 0
    PROVE  Mirror' /\ CopiesWindowed'
BY DEF Mirror, Windowed, CopiesWindowed

LEMMA RenderForms ==
    ASSUME NEW n, NEW s, ViewOK(s, n), NEW h
    PROVE  DOMAIN render(s, h) = DOMAIN h /\ \A i \in DOMAIN render(s, h) : render(s, h)[i] \in Forms
<1> DEFINE of(j) == {b \in Blocks(s) : /\ s.blocks[b].idx = j /\ ~Shown(s, b)
                                      /\ HasText(h[j]) /\ h[j].text.quotes # b
                                      /\ ~(s.blocks[b].form = "derived_host" /\ s.blocks[b].to = 0)
                                      /\ (s.blocks[b].form = "dedup" => h[j].text.hdr)}
<1> DEFINE out(j) == IF of(j) = {} THEN "full"
                     ELSE IF Cardinality(of(j)) > 1 THEN "placeholder"
                     ELSE s.blocks[CHOOSE b \in of(j) : TRUE].form
<1>1. render(s, h) = [j \in DOMAIN h |-> out(j)]
  BY DEF render
<1>2. ASSUME NEW j
      PROVE  out(j) \in Forms
  <2>1. "full" \in Forms /\ "placeholder" \in Forms
    BY DEF Forms
  <2>2. of(j) \subseteq Blocks(s)
    OBVIOUS
  <2> HIDE DEF of
  <2>3. of(j) # {} => s.blocks[CHOOSE b \in of(j) : TRUE].form \in Forms
    <3>1. of(j) # {} => (CHOOSE b \in of(j) : TRUE) \in Blocks(s)
      BY <2>2
    <3> QED BY <3>1 DEF ViewOK, BlocksTyped
  <2> QED BY <2>1, <2>3
<1> HIDE DEF out
<1> QED BY <1>1, <1>2

LEMMA SteadyBooks ==
    ASSUME NEW s, NEW t, NEW u, Steady(s, t), u.blocks = t.blocks
    PROVE  Steady(s, u) /\ PinsKept(s, u)
BY DEF Steady, PinsKept, Blocks

LEMMA ItselfSteady ==
    ASSUME NEW s, NEW t, t.blocks = s.blocks
    PROVE  Steady(s, t) /\ PinsKept(s, t)
BY DEF Steady, PinsKept, Blocks

\* A change of the books of the session, from one step of the seam to the next.
LEMMA BooksViews ==
    ASSUME NEW n, NEW s, ViewOK(s, n), NEW t, SameBlocks(s, t)
    PROVE  ViewOK(t, n) /\ PinsKept(s, t)
BY SameView DEF SameBlocks

LEMMA SeamBeginsKeeps ==
    ASSUME IInv, SeamBegins
    PROVE  IInv' /\ PinsKept(cm, cm')
<1>1. Types /\ Steps /\ ViewOK(cm, Len(hist)) /\ Books /\ Heard /\ Mirror
  BY DEF IInv
<1>2. IsSession(cm) /\ cm' = BeginTurn(cm)
  BY <1>1 DEF SeamBegins, ViewOK
<1>3. /\ SameBlocks(cm, cm') /\ cm'.views = 0
      /\ cm'.violations = cm.violations /\ cm'.refusals = cm.refusals /\ cm'.uncounted = cm.uncounted
      /\ cm'.policyStrikes = cm.policyStrikes /\ cm'.policyFailures = cm.policyFailures
      /\ cm'.policyDisabled = cm.policyDisabled
      /\ cm'.assemblyFailures = cm.assemblyFailures /\ cm'.assemblyDisabled = cm.assemblyDisabled
      /\ RunsNamed(cm') => cm'.assembly # "none" /\ ~cm'.assemblyDisabled
  BY <1>2, BeginBooks
<1>4. ViewOK(cm', Len(hist)) /\ PinsKept(cm, cm') /\ cm'.mode = cm.mode
      /\ cm'.assembly = cm.assembly
  BY <1>1, <1>3, BooksViews DEF SameBlocks
<1>5. /\ pc = "seam" /\ pc' \in {"assembly0", "preset"} /\ (pc' = "assembly0" => RunsNamed(cm'))
      /\ edits' = edits /\ msg' = msg /\ hist' = hist
  BY DEF SeamBegins, loopVars
<1>6. SeamSteps
  <2>1. recs' = 0
    BY DEF SeamBegins
  <2> QED BY <1>1, <2>1 DEF SeamBegins, SeamSteps, Types
<1>7. Books'
  BY <1>1, <1>3, <1>5 DEF Books, InAssembly, AuditedTurns, Tally
<1>8. Mirror' /\ CopiesWindowed'
  <2>1. CopiesWindowed'
    BY <1>5 DEF CopiesWindowed
  <2>2. ASSUME Windowed', pc' = "preset"
        PROVE  MirrorOf(cm', IF hist' = <<>> THEN 0 ELSE Len(hist') - 1, hist', msg')
    <3>1. Windowed
      BY <1>4, <1>5, <2>2 DEF Windowed
    <3>2. MirrorOf(cm, IF hist = <<>> THEN 0 ELSE Len(hist) - 1, hist, msg)
      BY <1>1, <1>5, <3>1 DEF Mirror
    <3>3. cm'.blocks = cm.blocks /\ cm'.seenUser = cm.seenUser
      BY <1>3 DEF SameBlocks
    <3>4. PICK n : n = (IF hist = <<>> THEN 0 ELSE Len(hist) - 1)
      OBVIOUS
    <3>5. MirrorOf(cm', n, hist, msg)
      BY <3>2, <3>3, <3>4, MirrorBooks
    <3> QED BY <1>5, <3>4, <3>5
  <2> QED BY <1>5, <2>1, <2>2 DEF Mirror
<1> QED BY <1>4, <1>6, <1>7, <1>8, SeamMoves

\* The view with the turn registered, and after the stages.
LEMMA RegisteredTurn ==
    ASSUME IInv, NEW r, r = Registered(cm)
    PROVE  /\ ViewOK(r, Len(hist)) /\ Steady(cm, r) /\ SameBooks(cm, r)
           /\ Tally(r)
<1>1. Types /\ ViewOK(cm, Len(hist)) /\ Books
  BY DEF IInv
<1>2. Len(hist) \in Nat /\ DOMAIN hist = 1..Len(hist)
  BY <1>1, Entries
<1>3. r = register_outgoing(register_history(cm, hist), msg)
  BY DEF Registered
<1>4. /\ ViewOK(r, Len(hist)) /\ Steady(cm, r) /\ SameBooks(cm, r)
      /\ r.violations = cm.violations /\ r.refusals = cm.refusals /\ r.uncounted = cm.uncounted
  BY <1>1, <1>2, <1>3, RegisteredKeeps
<1> QED BY <1>1, <1>4 DEF Books, Tally

LEMMA StagedTurn ==
    ASSUME NEW n \in Nat, NEW s, ViewOK(s, n), NEW t, t = Stages(s), Tally(s)
    PROVE  /\ ViewOK(t, n) /\ Steady(s, t) /\ SameBooks(s, t) /\ Tally(t)
<1>1. ViewOK(t, n) /\ SameControl(s, t) /\ IsSession(s)
  BY StagesKeep DEF Kept, ViewOK
<1>2. SameBooks(s, t) /\ Tally(t)
  BY <1>1, SameFields DEF SameBooks, Tally
<1> QED BY <1>1, <1>2, StagesSteady

\* The refusals among the first MaxOps records and the others are all of them.
LEMMA SplitAt ==
    ASSUME NEW R, R \subseteq Nat, IsFiniteSet(R)
    PROVE  /\ Cardinality({p \in R : p <= MaxOps}) \in Nat
           /\ Cardinality({p \in R : p > MaxOps}) \in Nat
           /\ Cardinality(R) = Cardinality({p \in R : p <= MaxOps})
                                 + Cardinality({p \in R : p > MaxOps})
<1> DEFINE low == {p \in R : p <= MaxOps}
<1> DEFINE high == {p \in R : p > MaxOps}
<1>1. MaxOps \in Nat
  BY ContextAssumption
<1>7. \A p \in R : (p <= MaxOps \/ p > MaxOps) /\ ~(p <= MaxOps /\ p > MaxOps)
  BY <1>1
<1>2. low \subseteq R /\ high \subseteq R /\ low \cup high = R /\ low \cap high = {}
  <2>1. \A p \in R : (p \in low \/ p \in high) /\ ~(p \in low /\ p \in high)
    BY <1>7
  <2>2. low \subseteq R /\ high \subseteq R
    OBVIOUS
  <2> HIDE DEF low, high
  <2> QED BY <2>1, <2>2
<1> HIDE DEF low, high
<1>3. IsFiniteSet(low) /\ IsFiniteSet(high)
  BY <1>2, FS_Subset
<1>4. Cardinality(low) \in Nat /\ Cardinality(high) \in Nat
  BY <1>3, FS_CardinalityType
<1>5. Cardinality(low \cup high) = Cardinality(low) + Cardinality(high) - Cardinality({})
  BY <1>2, <1>3, FS_Union
<1>6. Cardinality({}) = 0
  BY FS_EmptySet
<1> QED BY <1>2, <1>4, <1>5, <1>6 DEF low, high

\* The refusals a stage leaves are finitely many records.
LEMMA StageRefusedFinite ==
    ASSUME NEW s, NEW c \in Nat, IsSession(s)
    PROVE  StageRefused(s, c) \subseteq Nat /\ IsFiniteSet(StageRefused(s, c))
<1> DEFINE tried == {b \in Older(s) : Excerptable(s.blocks[b])}
<1> DEFINE place(b) == c + Cardinality({d \in tried : d >= b})
<1> DEFINE low == {d \in tried : s.blocks[d].len < DropFloor}
<1>1. StageRefused(s, c) = (IF s.mode # "compact_conservative" THEN {} ELSE {place(b) : b \in low})
  BY DEF StageRefused
<1>2. tried \subseteq 1..Len(s.blocks) /\ low \subseteq tried /\ Len(s.blocks) \in Nat
  BY ListLen DEF Older, Blocks, IsSession
<1> HIDE DEF tried, low
<1>3. IsFiniteSet(1..Len(s.blocks))
  BY <1>2, FS_Interval
<1>4. IsFiniteSet(tried) /\ IsFiniteSet(low)
  BY <1>2, <1>3, FS_Subset
<1>5. Cardinality(tried) \in Nat
  BY <1>4, FS_CardinalityType
<1>6. \A b : place(b) \in c..(c + Cardinality(tried))
  <2> TAKE b
  <2>1. IsFiniteSet({d \in tried : d >= b})
        /\ Cardinality({d \in tried : d >= b}) <= Cardinality(tried)
    BY <1>4, FS_Subset
  <2>2. Cardinality({d \in tried : d >= b}) \in Nat
    BY <2>1, FS_CardinalityType
  <2> QED BY <1>5, <2>1, <2>2
<1> HIDE DEF place
<1>7. IsFiniteSet(c..(c + Cardinality(tried)))
  BY <1>5, FS_Interval
<1>8. {place(b) : b \in low} \subseteq c..(c + Cardinality(tried))
  BY <1>6
<1>9. IsFiniteSet({place(b) : b \in low})
  BY <1>7, <1>8, FS_Subset
<1>10. IsFiniteSet({})
  BY FS_EmptySet
<1> QED BY <1>1, <1>5, <1>8, <1>9, <1>10

\* A turn has finitely many records.
LEMMA StageRecordsCount ==
    ASSUME NEW s, NEW c \in Nat, IsSession(s)
    PROVE  StageRecords(s, c) \in Nat
<1> DEFINE changed == {b \in Blocks(s) : Stages(s).blocks[b] # s.blocks[b]}
<1>1. Len(s.blocks) \in Nat /\ changed \subseteq 1..Len(s.blocks)
  BY ListLen DEF IsSession, Blocks
<1>2. StageRecords(s, c) = c + Cardinality(changed)
  BY DEF StageRecords
<1> HIDE DEF changed
<1>3. IsFiniteSet(1..Len(s.blocks))
  BY <1>1, FS_Interval
<1>4. IsFiniteSet(changed)
  BY <1>1, <1>3, FS_Subset
<1>5. Cardinality(changed) \in Nat
  BY <1>4, FS_CardinalityType
<1> QED BY <1>2, <1>5

LEMMA NoRefusals == {} \subseteq Nat /\ IsFiniteSet({})
BY FS_EmptySet

\* What is left of a turn once it is finalized.
FinalOf(n, s, t) ==
    /\ ViewOK(t, n) /\ t.blocks = s.blocks /\ t.seenUser = s.seenUser
    /\ t.mode = s.mode /\ t.assembly = s.assembly /\ t.views = s.views + 1
    /\ Tally(t)
    /\ t.policyStrikes = s.policyStrikes /\ t.policyFailures = s.policyFailures
    /\ t.policyDisabled = s.policyDisabled
    /\ t.assemblyFailures = s.assemblyFailures /\ t.assemblyDisabled = s.assemblyDisabled

LEMMA FinalTurn ==
    ASSUME NEW n \in Nat, NEW s, ViewOK(s, n), Tally(s),
           NEW R, R \subseteq Nat, IsFiniteSet(R), NEW t, t = finalize_turn(s, R)
    PROVE  FinalOf(n, s, t)
<1>1. IsSession(s)
  BY DEF ViewOK
<1>2. /\ SameBlocks(s, t) /\ t.views = s.views + 1
      /\ t.violations = s.violations + Cardinality({p \in R : p <= MaxOps})
      /\ t.uncounted = s.uncounted + Cardinality({p \in R : p > MaxOps})
      /\ t.refusals = s.refusals + Cardinality(R)
      /\ t.policyStrikes = s.policyStrikes /\ t.policyFailures = s.policyFailures
      /\ t.policyDisabled = s.policyDisabled
      /\ t.assemblyFailures = s.assemblyFailures /\ t.assemblyDisabled = s.assemblyDisabled
  BY <1>1, FinalizeBooks
<1>3. ViewOK(t, n)
  BY <1>2, BooksViews
<1>4. /\ Cardinality({p \in R : p <= MaxOps}) \in Nat /\ Cardinality({p \in R : p > MaxOps}) \in Nat
      /\ Cardinality(R) = Cardinality({p \in R : p <= MaxOps}) + Cardinality({p \in R : p > MaxOps})
  BY SplitAt
<1>5. Tally(t)
  BY <1>2, <1>4 DEF Tally
<1> QED BY <1>2, <1>3, <1>5 DEF SameBlocks, FinalOf

\* A preset of an unedited window session sends the window.
LEMMA PresetWindow ==
    ASSUME IInv, pc = "preset", Windowed, NEW r, r = Registered(cm),
           NEW f, f.blocks = Stages(r).blocks, f.seenUser = Stages(r).seenUser
    PROVE  /\ MirrorOf(f, Len(hist) + 1, hist, msg)
           /\ \A i \in DOMAIN hist :
                 IF i + WindowK > Len(hist) + 1 THEN render(f, hist)[i] = "full"
                 ELSE hist[i].text.len >= DropFloor /\ i # 1
                        => render(f, hist)[i] \in {"placeholder", "excerpt"}
<1>1. Types /\ ViewOK(cm, Len(hist)) /\ Heard /\ Mirror
  BY DEF IInv
<1>2. Len(hist) \in Nat /\ DOMAIN hist = 1..Len(hist) /\ \A i \in DOMAIN hist : hist[i] \in Entry
      /\ (hist # <<>> => Len(hist) >= 1) /\ (hist = <<>> => Len(hist) = 0)
  BY <1>1, Entries
<1>3. PICK n : n = Len(hist)
  OBVIOUS
<1>4. PICK p : p = (IF n = 0 THEN 0 ELSE n - 1)
  OBVIOUS
<1>5. p = (IF hist = <<>> THEN 0 ELSE Len(hist) - 1) /\ p \in Nat /\ n \in Nat
  <2>1. n \in Nat /\ (hist = <<>> <=> n = 0)
    BY <1>2, <1>3
  <2>2. p \in Nat
    BY <1>4, <2>1
  <2>3. CASE n = 0
    BY <1>4, <2>1, <2>2, <2>3
  <2>4. CASE n # 0
    BY <1>3, <1>4, <2>1, <2>2, <2>4
  <2> QED BY <2>3, <2>4
<1>6. Told(hist, n)
  BY <1>1, <1>2, <1>3 DEF Told, Heard, Windowed
<1>7. MirrorOf(cm, p, hist, msg)
  BY <1>1, <1>5 DEF Mirror
<1>8. Unread(cm, hist, n, p, msg)
  BY <1>4, <1>5, <1>6, <1>7 DEF Unread
<1>9. r = register_outgoing(register_history(cm, hist), msg) /\ ViewOK(cm, n)
  BY <1>1, <1>3 DEF Registered
<1>10. /\ Len(r.blocks) = n + 1 /\ r.seenUser = TRUE
       /\ \A b \in 1..n + 1 : Registers(r, b, hist, n, p, msg)
  BY <1>8, <1>9, RegisteredMirror
<1>11. ViewOK(r, n) /\ r.mode \in {"slice", "compact_conservative"}
  BY <1>3, RegisteredTurn DEF SameBooks, Windowed
<1>12. msg.len \in Nat /\ \A i \in 1..n : hist[i].text.len \in Nat
  BY <1>1, <1>2, <1>3 DEF Types, Text, Entry
<1>13. MirrorOf(Stages(r), n + 1, hist, msg)
  BY <1>8, <1>10, <1>11, <1>12, StagesMirror
<1>14. MirrorOf(f, n + 1, hist, msg)
  BY <1>13, MirrorBooks
<1>15. ASSUME NEW i \in DOMAIN hist
       PROVE  IF i + WindowK > n + 1 THEN render(f, hist)[i] = "full"
              ELSE hist[i].text.len >= DropFloor /\ i # 1
                     => render(f, hist)[i] \in {"placeholder", "excerpt"}
  <2>1. i \in 1..n /\ i \in 1..n + 1
    BY <1>2, <1>3
  <2>2. render(f, hist)[i] = f.blocks[i].form
    BY <1>5, <1>6, <1>14, <2>1, RenderMirror
  <2>3. Mirrors(f, i, hist, msg) /\ Len(f.blocks) = n + 1
    BY <1>14, <2>1 DEF MirrorOf
  <2>4. /\ i + WindowK > n + 1 => f.blocks[i].form = "full"
        /\ i + WindowK <= n + 1 /\ i # 1 /\ hist[i].text.len >= DropFloor
             => f.blocks[i].form \in {"placeholder", "excerpt"}
    BY <2>3 DEF Mirrors
  <2>5. WindowK \in Nat
    BY ContextAssumption
  <2> QED BY <1>5, <2>1, <2>2, <2>4, <2>5
<1> QED BY <1>3, <1>14, <1>15

\* A preset is run.
LEMMA PresetKeeps ==
    ASSUME IInv, Preset
    PROVE  IInv' /\ PinsKept(cm, cm')
<1>1. Types /\ Steps /\ ViewOK(cm, Len(hist)) /\ Books /\ Heard /\ Mirror
  BY DEF IInv
<1>2. Len(hist) \in Nat
  BY <1>1, Entries
<1>3. PICK r : r = Registered(cm)
  OBVIOUS
<1>4. ViewOK(r, Len(hist)) /\ Steady(cm, r) /\ SameBooks(cm, r) /\ Tally(r)
  BY <1>3, RegisteredTurn
<1>5. PICK q : q = Stages(r)
  OBVIOUS
<1>6. ViewOK(q, Len(hist)) /\ Steady(r, q) /\ SameBooks(r, q) /\ Tally(q)
  BY <1>2, <1>4, <1>5, StagedTurn
<1>7. Steady(cm, q)
  BY <1>4, <1>6, SteadyTwice
<1>8. UNCHANGED <<msg, phase, edits, session>> /\ UNCHANGED loopVars /\ UNCHANGED toolVars
      /\ pc = "preset" /\ hist' = hist /\ edits' = edits /\ msg' = msg
  BY DEF Preset, loopVars
<1>9. CASE cm.mode = "passthrough"
  <2>1. cm' = emit_view(r) /\ sent' = [i \in DOMAIN hist |-> "full"] /\ pc' = "llm" /\ attempt' = 1
        /\ recs' = 0
    BY <1>3, <1>9 DEF Preset, ToModel, Raw
  <2>2. IsSession(r)
    BY <1>4 DEF ViewOK
  <2>3. /\ SameBlocks(r, cm') /\ cm'.views = r.views + 1
        /\ cm'.violations = r.violations /\ cm'.refusals = r.refusals /\ cm'.uncounted = r.uncounted
        /\ cm'.policyStrikes = r.policyStrikes /\ cm'.policyFailures = r.policyFailures
        /\ cm'.policyDisabled = r.policyDisabled
        /\ cm'.assemblyFailures = r.assemblyFailures
        /\ cm'.assemblyDisabled = r.assemblyDisabled
    BY <2>1, <2>2, EmitBooks
  <2>4. ViewOK(cm', Len(hist)) /\ cm'.mode = cm.mode /\ PinsKept(cm, cm')
    <3>1. ViewOK(cm', Len(hist))
      BY <1>4, <2>3, BooksViews
    <3>2. PinsKept(cm, cm')
      BY <1>4, <2>3, SteadyBooks DEF SameBlocks
    <3> QED BY <1>4, <2>3, <3>1, <3>2 DEF SameBlocks, SameBooks
  <2>5. "full" \in Forms
    BY DEF Forms
  <2>6. SeamSteps
    BY <1>8, <2>1, <2>5 DEF SeamSteps
  <2>7. Books'
    BY <1>1, <1>4, <2>1, <2>3 DEF Books, InAssembly, AuditedTurns, SameBlocks, SameBooks, Tally
  <2>8. Mirror' /\ CopiesWindowed'
    BY <1>9, <2>4, NoWindow
  <2> QED BY <2>4, <2>6, <2>7, <2>8, SeamMoves
<1>10. CASE cm.mode = "custom" /\ ~cm.policyDisabled
  <2>1. /\ cm' = q /\ pc' = "policy" /\ sent' = sent /\ attempt' = attempt
        /\ recs' = StageRecords(r, Checkpoint)
    BY <1>3, <1>5, <1>10 DEF Preset
  <2>7. recs' \in Nat
    <3>1. Checkpoint \in Nat /\ IsSession(r)
      BY <1>4 DEF Checkpoint, ViewOK
    <3> QED BY <2>1, <3>1, StageRecordsCount
  <2>2. SeamSteps
    BY <1>1, <1>8, <2>1, <2>7 DEF SeamSteps, Types
  <2>3. Books'
    BY <1>1, <1>4, <1>6, <1>10, <2>1 DEF Books, InAssembly, AuditedTurns, SameBooks
  <2>4. cm'.mode = cm.mode
    BY <1>4, <1>6, <2>1 DEF SameBooks
  <2>5. Mirror' /\ CopiesWindowed'
    BY <1>10, <2>4, NoWindow
  <2>6. PinsKept(cm, cm')
    BY <1>4, <1>6, <2>1, SteadyTwice
  <2> QED BY <1>6, <2>1, <2>2, <2>3, <2>4, <2>5, <2>6, SeamMoves
<1>11. CASE cm.mode # "passthrough" /\ ~(cm.mode = "custom" /\ ~cm.policyDisabled)
  <2>1. PICK refused : refused = IF cm.mode = "custom" THEN {StageRecords(r, Checkpoint) + 1}
                                ELSE StageRefused(r, Checkpoint)
    OBVIOUS
  <2>9. refused \subseteq Nat /\ IsFiniteSet(refused)
    <3>1. Checkpoint \in Nat /\ IsSession(r)
      BY <1>4 DEF Checkpoint, ViewOK
    <3>2. StageRecords(r, Checkpoint) \in Nat
      BY <3>1, StageRecordsCount
    <3>3. CASE cm.mode = "custom"
      <4>1. PICK k : k = StageRecords(r, Checkpoint) + 1
        OBVIOUS
      <4>2. k \in Nat /\ refused = {k}
        BY <2>1, <3>2, <3>3, <4>1
      <4> QED BY <4>2, FS_Singleton
    <3>4. CASE cm.mode # "custom"
      BY <2>1, <3>1, <3>4, StageRefusedFinite
    <3> QED BY <3>3, <3>4
  <2>2. cm' = finalize_turn(q, refused) /\ sent' = render(cm', hist) /\ pc' = "llm" /\ attempt' = 1
        /\ recs' = 0
    BY <1>3, <1>5, <1>11, <2>1 DEF Preset, ToModel
  <2>3. /\ ViewOK(cm', Len(hist)) /\ cm'.blocks = q.blocks /\ cm'.seenUser = q.seenUser
        /\ cm'.mode = q.mode /\ cm'.assembly = q.assembly /\ cm'.views = q.views + 1
        /\ Tally(cm')
        /\ cm'.policyStrikes = q.policyStrikes /\ cm'.policyFailures = q.policyFailures
        /\ cm'.policyDisabled = q.policyDisabled
        /\ cm'.assemblyFailures = q.assemblyFailures
        /\ cm'.assemblyDisabled = q.assemblyDisabled
    <3>1. PICK n : n = Len(hist)
      OBVIOUS
    <3>2. n \in Nat /\ ViewOK(q, n) /\ Tally(q) /\ refused \subseteq Nat /\ IsFiniteSet(refused)
      BY <1>2, <1>6, <2>9, <3>1
    <3>3. FinalOf(n, q, cm')
      BY <2>2, <3>2, FinalTurn
    <3> QED BY <3>1, <3>3 DEF FinalOf
  <2>4. SeamSteps
    <3>1. DOMAIN sent' = DOMAIN hist /\ \A i \in DOMAIN sent' : sent'[i] \in Forms
      BY <2>2, <2>3, RenderForms
    <3> QED BY <1>8, <2>2, <3>1 DEF SeamSteps
  <2>5. Books'
    BY <1>1, <1>4, <1>6, <2>2, <2>3 DEF Books, InAssembly, AuditedTurns, SameBooks
  <2>6. cm'.mode = cm.mode /\ cm'.assembly = cm.assembly
    BY <1>4, <1>6, <2>3 DEF SameBooks
  <2>7. Mirror' /\ CopiesWindowed'
    <3>1. CASE Windowed
      <4>1. /\ MirrorOf(cm', Len(hist) + 1, hist, msg)
            /\ \A i \in DOMAIN hist :
                  IF i + WindowK > Len(hist) + 1 THEN render(cm', hist)[i] = "full"
                  ELSE hist[i].text.len >= DropFloor /\ i # 1
                         => render(cm', hist)[i] \in {"placeholder", "excerpt"}
        BY <1>3, <1>5, <1>8, <2>3, <3>1, PresetWindow
      <4>2. Mirror'
        BY <1>8, <2>2, <4>1 DEF Mirror
      <4>3. CopiesWindowed'
        BY <1>8, <2>2, <4>1 DEF CopiesWindowed
      <4> QED BY <4>2, <4>3
    <3>2. CASE ~Windowed
      <4>1. ~Windowed'
        BY <1>8, <2>6, <3>2 DEF Windowed
      <4>2. Mirror'
        BY <4>1 DEF Mirror
      <4>3. CopiesWindowed'
        BY <4>1 DEF CopiesWindowed, Windowed
      <4> QED BY <4>2, <4>3
    <3> QED BY <3>1, <3>2
  <2>8. PinsKept(cm, cm')
    BY <1>7, <2>3, SteadyBooks
  <2> QED BY <2>3, <2>4, <2>5, <2>6, <2>7, <2>8, SeamMoves
<1> QED BY <1>9, <1>10, <1>11

\* The policy, or an assembly, works on the view.
LEMMA PolicyOpKeeps ==
    ASSUME IInv, PolicyOp
    PROVE  IInv' /\ PinsKept(cm, cm')
<1>1. Types /\ ViewOK(cm, Len(hist)) /\ Books
  BY DEF IInv
<1>2. Len(hist) \in Nat /\ Tally(cm)
  BY <1>1, Entries DEF Books
<1>3. PICK op \in PolicyOps : (op.form = "merge" => op.refs[1] # op.refs[2])
                              /\ cm' = Handle(cm, "policy", left, op)
  BY DEF PolicyOp
<1>4. /\ pc \in {"policy", "assembly1", "assembly2"} /\ pc' = pc /\ edits' = edits + 1
      /\ UNCHANGED <<msg, sent, phase, attempt, recs, session>> /\ UNCHANGED loopVars
      /\ UNCHANGED toolVars
  BY DEF PolicyOp
<1>5. IsOp(cm, "policy", op)
  <2>1. CASE \E o \in {"drop", "compact", "unpin"}, b \in Blocks(cm) :
               op = [op |-> o, refs |-> <<b>>, form |-> "excerpt"]
    BY <2>1 DEF IsOp
  <2>2. CASE \E b \in Blocks(cm) : op = [op |-> "substitute", refs |-> <<b>>, form |-> "placeholder"]
    BY <2>2 DEF IsOp
  <2>3. CASE \E b \in Blocks(cm), c \in Blocks(cm) :
               op = [op |-> "compact", refs |-> <<b, c>>, form |-> "merge"]
    BY <2>3 DEF IsOp
  <2>4. CASE op = [op |-> "call", refs |-> <<1>>, form |-> "full"]
    BY <2>4 DEF IsOp
  <2> QED BY <2>1, <2>2, <2>3, <2>4 DEF PolicyOps
<1>6. /\ ViewOK(cm', Len(hist)) /\ PinsKept(cm, cm') /\ SameBooks(cm, cm')
      /\ Tally(cm')
  BY <1>1, <1>2, <1>3, <1>5, HandleKeeps
<1>7. SeamSteps
  BY <1>1, <1>4 DEF SeamSteps, Types
<1>8. Books'
  BY <1>1, <1>4, <1>6 DEF Books, InAssembly, AuditedTurns, SameBooks
<1>9. Mirror' /\ CopiesWindowed'
  <2>1. edits' # 0
    BY <1>1, <1>4 DEF Types
  <2> QED BY <2>1, NoWindow
<1> QED BY <1>6, <1>7, <1>8, <1>9, SeamMoves DEF SameBooks

\* The policy answers, or fails, and the turn is sent.
LEMMA PolicyEnds ==
    ASSUME IInv, PolicyReturns \/ PolicyFails \/ PolicyPoisons
    PROVE  IInv' /\ PinsKept(cm, cm')
<1>1. Types /\ ViewOK(cm, Len(hist)) /\ Books
  BY DEF IInv
<1>2. Len(hist) \in Nat /\ Tally(cm) /\ IsSession(cm)
  BY <1>1, Entries DEF Books, ViewOK
<1>3. /\ pc = "policy" /\ pc' = "llm" /\ attempt' = 1 /\ edits' = edits /\ recs' = 0
      /\ UNCHANGED <<msg, phase, session>> /\ UNCHANGED loopVars /\ UNCHANGED toolVars
  BY DEF PolicyReturns, PolicyFails, PolicyPoisons, ToModel
<1>4. cm.mode = "custom" /\ ~cm.policyDisabled
  BY <1>1, <1>3 DEF Books
<1>5. CASE PolicyReturns
  <2>1. PICK s : s = policy_succeeded(cm)
    OBVIOUS
  <2>2. cm' = finalize_turn(s, {}) /\ sent' = render(cm', hist)
    BY <1>5, <2>1 DEF PolicyReturns, ToModel
  <2>3. /\ SameBlocks(cm, s) /\ s.views = cm.views
        /\ s.violations = cm.violations /\ s.refusals = cm.refusals /\ s.uncounted = cm.uncounted
        /\ s.policyStrikes = 0 /\ s.policyFailures = cm.policyFailures
        /\ s.policyDisabled = cm.policyDisabled
        /\ s.assemblyFailures = cm.assemblyFailures /\ s.assemblyDisabled = cm.assemblyDisabled
    BY <1>2, <2>1, SucceededBooks
  <2>4. ViewOK(s, Len(hist)) /\ Tally(s)
    BY <1>1, <1>2, <2>3, BooksViews DEF Tally
  <2>5. /\ ViewOK(cm', Len(hist)) /\ cm'.blocks = s.blocks /\ cm'.mode = s.mode
        /\ cm'.assembly = s.assembly /\ cm'.views = s.views + 1
        /\ Tally(cm')
        /\ cm'.policyStrikes = s.policyStrikes /\ cm'.policyFailures = s.policyFailures
        /\ cm'.policyDisabled = s.policyDisabled
        /\ cm'.assemblyFailures = s.assemblyFailures
        /\ cm'.assemblyDisabled = s.assemblyDisabled
    BY <1>2, <2>2, <2>4, NoRefusals, FinalTurn DEF FinalOf
  <2>6. DOMAIN sent' = DOMAIN hist /\ \A i \in DOMAIN sent' : sent'[i] \in Forms
    BY <2>2, <2>5, RenderForms
  <2>7. SeamSteps
    BY <1>3, <2>6 DEF SeamSteps
  <2>8. Books'
    BY <1>1, <1>3, <2>3, <2>5 DEF Books, InAssembly, AuditedTurns, Strikes
  <2>9. PinsKept(cm, cm') /\ cm'.mode = cm.mode
    BY <2>3, <2>5, ItselfSteady DEF SameBlocks
  <2>10. Mirror' /\ CopiesWindowed'
    BY <1>4, <2>9, NoWindow
  <2> QED BY <2>5, <2>7, <2>8, <2>9, <2>10, SeamMoves
<1>6. CASE PolicyFails
  <2>1. PICK s : s = note_policy_failure(cm)
    OBVIOUS
  <2>12. PICK k : k = recs + 1
    OBVIOUS
  <2>11. {k} \subseteq Nat /\ IsFiniteSet({k})
    <3>1. k \in Nat
      BY <1>1, <2>12 DEF Types
    <3> QED BY <3>1, FS_Singleton
  <2>2. cm' = finalize_turn(s, {k}) /\ sent' = render(cm', hist)
    BY <1>6, <2>1, <2>12 DEF PolicyFails, ToModel
  <2>3. /\ SameBlocks(cm, s) /\ s.views = cm.views
        /\ s.violations = cm.violations /\ s.refusals = cm.refusals /\ s.uncounted = cm.uncounted
        /\ s.policyStrikes = cm.policyStrikes + 1 /\ s.policyFailures = cm.policyFailures + 1
        /\ (s.policyDisabled <=> cm.policyDisabled \/ cm.policyStrikes + 1 >= Strikes)
        /\ s.assemblyFailures = cm.assemblyFailures /\ s.assemblyDisabled = cm.assemblyDisabled
    BY <1>2, <2>1, PolicyFailedBooks
  <2>4. ViewOK(s, Len(hist)) /\ Tally(s)
    BY <1>1, <1>2, <2>3, BooksViews DEF Tally
  <2>5. /\ ViewOK(cm', Len(hist)) /\ cm'.blocks = s.blocks /\ cm'.mode = s.mode
        /\ cm'.assembly = s.assembly /\ cm'.views = s.views + 1
        /\ Tally(cm')
        /\ cm'.policyStrikes = s.policyStrikes /\ cm'.policyFailures = s.policyFailures
        /\ cm'.policyDisabled = s.policyDisabled
        /\ cm'.assemblyFailures = s.assemblyFailures
        /\ cm'.assemblyDisabled = s.assemblyDisabled
    BY <1>2, <2>2, <2>4, <2>11, FinalTurn DEF FinalOf
  <2>6. DOMAIN sent' = DOMAIN hist /\ \A i \in DOMAIN sent' : sent'[i] \in Forms
    BY <2>2, <2>5, RenderForms
  <2>7. SeamSteps
    BY <1>3, <2>6 DEF SeamSteps
  <2>8. Books'
    BY <1>1, <1>3, <1>4, <2>3, <2>5, SMTT(30) DEF Books, InAssembly, AuditedTurns, Strikes
  <2>9. PinsKept(cm, cm') /\ cm'.mode = cm.mode
    BY <2>3, <2>5, ItselfSteady DEF SameBlocks
  <2>10. Mirror' /\ CopiesWindowed'
    BY <1>4, <2>9, NoWindow
  <2> QED BY <2>5, <2>7, <2>8, <2>9, <2>10, SeamMoves
<1>7. CASE PolicyPoisons
  <2>1. cm' = policy_succeeded(cm) /\ sent' = [i \in DOMAIN hist |-> "full"] /\ raw' = TRUE
    BY <1>7 DEF PolicyPoisons, Raw
  <2>2. /\ SameBlocks(cm, cm') /\ cm'.views = cm.views
        /\ cm'.violations = cm.violations /\ cm'.refusals = cm.refusals /\ cm'.uncounted = cm.uncounted
        /\ cm'.policyStrikes = 0 /\ cm'.policyFailures = cm.policyFailures
        /\ cm'.policyDisabled = cm.policyDisabled
        /\ cm'.assemblyFailures = cm.assemblyFailures
        /\ cm'.assemblyDisabled = cm.assemblyDisabled
    BY <1>2, <2>1, SucceededBooks
  <2>3. ViewOK(cm', Len(hist)) /\ PinsKept(cm, cm') /\ cm'.mode = cm.mode
    BY <1>1, <2>2, BooksViews DEF SameBlocks
  <2>4. "full" \in Forms
    BY DEF Forms
  <2>5. SeamSteps
    BY <1>3, <2>1, <2>4 DEF SeamSteps
  <2>6. Books'
    BY <1>1, <1>3, <2>1, <2>2 DEF Books, InAssembly, AuditedTurns, Strikes, Tally
  <2>7. Mirror' /\ CopiesWindowed'
    BY <1>4, <2>3, NoWindow
  <2> QED BY <2>3, <2>5, <2>6, <2>7, SeamMoves
<1> QED BY <1>5, <1>6, <1>7

\* A named assembly takes one of its steps.
LEMMA AssemblyStepKeeps ==
    ASSUME IInv, AssemblyStep
    PROVE  IInv' /\ PinsKept(cm, cm')
<1>1. Types /\ ViewOK(cm, Len(hist)) /\ Books
  BY DEF IInv
<1>2. Len(hist) \in Nat /\ Tally(cm) /\ IsSession(cm)
  BY <1>1, Entries DEF Books, ViewOK
<1>3. /\ attempt' = attempt /\ edits' = edits /\ sent' = sent /\ recs' = recs
      /\ pc \in {"assembly0", "assembly1", "assembly2"}
      /\ pc' \in {"assembly1", "assembly2", "assembly3"}
      /\ UNCHANGED <<msg, phase, session>> /\ UNCHANGED loopVars /\ UNCHANGED toolVars
  BY DEF AssemblyStep
<1>4. cm.assembly # "none" /\ ~cm.assemblyDisabled
  BY <1>1, <1>3 DEF Books, InAssembly
<1>5. SeamSteps
  BY <1>1, <1>3 DEF SeamSteps, Types
<1>6. /\ ViewOK(cm', Len(hist)) /\ PinsKept(cm, cm') /\ Tally(cm')
      /\ cm'.mode = cm.mode /\ cm'.assembly = cm.assembly /\ cm'.views \in {cm.views, cm.views + 1}
      /\ cm'.policyStrikes = cm.policyStrikes /\ cm'.policyFailures = cm.policyFailures
      /\ cm'.policyDisabled = cm.policyDisabled
      /\ cm'.assemblyFailures = cm.assemblyFailures
      /\ cm'.assemblyDisabled = cm.assemblyDisabled
  <2>1. CASE cm' = Registered(cm)
    <3>1. ViewOK(cm', Len(hist)) /\ Steady(cm, cm') /\ SameBooks(cm, cm')
          /\ Tally(cm')
      BY <2>1, RegisteredTurn
    <3>2. PinsKept(cm, cm')
      BY <3>1, SteadyBooks
    <3> QED BY <3>1, <3>2 DEF SameBooks
  <2>2. CASE cm' = Stages(cm)
    <3>1. ViewOK(cm', Len(hist)) /\ Steady(cm, cm') /\ SameBooks(cm, cm')
          /\ Tally(cm')
      BY <1>1, <1>2, <2>2, StagedTurn
    <3>2. PinsKept(cm, cm')
      BY <3>1, SteadyBooks
    <3> QED BY <3>1, <3>2 DEF SameBooks
  <2>3. CASE cm' = finalize_turn(cm, {})
    <3>1. /\ ViewOK(cm', Len(hist)) /\ cm'.blocks = cm.blocks /\ cm'.mode = cm.mode
          /\ cm'.assembly = cm.assembly /\ cm'.views = cm.views + 1
          /\ Tally(cm')
          /\ cm'.policyStrikes = cm.policyStrikes /\ cm'.policyFailures = cm.policyFailures
          /\ cm'.policyDisabled = cm.policyDisabled
          /\ cm'.assemblyFailures = cm.assemblyFailures
          /\ cm'.assemblyDisabled = cm.assemblyDisabled
      BY <1>1, <1>2, <2>3, NoRefusals, FinalTurn DEF FinalOf
    <3>2. PinsKept(cm, cm')
      BY <3>1, ItselfSteady
    <3> QED BY <3>1, <3>2
  <2> QED BY <2>1, <2>2, <2>3 DEF AssemblyStep
<1>7. Books'
  BY <1>1, <1>3, <1>4, <1>6 DEF Books, InAssembly, AuditedTurns
<1>8. Mirror' /\ CopiesWindowed'
  BY <1>4, <1>6, NoWindow
<1> QED BY <1>5, <1>6, <1>7, <1>8, SeamMoves

\* It returns, or fails and leaves the turn to the preset.
LEMMA AssemblyEnds ==
    ASSUME IInv, AssemblyReturns \/ AssemblyFails
    PROVE  IInv' /\ PinsKept(cm, cm')
<1>1. Types /\ ViewOK(cm, Len(hist)) /\ Books
  BY DEF IInv
<1>2. Len(hist) \in Nat /\ Tally(cm) /\ IsSession(cm) /\ cm.views \in Nat
  BY <1>1, Entries DEF Books, ViewOK
<1>3. /\ edits' = edits /\ InAssembly
      /\ UNCHANGED <<msg, phase, session>> /\ UNCHANGED loopVars /\ UNCHANGED toolVars
  BY DEF AssemblyReturns, AssemblyFails
<1>4. cm.assembly # "none" /\ ~cm.assemblyDisabled
  BY <1>1, <1>3 DEF Books
<1>5. CASE AssemblyReturns
  <2>1. PICK s : s = IF cm.views = 0 THEN emit_view(cm) ELSE cm
    OBVIOUS
  <2>2. /\ cm' = s /\ sent' \in {render(s, hist), [i \in DOMAIN hist |-> "full"]}
        /\ pc' = "llm" /\ attempt' = 1 /\ recs' = 0
    BY <1>5, <2>1 DEF AssemblyReturns, ToModel, Raw
  <2>3. /\ SameBlocks(cm, cm') /\ cm'.views \in Nat /\ cm'.views >= 1
        /\ cm'.violations = cm.violations /\ cm'.refusals = cm.refusals /\ cm'.uncounted = cm.uncounted
        /\ cm'.policyStrikes = cm.policyStrikes /\ cm'.policyFailures = cm.policyFailures
        /\ cm'.policyDisabled = cm.policyDisabled
        /\ cm'.assemblyFailures = cm.assemblyFailures
        /\ cm'.assemblyDisabled = cm.assemblyDisabled
    <3>1. CASE cm.views = 0
      <4>1. cm' = emit_view(cm)
        BY <2>1, <2>2, <3>1
      <4>2. /\ SameBlocks(cm, cm') /\ cm'.views = cm.views + 1
            /\ cm'.violations = cm.violations /\ cm'.refusals = cm.refusals /\ cm'.uncounted = cm.uncounted
            /\ cm'.policyStrikes = cm.policyStrikes /\ cm'.policyFailures = cm.policyFailures
            /\ cm'.policyDisabled = cm.policyDisabled
            /\ cm'.assemblyFailures = cm.assemblyFailures
            /\ cm'.assemblyDisabled = cm.assemblyDisabled
        BY <1>2, <4>1, EmitBooks
      <4> QED BY <3>1, <4>2
    <3>2. CASE cm.views # 0
      <4>1. cm' = cm
        BY <2>1, <2>2, <3>2
      <4> QED BY <1>2, <3>2, <4>1 DEF SameBlocks
    <3> QED BY <3>1, <3>2
  <2>4. ViewOK(cm', Len(hist)) /\ PinsKept(cm, cm') /\ cm'.mode = cm.mode
        /\ cm'.assembly = cm.assembly
    BY <1>1, <2>3, BooksViews DEF SameBlocks
  <2>5. DOMAIN sent' = DOMAIN hist /\ \A i \in DOMAIN sent' : sent'[i] \in Forms
    <3>1. CASE sent' = render(cm', hist)
      BY <2>4, <3>1, RenderForms
    <3>2. CASE sent' = [i \in DOMAIN hist |-> "full"]
      <4>1. "full" \in Forms
        BY DEF Forms
      <4> QED BY <3>2, <4>1
    <3> QED BY <2>2, <3>1, <3>2
  <2>6. SeamSteps
    BY <1>3, <2>2, <2>5 DEF SeamSteps, InAssembly
  <2>7. Books'
    BY <1>1, <2>2, <2>3 DEF Books, InAssembly, AuditedTurns, Tally
  <2>8. Mirror' /\ CopiesWindowed'
    BY <1>4, <2>4, NoWindow
  <2> QED BY <2>4, <2>6, <2>7, <2>8, SeamMoves
<1>6. CASE AssemblyFails
  <2>1. cm' = note_assembly_failure(cm) /\ pc' = "preset" /\ sent' = sent /\ attempt' = attempt
        /\ recs' = recs
    BY <1>6 DEF AssemblyFails
  <2>2. /\ SameBlocks(cm, cm') /\ cm'.views = cm.views
        /\ cm'.violations = cm.violations /\ cm'.refusals = cm.refusals /\ cm'.uncounted = cm.uncounted
        /\ cm'.policyStrikes = cm.policyStrikes /\ cm'.policyFailures = cm.policyFailures
        /\ cm'.policyDisabled = cm.policyDisabled
        /\ cm'.assemblyFailures = cm.assemblyFailures + 1
        /\ (cm'.assemblyDisabled <=> cm.assemblyDisabled \/ cm.assemblyFailures + 1 >= Strikes)
    BY <1>2, <2>1, AssemblyFailedBooks
  <2>3. ViewOK(cm', Len(hist)) /\ PinsKept(cm, cm') /\ cm'.mode = cm.mode
        /\ cm'.assembly = cm.assembly
    BY <1>1, <2>2, BooksViews DEF SameBlocks
  <2>4. SeamSteps
    BY <1>1, <1>3, <2>1 DEF SeamSteps, InAssembly, Types
  <2>5. Books'
    BY <1>1, <1>4, <2>1, <2>2 DEF Books, InAssembly, AuditedTurns, Strikes, Tally
  <2>6. Mirror' /\ CopiesWindowed'
    BY <1>4, <2>3, NoWindow
  <2> QED BY <2>3, <2>4, <2>5, <2>6, SeamMoves
<1> QED BY <1>5, <1>6

-----------------------------------------------------------------------------
(*                             The tool calls                              *)

\* What the loop does once a tool call is over.
LEMMA AfterToolLoops ==
    ASSUME Types, Steps, ntools < session.tools, phase # "summary",
           NEW tool, NEW out, NEW len \in Nat, AfterTool(tool, out, len)
    PROVE  /\ ntools' \in 0..session.tools /\ pc' = "seam"
           /\ msg' \in Text /\ msg'.hdr /\ msg'.quotes = 0
           /\ phase' \in {"loop", "summary"} /\ stop' \in {"no", "tokens", "tools", "repeat"}
           /\ (stop' # "no" => phase' = "summary")
           /\ UNCHANGED <<hist, resp, malformed, tokens>>
<1>1. ntools' = ntools + 1 /\ UNCHANGED <<hist, resp, malformed, tokens>>
  BY DEF AfterTool
<1>2. ntools' \in 0..session.tools
  BY <1>1 DEF Types, SessionKinds
<1>3. PICK n : n = CASE out = "same" -> 1 [] out = "err" -> 2 [] OTHER -> 10 + Len(hist)
  OBVIOUS
<1>4. n \in Nat
  <2>1. Len(hist) \in Nat
    BY Entries
  <2>2. CASE out = "same"
    BY <1>3, <2>2
  <2>3. CASE out = "err"
    BY <1>3, <2>3
  <2>4. CASE out # "same" /\ out # "err"
    BY <1>3, <2>1, <2>4
  <2> QED BY <2>2, <2>3, <2>4
<1>5. \/ stop' = "repeat" /\ Send(UserText(Framework, 400), "summary")
      \/ stop' = stop /\ Send(UserText(n, len), "loop")
  BY <1>3 DEF AfterTool
<1>6. /\ UserText(n, len) \in Text /\ UserText(n, len).hdr /\ UserText(n, len).quotes = 0
      /\ UserText(Framework, 400) \in Text /\ UserText(Framework, 400).hdr
      /\ UserText(Framework, 400).quotes = 0
  BY <1>4, UserTexts DEF Framework
<1>7. stop = "no"
  BY DEF Steps
<1>8. CASE stop' = "repeat" /\ Send(UserText(Framework, 400), "summary")
  BY <1>1, <1>2, <1>6, <1>8 DEF Send
<1>9. CASE stop' = stop /\ Send(UserText(n, len), "loop")
  BY <1>1, <1>2, <1>6, <1>7, <1>9 DEF Send
<1> QED BY <1>5, <1>8, <1>9

LEMMA UnderBudget ==
    ASSUME IInv, MayContinue
    PROVE  ntools < session.tools /\ phase # "summary" /\ pc = "decide"
BY DEF IInv, Types, SessionKinds, MayContinue, OutOfTools

\* A call that is refused.
LEMMA RefusedKeeps ==
    ASSUME IInv, Refused
    PROVE  IInv'
<1>1. Types /\ Steps
  BY DEF IInv
<1>2. MayContinue /\ AfterTool(resp.tool, "err", 100)
      /\ UNCHANGED <<cm, sent, raw, attempt, left, recs, edits, session>> /\ UNCHANGED toolVars
  BY DEF Refused
<1>3. ntools < session.tools /\ phase # "summary" /\ pc = "decide"
  BY <1>2, UnderBudget
<1>4. /\ ntools' \in 0..session.tools /\ pc' = "seam"
      /\ msg' \in Text /\ msg'.hdr /\ msg'.quotes = 0
      /\ phase' \in {"loop", "summary"} /\ stop' \in {"no", "tokens", "tools", "repeat"}
      /\ (stop' # "no" => phase' = "summary")
      /\ UNCHANGED <<hist, resp, malformed, tokens>>
  BY <1>1, <1>2, <1>3, AfterToolLoops
<1>5. Types'
  BY <1>1, <1>2, <1>4 DEF Types
<1>6. /\ UNCHANGED <<session, cm, hist, sent, raw, edits, resp, toolVars>>
      /\ pc \notin {"wait", "exited"} /\ pc' \in {"seam", "llm", "done", "failed", "hung"}
      /\ (pc' = "llm" => pc = "llm" /\ msg' = msg) /\ (pc' = "seam" => pc = "decide")
      /\ (msg' = msg \/ (msg'.hdr /\ msg'.quotes = 0))
      /\ (stop' # "no" => phase' = "summary")
  BY <1>2, <1>3, <1>4
<1> QED BY <1>5, <1>6, LoopStep

\* A step of the tool calls that leaves the history and the view alone, and goes on
\* from the reply to the call, or from the call to the next turn.
LEMMA CallStep ==
    ASSUME IInv, Types', Steps', Redirected', Wedged',
           UNCHANGED <<session, cm, hist, sent, raw, edits>>,
           \/ pc' = pc /\ msg' = msg
           \/ pc = "decide" /\ pc' = "wait" /\ msg' = msg
           \/ pc = "wait" /\ pc' = "seam" /\ msg'.hdr /\ msg'.quotes = 0
           \/ pc = "wait" /\ pc' = "exited" /\ msg' = msg
    PROVE  IInv'
<1>1. ViewOK(cm, Len(hist))'
  BY DEF IInv
<1>2. Books'
  BY DEF IInv, Books, InAssembly, AuditedTurns, HasCm
<1>3. Heard'
  BY DEF IInv, Heard
<1>4. Mirror'
  <2>1. Windowed' => Windowed
    BY DEF Windowed
  <2>2. Mirror /\ Types
    BY DEF IInv
  <2>3. CASE pc' = pc /\ msg' = msg
    BY <2>1, <2>2, <2>3 DEF Mirror
  <2>4. CASE pc = "decide" /\ pc' = "wait" /\ msg' = msg
    BY <2>1, <2>2, <2>4 DEF Mirror
  <2>5. CASE pc = "wait" /\ pc' = "exited" /\ msg' = msg
    BY <2>5 DEF Mirror
  <2>6. CASE pc = "wait" /\ pc' = "seam"
    <3> SUFFICES ASSUME Windowed
                 PROVE  MirrorOf(cm, IF hist = <<>> THEN 0 ELSE Len(hist) - 1, hist, msg')
      BY <2>1, <2>6 DEF Mirror
    <3>1. PICK n : n = IF hist = <<>> THEN 0 ELSE Len(hist) - 1
      OBVIOUS
    <3>2. MirrorOf(cm, n, hist, msg)
      BY <2>2, <2>6, <3>1, SMTT(30) DEF Mirror
    <3>3. n \in Nat /\ \A b \in 1..n : b \in DOMAIN hist
      BY <2>2, <3>1, Entries
    <3> HIDE DEF IInv
    <3> QED BY <3>1, <3>2, <3>3, MirrorsEntries
  <2> QED BY <2>3, <2>4, <2>5, <2>6
<1>5. CopiesWindowed'
  BY DEF IInv, CopiesWindowed, Windowed
<1> QED BY <1>1, <1>2, <1>3, <1>4, <1>5 DEF IInv

\* The tool calls as a list.
LEMMA Calls ==
    ASSUME Redirected
    PROVE  /\ Len(calls) \in Nat /\ DOMAIN calls = 1..Len(calls)
           /\ calls \in [1..Len(calls) -> CallRecord]
           /\ \A c \in DOMAIN calls : calls[c] \in CallRecord
           /\ calls # <<>> => Len(calls) \in DOMAIN calls
<1>1. calls \in Seq(CallRecord)
  BY DEF Redirected
<1>2. Len(calls) \in Nat /\ calls \in [1..Len(calls) -> CallRecord] /\ DOMAIN calls = 1..Len(calls)
  BY <1>1, LenProperties
<1>3. calls # <<>> => Len(calls) \in DOMAIN calls
  BY <1>1, <1>2
<1> QED BY <1>2, <1>3

\* One call changes, the others stay.
LEMMA CallChanges ==
    ASSUME Redirected, NEW c \in DOMAIN calls, NEW r \in CallRecord,
           calls' = [calls EXCEPT ![c] = r]
    PROVE  /\ calls' \in Seq(CallRecord) /\ Len(calls') = Len(calls)
           /\ DOMAIN calls' = DOMAIN calls /\ calls'[c] = r
           /\ \A d \in DOMAIN calls : d # c => calls'[d] = calls[d]
<1>1. /\ Len(calls) \in Nat /\ DOMAIN calls = 1..Len(calls)
      /\ calls \in [1..Len(calls) -> CallRecord]
  BY Calls
<1>2. calls' \in [1..Len(calls) -> CallRecord]
  BY <1>1
<1>3. calls' \in Seq(CallRecord)
  BY <1>1, <1>2, SeqDef
<1>4. DOMAIN calls' = 1..Len(calls)
  BY <1>2
<1>5. Len(calls') = Len(calls)
  BY <1>1, <1>3, <1>4, LenProperties
<1> QED BY <1>1, <1>3, <1>4, <1>5

LEMMA GivenUpFinite ==
    ASSUME Redirected, NEW t
    PROVE  /\ GivenUp \subseteq 1..Len(calls) /\ IsFiniteSet(GivenUp)
           /\ IsFiniteSet({c \in GivenUp : calls[c].tool = t})
           /\ Cardinality({c \in GivenUp : calls[c].tool = t}) \in Nat
<1>1. GivenUp \subseteq 1..Len(calls) /\ Len(calls) \in Nat
  BY Calls DEF GivenUp
<1>2. IsFiniteSet(1..Len(calls))
  BY <1>1, FS_Interval
<1>3. IsFiniteSet(GivenUp)
  BY <1>1, <1>2, FS_Subset
<1>4. IsFiniteSet({c \in GivenUp : calls[c].tool = t})
  BY <1>3, FS_Subset
<1> QED BY <1>1, <1>3, <1>4, FS_CardinalityType

\* Fewer calls given up are no more per tool.
LEMMA FewerGivenUp ==
    ASSUME IInv, GivenUp' \subseteq GivenUp,
           \A c \in GivenUp' : calls'[c].tool = calls[c].tool, NEW t \in AllTools
    PROVE  Cardinality({c \in GivenUp' : calls'[c].tool = t}) <= wedges[t]
<1>1. Redirected /\ Cardinality({c \in GivenUp : calls[c].tool = t}) <= wedges[t]
      /\ wedges[t] \in Nat
  <2>1. Redirected /\ Cardinality({c \in GivenUp : calls[c].tool = t}) <= wedges[t]
    BY DEF IInv, Wedged
  <2>2. wedges[t] \in 0..WedgeLimit
    BY DEF IInv, Wedged
  <2> QED BY <2>1, <2>2
<1>2. PICK old : old = {c \in GivenUp : calls[c].tool = t}
  OBVIOUS
<1>3. PICK new : new = {c \in GivenUp' : calls'[c].tool = t}
  OBVIOUS
<1>4. new \subseteq old
  BY <1>2, <1>3
<1>5. IsFiniteSet(old) /\ Cardinality(old) \in Nat
  BY <1>1, <1>2, GivenUpFinite
<1>6. IsFiniteSet(new) /\ Cardinality(new) <= Cardinality(old) /\ Cardinality(new) \in Nat
  BY <1>4, <1>5, FS_Subset, FS_CardinalityType
<1> QED BY <1>1, <1>2, <1>3, <1>5, <1>6

\* The loop hands a call to the executor.
LEMMA SubmitKeeps ==
    ASSUME IInv, Submit
    PROVE  IInv'
<1>1. Types /\ Steps /\ Redirected /\ Wedged
  BY DEF IInv
<1>2. /\ MayContinue /\ resp.kind = "tool" /\ resp.tool # "ghost" /\ wedges[resp.tool] < WedgeLimit
      /\ pc' = "wait"
      /\ UNCHANGED <<cm, msg, sent, raw, phase, attempt, sysout, wedges, left, recs, edits, session>>
      /\ UNCHANGED loopVars
  BY DEF Submit
<1>3. ntools < session.tools /\ phase # "summary" /\ pc = "decide"
  BY <1>2, UnderBudget
<1>4. PICK r : r = [tool |-> resp.tool, st |-> "queued", over |-> sysout, saved |-> 0,
                    captures |-> TRUE, ran |-> FALSE]
  OBVIOUS
<1>5. PICK n : n = Len(calls)
  OBVIOUS
<1>6. /\ n \in Nat /\ DOMAIN calls = 1..n /\ sysout \in 0..n
      /\ \A c \in 1..n : calls[c] \in CallRecord
  BY <1>1, <1>5, Calls DEF Redirected
<1>7. resp.tool \in Offered /\ resp.tool \in AllTools
  <2>1. resp.tool \in Offered
    BY <1>1, <1>2, <1>3 DEF Steps
  <2> QED BY <2>1 DEF Offered, AllTools
<1>8. r \in CallRecord
  BY <1>4, <1>6, <1>7 DEF CallRecord
<1>9. r.tool = resp.tool /\ r.st = "queued" /\ r.over = sysout /\ r.saved = 0 /\ r.captures = TRUE
  BY <1>4
<1>10. /\ calls' \in Seq(CallRecord) /\ Len(calls') = n + 1 /\ calls'[n + 1] = r
       /\ \A c \in 1..n : calls'[c] = calls[c]
  <2>1. calls' = Append(calls, r) /\ calls \in Seq(CallRecord)
    BY <1>1, <1>4 DEF Submit, Redirected
  <2> QED BY <1>5, <1>8, <2>1, AppendProperties
<1>11. DOMAIN calls' = 1..n + 1
  BY <1>10, LenProperties
<1>12. Types'
  BY <1>1, <1>2 DEF Types, loopVars
<1>13. Offered' = Offered
  BY <1>2 DEF Offered, HasCm
<1>14. Steps'
  BY <1>1, <1>2, <1>3 DEF Steps, loopVars
<1>15. Redirected'
  <2>1. sysout' \in 0..n + 1
    BY <1>2, <1>6
  <2>2. ASSUME NEW c \in 1..n + 1
        PROVE  /\ calls'[c].tool \in Offered' /\ calls'[c].over < c /\ calls'[c].saved <= n + 1
               /\ calls'[c].captures => pc' = "wait" /\ c = n + 1 /\ calls'[c].st # "over"
    <3>1. CASE c = n + 1
      BY <1>2, <1>6, <1>7, <1>9, <1>10, <1>13, <3>1
    <3>2. CASE c \in 1..n
      <4>1. calls'[c] = calls[c] /\ calls[c] \in CallRecord
        BY <1>6, <1>10, <3>2
      <4>2. /\ calls[c].tool \in Offered /\ calls[c].over < c /\ calls[c].saved <= n
            /\ ~calls[c].captures
        BY <1>1, <1>3, <1>5, <1>6, <3>2 DEF Redirected
      <4>3. calls[c].saved <= n + 1
        BY <1>6, <4>1, <4>2 DEF CallRecord
      <4> QED BY <1>13, <4>1, <4>2, <4>3
    <3> QED BY <1>6, <3>1, <3>2
  <2>3. calls' # <<>>
    <3>1. n + 1 \in 1..n + 1
      BY <1>6
    <3> QED BY <1>11, <3>1
  <2> QED BY <1>10, <1>11, <2>1, <2>2, <2>3 DEF Redirected
<1>16. GivenUp' = GivenUp
  <2>1. GivenUp = {c \in 1..n : calls[c].st # "over"}
    BY <1>3, <1>6 DEF GivenUp
  <2>2. GivenUp' = {c \in 1..n + 1 : calls'[c].st # "over" /\ c < n + 1}
    BY <1>2, <1>10, <1>11 DEF GivenUp
  <2>3. \A c : (c \in 1..n + 1 /\ c < n + 1) <=> c \in 1..n
    BY <1>6
  <2> QED BY <1>10, <2>1, <2>2, <2>3
<1>17. Wedged'
  <2>1. ASSUME NEW t \in AllTools
        PROVE  Cardinality({c \in GivenUp' : calls'[c].tool = t}) <= wedges'[t]
    <3>1. GivenUp' \subseteq GivenUp /\ \A c \in GivenUp' : calls'[c].tool = calls[c].tool
      BY <1>6, <1>10, <1>16 DEF GivenUp
    <3>2. Cardinality({c \in GivenUp' : calls'[c].tool = t}) <= wedges[t]
      BY <3>1, FewerGivenUp
    <3> QED BY <1>2, <3>2
  <2>2. wedges'[calls'[Len(calls')].tool] < WedgeLimit
    BY <1>2, <1>9, <1>10
  <2> QED BY <1>1, <1>2, <2>1, <2>2 DEF Wedged
<1> QED BY <1>2, <1>3, <1>12, <1>14, <1>15, <1>17, CallStep DEF loopVars

\* A thread takes up a call.
LEMMA ThreadStartsKeeps ==
    ASSUME IInv, NEW c \in DOMAIN calls, ThreadStarts(c)
    PROVE  IInv'
<1>1. Types /\ Steps /\ Redirected /\ Wedged
  BY DEF IInv
<1>2. /\ calls[c].st = "queued" /\ sysout' = c
      /\ UNCHANGED <<pc, cm, msg, sent, raw, phase, attempt, wedges, left, recs, edits, session>>
      /\ UNCHANGED loopVars
  BY DEF ThreadStarts
<1>3. PICK n : n = Len(calls)
  OBVIOUS
<1>4. n \in Nat /\ DOMAIN calls = 1..n /\ c \in 1..n /\ \A d \in 1..n : calls[d] \in CallRecord
  BY <1>1, <1>3, Calls
<1>5. sysout \in 0..n
  BY <1>1, <1>3 DEF Redirected
<1>6. PICK r : r = [calls[c] EXCEPT !.st = "running", !.saved = sysout, !.ran = TRUE]
  OBVIOUS
<1>7. /\ r \in CallRecord /\ r.tool = calls[c].tool /\ r.st = "running" /\ r.over = calls[c].over
      /\ r.saved = sysout /\ r.captures = calls[c].captures
  <2>1. calls[c] \in CallRecord /\ sysout \in Nat
    BY <1>4, <1>5
  <2> QED BY <1>6, <2>1 DEF CallRecord
<1>8. calls' = [calls EXCEPT ![c] = r]
  BY <1>1, <1>4, <1>6 DEF ThreadStarts
<1>9. /\ calls' \in Seq(CallRecord) /\ Len(calls') = n /\ DOMAIN calls' = 1..n /\ calls'[c] = r
      /\ \A d \in 1..n : d # c => calls'[d] = calls[d]
  BY <1>1, <1>3, <1>4, <1>7, <1>8, CallChanges
<1>10. \A d \in 1..n : /\ calls'[d].tool = calls[d].tool /\ calls'[d].over = calls[d].over
                       /\ calls'[d].captures = calls[d].captures
                       /\ (calls'[d].st # "over" <=> calls[d].st # "over")
                       /\ calls'[d].saved <= n
  <2> TAKE d \in 1..n
  <2>1. calls[d].saved <= n
    BY <1>1, <1>3, <1>4 DEF Redirected
  <2>2. CASE d = c
    BY <1>2, <1>5, <1>7, <1>9, <2>2
  <2>3. CASE d # c
    BY <1>9, <2>1, <2>3
  <2> QED BY <2>2, <2>3
<1>11. Types'
  BY <1>1, <1>2 DEF Types, loopVars
<1>12. Offered' = Offered
  BY <1>2 DEF Offered, HasCm
<1>13. Steps'
  BY <1>1, <1>2, <1>12 DEF Steps, loopVars
<1>14. Redirected'
  <2>1. sysout' \in 0..n
    BY <1>2, <1>4
  <2>2. ASSUME NEW d \in 1..n
        PROVE  /\ calls'[d].tool \in Offered' /\ calls'[d].over < d /\ calls'[d].saved <= n
               /\ calls'[d].captures => pc' = "wait" /\ d = n /\ calls'[d].st # "over"
    BY <1>1, <1>2, <1>3, <1>4, <1>10, <1>12 DEF Redirected
  <2>3. calls' # <<>>
    BY <1>4, <1>9
  <2> QED BY <1>9, <2>1, <2>2, <2>3 DEF Redirected
<1>15. GivenUp' = GivenUp
  BY <1>2, <1>3, <1>4, <1>9, <1>10 DEF GivenUp
<1>16. Wedged'
  <2>1. ASSUME NEW t \in AllTools
        PROVE  Cardinality({d \in GivenUp' : calls'[d].tool = t}) <= wedges'[t]
    <3>1. GivenUp' \subseteq GivenUp /\ \A d \in GivenUp' : calls'[d].tool = calls[d].tool
      BY <1>4, <1>10, <1>15 DEF GivenUp
    <3>2. Cardinality({d \in GivenUp' : calls'[d].tool = t}) <= wedges[t]
      BY <3>1, FewerGivenUp
    <3> QED BY <1>2, <3>2
  <2>2. pc' = "wait" => wedges'[calls'[Len(calls')].tool] < WedgeLimit
    <3>1. n \in 1..n
      BY <1>4
    <3> QED BY <1>1, <1>2, <1>3, <1>9, <1>10, <3>1 DEF Wedged
  <2> QED BY <1>1, <1>2, <2>1, <2>2 DEF Wedged
<1> QED BY <1>2, <1>11, <1>13, <1>14, <1>16, CallStep DEF loopVars

\* A thread is done with its call: whatever sys.stdout was, it is put back.
LEMMA CallEnds ==
    ASSUME IInv, NEW c \in DOMAIN calls, ThreadEnds(c), cm'.mode = cm.mode
    PROVE  Redirected' /\ Wedged'
<1>1. Types /\ Redirected /\ Wedged
  BY DEF IInv
<1>2. /\ calls[c].st = "running" /\ sysout' = calls[c].saved
      /\ UNCHANGED <<pc, wedges>>
  BY DEF ThreadEnds
<1>3. PICK n : n = Len(calls)
  OBVIOUS
<1>4. n \in Nat /\ DOMAIN calls = 1..n /\ c \in 1..n /\ \A d \in 1..n : calls[d] \in CallRecord
  BY <1>1, <1>3, Calls
<1>5. PICK r : r = [calls[c] EXCEPT !.st = "over", !.captures = FALSE]
  OBVIOUS
<1>6. /\ r \in CallRecord /\ r.tool = calls[c].tool /\ r.st = "over" /\ r.over = calls[c].over
      /\ r.saved = calls[c].saved /\ r.captures = FALSE
  <2>1. calls[c] \in CallRecord
    BY <1>4
  <2> QED BY <1>5, <2>1 DEF CallRecord
<1>7. calls' = [calls EXCEPT ![c] = r]
  BY <1>1, <1>4, <1>5 DEF ThreadEnds
<1>8. /\ calls' \in Seq(CallRecord) /\ Len(calls') = n /\ DOMAIN calls' = 1..n /\ calls'[c] = r
      /\ \A d \in 1..n : d # c => calls'[d] = calls[d]
  BY <1>1, <1>3, <1>4, <1>6, <1>7, CallChanges
<1>9. \A d \in 1..n : /\ calls'[d].tool = calls[d].tool /\ calls'[d].over = calls[d].over
                      /\ (calls'[d].captures => calls'[d] = calls[d])
                      /\ (calls'[d].st # "over" => calls[d].st # "over")
                      /\ calls'[d].saved <= n
  <2> TAKE d \in 1..n
  <2>1. calls[d].saved <= n
    BY <1>1, <1>3, <1>4 DEF Redirected
  <2>2. CASE d = c
    BY <1>2, <1>6, <1>8, <2>1, <2>2
  <2>3. CASE d # c
    BY <1>8, <2>1, <2>3
  <2> QED BY <2>2, <2>3
<1>10. Offered' = Offered
  BY DEF Offered, HasCm
<1>11. Redirected'
  <2>1. sysout' \in 0..n
    <3>1. calls[c].saved <= n /\ calls[c] \in CallRecord
      BY <1>1, <1>3, <1>4 DEF Redirected
    <3> QED BY <1>2, <1>4, <3>1 DEF CallRecord
  <2>2. ASSUME NEW d \in 1..n
        PROVE  /\ calls'[d].tool \in Offered' /\ calls'[d].over < d /\ calls'[d].saved <= n
               /\ calls'[d].captures => pc' = "wait" /\ d = n /\ calls'[d].st # "over"
    BY <1>1, <1>2, <1>3, <1>4, <1>9, <1>10 DEF Redirected
  <2>3. calls' # <<>>
    BY <1>4, <1>8
  <2> QED BY <1>8, <2>1, <2>2, <2>3 DEF Redirected
<1>12. GivenUp' \subseteq GivenUp
  BY <1>2, <1>3, <1>4, <1>8, <1>9 DEF GivenUp
<1>13. Wedged'
  <2>1. ASSUME NEW t \in AllTools
        PROVE  Cardinality({d \in GivenUp' : calls'[d].tool = t}) <= wedges'[t]
    <3>1. \A d \in GivenUp' : calls'[d].tool = calls[d].tool
      BY <1>8, <1>9 DEF GivenUp
    <3>2. Cardinality({d \in GivenUp' : calls'[d].tool = t}) <= wedges[t]
      BY <1>12, <3>1, FewerGivenUp
    <3> QED BY <1>2, <3>2
  <2>2. pc' = "wait" => wedges'[calls'[Len(calls')].tool] < WedgeLimit
    <3>1. n \in 1..n
      BY <1>4
    <3> QED BY <1>1, <1>2, <1>3, <1>8, <1>9, <3>1 DEF Wedged
  <2> QED BY <1>1, <1>2, <2>1, <2>2 DEF Wedged
<1> QED BY <1>11, <1>13

LEMMA ThreadEndsKeeps ==
    ASSUME IInv, NEW c \in DOMAIN calls, ThreadEnds(c)
    PROVE  IInv' /\ PinsKept(cm, cm')
<1>1. Types /\ Steps /\ ViewOK(cm, Len(hist)) /\ Books /\ Heard /\ Mirror /\ CopiesWindowed
  BY DEF IInv
<1>2. /\ UNCHANGED <<pc, msg, sent, raw, phase, attempt, wedges, left, recs, session>>
      /\ UNCHANGED loopVars
  BY DEF ThreadEnds
<1>3. CASE UNCHANGED <<cm, edits>>
  <2>1. Redirected' /\ Wedged'
    BY <1>3, CallEnds
  <2>2. Types'
    BY <1>1, <1>2, <1>3 DEF Types, loopVars
  <2>3. Steps'
    <3>1. Offered' = Offered
      BY <1>3 DEF Offered, HasCm
    <3> QED BY <1>1, <1>2, <1>3, <3>1 DEF Steps, loopVars
  <2>4. PinsKept(cm, cm')
    BY <1>3, ItselfSteady
  <2> QED BY <1>2, <1>3, <2>1, <2>2, <2>3, <2>4, CallStep DEF loopVars
<1>4. CASE (\E op \in AgentOps : cm' = Handle(cm, "agent", 0, op)) /\ edits' = edits + 1
  <2>1. PICK op \in AgentOps : cm' = Handle(cm, "agent", 0, op)
    BY <1>4
  <2>2. IsOp(cm, "agent", op)
    <3>1. CASE \E o \in {"fetch", "pin", "pin_note", "unpin"}, b \in Blocks(cm) :
                 op = [op |-> o, refs |-> <<b>>, form |-> "full"]
      BY <3>1 DEF IsOp
    <3>2. CASE \E b \in Blocks(cm) : op = [op |-> "fetch", refs |-> <<b>>, form |-> "placeholder"]
      BY <3>2 DEF IsOp
    <3>3. CASE \E o \in {"note", "drop"} : op = [op |-> o, refs |-> <<1>>, form |-> "full"]
      BY <3>3 DEF IsOp
    <3> QED BY <3>1, <3>2, <3>3 DEF AgentOps
  <2>3. Len(hist) \in Nat /\ Tally(cm)
    BY <1>1, Entries DEF Books
  <2>4. /\ ViewOK(cm', Len(hist)) /\ PinsKept(cm, cm') /\ SameBooks(cm, cm')
        /\ Tally(cm')
    BY <1>1, <2>1, <2>2, <2>3, HandleKeeps
  <2>5. cm'.mode = cm.mode
    BY <2>4 DEF SameBooks
  <2>6. Redirected' /\ Wedged'
    BY <2>5, CallEnds
  <2>7. Types'
    BY <1>1, <1>2, <1>4 DEF Types, loopVars
  <2>8. Steps'
    <3>1. Offered' = Offered
      BY <2>5 DEF Offered, HasCm
    <3> QED BY <1>1, <1>2, <2>5, <3>1 DEF Steps, loopVars
  <2>9. Books'
    BY <1>1, <1>2, <2>4 DEF Books, InAssembly, AuditedTurns, SameBooks, HasCm
  <2>10. Mirror' /\ CopiesWindowed'
    <3>1. edits' # 0
      BY <1>1, <1>4 DEF Types
    <3> QED BY <3>1, NoWindow
  <2>11. Heard' /\ ViewOK(cm, Len(hist))'
    BY <1>1, <1>2, <2>4 DEF Heard, loopVars
  <2> QED BY <2>4, <2>6, <2>7, <2>8, <2>9, <2>10, <2>11 DEF IInv
<1> QED BY <1>3, <1>4 DEF ThreadEnds


\* The tool answers in time.
LEMMA ToolAnswersKeeps ==
    ASSUME IInv, ToolAnswers
    PROVE  IInv'
<1>1. Types /\ Steps /\ Redirected /\ Wedged
  BY DEF IInv
<1>2. /\ pc = "wait" /\ calls[Len(calls)].st = "over"
      /\ UNCHANGED <<cm, sent, raw, attempt, left, recs, edits, session>> /\ UNCHANGED toolVars
  BY DEF ToolAnswers, Current
<1>3. PICK out \in {"same", "new"} :
         AfterTool(calls[Len(calls)].tool, out, IF out = "new" THEN 3000 ELSE 100)
  BY DEF ToolAnswers, Current
<1>4. PICK len \in Nat : len = IF out = "new" THEN 3000 ELSE 100
  OBVIOUS
<1>5. PICK tool : tool = calls[Len(calls)].tool
  OBVIOUS
<1>6. AfterTool(tool, out, len)
  BY <1>3, <1>4, <1>5
<1>7. ntools < session.tools /\ phase # "summary"
  BY <1>1, <1>2 DEF Steps
<1>8. /\ ntools' \in 0..session.tools /\ pc' = "seam"
      /\ msg' \in Text /\ msg'.hdr /\ msg'.quotes = 0
      /\ phase' \in {"loop", "summary"} /\ stop' \in {"no", "tokens", "tools", "repeat"}
      /\ (stop' # "no" => phase' = "summary")
      /\ UNCHANGED <<hist, resp, malformed, tokens>>
  BY <1>1, <1>6, <1>7, AfterToolLoops
<1>9. Types'
  BY <1>1, <1>2, <1>8 DEF Types
<1>10. Steps'
  BY <1>1, <1>2, <1>8 DEF Steps
<1>11. calls' = calls /\ sysout' = sysout /\ wedges' = wedges /\ Offered' = Offered
  BY <1>2 DEF toolVars, Offered, HasCm
<1>12. Redirected'
  BY <1>1, <1>2, <1>8, <1>11 DEF Redirected
<1>13. GivenUp' = GivenUp
  <2>1. Len(calls) \in Nat /\ DOMAIN calls = 1..Len(calls)
    BY <1>1, Calls
  <2>2. \A c \in DOMAIN calls : calls[c].st # "over" => c < Len(calls)
    BY <1>2, <2>1
  <2> QED BY <1>2, <1>8, <1>11, <2>2 DEF GivenUp
<1>14. Wedged'
  BY <1>1, <1>8, <1>11, <1>13 DEF Wedged
<1> QED BY <1>2, <1>8, <1>9, <1>10, <1>12, <1>14, CallStep

\* It does not: the loop exits, or gives the call up and counts a wedge.
LEMMA ToolTimesOutKeeps ==
    ASSUME IInv, ToolTimesOut
    PROVE  IInv'
<1>1. Types /\ Steps /\ Redirected /\ Wedged
  BY DEF IInv
<1>2. PICK n : n = Len(calls)
  OBVIOUS
<1>3. /\ pc = "wait" /\ calls[n].st # "over"
      /\ UNCHANGED <<cm, sent, raw, attempt, sysout, left, recs, edits, session>>
  BY <1>2 DEF ToolTimesOut, Current
<1>4. /\ n \in Nat /\ DOMAIN calls = 1..n /\ n \in 1..n
      /\ \A c \in 1..n : calls[c] \in CallRecord
  BY <1>1, <1>2, <1>3, Calls DEF Redirected
<1>5. PICK r : r = [calls[n] EXCEPT !.captures = FALSE]
  OBVIOUS
<1>6. /\ r \in CallRecord /\ r.tool = calls[n].tool /\ r.st = calls[n].st
      /\ r.over = calls[n].over /\ r.saved = calls[n].saved /\ r.captures = FALSE
  <2>1. calls[n] \in CallRecord
    BY <1>4
  <2> QED BY <1>5, <2>1 DEF CallRecord
<1>7. calls' = [calls EXCEPT ![n] = r]
  BY <1>2, <1>5 DEF ToolTimesOut, Current
<1>8. /\ calls' \in Seq(CallRecord) /\ Len(calls') = n /\ DOMAIN calls' = 1..n /\ calls'[n] = r
      /\ \A d \in 1..n : d # n => calls'[d] = calls[d]
  BY <1>1, <1>2, <1>4, <1>6, <1>7, CallChanges
<1>9. \A d \in 1..n : /\ calls'[d].tool = calls[d].tool /\ calls'[d].over = calls[d].over
                      /\ calls'[d].st = calls[d].st /\ calls'[d].saved = calls[d].saved
                      /\ calls'[d].captures => FALSE
  <2> TAKE d \in 1..n
  <2>1. CASE d = n
    BY <1>6, <1>8, <2>1
  <2>2. CASE d # n
    <3>1. ~calls[d].captures
      BY <1>1, <1>2, <1>4, <2>2 DEF Redirected
    <3> QED BY <1>8, <2>2, <3>1
  <2> QED BY <2>1, <2>2
<1>10. Offered' = Offered
  BY <1>3 DEF Offered, HasCm
<1>11. Redirected' \/ pc' = "wait"
  <2> SUFFICES ASSUME pc' # "wait" PROVE Redirected'
    OBVIOUS
  <2>1. sysout' \in 0..n
    BY <1>1, <1>2, <1>3 DEF Redirected
  <2>2. ASSUME NEW d \in 1..n
        PROVE  /\ calls'[d].tool \in Offered' /\ calls'[d].over < d /\ calls'[d].saved <= n
               /\ calls'[d].captures => pc' = "wait" /\ d = n /\ calls'[d].st # "over"
    BY <1>1, <1>2, <1>4, <1>9, <1>10 DEF Redirected
  <2> QED BY <1>8, <2>1, <2>2 DEF Redirected
<1>12. GivenUp = {c \in 1..n : calls[c].st # "over" /\ c < n}
  BY <1>2, <1>3, <1>4 DEF GivenUp
<1>13. CASE session.secure
  <2>1. pc' = "exited" /\ UNCHANGED <<msg, phase, wedges>> /\ UNCHANGED loopVars
    BY <1>13 DEF ToolTimesOut
  <2>2. Types'
    BY <1>1, <1>3, <2>1 DEF Types, loopVars
  <2>3. Steps'
    BY <1>1, <1>3, <2>1 DEF Steps, loopVars
  <2>4. GivenUp' \subseteq GivenUp
    BY <1>8, <1>9, <1>12, <2>1 DEF GivenUp
  <2>5. Wedged'
    <3>1. ASSUME NEW t \in AllTools
          PROVE  Cardinality({d \in GivenUp' : calls'[d].tool = t}) <= wedges'[t]
      <4>1. \A d \in GivenUp' : calls'[d].tool = calls[d].tool
        BY <1>8, <1>9 DEF GivenUp
      <4>2. Cardinality({d \in GivenUp' : calls'[d].tool = t}) <= wedges[t]
        BY <2>4, <4>1, FewerGivenUp
      <4> QED BY <2>1, <4>2
    <3> QED BY <1>1, <2>1, <3>1 DEF Wedged
  <2> QED BY <1>3, <1>11, <2>1, <2>2, <2>3, <2>5, CallStep DEF loopVars
<1>14. CASE ~session.secure
  <2>1. PICK tool : tool = calls[n].tool
    OBVIOUS
  <2>2. /\ wedges' = [wedges EXCEPT ![tool] = wedges[tool] + 1]
        /\ AfterTool(tool, "err", 100)
    BY <1>2, <1>14, <2>1 DEF ToolTimesOut, Current
  <2>3. ntools < session.tools /\ phase # "summary"
    BY <1>1, <1>3 DEF Steps
  <2>4. /\ ntools' \in 0..session.tools /\ pc' = "seam"
        /\ msg' \in Text /\ msg'.hdr /\ msg'.quotes = 0
        /\ phase' \in {"loop", "summary"} /\ stop' \in {"no", "tokens", "tools", "repeat"}
        /\ (stop' # "no" => phase' = "summary")
        /\ UNCHANGED <<hist, resp, malformed, tokens>>
    BY <1>1, <2>2, <2>3, AfterToolLoops
  <2>5. Types'
    BY <1>1, <1>3, <2>4 DEF Types
  <2>6. Steps'
    BY <1>1, <1>3, <2>4 DEF Steps
  <2>7. GivenUp' = GivenUp \cup {n}
    <3>1. GivenUp' = {c \in 1..n : calls[c].st # "over"}
      BY <1>8, <1>9, <2>4 DEF GivenUp
    <3>2. \A c \in 1..n : c < n \/ c = n
      BY <1>4
    <3> QED BY <1>3, <1>4, <1>12, <3>1, <3>2
  <2>8. /\ wedges \in [AllTools -> 0..WedgeLimit] /\ wedges[tool] < WedgeLimit
        /\ tool \in AllTools /\ WedgeLimit \in Nat
    <3>1. calls[n] \in CallRecord
      BY <1>4
    <3> QED BY <1>1, <1>2, <1>3, <2>1, <3>1, AgentAssumption DEF Wedged, CallRecord
  <2>9. wedges' \in [AllTools -> 0..WedgeLimit]
    <3>1. wedges[tool] + 1 \in 0..WedgeLimit
      BY <2>8
    <3> QED BY <2>2, <2>8, <3>1
  <2>10. ASSUME NEW t \in AllTools
         PROVE  Cardinality({d \in GivenUp' : calls'[d].tool = t}) <= wedges'[t]
    <3>1. PICK old : old = {d \in GivenUp : calls[d].tool = t}
      OBVIOUS
    <3>2. PICK new : new = {d \in GivenUp' : calls'[d].tool = t}
      OBVIOUS
    <3>3. IsFiniteSet(old) /\ Cardinality(old) \in Nat /\ Cardinality(old) <= wedges[t]
      BY <1>1, <3>1, GivenUpFinite DEF Wedged
    <3>4. n \notin old
      BY <1>12, <3>1
    <3>5. \A d \in GivenUp' : calls'[d].tool = calls[d].tool
      BY <1>8, <1>9 DEF GivenUp
    <3>6. CASE t = tool
      <4>1. new = old \cup {n}
        BY <2>1, <2>7, <3>1, <3>2, <3>5, <3>6
      <4>2. Cardinality(new) = Cardinality(old) + 1
        BY <3>3, <3>4, <4>1, FS_AddElement
      <4>3. wedges'[t] = wedges[t] + 1 /\ wedges[t] \in Nat
        BY <2>2, <2>8, <3>6
      <4> QED BY <3>2, <3>3, <4>2, <4>3
    <3>7. CASE t # tool
      <4>1. new = old
        BY <2>1, <2>7, <3>1, <3>2, <3>5, <3>7
      <4>2. wedges'[t] = wedges[t]
        BY <2>2, <2>8, <3>7
      <4> QED BY <3>2, <3>3, <4>1, <4>2
    <3> QED BY <3>6, <3>7
  <2>11. Wedged'
    BY <2>4, <2>9, <2>10 DEF Wedged
  <2> QED BY <1>3, <1>11, <2>4, <2>5, <2>6, <2>11, CallStep
<1> QED BY <1>13, <1>14

-----------------------------------------------------------------------------
(*                       The invariant holds always                        *)

LEMMA InitHolds ==
    ASSUME Init
    PROVE  IInv
<1>1. session \in SessionKinds
  BY AgentAssumption DEF Init
<1>2. /\ session.tools \in Nat \ {0} /\ session.tokens \in Nat
      /\ session.mode \in Modes \cup {"none"}
  BY <1>1 DEF SessionKinds
<1>3. /\ cm = NewSession(session.mode, session.assembly)
      /\ pc = "seam" /\ phase = "first" /\ attempt = 1 /\ hist = <<>> /\ sent = <<>>
      /\ msg = UserText(Framework + 1, 3000)
      /\ resp = Said("prose") /\ ntools = 0 /\ malformed = 0 /\ tokens = 0
      /\ stop = "no" /\ calls = <<>> /\ sysout = 0 /\ wedges = [t \in AllTools |-> 0] /\ edits = 0
      /\ recs = 0
  BY DEF Init
<1>4. /\ cm.mode = session.mode /\ cm.blocks = <<>> /\ cm.seenUser = FALSE /\ cm.views = 0
      /\ cm.violations = 0 /\ cm.uncounted = 0 /\ cm.refusals = 0 /\ cm.policyStrikes = 0 /\ cm.policyFailures = 0
      /\ cm.assemblyFailures = 0 /\ cm.policyDisabled = FALSE
  BY <1>3 DEF NewSession
<1>5. /\ Len(cm.blocks) = 0 /\ Blocks(cm) = {} /\ DOMAIN hist = {} /\ DOMAIN sent = {}
      /\ DOMAIN calls = {} /\ Len(calls) = 0 /\ Len(hist) = 0
  BY <1>3, <1>4 DEF Blocks
<1>6. msg \in Text /\ msg.hdr = TRUE /\ msg.quotes = 0
  BY <1>3 DEF UserText, Framework, Text
<1>7. Types
  <2>1. resp \in Reply
    BY <1>3 DEF Said, Reply, AllTools
  <2> QED BY <1>1, <1>2, <1>3, <1>5, <1>6, <2>1 DEF Types
<1>8. Steps
  BY <1>3, <1>4 DEF Steps
<1>9. Redirected
  BY <1>3, <1>5 DEF Redirected
<1>10. Wedged
  <2>1. GivenUp = {}
    BY <1>5 DEF GivenUp
  <2>2. \A t \in AllTools : {c \in GivenUp : calls[c].tool = t} = {}
    BY <2>1
  <2>3. \A t \in AllTools : Cardinality({c \in GivenUp : calls[c].tool = t}) = 0
    BY <2>2, FS_EmptySet
  <2>4. WedgeLimit \in Nat
    BY AgentAssumption
  <2> QED BY <1>3, <2>3, <2>4 DEF Wedged
<1>11. ViewOK(cm, Len(hist))
  <2>1. IsSession(cm)
    <3>1. ListOf(cm.blocks, 0)
      BY <1>4 DEF ListOf
    <3>2. cm = [mode |-> cm.mode, assembly |-> cm.assembly, named |-> cm.named, owner |-> cm.owner,
            harvested |-> cm.harvested, turn |-> cm.turn, blocks |-> cm.blocks,
            seenUser |-> cm.seenUser, policyStrikes |-> cm.policyStrikes,
            policyFailures |-> cm.policyFailures, policyDisabled |-> cm.policyDisabled,
            assemblyFailures |-> cm.assemblyFailures, assemblyDisabled |-> cm.assemblyDisabled,
            degraded |-> cm.degraded, views |-> cm.views, violations |-> cm.violations,
            uncounted |-> cm.uncounted, refusals |-> cm.refusals]
      BY <1>3 DEF NewSession
    <3> QED BY <1>5, <3>1, <3>2 DEF IsSession
  <2> QED BY <1>5, <2>1 DEF ViewOK, BlocksTyped, ConsumedOnce
<1>12. Books
  BY <1>3, <1>4 DEF Books, Tally, InAssembly, AuditedTurns, Strikes
<1>13. Heard
  BY <1>3, <1>5, <1>6 DEF Heard
<1>14. Mirror
  BY <1>3, <1>4, <1>5 DEF Mirror, MirrorOf
<1>15. CopiesWindowed
  BY <1>3 DEF CopiesWindowed
<1> QED BY <1>7, <1>8, <1>9, <1>10, <1>11, <1>12, <1>13, <1>14, <1>15 DEF IInv

\* Nothing happens.
LEMMA StutterKeeps ==
    ASSUME IInv, UNCHANGED vars
    PROVE  IInv'
<1>1. /\ UNCHANGED <<session, pc, cm, hist, msg, sent, raw, phase, attempt, resp, ntools, malformed>>
      /\ UNCHANGED <<tokens, last, repeat, stop, calls, sysout, wedges, left, recs, edits>>
  BY DEF vars
<1>2. Types' /\ Steps'
  BY <1>1 DEF IInv, Types, Steps, Offered, HasCm
<1>3. Redirected'
  BY <1>1 DEF IInv, Redirected, Offered, HasCm
<1>4. Wedged'
  <2>1. GivenUp' = GivenUp
    BY <1>1 DEF GivenUp
  <2> QED BY <1>1, <2>1 DEF IInv, Wedged
<1>5. ViewOK(cm, Len(hist))' /\ Heard'
  BY <1>1 DEF IInv, Heard
<1>6. Books'
  BY <1>1 DEF IInv, Books, AuditedTurns, InAssembly, HasCm
<1>7. Windowed' <=> Windowed
  BY <1>1 DEF Windowed
<1>8. Mirror'
  BY <1>1, <1>7 DEF IInv, Mirror
<1>9. CopiesWindowed'
  BY <1>1, <1>7 DEF IInv, CopiesWindowed
<1> QED BY <1>2, <1>3, <1>4, <1>5, <1>6, <1>8, <1>9 DEF IInv

\* Every step keeps the invariant, and what it promised of pinned blocks.
LEMMA StepHolds ==
    ASSUME IInv, [Next]_vars
    PROVE  IInv' /\ PinsKept(cm, cm')
<1> DEFINE Safe == IInv' /\ PinsKept(cm, cm')
<1>1. cm' = cm => PinsKept(cm, cm')
  BY DEF PinsKept
<1>2. CASE UNCHANGED vars
  <2>1. cm' = cm
    BY <1>2 DEF vars
  <2> QED BY <1>1, <1>2, <2>1, StutterKeeps
<1>3. CASE CallFails \/ FirstProse \/ Finish \/ CutRetry \/ AgentCodeHangs
  <2>1. cm' = cm
    BY <1>3 DEF CallFails, FirstProse, Finish, CutRetry, AgentCodeHangs
  <2> QED BY <1>1, <1>3, <2>1, MovesOn
<1>4. CASE MalformedFeedback \/ BudgetStop
  <2>1. cm' = cm
    BY <1>4 DEF MalformedFeedback, BudgetStop
  <2> QED BY <1>1, <1>4, <2>1, AsksAgain
<1>5. CASE SeamOff
  <2>1. cm' = cm
    BY <1>5 DEF SeamOff, ToModel
  <2> QED BY <1>1, <1>5, <2>1, SeamOffKeeps
<1>6. CASE SeamBegins
  BY <1>6, SeamBeginsKeeps
<1>7. CASE Preset
  BY <1>7, PresetKeeps
<1>8. CASE PolicyOp
  BY <1>8, PolicyOpKeeps
<1>9. CASE PolicyReturns \/ PolicyFails \/ PolicyPoisons
  BY <1>9, PolicyEnds
<1>10. CASE AssemblyStep
  BY <1>10, AssemblyStepKeeps
<1>11. CASE AssemblyReturns \/ AssemblyFails
  BY <1>11, AssemblyEnds
<1>12. CASE Answered
  <2>1. cm' = cm
    BY <1>12 DEF Answered
  <2> QED BY <1>1, <1>12, <2>1, AnsweredKeeps
<1>13. CASE Refused
  <2>1. cm' = cm
    BY <1>13 DEF Refused
  <2> QED BY <1>1, <1>13, <2>1, RefusedKeeps
<1>14. CASE Submit
  <2>1. cm' = cm
    BY <1>14 DEF Submit
  <2> QED BY <1>1, <1>14, <2>1, SubmitKeeps
<1>15. CASE ToolAnswers
  <2>1. cm' = cm
    BY <1>15 DEF ToolAnswers
  <2> QED BY <1>1, <1>15, <2>1, ToolAnswersKeeps
<1>16. CASE ToolTimesOut
  <2>1. cm' = cm
    BY <1>16 DEF ToolTimesOut
  <2> QED BY <1>1, <1>16, <2>1, ToolTimesOutKeeps
<1>17. ASSUME NEW c \in DOMAIN calls, ThreadStarts(c)
       PROVE  Safe
  <2>1. cm' = cm
    BY <1>17 DEF ThreadStarts
  <2> QED BY <1>1, <1>17, <2>1, ThreadStartsKeeps
<1>18. ASSUME NEW c \in DOMAIN calls, ThreadEnds(c)
       PROVE  Safe
  BY <1>18, ThreadEndsKeeps
<1>19. CASE Thread
  <2>1. PICK c \in DOMAIN calls : ThreadStarts(c) \/ ThreadEnds(c)
    BY <1>19 DEF Thread
  <2> HIDE DEF Safe
  <2>2. Safe
    BY <1>17, <1>18, <2>1
  <2> QED BY <2>2 DEF Safe
<1>20. CASE Stopped
  BY <1>2, <1>20 DEF Stopped
<1>21. CASE Transient
  <2>1. cm' = cm
    BY <1>21 DEF Transient
  <2> QED BY <1>1, <1>21, <2>1, TransientKeeps
<1> QED
  BY <1>2, <1>3, <1>4, <1>5, <1>6, <1>7, <1>8, <1>9, <1>10, <1>11, <1>12, <1>13, <1>14, <1>15,
     <1>16, <1>19, <1>20, <1>21 DEF Next, Main

LEMMA Invariance == Spec => []IInv
<1>1. Init => IInv
  BY InitHolds
<1>2. IInv /\ [Next]_vars => IInv'
  BY StepHolds
<1> QED BY <1>1, <1>2, PTL DEF Spec

-----------------------------------------------------------------------------
(*                            The tools' threads                           *)

\* A finite set of at most w elements can be numbered.
LEMMA Numbered ==
    ASSUME NEW S, IsFiniteSet(S), NEW w \in Nat, Cardinality(S) <= w
    PROVE  \E f \in [S -> 1..w] : \A x, y \in S : f[x] = f[y] => x = y
<1>1. Cardinality(S) \in Nat /\ ExistsBijection(1..Cardinality(S), S)
  BY FS_CardinalityType
<1>2. ExistsBijection(S, 1..Cardinality(S))
  BY <1>1, Fun_ExistsBijSymmetric
<1>3. PICK f \in Bijection(S, 1..Cardinality(S)) : TRUE
  BY <1>2, Fun_ExistsBij
<1>4. f \in [S -> 1..Cardinality(S)] /\ \A x, y \in S : f[x] = f[y] => x = y
  BY <1>3 DEF Bijection, Injection, IsInjective
<1>5. 1..Cardinality(S) \subseteq 1..w
  BY <1>1
<1>6. f \in [S -> 1..w]
  BY <1>4, <1>5
<1> QED BY <1>4, <1>6

\* Elements sorted into kinds, none with more than w and one with fewer, are
\* fewer than w for each kind.
LEMMA Sorted ==
    ASSUME NEW G, NEW K, IsFiniteSet(K), NEW of \in [G -> K], NEW w \in Nat, NEW k0 \in K,
           \A k \in K : IsFiniteSet({c \in G : of[c] = k}) /\ Cardinality({c \in G : of[c] = k}) <= w,
           Cardinality({c \in G : of[c] = k0}) < w
    PROVE  IsFiniteSet(G) /\ Cardinality(G) < w * Cardinality(K)
<1> DEFINE Sort(k) == {c \in G : of[c] = k}
           Numbering(k, f) == /\ f \in [Sort(k) -> 1..w]
                              /\ \A x, y \in Sort(k) : f[x] = f[y] => x = y
                              /\ k = k0 => \A x \in Sort(k) : f[x] # w
           number == [k \in K |-> CHOOSE f : Numbering(k, f)]
           place == [c \in G |-> <<of[c], number[of[c]][c]>>]
           Room == (K \X (1..w)) \ {<<k0, w>>}
<1>1. \A k \in K : \E f : Numbering(k, f)
  <2> TAKE k \in K
  <2>1. IsFiniteSet(Sort(k)) /\ Cardinality(Sort(k)) <= w
    OBVIOUS
  <2> HIDE DEF Sort
  <2>2. CASE k = k0
    <3>1. Cardinality(Sort(k)) \in Nat /\ Cardinality(Sort(k)) < w
      BY <2>1, <2>2, FS_CardinalityType DEF Sort
    <3>2. w - 1 \in Nat /\ Cardinality(Sort(k)) <= w - 1
      BY <3>1
    <3>3. PICK f \in [Sort(k) -> 1..w - 1] : \A x, y \in Sort(k) : f[x] = f[y] => x = y
      BY <2>1, <3>2, Numbered
    <3>4. \A x \in Sort(k) : f[x] \in 1..w /\ f[x] # w
      <4>1. \A m \in 1..w - 1 : m \in 1..w /\ m # w
        OBVIOUS
      <4> QED BY <3>3, <4>1
    <3>5. f \in [Sort(k) -> 1..w]
      BY <3>3, <3>4
    <3> QED BY <3>3, <3>4, <3>5
  <2>3. CASE k # k0
    <3>1. PICK f \in [Sort(k) -> 1..w] : \A x, y \in Sort(k) : f[x] = f[y] => x = y
      BY <2>1, Numbered
    <3> QED BY <2>3, <3>1
  <2> QED BY <2>2, <2>3
<1>2. \A k \in K : Numbering(k, number[k])
  <2> TAKE k \in K
  <2>1. number[k] = CHOOSE f : Numbering(k, f)
    OBVIOUS
  <2> HIDE DEF Numbering, number
  <2> QED BY <1>1, <2>1
<1>3. \A c \in G : /\ of[c] \in K /\ number[of[c]][c] \in 1..w
                   /\ place[c] = <<of[c], number[of[c]][c]>>
                   /\ of[c] = k0 => number[of[c]][c] # w
  <2> TAKE c \in G
  <2>1. of[c] \in K /\ c \in Sort(of[c])
    OBVIOUS
  <2>2. Numbering(of[c], number[of[c]])
    BY <1>2, <2>1
  <2>3. place[c] = <<of[c], number[of[c]][c]>>
    OBVIOUS
  <2> HIDE DEF number, place, Sort
  <2> QED BY <2>1, <2>2, <2>3
<1>4. \A c, d \in G : place[c] = place[d] => c = d
  <2> SUFFICES ASSUME NEW c \in G, NEW d \in G, place[c] = place[d]
               PROVE  c = d
    OBVIOUS
  <2> PICK k : k = of[c]
    OBVIOUS
  <2>1. of[c] = k /\ of[d] = k /\ number[k][c] = number[k][d]
    <3>1. place[c] = <<of[c], number[of[c]][c]>> /\ place[d] = <<of[d], number[of[d]][d]>>
      OBVIOUS
    <3>2. \A p, q, a, b : <<p, q>> = <<a, b>> => p = a /\ q = b
      OBVIOUS
    <3> HIDE DEF number, place
    <3>3. <<of[c], number[of[c]][c]>> = <<of[d], number[of[d]][d]>>
      BY <3>1
    <3>4. of[c] = of[d] /\ number[of[c]][c] = number[of[d]][d]
      BY <3>2, <3>3, Zenon
    <3> QED BY <3>4, SMTT(30)
  <2>2. k \in K /\ c \in Sort(k) /\ d \in Sort(k)
    BY <2>1
  <2>3. Numbering(k, number[k])
    BY <1>2, <2>2
  <2> HIDE DEF number, place, Sort
  <2> QED BY <2>1, <2>2, <2>3
<1>5. place \in [G -> Room]
  <2>1. \A c \in G : place[c] \in Room
    <3> TAKE c \in G
    <3>1. \A k \in K, m \in 1..w : (k = k0 => m # w) => <<k, m>> \in Room
      OBVIOUS
    <3> HIDE DEF number, place, Room
    <3>2. <<of[c], number[of[c]][c]>> \in Room
      BY <1>3, <3>1
    <3> QED BY <1>3, <3>2
  <2> QED BY <2>1
<1>6. place \in Injection(G, Room)
  <2> HIDE DEF place, Room
  <2> QED BY <1>4, <1>5 DEF Injection, IsInjective
<1>7. /\ Cardinality({c \in G : of[c] = k0}) \in Nat /\ w >= 1 /\ Cardinality(K) \in Nat
      /\ w \in Int
  BY FS_CardinalityType
<1>8. IsFiniteSet(1..w) /\ Cardinality(1..w) = w
  BY <1>7, FS_Interval
<1>9. IsFiniteSet(K \X (1..w)) /\ Cardinality(K \X (1..w)) = Cardinality(K) * w
  BY <1>8, FS_Product
<1>10. <<k0, w>> \in K \X (1..w)
  BY <1>7
<1>11. IsFiniteSet(Room) /\ Cardinality(Room) = Cardinality(K) * w - 1
  <2> PICK all : all = K \X (1..w)
    OBVIOUS
  <2> PICK x : x = <<k0, w>>
    OBVIOUS
  <2>1. IsFiniteSet(all) /\ Cardinality(all) = Cardinality(K) * w /\ x \in all
    BY <1>9, <1>10
  <2>2. IsFiniteSet(all \ {x}) /\ Cardinality(all \ {x}) = Cardinality(all) - 1
    BY <2>1, FS_RemoveElement
  <2> QED BY <2>1, <2>2
<1> HIDE DEF Room, place
<1>12. IsFiniteSet(G) /\ Cardinality(G) <= Cardinality(K) * w - 1
  BY <1>6, <1>11, FS_Injection
<1>13. Cardinality(G) \in Nat
  BY <1>12, FS_CardinalityType
<1>14. Cardinality(K) * w \in Nat /\ Cardinality(K) * w = w * Cardinality(K)
  BY <1>7
<1> QED BY <1>12, <1>13, <1>14

\* The tools of a session are at most the tools there are.
LEMMA OfferedFew ==
    IsFiniteSet(Offered) /\ Cardinality(Offered) <= Cardinality(Tools) /\ Offered \subseteq AllTools
<1>1. IsFiniteSet(Tools) /\ Tools # {} /\ Cardinality(Tools) \in Nat
  BY AgentAssumption, FS_CardinalityType
<1>2. CASE HasCm
  <2>1. Offered = {"ctx"} /\ Offered \subseteq AllTools
    BY <1>2 DEF Offered, AllTools
  <2>2. Cardinality(Tools) # 0
    BY <1>1, FS_EmptySet
  <2>3. IsFiniteSet(Offered) /\ Cardinality(Offered) = 1
    BY <2>1, FS_Singleton
  <2> QED BY <1>1, <2>1, <2>2, <2>3
<1>3. CASE ~HasCm
  BY <1>1, <1>3 DEF Offered, AllTools
<1> QED BY <1>2, <1>3

LEMMA OwnWedges ==
    ASSUME IInv
    PROVE  WedgesAreOwn
<1> SUFFICES ASSUME pc = "wait", calls[Current].st = "queued",
                    WedgeLimit * Cardinality(Tools) <= PoolWorkers
             PROVE  Cardinality(Running) < PoolWorkers
  BY DEF WedgesAreOwn
<1>1. Redirected /\ Wedged
  BY DEF IInv
<1>2. PICK n : n = Len(calls)
  OBVIOUS
<1>3. n \in Nat /\ DOMAIN calls = 1..n /\ \A c \in 1..n : calls[c] \in CallRecord
  BY <1>1, <1>2, Calls
<1>4. n \in 1..n
  <2>1. calls # <<>> /\ calls \in Seq(CallRecord)
    BY <1>1 DEF Redirected
  <2>2. n # 0
    BY <1>2, <2>1, EmptySeq
  <2> QED BY <1>3, <2>2
<1>5. Running \subseteq GivenUp
  <2> SUFFICES ASSUME NEW c \in 1..n, calls[c].st = "running"
               PROVE  calls[c].st # "over" /\ c < n
    BY <1>2, <1>3 DEF Running, GivenUp
  <2>1. c # n
    BY <1>2 DEF Current
  <2> QED BY <1>3, <2>1
<1>6. PICK of : of = [c \in GivenUp |-> calls[c].tool]
  OBVIOUS
<1>7. of \in [GivenUp -> Offered]
  <2>1. \A c \in GivenUp : calls[c].tool \in Offered
    BY <1>1, <1>3 DEF GivenUp, Redirected
  <2> QED BY <1>6, <2>1
<1>8. \A t \in Offered : /\ {c \in GivenUp : of[c] = t} = {c \in GivenUp : calls[c].tool = t}
                         /\ t \in AllTools
  BY <1>6, OfferedFew
<1>9. PICK t0 : t0 = calls[n].tool
  OBVIOUS
<1>10. t0 \in Offered /\ wedges[t0] < WedgeLimit
  BY <1>1, <1>2, <1>3, <1>4, <1>9 DEF Redirected, Wedged
<1>11. WedgeLimit \in Nat /\ \A t \in AllTools : wedges[t] \in 0..WedgeLimit
  BY <1>1, AgentAssumption DEF Wedged
<1>12. ASSUME NEW t \in Offered
       PROVE  /\ IsFiniteSet({c \in GivenUp : of[c] = t})
              /\ Cardinality({c \in GivenUp : of[c] = t}) \in Nat
              /\ Cardinality({c \in GivenUp : of[c] = t}) <= wedges[t]
  <2>1. /\ IsFiniteSet({c \in GivenUp : calls[c].tool = t})
        /\ Cardinality({c \in GivenUp : calls[c].tool = t}) \in Nat
    BY <1>1, GivenUpFinite
  <2>2. Cardinality({c \in GivenUp : calls[c].tool = t}) <= wedges[t]
    BY <1>1, <1>8 DEF Wedged
  <2> QED BY <1>8, <2>1, <2>2
<1>13. \A t \in Offered : /\ IsFiniteSet({c \in GivenUp : of[c] = t})
                          /\ Cardinality({c \in GivenUp : of[c] = t}) <= WedgeLimit
  <2> TAKE t \in Offered
  <2> PICK m : m = Cardinality({c \in GivenUp : of[c] = t})
    OBVIOUS
  <2>1. m \in Nat /\ m <= wedges[t] /\ wedges[t] \in 0..WedgeLimit
    BY <1>8, <1>11, <1>12
  <2>2. m <= WedgeLimit
    BY <1>11, <2>1
  <2> QED BY <1>12, <2>2
<1>14. Cardinality({c \in GivenUp : of[c] = t0}) < WedgeLimit
  <2> PICK m : m = Cardinality({c \in GivenUp : of[c] = t0})
    OBVIOUS
  <2>1. m \in Nat /\ m <= wedges[t0] /\ wedges[t0] \in 0..WedgeLimit
    BY <1>8, <1>10, <1>11, <1>12
  <2>2. m < WedgeLimit
    BY <1>10, <1>11, <2>1
  <2> QED BY <2>2
<1>15. IsFiniteSet(GivenUp) /\ Cardinality(GivenUp) < WedgeLimit * Cardinality(Offered)
  BY <1>7, <1>10, <1>11, <1>13, <1>14, OfferedFew, Sorted
<1>16. Cardinality(Running) <= Cardinality(GivenUp) /\ IsFiniteSet(Running)
  BY <1>5, <1>15, FS_Subset
<1>17. /\ Cardinality(Running) \in Nat /\ Cardinality(GivenUp) \in Nat
       /\ Cardinality(Offered) \in Nat /\ Cardinality(Tools) \in Nat /\ PoolWorkers \in Nat
  BY <1>15, <1>16, OfferedFew, AgentAssumption, FS_CardinalityType
<1>18. WedgeLimit * Cardinality(Offered) <= WedgeLimit * Cardinality(Tools)
  <2>1. \A a, b, w \in Nat : a <= b => w * a <= w * b
    OBVIOUS
  <2> QED BY <1>11, <1>17, <2>1, OfferedFew
<1>19. WedgeLimit * Cardinality(Offered) \in Nat /\ WedgeLimit * Cardinality(Tools) \in Nat
  BY <1>11, <1>17
<1> HIDE DEF Running
<1> QED BY <1>15, <1>16, <1>17, <1>18, <1>19

\* No proxy captures once the loop goes on, so sys.stdout is the real stream.
LEMMA OutputVisible ==
    ASSUME IInv
    PROVE  MainOutputVisible
<1> DEFINE Visible(f) ==
             f = [c \in 0..Len(calls) |-> c = 0 \/ (~calls[c].captures /\ f[calls[c].over])]
           through == CHOOSE f : Visible(f)
<1>1. Redirected
  BY DEF IInv
<1>2. PICK n : n = Len(calls)
  OBVIOUS
<1>3. n \in Nat /\ DOMAIN calls = 1..n /\ sysout \in 0..n /\ \A c \in 1..n : calls[c] \in CallRecord
  BY <1>1, <1>2, Calls DEF Redirected
<1> SUFFICES ASSUME pc # "wait"
             PROVE  through[sysout]
  BY DEF MainOutputVisible
<1>4. \A c \in 1..n : ~calls[c].captures /\ calls[c].over \in 0..c - 1
  <2> TAKE c \in 1..n
  <2>1. calls[c].over < c /\ ~calls[c].captures
    BY <1>1, <1>3 DEF Redirected
  <2>2. calls[c].over \in Nat
    BY <1>3 DEF CallRecord
  <2> QED BY <2>1, <2>2
<1>5. \E f : Visible(f)
  <2> DEFINE all == [c \in 0..n |-> TRUE]
  <2>1. \A c \in 0..n : c # 0 => c \in 1..n /\ calls[c].over \in 0..n
    <3> TAKE c \in 0..n
    <3>1. c # 0 => c \in 1..n
      BY <1>3
    <3>2. \A m : c \in 1..n /\ m \in 0..c - 1 => m \in 0..n
      BY <1>3
    <3> QED BY <1>4, <3>1, <3>2
  <2>2. \A c \in 0..n : (c = 0 \/ (~calls[c].captures /\ all[calls[c].over])) = TRUE
    BY <1>4, <2>1
  <2>3. all = [c \in 0..n |-> c = 0 \/ (~calls[c].captures /\ all[calls[c].over])]
    BY <2>2
  <2> HIDE DEF all
  <2> QED BY <1>2, <2>3
<1>6. Visible(through)
  <2> HIDE DEF Visible
  <2> QED BY <1>5
<1>7. \A c \in 0..n : through[c] = (c = 0 \/ (~calls[c].captures /\ through[calls[c].over]))
  <2> HIDE DEF through
  <2> QED BY <1>2, <1>6
<1> HIDE DEF through, Visible
<1>8. \A c \in 0..n : through[c]
  <2> DEFINE dark == {c \in 0..n : ~through[c]}
  <2> SUFFICES ASSUME dark # {}
               PROVE  FALSE
    OBVIOUS
  <2>1. dark \subseteq Nat
    BY <1>3
  <2>2. PICK c \in dark : \A d \in dark : c <= d
    <3> HIDE DEF dark
    <3> QED BY <2>1, LeastNatural
  <2>3. c \in 0..n /\ ~through[c]
    OBVIOUS
  <2>4. c # 0
    BY <1>7, <2>3
  <2>5. c \in 1..n
    BY <1>3, <2>3, <2>4
  <2>6. ~calls[c].captures /\ calls[c].over \in 0..c - 1
    BY <1>4, <2>5
  <2>7. calls[c].over \in 0..n /\ ~(c <= calls[c].over)
    BY <1>3, <2>5, <2>6
  <2>8. ~through[calls[c].over]
    BY <1>7, <2>3, <2>6
  <2>9. calls[c].over \in dark
    BY <2>7, <2>8
  <2> QED BY <2>2, <2>7, <2>9
<1> QED BY <1>3, <1>8

LEMMA WellFormed ==
    ASSUME IInv
    PROVE  TypeOK
<1>1. Types /\ Redirected /\ ViewOK(cm, Len(hist))
  BY DEF IInv
<1>2. /\ pc \in {"seam", "preset", "policy", "assembly0", "assembly1", "assembly2",
                 "assembly3", "llm", "decide", "wait"} \/ Halted
      /\ phase \in {"first", "loop", "summary"} /\ attempt \in 1..2 /\ resp \in Reply
      /\ ntools \in 0..session.tools /\ malformed \in 0..2 /\ tokens \in 0..session.tokens
      /\ stop \in {"no", "tokens", "tools", "repeat"} /\ sysout \in 0..Len(calls)
  BY <1>1 DEF Types, Redirected, Halted, Ended
<1>3. DOMAIN sent \subseteq DOMAIN hist /\ Range(sent) \subseteq Forms
  BY <1>1 DEF Types, Range
<1>4. \A b \in Blocks(cm) : /\ cm.blocks[b].form \in Forms /\ cm.blocks[b].kind \in Kinds
                            /\ cm.blocks[b].to \in 0..Len(cm.blocks)
                            /\ cm.blocks[b].idx \in 0..Len(hist)
                            /\ cm.blocks[b].sources \subseteq 1..b - 1
  BY <1>1 DEF ViewOK, BlocksTyped
<1> QED BY <1>2, <1>3, <1>4 DEF TypeOK

LEMMA TreeLineage ==
    ASSUME IInv
    PROVE  LineageIsTree
<1> SUFFICES ASSUME NEW d \in Blocks(cm), cm.blocks[d].kind = "derived", ~cm.blocks[d].freed
             PROVE  LET users == {e \in Blocks(cm) : d \in cm.blocks[e].sources}
                    IN  /\ Cardinality(users) <= 1
                        /\ users # {} => \A b \in Blocks(cm) : cm.blocks[b].to # d
  BY DEF LineageIsTree
<1> DEFINE users == {e \in Blocks(cm) : d \in cm.blocks[e].sources}
<1>1. ConsumedOnce(cm)
  BY DEF IInv, ViewOK
<1>2. CASE users = {}
  <2> HIDE DEF users
  <2>1. Cardinality(users) = 0
    BY <1>2, FS_EmptySet
  <2>2. Cardinality(users) <= 1
    BY <2>1
  <2> QED BY <1>2, <2>2 DEF users
<1>3. CASE users # {}
  <2>1. PICK e \in Blocks(cm) : d \in cm.blocks[e].sources
    BY <1>3
  <2>2. \A b \in Blocks(cm) : cm.blocks[b].to # d /\ (d \in cm.blocks[b].sources => b = e)
    BY <1>1, <2>1 DEF ConsumedOnce
  <2>3. users = {e}
    BY <2>1, <2>2
  <2>4. Cardinality({e}) = 1
    BY FS_Singleton
  <2>5. Cardinality(users) <= 1
    <3> HIDE DEF users
    <3>1. Cardinality(users) = 1
      BY <2>3, <2>4
    <3> QED BY <3>1
  <2> QED BY <2>2, <2>5
<1> QED BY <1>2, <1>3

-----------------------------------------------------------------------------
(*                      What the client makes of the view                  *)

\* A history under a preset keeps the text of a user turn under "text", but for the
\* first turn, and that of a reply under both keys; only a custom session is ever
\* sent raw.
Keyed ==
    /\ raw => session.mode = "custom"
    /\ pc = "llm" => ListOf(sent, Len(hist))
    /\ session.mode # "custom" =>
          \A i \in DOMAIN hist :
             hist[i].keys = IF i > 1 /\ hist[i].role = "user" THEN "text" ELSE "both"

\* The view has a form for each entry of the history.
LEMMA RenderList ==
    ASSUME NEW n \in Nat, NEW h, DOMAIN h = 1..n, NEW s
    PROVE  ListOf(render(s, h), n)
<1> DEFINE of(j) == {b \in Blocks(s) : /\ s.blocks[b].idx = j /\ ~Shown(s, b)
                                      /\ HasText(h[j]) /\ h[j].text.quotes # b
                                      /\ ~(s.blocks[b].form = "derived_host" /\ s.blocks[b].to = 0)
                                      /\ (s.blocks[b].form = "dedup" => h[j].text.hdr)}
<1> DEFINE out(j) == IF of(j) = {} THEN "full"
                     ELSE IF Cardinality(of(j)) > 1 THEN "placeholder"
                     ELSE s.blocks[CHOOSE b \in of(j) : TRUE].form
<1>1. render(s, h) = [j \in DOMAIN h |-> out(j)]
  BY DEF render
<1> HIDE DEF out
<1> QED BY <1>1 DEF ListOf

\* A longer history of that kind.
LEMMA KeyedLonger ==
    ASSUME NEW x \in Text, NEW y, NEW h \in Seq(Entry), Len(h) > 0,
           \A i \in DOMAIN h : h[i].keys = IF i > 1 /\ h[i].role = "user" THEN "text" ELSE "both",
           NEW g, g = h \o <<[role |-> "user", text |-> x, keys |-> "text"],
                             [role |-> "assistant", text |-> y, keys |-> "both"]>>,
           NEW j \in DOMAIN g
    PROVE  g[j].keys = IF j > 1 /\ g[j].role = "user" THEN "text" ELSE "both"
<1> DEFINE u == [role |-> "user", text |-> x, keys |-> "text"]
<1> DEFINE a == [role |-> "assistant", text |-> y, keys |-> "both"]
<1> DEFINE any == Entry \cup {u, a}
<1>1. h \in Seq(any) /\ <<u, a>> \in Seq(any) /\ Len(<<u, a>>) = 2 /\ Len(h) \in Nat
      /\ DOMAIN h = 1..Len(h)
  <2>1. h \in Seq(any)
    <3> HIDE DEF any
    <3>1. Entry \subseteq any
      BY DEF any
    <3> QED BY <3>1, SeqMonotonic
  <2> QED BY <2>1, LenProperties
<1>2. g = h \o <<u, a>>
  OBVIOUS
<1>3. u.keys = "text" /\ u.role = "user" /\ a.keys = "both" /\ a.role = "assistant"
  OBVIOUS
<1> HIDE DEF u, a, any
<1>4. /\ g \in Seq(any) /\ Len(g) = Len(h) + 2
      /\ \A i \in 1..(Len(h) + 2) :
            g[i] = IF i <= Len(h) THEN h[i] ELSE <<u, a>>[i - Len(h)]
  BY <1>1, <1>2, ConcatProperties
<1>5. j \in 1..(Len(h) + 2)
  BY <1>4, LenProperties
<1>6. CASE j <= Len(h)
  BY <1>1, <1>4, <1>5, <1>6
<1>7. CASE j = Len(h) + 1
  <2>1. j - Len(h) = 1 /\ j > 1
    BY <1>1, <1>7
  <2>2. g[j] = u
    BY <1>1, <1>4, <1>5, <1>7, <2>1
  <2> QED BY <1>3, <2>1, <2>2
<1>8. CASE j = Len(h) + 2
  <2>1. j - Len(h) = 2 /\ ~(j <= Len(h))
    BY <1>1, <1>8
  <2>2. g[j] = a
    BY <1>1, <1>4, <1>5, <2>1
  <2> QED BY <1>3, <2>2
<1> QED BY <1>1, <1>5, <1>6, <1>7, <1>8

LEMMA KeyedStep ==
    ASSUME IInv, Keyed, [Next]_vars
    PROVE  Keyed'
<1>1. Len(hist) \in Nat /\ DOMAIN hist = 1..Len(hist) /\ \A i \in DOMAIN hist : hist[i] \in Entry
  BY Entries DEF IInv
<1>2. ASSUME hist' = hist, session' = session, raw' \in {raw, FALSE},
             pc' # "llm" \/ (pc' = pc /\ sent' = sent)
      PROVE  Keyed'
  <2>1. raw' => raw
    BY <1>2
  <2>2. pc' = "llm" => ListOf(sent', Len(hist'))
    BY <1>2 DEF Keyed
  <2>3. (raw' => session'.mode = "custom")
    BY <1>2, <2>1 DEF Keyed
  <2>4. session'.mode # "custom" => \A i \in DOMAIN hist' :
           hist'[i].keys = IF i > 1 /\ hist'[i].role = "user" THEN "text" ELSE "both"
    BY <1>2 DEF Keyed
  <2> QED BY <2>2, <2>3, <2>4 DEF Keyed
<1>3. ASSUME hist' = hist, session' = session, raw' = FALSE \/ session.mode = "custom",
             ListOf(sent', Len(hist))
      PROVE  Keyed'
  BY <1>3 DEF Keyed
<1>4. ListOf(Raw, Len(hist)) /\ \A s : ListOf(render(s, hist), Len(hist))
  BY <1>1, RenderList DEF Raw, ListOf
<1>5. CASE UNCHANGED vars \/ Stopped
  <2>1. hist' = hist /\ session' = session /\ raw' = raw /\ pc' = pc /\ sent' = sent
    BY <1>5 DEF vars, Stopped
  <2> QED BY <1>2, <2>1
<1>6. CASE SeamOff \/ PolicyReturns \/ PolicyFails \/ AssemblyReturns
  <2>1. /\ hist' = hist /\ session' = session /\ raw' = FALSE
        /\ sent' = Raw \/ \E s : sent' = render(s, hist)
    BY <1>6 DEF SeamOff, PolicyReturns, PolicyFails, AssemblyReturns, ToModel, loopVars
  <2> QED BY <1>3, <1>4, <2>1
<1>7. CASE PolicyPoisons
  <2>1. hist' = hist /\ session' = session /\ sent' = Raw /\ pc = "policy"
    BY <1>7 DEF PolicyPoisons, loopVars
  <2>2. session.mode = "custom"
    BY <2>1 DEF IInv, Books, Steps
  <2> QED BY <1>3, <1>4, <2>1, <2>2
<1>8. CASE Preset
  <2>1. PICK r : r = Registered(cm)
    OBVIOUS
  <2>2. hist' = hist /\ session' = session
    BY <1>8 DEF Preset, loopVars
  <2>3. CASE cm.mode = "passthrough"
    <3>1. raw' = FALSE /\ sent' = Raw
      BY <1>8, <2>3 DEF Preset, ToModel
    <3> QED BY <1>3, <1>4, <2>2, <3>1
  <2>4. CASE cm.mode = "custom" /\ ~cm.policyDisabled
    <3>1. raw' = raw /\ pc' = "policy"
      BY <1>8, <2>4 DEF Preset
    <3> QED BY <1>2, <2>2, <3>1
  <2>5. CASE cm.mode # "passthrough" /\ ~(cm.mode = "custom" /\ ~cm.policyDisabled)
    <3>1. raw' = FALSE /\ \E s : sent' = render(s, hist)
      BY <1>8, <2>5 DEF Preset, ToModel
    <3> QED BY <1>3, <1>4, <2>2, <3>1
  <2> QED BY <2>3, <2>4, <2>5
<1>9. CASE SeamBegins \/ PolicyOp \/ AssemblyStep \/ AssemblyFails \/ AgentCodeHangs
  <2>1. hist' = hist /\ session' = session /\ raw' = raw /\ pc' # "llm"
    BY <1>9 DEF SeamBegins, PolicyOp, AssemblyStep, AssemblyFails, AgentCodeHangs, loopVars
  <2> QED BY <1>2, <2>1
<1>10. CASE CallFails \/ FirstProse \/ Finish \/ CutRetry \/ MalformedFeedback \/ BudgetStop
  <2>1. hist' = hist /\ session' = session /\ raw' = raw /\ pc' # "llm"
    BY <1>10 DEF CallFails, FirstProse, Finish, CutRetry, MalformedFeedback, BudgetStop, Send,
                 loopVars
  <2> QED BY <1>2, <2>1
<1>11. CASE Refused \/ Submit \/ ToolAnswers \/ ToolTimesOut
  <2>1. hist' = hist /\ session' = session /\ raw' = raw /\ pc' # "llm"
    BY <1>11 DEF Refused, Submit, ToolAnswers, ToolTimesOut, AfterTool, Send, loopVars
  <2> QED BY <1>2, <2>1
<1>12. CASE Thread
  <2>1. hist' = hist /\ session' = session /\ raw' = raw /\ pc' = pc /\ sent' = sent
    BY <1>12 DEF Thread, ThreadStarts, ThreadEnds, loopVars
  <2> QED BY <1>2, <2>1
<1>13. CASE Transient
  <2>1. /\ session' = session /\ raw' = raw /\ pc' = "llm" /\ pc = "llm" /\ sent' = sent
        /\ ~raw => hist' = hist
    BY <1>13 DEF Transient
  <2>2. CASE ~raw
    BY <1>2, <2>1, <2>2
  <2>3. CASE raw
    <3>1. Len(hist') = Len(hist)
      <4>1. ListOf(hist', Len(hist))
        BY <1>1, <1>13, <2>3 DEF Transient, ListOf
      <4> QED BY <4>1, ListLen
    <3> QED BY <2>1, <2>3, <3>1 DEF Keyed
  <2> QED BY <2>2, <2>3
<1>14. CASE Answered
  <2>1. PICK r \in Replies : Remember(r)
    BY <1>14 DEF Answered
  <2>2. session' = session /\ raw' = raw /\ pc' = "decide" /\ pc = "llm"
    BY <1>14 DEF Answered
  <2>3. CASE ~HasCm
    BY <1>2, <2>1, <2>2, <2>3 DEF Remember
  <2>4. CASE session.mode = "custom"
    BY <2>2, <2>4 DEF Keyed
  <2>5. CASE HasCm /\ session.mode # "custom"
    <3>1. r \in Reply /\ hist \in Seq(Entry) /\ msg \in Text /\ ~raw
      BY <2>1, <2>5, RepliesTyped DEF IInv, Types, Keyed
    <3>2. Len(sent) = Len(hist)
      BY <2>2, ListLen DEF Keyed
    <3> DEFINE both(e) == IF e.keys = "text" THEN [e EXCEPT !.keys = "both"] ELSE e
    <3> DEFINE u(k) == [role |-> "user", text |-> msg, keys |-> k]
    <3> DEFINE a == [role |-> "assistant", text |-> ReplyText(r), keys |-> "both"]
    <3>3. CASE Len(hist) > 0
      <4>1. hist' = hist \o <<u("text"), a>>
        BY <2>1, <2>5, <3>1, <3>2, <3>3 DEF Remember
      <4> QED BY <2>2, <3>1, <3>3, <4>1, KeyedLonger DEF Keyed
    <3>4. CASE Len(hist) = 0
      <4>1. hist' = [i \in DOMAIN hist |-> both(hist[i])] \o <<u("both"), a>>
        BY <2>1, <2>5, <3>1, <3>2, <3>4 DEF Remember
      <4>2. [i \in DOMAIN hist |-> both(hist[i])] = <<>>
        BY <1>1, <3>4
      <4>3. hist' = <<u("both"), a>>
        <5> HIDE DEF u, a, both
        <5> QED BY <4>1, <4>2
      <4>4. DOMAIN hist' = 1..2 /\ hist'[1].keys = "both" /\ hist'[2].keys = "both"
            /\ hist'[2].role = "assistant"
        BY <4>3
      <4> QED BY <2>2, <3>1, <4>4 DEF Keyed
    <3> QED BY <1>1, <3>3, <3>4
  <2> QED BY <2>3, <2>4, <2>5
<1> HIDE DEF IInv, Keyed
<1> QED
  BY <1>5, <1>6, <1>7, <1>8, <1>9, <1>10, <1>11, <1>12, <1>13, <1>14 DEF Next, Main

LEMMA KeyedAlways == Spec => []Keyed
<1>1. Init => Keyed
  <2> SUFFICES ASSUME Init PROVE Keyed
    OBVIOUS
  <2>1. hist = <<>> /\ raw = FALSE /\ pc = "seam" /\ DOMAIN hist = {}
    BY DEF Init
  <2> QED BY <2>1 DEF Keyed
<1>2. IInv /\ Keyed /\ [Next]_vars => Keyed'
  BY KeyedStep
<1> QED BY <1>1, <1>2, Invariance, PTL DEF Spec

\* With every text in its place, the copies are what goes out of the user turns.
LEMMA WindowGoesOut ==
    ASSUME IInv, Keyed
    PROVE  WindowIsSent
<1> SUFFICES ASSUME pc = "llm", cm.mode \in {"slice", "compact_conservative"},
                    cm.assembly = "none", edits = 0, \A i \in DOMAIN hist : hist[i].text.quotes = 0,
                    NEW i \in DOMAIN hist
             PROVE  LET reply == hist[i].role = "assistant" IN
                    IF attempt = 1
                    THEN IF i + WindowK > Len(hist) + 1 \/ reply THEN Wire(i) = "full"
                         ELSE hist[i].text.len >= DropFloor /\ i # 1
                                => Wire(i) \in {"placeholder", "excerpt"}
                    ELSE ~reply /\ i # 1 => Wire(i) = "lost"
  BY DEF WindowIsSent
<1>1. \A j \in DOMAIN hist :
         hist[j].keys = IF j > 1 /\ hist[j].role = "user" THEN "text" ELSE "both"
  BY DEF Keyed, IInv, Steps
<1>2. Windowed
  BY <1>1 DEF Windowed, HasText
<1>3. IF i + WindowK > Len(hist) + 1 THEN sent[i] = "full"
      ELSE hist[i].text.len >= DropFloor /\ i # 1 => sent[i] \in {"placeholder", "excerpt"}
  BY <1>2 DEF IInv, CopiesWindowed
<1>4. i \in Nat /\ i >= 1 /\ hist[i].role \in {"user", "assistant"}
  <2>1. DOMAIN hist = 1..Len(hist) /\ hist[i] \in Entry /\ Len(hist) \in Nat
    BY Entries DEF IInv
  <2> QED BY <2>1 DEF Entry
<1>5. hist[i].keys = "text" => Wire(i) = IF attempt = 1 THEN sent[i] ELSE "lost"
  BY DEF Wire
<1>6. hist[i].keys = "both" /\ attempt = 1 => Wire(i) = "full"
  BY DEF Wire
<1>7. hist[i].role = "assistant" => hist[i].keys = "both"
  BY <1>1
<1>8. hist[i].role # "assistant" /\ i # 1 => hist[i].keys = "text"
  BY <1>1, <1>4
<1>9. hist[i].keys \in {"text", "both"}
  BY <1>1
<1> HIDE DEF IInv, Keyed
<1> QED BY <1>3, <1>5, <1>6, <1>7, <1>8, <1>9

\* Once a session is cut short only its summary is left.
LEMMA StopIsKept ==
    ASSUME IInv, [Next]_vars, stop # "no"
    PROVE  /\ ntools' = ntools /\ stop' = stop
           /\ (pc = "seam" => phase = "summary")
           /\ (pc = "decide" => pc' \in {"decide", "done"})
<1>1. phase = "summary" /\ pc # "wait"
  BY DEF IInv, Steps
<1>2. ~MayContinue
  BY <1>1 DEF MayContinue
<1> DEFINE Fixed == ntools' = ntools /\ stop' = stop /\ (pc = "decide" => pc' \in {"decide", "done"})
<1> SUFFICES Fixed
  BY <1>1
<1>3. CASE UNCHANGED vars \/ Stopped
  <2>1. ntools' = ntools /\ stop' = stop /\ pc' = pc
    BY <1>3 DEF vars, Stopped
  <2> QED BY <2>1
<1>4. CASE SeamOff \/ SeamBegins \/ Preset
  <2>1. UNCHANGED loopVars /\ pc # "decide"
    BY <1>4 DEF SeamOff, SeamBegins, Preset
  <2> QED BY <2>1 DEF loopVars
<1>5. CASE PolicyOp \/ PolicyReturns \/ PolicyFails \/ PolicyPoisons
  BY <1>5 DEF PolicyOp, PolicyReturns, PolicyFails, PolicyPoisons, loopVars
<1>6. CASE AssemblyStep \/ AssemblyReturns \/ AssemblyFails \/ AgentCodeHangs
  BY <1>6 DEF AssemblyStep, AssemblyReturns, AssemblyFails, AgentCodeHangs, InAssembly, loopVars
<1>7. CASE Transient \/ CallFails \/ Answered \/ Finish
  BY <1>7 DEF Transient, CallFails, Answered, Finish, loopVars
<1>8. CASE FirstProse \/ BudgetStop \/ ToolAnswers \/ ToolTimesOut
  BY <1>1, <1>8 DEF FirstProse, BudgetStop, ToolAnswers, ToolTimesOut
<1>9. CASE MalformedFeedback \/ CutRetry \/ Refused \/ Submit
  BY <1>2, <1>9 DEF MalformedFeedback, CutRetry, Refused, Submit
<1>10. CASE Thread
  <2>1. UNCHANGED loopVars /\ pc' = pc
    BY <1>10 DEF Thread, ThreadStarts, ThreadEnds
  <2> QED BY <2>1 DEF loopVars
<1> HIDE DEF Fixed
<1> QED BY <1>3, <1>4, <1>5, <1>6, <1>7, <1>8, <1>9, <1>10 DEF Next, Main

-----------------------------------------------------------------------------
(*                               The theorems                              *)

\* In every session, for any tools, pool and wedge limit: while the loop does not
\* wait for a tool its output reaches the real stream whichever abandoned tool
\* threads still run, start or end, and as long as the pool has room for every wedge
\* the breaker admits the call it waits for finds a thread (process_tool_call and
\* _CaptureProxy in agent/llm_withtools.py).
THEOREM ToolsAreContained == Spec => []ToolsContained
<1>1. IInv => ToolsContained
  BY WellFormed, OutputVisible, OwnWedges DEF ToolsContained
<1> QED BY <1>1, Invariance, PTL

\* In every session, for any window, floor, budget of operations and behaviour of
\* the policy or named assembly: each managed turn has its brief, a consumed derived
\* block is consumed once and pointed to by nobody, refusals are counted once (those
\* past the cap of count_ops apart), broken features stay off, and of a preset's
\* window the user turns are sent as the view has them and the replies in full,
\* whereas a retry sends no user turn but the first (gan/framework/cm, agent/llm.py).
THEOREM SeamIsSound == Spec => []SeamSound
<1>1. IInv /\ Keyed => SeamSound
  <2> SUFFICES ASSUME IInv, Keyed
               PROVE  SeamSound
    OBVIOUS
  <2>1. AuditedTurns /\ ViolationsExact
    BY DEF IInv, Books, Tally, ViolationsExact
  <2>2. BreakersHold
    BY DEF IInv, Books, BreakersHold
  <2> QED BY <2>1, <2>2, WindowGoesOut, TreeLineage DEF SeamSound
<1> QED BY <1>1, Invariance, KeyedAlways, PTL

\* In every session, whatever the model, the tools, the policy and the assembly do:
\* a session that was cut short calls no further tool and asks at most for its
\* summary (chat_with_agent), and no step elides a pinned block shown in its own form
\* (the validation of cm/ops.py).
THEOREM PromisesAreKept == Spec => PromisesKept
<1>1. IInv /\ [Next]_vars =>
        [stop # "no" => /\ ntools' = ntools /\ stop' = stop
                        /\ (pc = "seam" => phase = "summary")
                        /\ (pc = "decide" => pc' \in {"decide", "done"})]_vars
  BY StopIsKept
<1>2. IInv /\ [Next]_vars =>
        [\A b \in Blocks(cm) :
           /\ cm.blocks[b].pinned /\ cm.blocks[b].to = 0
           /\ cm.blocks[b].form \notin {"placeholder", "derived_host"}
           => cm'.blocks[b].form \notin {"placeholder", "derived_host"}]_vars
  BY StepHolds DEF PinsKept, Elided
<1> QED BY <1>1, <1>2, Invariance, PTL DEF Spec, PromisesKept, NothingAfterStop, PinRespected

=============================================================================
