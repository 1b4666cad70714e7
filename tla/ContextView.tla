---------------------------- MODULE ContextView ----------------------------
(***************************************************************************)
(* One context-management session (gan/framework/cm): the add-only         *)
(* universe of blocks, the persistent view (one form per block), the       *)
(* validating primitives of ops.py and the stages the presets of           *)
(* assembly.py compose.  A session is a record and every method an         *)
(* operator on it; the actions that call them are in AgentLoop.            *)
(*                                                                         *)
(* A text is a record: an identity (equal texts have equal fingerprints),  *)
(* its length in characters, whether it opens with the per-turn tool       *)
(* header, and the block whose baked marker it quotes, 0 for none.         *)
(***************************************************************************)
EXTENDS Naturals, Sequences, FiniteSets, SequencesExt, FiniteSetsExt

CONSTANTS
    WindowK,      \* cm_window_k
    DropFloor,    \* cm_drop_floor_chars
    MaxOps,       \* cm_max_ops_per_turn
    HeaderLen     \* characters of the tool-use header

ASSUME ContextAssumption ==
    /\ {WindowK, MaxOps} \subseteq Nat \ {0}
    /\ {DropFloor, HeaderLen} \subseteq Nat

ExcerptKeep == 600
MinCompactSave == 200
DerivedPieceKeep == 300
OmissionMark == 30       \* "\n...[omitted N chars]...\n"
TemplateEntry == 250     \* one source line of a template: metadata, head, tail
Strikes == 2             \* _POLICY_STRIKES

Modes == {"passthrough", "slice", "compact_conservative", "custom"}
Kinds == {"turn_output", "note", "derived"}
Forms == {"full", "head_tail", "excerpt", "placeholder", "template", "dedup",
          "derived_host"}

Text == [n : Nat, len : Nat, hdr : BOOLEAN, quotes : Nat]
NoText == [n |-> 0, len |-> 0, hdr |-> FALSE, quotes |-> 0]

Cut(len, keep) == IF len <= 2 * keep THEN len ELSE 2 * keep + OmissionMark
ExcerptSaving(b) == b.len - Cut(b.len, ExcerptKeep)

(* A block with the form and the rule the view keeps for it; `to` is the   *)
(* derived block a rule "derived=" or "merged-into:" names, 0 for any      *)
(* other rule; `freed` remembers that somebody unpinned it.                *)
NewBlock(kind, text, len, pinned, sources) ==
    [kind |-> kind, text |-> text, len |-> len, pinned |-> pinned, idx |-> 0,
     form |-> "full", to |-> 0, sources |-> sources, freed |-> FALSE]

Register(s, b) == [s EXCEPT !.blocks = Append(@, b)]
Blocks(s) == 1..Len(s.blocks)
SetForm(s, b, form, to) ==
    [s EXCEPT !.blocks[b].form = form, !.blocks[b].to = to]

(* build_session and apply_keys: effective keys arrive clamped.            *)
NewSession(mode, assembly) ==
    [mode |-> mode, assembly |-> assembly,
     named |-> "unloaded", owner |-> "none", harvested |-> FALSE,
     turn |-> 0, blocks |-> <<>>, seenUser |-> FALSE,
     policyStrikes |-> 0, policyFailures |-> 0, policyDisabled |-> FALSE,
     assemblyFailures |-> 0, assemblyDisabled |-> FALSE, degraded |-> FALSE,
     views |-> 0, violations |-> 0, uncounted |-> 0, refusals |-> 0]

-----------------------------------------------------------------------------
(* Registration.                                                           *)

(* _by_fp: the newest block registered for this text.                      *)
Known(s, t) == {b \in Blocks(s) : /\ s.blocks[b].kind = "turn_output"
                                  /\ s.blocks[b].text = t}

(* An entry of the history keeps its text under "text", or under "content" *)
(* as well (keys "both"), or it has lost it (keys "none").                 *)
HasText(e) == e.keys # "none"

(* The entries no block stands for yet: a text already seen, and a text    *)
(* that quotes a block's marker, is bound to the block it has.             *)
BindsTo(s, e) == IF e.text.quotes \in Blocks(s) THEN {e.text.quotes} ELSE Known(s, e.text)
NewEntries(s, hist) ==
    {i \in DOMAIN hist :
        /\ HasText(hist[i]) /\ BindsTo(s, hist[i]) = {}
        /\ \A j \in 1..i - 1 : HasText(hist[j]) => hist[j].text # hist[i].text}

(* They are appended in their order.                                       *)
register_history(s, hist) ==
    LET new == NewEntries(s, hist)
        entry(b) == CHOOSE i \in new :
                       Cardinality({j \in new : j <= i}) = b - Len(s.blocks)
        block(i) == NewBlock("turn_output", hist[i].text, hist[i].text.len,
                             ~s.seenUser /\ i = Min(new), {})
        all(b) == IF b \in Blocks(s) THEN s.blocks[b] ELSE block(entry(b))
        entries(b) == {i \in DOMAIN hist :
                         /\ HasText(hist[i])
                         /\ IF BindsTo(s, hist[i]) # {} THEN b = Max(BindsTo(s, hist[i]))
                            ELSE b \notin Blocks(s) /\ all(b).text = hist[i].text}
        bound(b) == [all(b) EXCEPT !.idx = IF entries(b) = {} THEN @ ELSE Max(entries(b))]
    IN  [s EXCEPT !.seenUser = @ \/ new # {},
                  !.blocks = [b \in 1..Len(s.blocks) + Cardinality(new) |-> bound(b)]]

register_outgoing(s, t) ==
    [Register(s, NewBlock("turn_output", t, t.len, ~s.seenUser, {}))
       EXCEPT !.seenUser = TRUE]

register_note(s) == Register(s, NewBlock("note", NoText, MinCompactSave, TRUE, {}))

-----------------------------------------------------------------------------
(* The primitives: each validates first and leaves the view alone when it  *)
(* refuses.  An operation is [op, refs, form]; `form` is also compact's    *)
(* strategy.                                                               *)

AGENT_FACES == {"fetch", "pin", "pin_note", "unpin", "note", "call"}
POLICY_FACES == AGENT_FACES \cup {"drop", "compact", "substitute"}
face_allows(face, op) == op.op \in (IF face = "agent" THEN AGENT_FACES ELSE POLICY_FACES)

Shown(s, b) == s.blocks[b].form = "full"
Droppable_IgnoresPins(s, b) == s.blocks[b].kind # "note" /\ s.blocks[b].len >= DropFloor
Droppable(s, b) ==
    /\ ~s.blocks[b].pinned
    /\ s.blocks[b].kind # "note"
    /\ s.blocks[b].len >= DropFloor

Substitutable(s, b, form) ==
    /\ form \in {"full", "head_tail", "excerpt", "placeholder", "template"}
    /\ form = "placeholder" => ~s.blocks[b].pinned
    /\ form # "full" => s.blocks[b].len >= DropFloor

SumOf(f(_), refs) == LET sum[n \in 0..Len(refs)] == IF n = 0 THEN 0 ELSE f(refs[n]) + sum[n - 1]
                     IN  sum[Len(refs)]
SumLen(s, refs) == SumOf(LAMBDA b : s.blocks[b].len, refs)
DerivedLen(s, refs, strategy) ==
    IF strategy = "template" THEN 40 + TemplateEntry * Len(refs)
    ELSE SumOf(LAMBDA b : 5 + Cut(s.blocks[b].len, DerivedPieceKeep), refs)
Hosts(s, refs) == {i \in DOMAIN refs : s.blocks[refs[i]].idx # 0}

Compactable(s, refs, strategy) ==
    /\ \A b \in Range(refs) : Droppable(s, b) /\ Shown(s, b)
    /\ strategy = "excerpt" => \A b \in Range(refs) : ExcerptSaving(s.blocks[b]) >= MinCompactSave
    /\ strategy = "merge" => Len(refs) >= 2
    /\ strategy # "excerpt" =>
          /\ Hosts(s, refs) # {}
          /\ SumLen(s, refs) >= DerivedLen(s, refs, strategy) + MinCompactSave

Consume_NoRepoint(s, refs, strategy) ==
    LET d == Len(s.blocks) + 1
        host == refs[Min(Hosts(s, refs))]
        used == {b \in Range(refs) : s.blocks[b].kind = "derived"}
        minted == Register(s, NewBlock("derived", NoText, DerivedLen(s, refs, strategy),
                                       FALSE, Range(refs)))
        kept(b) == [minted.blocks[b] EXCEPT !.pinned = @ \/ b \in used]
        moved(b) == b \in Range(refs) /\ minted.blocks[b].idx # 0
    IN  [minted EXCEPT !.blocks = [b \in DOMAIN minted.blocks |->
            IF b = host THEN [kept(b) EXCEPT !.form = "derived_host", !.to = d]
            ELSE IF moved(b) THEN [kept(b) EXCEPT !.form = "placeholder", !.to = d]
            ELSE kept(b)]]

(* merge and template mint a derived block, host it at the first source    *)
(* bound to the history, turn the other sources into pointers, pin the     *)
(* derived blocks they consume and re-point whoever pointed to those.      *)
Consume(s, refs, strategy) ==
    LET d == Len(s.blocks) + 1
        host == refs[Min(Hosts(s, refs))]
        used == {b \in Range(refs) : s.blocks[b].kind = "derived"}
        minted == Register(s, NewBlock("derived", NoText, DerivedLen(s, refs, strategy),
                                       FALSE, Range(refs)))
        kept(b) == [minted.blocks[b] EXCEPT !.pinned = @ \/ b \in used]
        moved(b) == \/ b \in Range(refs) /\ minted.blocks[b].idx # 0
                    \/ minted.blocks[b].to \in used
    IN  [minted EXCEPT !.blocks = [b \in DOMAIN minted.blocks |->
            IF b = host THEN [kept(b) EXCEPT !.form = "derived_host", !.to = d]
            ELSE IF moved(b) THEN [kept(b) EXCEPT !.form = "placeholder", !.to = d]
            ELSE kept(b)]]

compact(s, refs, strategy) ==
    IF strategy = "excerpt"
    THEN [s EXCEPT !.blocks = [b \in DOMAIN @ |->
            IF b \in Range(refs) THEN [@[b] EXCEPT !.form = "excerpt", !.to = 0] ELSE @[b]]]
    ELSE Consume(s, refs, strategy)

(* fetch with a form other than full is a substitute without a floor.      *)
Valid(s, op) ==
    LET b == op.refs[1] IN
    CASE op.op = "drop"       -> Droppable(s, b)
      [] op.op = "substitute" -> Substitutable(s, b, op.form)
      [] op.op = "compact"    -> Compactable(s, op.refs, op.form)
      [] op.op = "fetch"      -> op.form = "placeholder" => ~s.blocks[b].pinned
      [] op.op = "call"       -> s.owner # "none"
      [] OTHER                -> TRUE

Effect(s, op) ==
    LET b == op.refs[1] IN
    CASE op.op = "drop"       -> SetForm(s, b, "placeholder", 0)
      [] op.op \in {"substitute", "fetch"} -> SetForm(s, b, op.form, 0)
      [] op.op = "compact"    -> compact(s, op.refs, op.form)
      [] op.op = "pin"        -> [s EXCEPT !.blocks[b].pinned = TRUE]
      [] op.op = "pin_note"   -> [s EXCEPT !.blocks[b].pinned = TRUE, !.blocks[b].to = 0]
      [] op.op = "unpin"      -> [s EXCEPT !.blocks[b].pinned = FALSE, !.blocks[b].freed = TRUE]
      [] op.op = "note"       -> register_note(s)
      [] op.op = "call"       -> s

(* note_violation: a refusal on the policy face is counted and emitted.    *)
note_violation(s) == [s EXCEPT !.violations = @ + 1]
Refuse(s, face) ==
    LET r == [s EXCEPT !.refusals = IF face = "policy" THEN @ + 1 ELSE @]
    IN  IF face = "policy" THEN note_violation(r) ELSE r

(* ViewHandle: face, then the policy face's budget, then the primitive.    *)
Handle(s, face, budget, op) ==
    IF face_allows(face, op) /\ (face = "policy" => budget > 0) /\ Valid(s, op)
    THEN Effect(s, op)
    ELSE Refuse(s, face)

-----------------------------------------------------------------------------
(* The stages of the presets.                                              *)

Rounds(s, b) == Cardinality({c \in b..Len(s.blocks) : s.blocks[c].kind = "turn_output"})
Older(s) == {b \in Blocks(s) : /\ s.blocks[b].kind = "turn_output"
                               /\ Rounds(s, b) > WindowK}

(* A stage maps an older block to the block the next stage sees.           *)
Substitute(k, when, form) == IF when THEN [k EXCEPT !.form = form, !.to = 0] ELSE k

window_defaults(k) ==
    Substitute(k, k.form = "full" /\ ~k.pinned /\ k.len >= DropFloor, "placeholder")

Excerptable(k) == k.form = "full" /\ ~k.pinned /\ ExcerptSaving(k) >= MinCompactSave
conservative_compaction(k) == Substitute(k, Excerptable(k) /\ k.len >= DropFloor, "excerpt")

(* The refusal records that stage leaves for the post segment to count:    *)
(* their places among the turn's records, of which n came before; it works *)
(* from the newest block to the oldest.                                    *)
StageRefused(s, n) ==
    LET tried == {b \in Older(s) : Excerptable(s.blocks[b])}
        place(b) == n + Cardinality({c \in tried : c >= b})
    IN  IF s.mode # "compact_conservative" THEN {}
        ELSE {place(b) : b \in {c \in tried : s.blocks[c].len < DropFloor}}

dedup_prefix(k) ==
    Substitute(k, k.form = "full" /\ k.text.hdr /\ k.len >= DropFloor + HeaderLen, "dedup")

StagesOf(mode, k) ==
    CASE mode = "passthrough" -> k
      [] mode = "compact_conservative" -> dedup_prefix(window_defaults(conservative_compaction(k)))
      [] OTHER -> dedup_prefix(window_defaults(k))
Stages(s) ==
    LET older == Older(s) IN
    [s EXCEPT !.blocks = [b \in DOMAIN @ |->
        IF b \in older THEN StagesOf(s.mode, @[b]) ELSE @[b]]]

emit_view(s) == [s EXCEPT !.views = @ + 1]

(* How many records a turn has after its stages, n before them.            *)
StageRecords(s, n) == n + Cardinality({b \in Blocks(s) : Stages(s).blocks[b] # s.blocks[b]})

(* The post segment counts the refusals among the first MaxOps records,    *)
(* given their places; a refusal further down it counts as an operation    *)
(* refused but not as a violation.  Those the handle has counted already   *)
(* carry a mark and are not among `refused`.                               *)
count_ops(s, refused) ==
    [s EXCEPT !.violations = @ + Cardinality({p \in refused : p <= MaxOps}),
              !.uncounted = @ + Cardinality({p \in refused : p > MaxOps})]
finalize_turn(s, refused) ==
    emit_view(count_ops([s EXCEPT !.refusals = @ + Cardinality(refused)], refused))

(* render: the form it gives the copies of the entries of the history.  An *)
(* entry with both keys gets it under "content" only.                      *)
render(s, hist) ==
    [i \in DOMAIN hist |->
        LET bs == {b \in Blocks(s) : /\ s.blocks[b].idx = i /\ ~Shown(s, b)
                                     /\ HasText(hist[i]) /\ hist[i].text.quotes # b
                                     /\ ~(s.blocks[b].form = "derived_host" /\ s.blocks[b].to = 0)
                                     /\ (s.blocks[b].form = "dedup" => hist[i].text.hdr)}
        IN  IF bs = {} THEN "full"
            ELSE IF Cardinality(bs) > 1 THEN "placeholder"   \* span drift
            ELSE s.blocks[CHOOSE b \in bs : TRUE].form]

-----------------------------------------------------------------------------
(* The two wedge breakers.                                                 *)

(* Policy strikes are consecutive: a turn that succeeds resets them.       *)
note_policy_failure(s) ==
    LET n == s.policyStrikes + 1 IN
    [s EXCEPT !.policyFailures = @ + 1, !.policyStrikes = n,
              !.policyDisabled = @ \/ n >= Strikes]

merge_methods(s, source) == [s EXCEPT !.owner = IF @ = "none" THEN source ELSE @]

policy_succeeded(s) ==
    LET t == [s EXCEPT !.policyStrikes = 0, !.harvested = TRUE]
    IN  IF s.harvested THEN t ELSE merge_methods(t, "policy")

(* Assembly strikes are never reset.                                       *)
note_assembly_failure(s) ==
    LET n == s.assemblyFailures + 1 IN
    [s EXCEPT !.assemblyFailures = n, !.degraded = TRUE,
              !.assemblyDisabled = @ \/ n >= Strikes]

(* load_assembly: the AST gate, the import rule, the contract; the result  *)
(* is cached, a refusal included.                                          *)
LoadRefused(s) == s.assembly = "refused"
load_named(s) ==
    IF s.named # "unloaded" THEN s
    ELSE IF LoadRefused(s) THEN [s EXCEPT !.named = "failed"]
    ELSE merge_methods([s EXCEPT !.named = "loaded"], "assembly")

(* passthrough is absolute: it never runs a named assembly.                *)
Wanted(s) == s.assembly # "none" /\ s.mode # "passthrough" /\ ~s.assemblyDisabled
RunsNamed(s) == Wanted(s) /\ s.named = "loaded"

BeginTurn(s) ==
    LET t == [s EXCEPT !.turn = @ + 1, !.degraded = FALSE, !.views = 0]
    IN  IF Wanted(s) THEN load_named(t) ELSE t

=============================================================================
