---------------------------- MODULE WriteSurface ----------------------------
(***************************************************************************)
(* The write surface of a role session: what an agent may change, how its  *)
(* edits become a patch, and what of them is left when the session ends.   *)
(*                                                                         *)
(*   gan/framework/frozen.py, access.py, write_auth.py   who may touch what *)
(*   gan/tools/deep, gan/tools/work/common/edit_source   the deep tools     *)
(*   gan/tools/design, gan/design, framework/context     the shallow tools  *)
(*   gan/registries/loader.py                            the catalogs       *)
(*   gan/patch.py, gan/roles                             patch and retries  *)
(*   gan/framework/code_repo.py                          the commit gate    *)
(*   gan/framework/task_execution, loop, preflight       heal and startup   *)
(*   gan/tools/assembly.py                               the toolset        *)
(*                                                                         *)
(* One seat is followed over several sessions and restarts.  The files are *)
(* the component modules of the role the session designs, its registry,    *)
(* its dynamic-key catalog, and one file that the role may read and the    *)
(* seat may not write.  The component directory is a path of its own: it   *)
(* can be granted as such or through a recursive glob.                     *)
(***************************************************************************)
EXTENDS Integers, Sequences, FiniteSets, SequencesExt

CONSTANTS
    Missing,
    Garbage,     \* a registry text that does not parse
    Kept, Removed, Skipped,
    Modules,     \* component module paths
    Stem,        \* the file stem of each module
    Plumbing,    \* stems of the always-on tools of a self-improving role
    Keys,        \* names a dynamic config key may take
    MaxKeys,     \* MAX_DYNAMIC_KEYS
    MaxEnum,     \* MAX_ENUM_VALUES
    Edits,       \* <<file, text>>: what an agent may write with edit_source
    Requests,    \* <<path, intent, refresh>>: what it may ask access to
    Start,       \* the committed module contents the run starts with
    Seats,       \* seats to start with
    Arms,        \* ablation arms to start with
    MaxToolCalls,    \* max_tool_calls of one chat run, per session
    RetryK,      \* loop.patch_retry_k
    MaxSessions  \* bound: sessions of the seat

\* Two versions of a tool, a module without the tool API, and a module that
\* does not compile or that the static policy refuses.
Versions == {"v0", "v1"}
Contents == Versions \cup {"helper", "unsafe"}
Registry  == "reg"
SchemaExt == "ext"
Foreign   == "foreign"
Comp      == "comp"
Glob      == "glob"
Files == Modules \cup {Registry, SchemaExt, Foreign}
Names == {Stem[m] : m \in Modules} \cup Plumbing

\* A catalog entry; of its metadata only whether it has a description.
Entry(m, desc) == [name |-> Stem[m], module |-> m, desc |-> desc]
Entries == [name : STRING, module : Modules, desc : BOOLEAN]

\* The texts of a file.  The catalog declares per key its consumer and the
\* number of its enum values.
TextOf(f) == CASE f = Registry  -> Seq(Entries) \cup {Garbage}
               [] f = SchemaExt -> [Keys -> {Missing} \cup (Names \X Nat)]
               [] OTHER         -> Contents

Designs == [tools : SUBSET Names, prompt : {"seed", "own"}, keys : SUBSET Keys]

(* The markers are no texts, paths do not clash, and the run starts with a   *)
(* tree that the startup checks accept: the tools' stems are distinct.       *)
ASSUME SurfaceAssumption ==
    /\ Stem \in [Modules -> STRING] /\ Plumbing \subseteq STRING
    /\ IsFiniteSet(Modules) /\ Modules \cap {Registry, SchemaExt, Foreign, Comp, Glob} = {}
    /\ \A x \in {Missing, Kept, Removed, Skipped} :
           x \notin Designs /\ \A f \in Files : x \notin TextOf(f)
    /\ Garbage \notin Seq(Entries) /\ Kept \notin {Removed, Skipped}
    /\ MaxKeys \in Nat /\ MaxEnum \in Nat /\ RetryK \in Nat
    /\ MaxSessions \in Nat /\ MaxToolCalls \in [1 .. MaxSessions -> Nat]
    /\ \A e \in Edits : e[1] \in Files /\ e[2] \in TextOf(e[1])
    /\ Requests \subseteq ((Files \cup {Comp, Glob}) \X {"view", "modify"} \X BOOLEAN)
    /\ Seats \subseteq {"plan", "self_improve", "evaluate"}
    /\ Arms \subseteq {"none", "deny_deep", "deep_view_only",
                       "shallow_prompt_only", "disable_shallow"}
    /\ Start \in [Modules -> {Missing, "v0", "helper"}]
    /\ \A m, k \in {x \in Modules : Start[x] = "v0"} :
           Stem[m] \notin Plumbing /\ (Stem[m] = Stem[k] => m = k)

VARIABLES
    seat, arm,
    repo,      \* the committed tree
    ws,        \* the workspace copies, Missing when absent
    wsDir,     \* the component directory exists in the workspace
    grants,    \* <<path, intent>>
    design,    \* the design the session edits
    saved,     \* the persisted design, Missing when the file is missing
    forensic,  \* a design set aside by the startup repair has its own prompt
    deep,      \* the session recorded a deep operation
    patch,     \* the patch the session ended with
    phase,     \* "start", "repair", "idle", "open", "closing", "drafted",
               \* "applied" or "refused"
    tool_calls,     \* tool calls of the chat run
    attempt,   \* rejected patches of the session
    last,      \* the last rejected patch
    sessions,  \* sessions so far
    exit,      \* how the last session ended
    told,      \* per file: what the last successful tool call left there;
               \* Skipped if it only left it out of a granted directory
    offered,   \* names the catalog showed as selectable when the session ended
    warned,    \* the session's loss was reported
    evolved    \* a self design with its own prompt was persisted

session     == <<ws, wsDir, grants, design, deep, patch, tool_calls, attempt, last, told>>
disk        == <<repo, saved, forensic>>
surfaceVars == <<seat, arm, session, disk, phase, sessions, exit, warned, evolved, offered>>

-----------------------------------------------------------------------------
(* Seats and ablation arms.                                                *)

\* SEAT_WRITE: evaluate writes nothing, the others their target's files.
write_roots(s) == IF s = "evaluate" THEN {} ELSE (Files \cup {Comp}) \ {Foreign}

\* ACCESS: a role reads what any of its seats may write, and the task source.
read_roots(s) == Files \cup {Comp}

is_allowed(s, path, intent) ==
    path \in (IF intent = "view" THEN read_roots(s) ELSE write_roots(s))

\* Only plan and self_improve have a design context, hence a patch channel.
design_context == seat # "evaluate"

deep_access_policy(intent) ==
    \/ arm \in {"deny_deep", "shallow_prompt_only"}
    \/ arm = "deep_view_only" /\ intent = "modify"

shallow_op_error(prompt) ==
    \/ arm = "disable_shallow"
    \/ arm = "shallow_prompt_only" /\ ~prompt

-----------------------------------------------------------------------------
(* Grants.                                                                 *)

Under(path, f) == path = f \/ (path = Comp /\ f \in Modules)

granted_paths(intent) == {g[1] : g \in {x \in grants : x[2] = intent}}

covers(f) == \E path \in granted_paths("modify") : Under(path, f)

\* A view grant, or no grant, is refused with the way out.
authorize_write(f) ==
    design_context /\ \E g \in grants : g[2] = "modify" /\ Under(g[1], f)

\* A path of the committed tree; the component directory always is one.
InRepo(path) == path = Comp \/ repo[path] # Missing

\* The concrete paths of a request: a glob also matches the directory itself.
Expand(path) ==
    IF path = Glob THEN {Comp} \cup {m \in Modules : InRepo(m)} ELSE {path}

Granted(path, intent) ==
    {p \in Expand(path) : is_allowed(seat, p, intent) /\ InRepo(p)}

\* Mutant of CopiedIn: an existing copy is overwritten by a default request.
CopiedIn_Always(got, if_absent) ==
    (IF Comp \in got THEN {m \in Modules : repo[m] # Missing} ELSE {}) \cup (got \ {Comp})

\* The files grant() copies: a directory when it is absent from the workspace,
\* then each granted file that is still absent; without if_absent, all.
CopiedIn(got, if_absent) ==
    LET tree == IF Comp \in got /\ (~if_absent \/ ~wsDir)
                THEN {m \in Modules : repo[m] # Missing} ELSE {}
    IN  tree \cup {f \in got \ {Comp} : ~if_absent \/ ws[f] = Missing}

Copy(fs) == [f \in Files |-> IF f \in fs THEN repo[f] ELSE ws[f]]

-----------------------------------------------------------------------------
(* Catalogs.                                                               *)

parse_registry_file(reg) == IF reg \in {Missing, Garbage} THEN <<>> ELSE reg

\* Workspace first, committed tree second.
resolve_registry(w) == IF w[Registry] # Missing THEN w[Registry] ELSE repo[Registry]
resolve_module(w, m) == IF w[m] # Missing THEN w[m] ELSE repo[m]
load_dynamic_specs(w) == IF w[SchemaExt] # Missing THEN w[SchemaExt] ELSE repo[SchemaExt]

module_api_ok(c) == c \in Versions

\* entry_reason is Missing: the file exists, is called like the entry and
\* exposes the tool API.
entry_valid(e, w) ==
    e.name = Stem[e.module] /\ module_api_ok(resolve_module(w, e.module))

Bare == [f \in Files |-> Missing]

\* The positions of a name in a registry, and its first entry, the one that
\* ComponentRegistry.get returns.
Named(reg, n) == {i \in DOMAIN parse_registry_file(reg) : parse_registry_file(reg)[i].name = n}
Get(reg, n) == parse_registry_file(reg)[Min(Named(reg, n))]

is_valid(reg, w, n) == Named(reg, n) # {} /\ entry_valid(Get(reg, n), w)

\* What is left of a registry without the entries of a name: at each position
\* the entry that so many of the remaining ones lead up to.
Without(reg, n) ==
    LET rest == DOMAIN reg \ Named(reg, n) IN
    [i \in 1 .. Cardinality(rest) |->
        reg[CHOOSE k \in rest : Cardinality(rest \cap (1 .. k)) = i]]

\* What select_component accepts.
Selectable(n) == is_valid(resolve_registry(ws), ws, n)

\* list_components keys the effective registry by name: the last entry wins.
list_selectable(n) ==
    \E reg \in {resolve_registry(ws)} :
        Named(reg, n) # {} /\ entry_valid(parse_registry_file(reg)[Max(Named(reg, n))], ws)

\* What the committed tree delivers: module_path of the committed registry.
Delivers(tree, n) ==
    Named(tree[Registry], n) # {} /\ \E e \in {Get(tree[Registry], n)} :
        e.name = Stem[e.module] /\ module_api_ok(tree[e.module])

always_on_dirs == IF seat = "plan" THEN {} ELSE Plumbing

\* The flat toolset directory for a selection: always-on files are copied
\* first, a selected component of the same file name replaces them.
assemble_tools_dir(tree, tools) ==
    LET selected == {n \in tools : Delivers(tree, n)} IN
    [n \in always_on_dirs \cup selected |->
        IF n \in selected THEN "component" ELSE "always_on"]

\* The modules that a tree registers and holds under a stem.
Holders(tree, n) ==
    {e.module : e \in {x \in ToSet(parse_registry_file(tree[Registry])) :
                          tree[x.module] # Missing /\ Stem[x.module] = n}}

\* Sources that would be copied to the same toolset file: stems that several
\* modules, or a module and an always-on tool, hold.
assemble_collisions(tree) ==
    {<<n, Holders(tree, n)>> : n \in {k \in Names :
        Cardinality(Holders(tree, k)) + (IF k \in always_on_dirs THEN 1 ELSE 0) > 1}}

orphan_modules(tree) ==
    {m \in Modules : module_api_ok(tree[m])
        /\ \A e \in ToSet(parse_registry_file(tree[Registry])) : e.module # m}

registry_report(tree) ==
    LET es == parse_registry_file(tree[Registry]) IN
    [unparseable |-> tree[Registry] = Garbage,
     invalid     |-> {e \in ToSet(es) : ~ (e.name = Stem[e.module] /\ module_api_ok(tree[e.module]))},
     duplicate   |-> {n \in Names : Cardinality(Named(tree[Registry], n)) > 1},
     orphan      |-> orphan_modules(tree),
     collision   |-> assemble_collisions(tree)]

\* Mutant of registry_worsened: unregistered modules are not compared.
registry_worsened_NoOrphan(b, a) ==
    \/ a.unparseable
    \/ ~ (a.invalid \subseteq b.invalid) \/ ~ (a.duplicate \subseteq b.duplicate)
    \/ ~ (a.collision \subseteq b.collision)

registry_worsened(b, a) ==
    \/ a.unparseable
    \/ ~ (a.invalid \subseteq b.invalid) \/ ~ (a.duplicate \subseteq b.duplicate)
    \/ ~ (a.orphan \subseteq b.orphan) \/ ~ (a.collision \subseteq b.collision)

\* preflight_tools and tools_ok: at startup every problem is fatal.
tools_ok(tree) ==
    LET r == registry_report(tree) IN
    ~r.unparseable /\ r.invalid = {} /\ r.duplicate = {} /\ r.orphan = {} /\ r.collision = {}

-----------------------------------------------------------------------------
(* The patch.                                                              *)

\* The diff of one file: the text it is relative to and the text it leads to,
\* either of which may be the absence of the file.
file_diff(f) == [old |-> repo[f], new |-> ws[f]]

\* Per changed file under a path granted for modification: its diff, once for
\* every granted path above it.
build_patch_from_workspace ==
    LET above(f) == {path \in granted_paths("modify") : Under(path, f)}
        changed  == {f \in Files : above(f) # {} /\ ws[f] # repo[f]}
    IN  [f \in changed |-> <<file_diff(f), Cardinality(above(f))>>]

Empty == [f \in {} |-> Missing]

has_deep_write == deep

SessionPatch == IF has_deep_write THEN build_patch_from_workspace ELSE Empty

\* A diff that comes twice, or relative to another text, does not apply.
Applies(p) == \A f \in DOMAIN p : p[f][1].old = repo[f] /\ p[f][2] = 1

Patched(p) == [f \in Files |-> IF f \in DOMAIN p THEN p[f][1].new ELSE repo[f]]

\* The static policy for the modules a patch touches.
validate_files(p) == \A m \in Modules \cap DOMAIN p : p[m][1].new # "unsafe"

\* code_repo.check_patch: it applies, every path is in the seat's write set, and
\* the registry report of the patched tree has no problem the old one lacked.
check_patch(p) ==
    /\ Applies(p) /\ validate_files(p)
    /\ \A f \in DOMAIN p : is_allowed(seat, f, "modify")
    /\ ~registry_worsened(registry_report(repo), registry_report(Patched(p)))

-----------------------------------------------------------------------------
(* Designs.                                                                *)

RegisteredNames == {e.name : e \in ToSet(parse_registry_file(repo[Registry]))}

initial_config == [tools |-> {}, prompt |-> "seed", keys |-> {}]

\* A missing self design is seeded with the whole registry selected.
seed_design == [initial_config EXCEPT !.tools = IF seat = "plan" THEN {} ELSE RegisteredNames]

heal_design_slots(d) == [d EXCEPT !.tools = {n \in @ : Delivers(repo, n)}]

heal_design_keys(d) == [d EXCEPT !.keys = {k \in @ : repo[SchemaExt][k] # Missing}]

heal(d) == heal_design_slots(heal_design_keys(d))

-----------------------------------------------------------------------------

SurfaceInit ==
    /\ seat \in Seats /\ arm \in Arms
    /\ repo = [f \in Files |->
                CASE f \in Modules   -> Start[f]
                  [] f = Registry   -> SetToSeq({Entry(m, TRUE) : m \in {x \in Modules : Start[x] = "v0"}})
                  [] f = SchemaExt  -> [k \in Keys |-> Missing]
                  [] OTHER          -> "v0"]
    /\ ws = Bare /\ wsDir = FALSE /\ grants = {}
    /\ design = initial_config /\ saved = Missing /\ forensic = FALSE
    /\ deep = FALSE /\ patch = Empty /\ phase = "start"
    /\ tool_calls = 0 /\ attempt = 0 /\ last = Empty /\ sessions = 0 /\ exit = "fresh"
    /\ told = [f \in Files |-> Kept] /\ warned = FALSE /\ evolved = FALSE /\ offered = {}

(* Startup: seed a missing design, refuse a damaged tree, repair a role's     *)
(* design that names what the committed tree cannot deliver.                *)
Startup ==
    /\ phase = "start"
    /\ \E d \in {IF saved = Missing THEN seed_design ELSE saved} :
        /\ saved' = d
        /\ phase' = IF ~tools_ok(repo) THEN "refused"
                    ELSE IF seat # "plan" /\ heal(d) # d THEN "repair" ELSE "idle"
    /\ exit' = "fresh"
    /\ UNCHANGED <<seat, arm, session, repo, forensic, sessions, warned, evolved, offered>>

\* os.replace of the dangling design, the healed one still in memory.
SetAside ==
    /\ phase = "repair" /\ saved # Missing
    /\ design' = heal(saved) /\ saved' = Missing
    /\ forensic' = (forensic \/ saved.prompt = "own")
    /\ UNCHANGED <<seat, arm, ws, wsDir, grants, deep, patch, tool_calls, attempt, last, told,
                   repo, phase, sessions, exit, warned, evolved, offered>>

SaveRepaired ==
    /\ phase = "repair" /\ saved = Missing
    /\ saved' = design /\ phase' = "idle"
    /\ UNCHANGED <<seat, arm, session, repo, forensic, sessions, exit, warned, evolved, offered>>

\* What is left in memory is lost; the workspace stays on disk.
Crash ==
    /\ phase \notin {"start", "refused"}
    /\ phase' = "start" /\ grants' = {} /\ deep' = FALSE /\ patch' = Empty
    /\ tool_calls' = 0 /\ attempt' = 0 /\ last' = Empty
    /\ design' = initial_config /\ offered' = {}
    /\ told' = [f \in Files |-> Kept]
    /\ UNCHANGED <<seat, arm, ws, wsDir, disk, sessions, exit, warned, evolved>>

\* Purge the workspace, forget grants.
begin_session ==
    /\ grants' = {} /\ ws' = Bare /\ wsDir' = FALSE

OpenSession ==
    /\ phase = "idle" /\ sessions < MaxSessions
    /\ begin_session
    /\ design' = saved
    /\ phase' = "open" /\ sessions' = sessions + 1
    /\ deep' = FALSE /\ patch' = Empty /\ tool_calls' = 0 /\ attempt' = 0 /\ last' = Empty
    /\ told' = [f \in Files |-> Kept] /\ warned' = FALSE /\ offered' = {}
    /\ UNCHANGED <<seat, arm, disk, exit, evolved>>

-----------------------------------------------------------------------------
(* Tool tool_calls.  A refused call changes nothing and is not a step.            *)

Called ==
    /\ phase = "open" /\ tool_calls < MaxToolCalls[sessions]
    /\ tool_calls' = tool_calls + 1
    /\ UNCHANGED <<seat, arm, disk, patch, attempt, last, phase, sessions, exit, warned,
                   evolved, offered>>

\* The modules that a copy fs leaves out of a component directory granted for
\* modification: a directory that is already in the workspace is not copied, so
\* the patch takes what is absent from it for a deletion.
LeftOut(got, intent, fs) ==
    {m \in Modules \ fs : /\ Comp \in got /\ intent = "modify"
                          /\ repo[m] # Missing /\ ws[m] = Missing /\ told[m] = Kept}

\* A file that is copied in is back to its committed text; that is said only
\* for a refresh and for a file that was absent.
RequestAccess(path, intent, refresh) ==
    /\ Called
    /\ intent = "modify" => design_context
    /\ ~deep_access_policy(intent)
    /\ \E got \in {Granted(path, intent)} : \E fs \in {CopiedIn(got, ~refresh)} :
        /\ ws' = Copy(fs)
        /\ wsDir' = (wsDir \/ Comp \in got \/ fs \cap Modules # {})
        /\ grants' = grants \cup {<<p, intent>> : p \in got}
        /\ told' = [f \in Files |->
                       CASE f \in fs /\ (refresh \/ ws[f] = Missing) -> Kept
                         [] f \in LeftOut(got, intent, fs)           -> Skipped
                         [] OTHER                                    -> told[f]]
    /\ deep' = (deep \/ intent = "modify")
    /\ UNCHANGED design

EditSource(f, text) ==
    /\ Called
    /\ authorize_write(f) /\ ws[f] # text
    /\ ws' = [ws EXCEPT ![f] = text] /\ told' = [told EXCEPT ![f] = text]
    /\ deep' = TRUE
    /\ UNCHANGED <<wsDir, grants, design>>

\* The workspace and the grants once the registry is patch-visible: an
\* uncovered registry is copied from the committed tree, a covered one kept.
RegistryInWs == IF covers(Registry) /\ ws[Registry] # Missing THEN ws ELSE Copy({Registry})
RegistryGrant == IF covers(Registry) THEN grants ELSE grants \cup {<<Registry, "modify">>}

\* Who holds the file name of m in the flat toolset of the designed role.
collision_sources(m) ==
    {e.module : e \in {x \in ToSet(parse_registry_file(repo[Registry])) :
                          Stem[x.module] = Stem[m] /\ repo[x.module] # Missing}}
    \cup ({Stem[m]} \cap always_on_dirs)

\* A description is carried over from the committed entry of the same bytes.
DescribedBefore(m) ==
    /\ resolve_module(ws, m) = repo[m]
    /\ \E e \in ToSet(parse_registry_file(repo[Registry])) : e.module = m /\ e.desc

RegisterRefused(m) ==
    \/ ~is_allowed(seat, Registry, "modify") \/ ~is_allowed(seat, m, "modify")
    \/ ws[m] = Missing /\ repo[m] = Missing
    \/ ws[m] # Missing /\ repo[m] = Missing /\ ~covers(m)
    \/ ~module_api_ok(resolve_module(ws, m))
    \/ /\ \A reg \in {ws[Registry], repo[Registry]} : Named(reg, Stem[m]) = {}
       /\ collision_sources(m) # {}

\* Append an entry for a module that exists.
Register(m, described) ==
    /\ Called
    /\ design_context /\ ~RegisterRefused(m) /\ ~deep_access_policy("modify")
    /\ grants' = RegistryGrant
    /\ \E w \in {RegistryInWs} :
        \/ /\ w[Registry] = Garbage \/ Named(w[Registry], Stem[m]) # {}
           /\ ws' = w /\ UNCHANGED <<told, deep>>
        \/ /\ w[Registry] # Garbage /\ Named(w[Registry], Stem[m]) = {}
           /\ ws' = [w EXCEPT ![Registry] = Append(@, Entry(m, described \/ DescribedBefore(m)))]
           /\ told' = [told EXCEPT ![Registry] = ws'[Registry]]
           /\ deep' = TRUE
    /\ UNCHANGED <<wsDir, design>>

\* Describe an entry; the resulting entry has to be a valid one.
Update(n) ==
    /\ Called
    /\ design_context /\ is_allowed(seat, Registry, "modify") /\ ~deep_access_policy("modify")
    /\ Named(resolve_registry(ws), n) # {}
    /\ grants' = RegistryGrant
    /\ \E w \in {RegistryInWs} :
        \/ ~is_valid(w[Registry], w, n) /\ ws' = w /\ UNCHANGED <<told, deep>>
        \/ /\ is_valid(w[Registry], w, n)
           /\ ws' = [w EXCEPT ![Registry][Min(Named(w[Registry], n))].desc = TRUE]
           /\ told' = [told EXCEPT ![Registry] = ws'[Registry]]
           /\ deep' = TRUE
    /\ UNCHANGED <<wsDir, design>>

\* Drop every entry of the name and remove the module of the first; both are
\* granted, without overwriting a copy, so that the removal is patch-visible.
Unregister(n) ==
    /\ Called
    /\ design_context /\ is_allowed(seat, Registry, "modify") /\ ~deep_access_policy("modify")
    /\ Named(resolve_registry(ws), n) # {}
    /\ \E reg \in {resolve_registry(ws)} : \E m \in {Get(reg, n).module} :
        /\ grants' = grants \cup {<<Registry, "modify">>}
                            \cup (IF repo[m] = Missing THEN {} ELSE {<<m, "modify">>})
        /\ ws' = [ws EXCEPT ![Registry] = Without(reg, n), ![m] = Missing]
        /\ told' = [told EXCEPT ![Registry] = ws'[Registry],
                                ![m] = IF repo[m] = Missing THEN Kept ELSE Removed]
        /\ wsDir' = (wsDir \/ repo[m] # Missing)
    /\ deep' = TRUE
    /\ UNCHANGED design

ShallowCall(prompt) ==
    /\ Called
    /\ design_context /\ ~shallow_op_error(prompt)
    /\ UNCHANGED <<ws, wsDir, grants, deep, told>>

Select(n) ==
    /\ ShallowCall(FALSE) /\ Selectable(n)
    /\ design' = [design EXCEPT !.tools = @ \cup {n}]

Deselect(n) ==
    /\ ShallowCall(FALSE) /\ n \in design.tools
    /\ design' = [design EXCEPT !.tools = @ \ {n}]

SetPrompt ==
    /\ ShallowCall(TRUE)
    /\ design' = [design EXCEPT !.prompt = "own"]

\* set_config of the component slot, or of a declared dynamic key.
SetTools(ns) ==
    /\ ShallowCall(FALSE) /\ \A n \in ns : Selectable(n)
    /\ design' = [design EXCEPT !.tools = ns]

SetKey(k) ==
    /\ ShallowCall(FALSE) /\ load_dynamic_specs(ws)[k] # Missing
    /\ design' = [design EXCEPT !.keys = @ \cup {k}]

WriteExt(specs) ==
    /\ authorize_write(SchemaExt)
    /\ ws' = [ws EXCEPT ![SchemaExt] = specs] /\ told' = [told EXCEPT ![SchemaExt] = specs]
    /\ deep' = TRUE
    /\ UNCHANGED <<wsDir, grants>>

\* Declare a dynamic key, with a first enum value and maybe an initial value.
AddKey(k, consumer, valued) ==
    /\ Called /\ design_context /\ ~shallow_op_error(FALSE)
    /\ \E specs \in {load_dynamic_specs(ws)} :
        /\ specs[k] = Missing
        /\ Cardinality({j \in Keys : specs[j] # Missing}) < MaxKeys
        /\ Selectable(consumer)
        /\ WriteExt([specs EXCEPT ![k] = <<consumer, 1>>])
    /\ design' = IF valued THEN [design EXCEPT !.keys = @ \cup {k}] ELSE design

AddValue(k) ==
    /\ Called /\ design_context /\ ~shallow_op_error(FALSE)
    /\ \E specs \in {load_dynamic_specs(ws)} :
        /\ specs[k] # Missing /\ specs[k][2] < MaxEnum
        /\ WriteExt([specs EXCEPT ![k] = <<@[1], @[2] + 1>>])
    /\ UNCHANGED design

Call ==
    \/ \E r \in Requests : RequestAccess(r[1], r[2], r[3])
    \/ \E e \in Edits : EditSource(e[1], e[2])
    \/ \E m \in Modules, d \in BOOLEAN : Register(m, d)
    \/ \E n \in Names : Update(n) \/ Unregister(n) \/ Select(n) \/ Deselect(n)
    \/ SetPrompt
    \/ \E ns \in SUBSET Names : SetTools(ns)
    \/ \E k \in Keys : SetKey(k) \/ AddValue(k)
    \/ \E k \in Keys, n \in Names, v \in BOOLEAN : AddKey(k, n, v)

-----------------------------------------------------------------------------
(* The end of a session.                                                   *)

\* The loud report of edits that reach no commit.
warn_dropped(rejected) ==
    (rejected \/ ~has_deep_write) /\ build_patch_from_workspace # Empty

Exhausted(p) == p = last \/ attempt >= RetryK

\* Mutant of RetryRun: the attempts are not counted.
RetryRun_NoCount ==
    /\ phase = "open"
    /\ \E p \in {SessionPatch} :
        /\ p # Empty /\ ~check_patch(p) /\ ~Exhausted(p)
        /\ last' = p
    /\ tool_calls' = 0
    /\ UNCHANGED <<seat, arm, ws, wsDir, grants, design, deep, patch, attempt, told, disk, phase,
                   sessions, exit, warned, evolved, offered>>

\* The chat run is over and its patch was refused: say why and run again.
RetryRun ==
    /\ phase = "open"
    /\ \E p \in {SessionPatch} :
        /\ p # Empty /\ ~check_patch(p) /\ ~Exhausted(p)
        /\ last' = p
    /\ attempt' = attempt + 1
    /\ tool_calls' = 0
    /\ UNCHANGED <<seat, arm, ws, wsDir, grants, design, deep, patch, told, disk, phase,
                   sessions, exit, warned, evolved, offered>>

\* The session returns its patch, or none; end_session purges the workspace.
EndSession ==
    /\ phase = "open"
    /\ \E p \in {SessionPatch} : \E ok \in {p = Empty \/ check_patch(p)} :
        /\ ok \/ Exhausted(p)
        /\ patch' = IF ok THEN p ELSE Empty
        /\ exit' = IF ~ok THEN "exhausted" ELSE IF p = Empty THEN "empty" ELSE "patched"
        /\ warned' = warn_dropped(~ok)
    /\ offered' = {n \in Names : list_selectable(n)}
    /\ ws' = Bare /\ wsDir' = FALSE /\ grants' = {}
    /\ tool_calls' = 0 /\ attempt' = 0 /\ last' = Empty
    /\ phase' = "closing"
    /\ UNCHANGED <<seat, arm, design, deep, told, disk, sessions, evolved>>

\* A self design is saved as the session left it, before the patch is applied.
SaveDraft ==
    /\ phase = "closing" /\ seat = "self_improve"
    /\ saved' = design /\ phase' = "drafted"
    /\ evolved' = (evolved \/ design.prompt = "own")
    /\ UNCHANGED <<seat, arm, session, repo, forensic, sessions, exit, warned, offered>>

Apply ==
    /\ phase = IF seat = "self_improve" THEN "drafted" ELSE "closing"
    /\ repo' = Patched(patch) /\ phase' = "applied"
    /\ UNCHANGED <<seat, arm, session, saved, forensic, sessions, exit, warned, evolved, offered>>

\* The task design is healed and persisted after every patch outcome, a self
\* design only after a commit; evaluate has no design.
Persist ==
    /\ phase = "applied"
    /\ saved' = CASE seat = "plan" -> heal(design)
                  [] seat = "self_improve" /\ exit = "patched" -> heal(saved)
                  [] OTHER -> saved
    /\ phase' = "idle" /\ design' = initial_config /\ patch' = Empty /\ deep' = FALSE
    /\ told' = [f \in Files |-> Kept] /\ offered' = {}
    /\ UNCHANGED <<seat, arm, ws, wsDir, grants, tool_calls, attempt, last, repo, forensic,
                   sessions, exit, warned, evolved>>

Framework == Startup \/ SetAside \/ SaveRepaired \/ RetryRun \/ EndSession
             \/ SaveDraft \/ Apply \/ Persist

SurfaceNext == Framework \/ Crash \/ OpenSession \/ Call

SurfaceSpec == SurfaceInit /\ [][SurfaceNext]_surfaceVars

\* A chat run ends by itself (its tool_calls are bounded), and the framework code
\* after it does not wait for anybody.
SurfaceFairSpec == SurfaceSpec /\ WF_surfaceVars(Framework)

-----------------------------------------------------------------------------
(* Properties.                                                             *)

\* Types of the session's state.
SurfaceTypeOK ==
    /\ seat \in Seats /\ arm \in Arms
    /\ DOMAIN repo = Files /\ DOMAIN ws = Files /\ DOMAIN told = Files
    /\ \A f \in Files :
          /\ repo[f] \in TextOf(f) \/ (f \in Modules /\ repo[f] = Missing)
          /\ ws[f] \in TextOf(f) \cup {Missing} /\ told[f] \in TextOf(f) \cup {Kept, Removed, Skipped}
    /\ grants \subseteq ((Files \cup {Comp}) \X {"view", "modify"})
    /\ design \in Designs /\ saved \in Designs \cup {Missing}
    /\ phase \in {"start", "repair", "idle", "open", "closing", "drafted", "applied", "refused"}
    /\ tool_calls \in Nat /\ attempt \in 0 .. RetryK /\ sessions \in 0 .. MaxSessions

\* What a commit leaves of a file of which a call said t.
Final(t) == IF t \in {Removed, Skipped} THEN Missing ELSE t

\* A session whose patch was not refused commits exactly what the deep tools
\* said they wrote: every file keeps the text of its last successful call,
\* through default re-requests of the same path, retries and the purge.  A
\* module left out of a directory granted after one of its files is deleted.
EditsLand ==
    [][phase # "applied" /\ phase' = "applied" /\ exit # "exhausted" =>
        \A f \in Files : told[f] # Kept => repo'[f] = Final(told[f])]_surfaceVars

\* Nothing else is committed: a file that a commit changes was written, and one
\* that it deletes was removed, by a tool call of that very session, whatever an
\* earlier, crashed session left in the workspace.  One kind of deletion is no
\* tool's intent: of a module that an if_absent copy skipped.
OnlyToldContent ==
    [][\A f \in Files : repo'[f] # repo[f] =>
        told[f] # Kept /\ repo'[f] = Final(told[f])]_surfaceVars

\* The committed tree never changes outside the seat's write roots, although
\* the role may read there and view grants copy those files next to the others.
SeatBoundary ==
    [][/\ repo'[Foreign] = repo[Foreign]
       /\ seat = "evaluate" => repo' = repo
       /\ arm \in {"deny_deep", "deep_view_only", "shallow_prompt_only"} => repo' = repo]_surfaceVars

\* What list_components showed as selectable when the session ended, from its
\* workspace view, is what the committed tree delivers once the patch is in.
OfferedIsDelivered == phase = "applied" /\ exit = "patched" =>
    \A n \in offered : Delivers(repo, n)

\* No commit makes a component shadow an always-on tool in the flat toolset
\* directory, whether it was registered or the registry was edited by hand.
NoShadow == \E set \in {assemble_tools_dir(repo, Names)} :
    \A n \in always_on_dirs : set[n] = "always_on"

\* The startup checks never refuse a tree that sessions alone have produced.
StartupNeverRefused == phase # "refused"

\* Between sessions a design names only components the committed tree delivers:
\* the task design after every session (a crash between commit and persist
\* leaves it to the next one), a role's own after a commit or a startup.
DesignDelivers ==
    phase = "idle" /\ exit \in (IF seat = "plan" THEN {"empty", "exhausted", "patched"}
                                                ELSE {"fresh", "patched"}) =>
        \A n \in saved.tools : Delivers(repo, n)

\* Edits that a session wrote and that its refused patch does not carry to any
\* commit are reported.
NoSilentDrop ==
    phase = "applied" /\ exit = "exhausted" /\ (\E f \in Files : told[f] # Kept) => warned

\* A prompt a role gave itself and that was saved survives every crash of the
\* startup repair, in the design or in the file set aside.
EvolvedPromptKept ==
    evolved => forensic \/ (saved # Missing /\ saved.prompt = "own")

\* A session ends: the retry loop stops on a repeated or a last patch.
SessionEnds == phase = "open" ~> phase # "open"

\* What sessions commit stays usable: what is offered is delivered, nothing
\* shadows a frozen tool, startup accepts the tree, designs resolve, and neither
\* a refused edit nor an evolved prompt is lost in silence (the parts above).
ComponentsSound ==
    /\ SurfaceTypeOK /\ OfferedIsDelivered /\ NoShadow /\ StartupNeverRefused
    /\ DesignDelivers /\ NoSilentDrop /\ EvolvedPromptKept

\* A session's commit carries its edits, all of them and nothing else but the
\* deletion of modules that a skipped directory copy left out, and only where
\* its seat may write (access.py, patch.py, frozen.py).
EditsSound == EditsLand /\ OnlyToldContent /\ SeatBoundary
=============================================================================
