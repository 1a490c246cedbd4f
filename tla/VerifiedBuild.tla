------------------------------- MODULE VerifiedBuild -------------------------------
(***************************************************************************)
(* forge build --level l3: plan, prove, compile, stage and publish a       *)
(* verified bundle, and forge verify-build (forge/src/verified_build.rs,   *)
(* verified_build/composition.rs).                                         *)
(*                                                                         *)
(* Several builds run at once, for one destination, while the author edits *)
(* the source and the direct-Verus shell and the installed toolchain is    *)
(* upgraded; a build may die at any step.  A published bundle may later be *)
(* damaged by files of other bundles.  Digests are injective, so a digest  *)
(* is the thing it is a digest of.  The toolchain has two parts, which are *)
(* upgraded apart: the provers (forge, Verus, z3, rustup and rustc with    *)
(* its libraries), whose digests are taken once, and the link inputs       *)
(* (Cargo.lock and the four libraries of the Verus installation), which    *)
(* are read again when a bundle is staged.  Upgrades never come back to an *)
(* older version, and a source is proved alike by every version.           *)
(***************************************************************************)
EXTENDS Naturals, Sequences, FiniteSets

CONSTANTS Builtins,     \* combinators, proof schemes and the frozen builtins
          Sources,      \* the texts the source path may hold
          Program,      \* Program[s]: what s parses to, None when a gate of the
                        \* front end (parser, spec validator, effects) refuses it
          Shells,       \* the texts the shell path may hold
          InitialShell, \* the one it holds at first
          Escapes,      \* the shells that analyze_shell refuses
          Requests,     \* [link, compose: sets of names, target]
          Builders, MaxEdits, MaxUpgrades, MaxDamage, None

VARIABLES source, shell,          \* the file system the builds read
          tools,                  \* what is installed, [provers, links]
          edits,                  \* edits of source and shell so far
          build,                  \* the build each process is in
          bundle,                 \* the files the destination holds
          original, damage,       \* the bundle as published; damaged so often
          report                  \* the last verify-build

(* No directory there. *)
Nothing == <<>>

(* A record, or a directory, with one more field. *)
Having(r, field, value) == [f \in DOMAIN r \cup {field} |-> IF f = field THEN value ELSE r[f]]

files   == <<source, shell, tools, edits>>
visible == <<bundle, original, damage, report>>
vbVars  == <<files, build, visible>>

(***************************************************************************)
(* The two call-closure analyses (forge/src/closure.rs).  A program is a   *)
(* function from item names to items.  An item carries the calls of each   *)
(* of its parts, a call being a pair <<form, name>>:                       *)
(*   <<"named", f>>     f(..)         <<"method", m>>   x.m(..)            *)
(*   <<"path", T>>      T::f(..)      <<"indirect", m>> (expr)(..)         *)
(* `classify' labels every item with its assurance scope for forge check;  *)
(* `verified_closure' is the fail-closed closure of an L3 build.           *)
(***************************************************************************)

(* The worklist of the walks, by rounds: what is reached from `start` along *)
(* succ, within `all`.  There are rounds enough for a chain of all of them. *)
Round(reached, succ, all) == reached \cup {m \in all : \E n \in reached : m \in succ[n]}
Walk(start, succ, all) ==
    LET step[i \in 0..Cardinality(all)] ==
          IF i = 0 THEN start \cap all ELSE Round(step[i-1], succ, all)
    IN  step
Reach(start, succ, all) == Walk(start, succ, all)[Cardinality(all)]

Nodes(p) == {n \in DOMAIN p : p[n].kind \in {"fn", "spec"}}

(* collect_in_file_calls: the body only; a name the file does not define is *)
(* dropped, a method counts as a call of the function of its name.          *)
InFileCalls(p, n) ==
    {c[2] : c \in {d \in p[n].body : d[1] # "indirect"}} \cap DOMAIN p

InFileGraph(p) == [n \in Nodes(p) |-> InFileCalls(p, n)]

IsCrossing(p, n) == p[n].kind = "fn" /\ (p[n].boundary \/ p[n].slag)

(* reachable_fns *)
ReachableFns(p, start) ==
    {n \in Reach({start}, InFileGraph(p), Nodes(p)) \ {start} :
        p[n].kind = "fn"}

(* reach_crossing: the start counts as well. *)
ReachCrossing(p, start) ==
    {n \in Reach({start}, InFileGraph(p), Nodes(p)) : IsCrossing(p, n)}

(* classify *)
Classify(p) ==
    [n \in Nodes(p) |-> IF ReachCrossing(p, n) = {} THEN "end_to_end" ELSE "to_boundary"]

(***************************************************************************)
(* The closure of an L3 build.                                             *)
(***************************************************************************)

(* is_verified_builtin: the variants of the file's enums are constructors. *)
IsBuiltin(p, name) ==
    name \in Builtins \cup UNION {p[n].variants : n \in DOMAIN p}

(* is_verified_qualified_root *)
IsQualifiedRoot(p, root) ==
    root \in Builtins \cup {n \in DOMAIN p : p[n].kind = "adt"}

(* Mutant: the calls in the contract are forgotten. *)
VerifiedCallsOfBody(item) == {c \in item.body : c[1] # "method"}

(* collect_verified_calls: requires, ensures, decreases and the body; a     *)
(* method is no free call.                                                  *)
VerifiedCalls(item) ==
    {c \in item.req \cup item.ens \cup item.dec \cup item.body : c[1] # "method"}

Resolved(p, c) ==
    \/ c[1] = "named" /\ (c[2] \in Nodes(p) \/ IsBuiltin(p, c[2]))
    \/ c[1] = "path" /\ IsQualifiedRoot(p, c[2])

CalleesOf(p, n) == {c[2] : c \in {d \in VerifiedCalls(p[n]) : d[1] = "named"}} \cap Nodes(p)

CallGraph(p) == [n \in Nodes(p) |-> CalleesOf(p, n)]

(* verified_closure: an unknown export, a spec fn as an export, a call that *)
(* resolves to nothing and a call through a value are all refused.          *)
VerifiedClosure(p, exports) ==
    LET seen == Reach(exports, CallGraph(p), Nodes(p))
    IN  [ok |-> /\ \A e \in exports : e \in Nodes(p) /\ p[e].kind = "fn"
                /\ \A n \in seen : \A c \in VerifiedCalls(p[n]) : Resolved(p, c),
         roots     |-> exports,
         functions |-> {n \in seen : p[n].kind = "fn"},
         specs     |-> {n \in seen : p[n].kind = "spec"},
         edges     |-> {e \in seen \X seen : e[2] \in CalleesOf(p, e[1])}]

(***************************************************************************)
(* Requests and what a build makes of them.                                *)
(***************************************************************************)
Idle == [pc |-> "idle"]

Roots(req)    == req.link \cup req.compose
IsRich(req)   == req.compose # {}
Ambient       == {"read", "write", "net", "term", "time", "rand"}

(***************************************************************************)
(* Planning: pure functions of the source that was read.                   *)
(***************************************************************************)

(* strict_source_checks; an open proof hole anywhere in the file counts. *)
Strict(p, closure, target) ==
    /\ \A f \in closure.functions :
          /\ ~p[f].slag /\ ~p[f].boundary /\ ~p[f].holes
          /\ p[f].fx \cap {"diverge", "panic"} = {}
          /\ target = "kernel" => p[f].fx \cap Ambient = {}
    /\ \A n \in DOMAIN p : p[n].kind = "forge" => ~p[n].holes

Wrapped(p, f) == p[f].guard # "true"

(* plan_exports: scalar ABI, and a precondition other than `true' must be *)
(* executable, for its total wrapper tests it.                            *)
PlanExports(p, names) ==
    [ok   |-> \A f \in names : p[f].scalar /\ p[f].guard # "spec",
     rows |-> {[name |-> f, wrapped |-> Wrapped(p, f)] : f \in names}]

(* closure_program: the closure and the types (of the file, not only those *)
(* that the closure names).                                                *)
ClosureProgram(p, closure) ==
    [n \in closure.functions \cup closure.specs \cup {m \in DOMAIN p : p[m].kind = "adt"}
        |-> p[n]]

(* lower_l3_library and combine_sources: the text that Verus compiles. *)
Emit(p, closure, req, text) ==
    [lowered |-> ClosureProgram(p, closure), public |-> req.link,
     crate |-> req.compose, shell |-> text, target |-> req.target]

Readable == {s \in Sources : Program[s] # None}

(* A file has finitely many items. *)
ASSUME BuildAssumption ==
    /\ InitialShell \in Shells /\ MaxUpgrades \in Nat
    /\ \A s \in Readable : IsFiniteSet(DOMAIN Program[s])

(* The verified closure of each source under each request, computed once. *)
Closures == [x \in Readable \X Requests |-> VerifiedClosure(Program[x[1]], Roots(x[2]))]
ClosureOf(s, req) == Closures[<<s, req>>]

(* expected_tv_inventory *)
ExpectedTv(p, closure, req) ==
    {<<phase, f>> : phase \in {"contract", "exec", "body"}, f \in closure.functions}
      \cup {<<"guard", f>> : f \in {e \in req.link : Wrapped(p, e)}}

(* make_plan and attach_composition_plan. *)
MakePlan(s, req, text) ==
    LET p == Program[s]
        closure == ClosureOf(s, req)
    IN  [source |-> s, req |-> req, exports |-> PlanExports(p, req.link).rows,
         nodes |-> closure.functions \cup closure.specs, edges |-> closure.edges,
         dropped |-> DOMAIN p \ DOMAIN ClosureProgram(p, closure),
         tv |-> ExpectedTv(p, closure, req),
         emission |-> Emit(p, closure, req, text)]

(* The front end, then the closure gates of build_file and assemble. *)
Admissible(s, req) ==
    LET p == Program[s]
        closure == ClosureOf(s, req)
    IN  /\ closure.ok
        /\ Strict(p, closure, req.target)
        /\ PlanExports(p, req.link).ok

(***************************************************************************)
(* Evidence.                                                               *)
(***************************************************************************)

(* check_file on each text: the certificate of every item.  The scope of a *)
(* certificate comes from the other closure analysis.                      *)
CheckFile ==
    [s \in Readable |->
        LET p == Program[s]
        IN  [n \in Nodes(p) |->
                [level |-> p[n].level, scope |-> Classify(p)[n],
                 plain |-> ~p[n].slag /\ ~p[n].boundary]]]

(* reject_certificates.  A rejected or degraded certificate, and one with  *)
(* an open obligation, has a level below L3 here.                          *)
CertificatesOk(certs, closure) ==
    \A n \in closure.functions \cup closure.specs :
        /\ n \in DOMAIN certs
        /\ certs[n].level >= 3
        /\ certs[n].plain
        /\ certs[n].scope = "end_to_end"

(* assurance_aggregate: the minimum over the closure, capped at L3. *)
Aggregate(certs, closure) ==
    [members |-> {<<n, certs[n].level>> : n \in closure.functions \cup closure.specs},
     headline |-> 3]

(* collect_translation_validation: the rows whose label is reachable, and  *)
(* one row per guard of a wrapped link export.                             *)
TvRows(s, req, closure) ==
    LET p == Program[s]
    IN  {<<phase, f, p[f].tv[phase]>> :
            phase \in {"contract", "exec", "body"}, f \in closure.functions}
        \cup {<<"guard", f, p[f].tv["guard"]>> : f \in {e \in req.link : Wrapped(p, e)}}

(* complete_rich_composition_tv: in a composition a row that was skipped   *)
(* for its rich types is completed by the L3 certificate of its function.  *)
Completed(rows) ==
    {IF r[3] = "rich" /\ r[1] # "guard" THEN <<r[1], r[2], "faithful">> ELSE r : r \in rows}

CollectTv(s, req, closure) ==
    LET rows == {r \in TvRows(s, req, closure) : r[3] # "absent"}
    IN  IF IsRich(req) THEN Completed(rows) ELSE rows

(* reject_translation_validation: all faithful, and none is missing. *)
TvOk(rows, expected) ==
    /\ \A r \in rows : r[3] = "faithful"
    /\ {<<r[1], r[2]>> : r \in rows} = expected

(***************************************************************************)
(* Bundles.                                                                *)
(***************************************************************************)

(* Verus compiles the emission with the tools that are installed then. *)
Compiled(emission, version) == [text |-> emission, tools |-> version]

(* The receipt binds every file of the stage and the aggregate. *)
Receipt(parts, aggregate) == [files |-> parts, aggregate |-> aggregate]
Sealed(parts, aggregate) ==
    [input |-> parts.input, shell |-> parts.shell, plan |-> parts.plan,
     emission |-> parts.emission, certs |-> parts.certs, tv |-> parts.tv,
     tools |-> parts.tools, deps |-> parts.deps, artifact |-> parts.artifact,
     receipt |-> Receipt(parts, aggregate)]

(* What a build has staged: the plan is of the first reading of the shell,  *)
(* the text that is compiled of the second, the certificates and TV rows    *)
(* are of the text that was checked, the copied link inputs have the        *)
(* digests that were recorded.                                              *)
Staged(w) ==
    LET closure == ClosureOf(w.src, w.req)
        fresh   == MakePlan(w.src, w.req, w.text).emission
        certs   == CheckFile[w.checked]
        parts   == [input |-> w.src, shell |-> w.text,
                    plan |-> MakePlan(w.src, w.req, w.planned), emission |-> fresh,
                    certs |-> certs, tv |-> CollectTv(w.checked, w.req, closure),
                    tools |-> w.tools, deps |-> w.tools.links,
                    artifact |-> Compiled(fresh, w.linked)]
    IN  Sealed(parts, Aggregate(certs, closure))

FileNames == {"input", "shell", "plan", "emission", "certs", "tv", "tools", "deps", "artifact"}

(* Mutant: only the files of the inventory are looked at, an unbound file  *)
(* or a bound one with other bytes passes.                                 *)
IntactByName(b) == FileNames \subseteq DOMAIN b

(* validate_bundle, the receipt and its inventory: nothing is missing,     *)
(* nothing is added, every file has the bytes that were bound.             *)
Intact(b) ==
    /\ "receipt" \in DOMAIN b
    /\ DOMAIN b = FileNames \cup {"receipt"}
    /\ \A f \in FileNames : b[f] = b.receipt.files[f]

(* validate_bundle, the plan is the one the bound input makes. *)
PlanBound(b) ==
    /\ b.input \in Readable
    /\ Admissible(b.input, b.plan.req)
    /\ b.plan = MakePlan(b.input, b.plan.req, b.shell)
    /\ b.emission = b.plan.emission

(* validate_bundle, certificates, aggregate and TV are complete for it. *)
EvidenceBound(b) ==
    LET p == Program[b.input]
        closure == ClosureOf(b.input, b.plan.req)
    IN  /\ CertificatesOk(b.certs, closure)
        /\ b.receipt.aggregate = Aggregate(b.certs, closure)
        /\ TvOk(b.tv, ExpectedTv(p, closure, b.plan.req))

(* validate_bundle, Verus compiled the bound source, and the copies of the *)
(* link inputs have the digests that the toolchain evidence records.       *)
ToolsBound(b) == b.artifact.text = b.emission /\ b.deps = b.tools.links

Valid(b) == Intact(b) /\ PlanBound(b) /\ EvidenceBound(b) /\ ToolsBound(b)

(* validate_bundle with --replay: the provers that are installed now are   *)
(* the recorded ones, and what is installed now makes the same artifact.   *)
Replays(b) == b.tools.provers = tools.provers /\ b.artifact = Compiled(b.emission, tools)

(***************************************************************************)
(* The build.  Each action ends where the code next reads a file that      *)
(* others may change, or makes something visible.                          *)
(***************************************************************************)
Enter(b, pc)  == build' = [build EXCEPT ![b].pc = pc]
Advance(b, pc, field, value) ==
    build' = [build EXCEPT ![b] = Having([@ EXCEPT !.pc = pc], field, value)]
Stop(b)       == build' = [build EXCEPT ![b] = Idle]
Work(b, pc)   == build[b].pc = pc

(* build_file: read the source once; front end; names and exports. *)
ReadSource(b, req) ==
    /\ Work(b, "idle") /\ report = "none" /\ damage = 0
    /\ \/ /\ source \in Readable
          /\ Roots(req) # {}
          /\ req.link \cap req.compose = {}
          /\ build' = [build EXCEPT ![b] = [pc |-> "read", req |-> req, src |-> source]]
       \/ /\ source \notin Readable \/ Roots(req) = {} \/ req.link \cap req.compose # {}
          /\ UNCHANGED build
    /\ UNCHANGED <<files, visible>>

(* An existing destination is refused; then the closure gates of a plain   *)
(* build.  A composition runs them when it assembles.                      *)
ProbeDestination(b) ==
    /\ Work(b, "read")
    /\ IF bundle = Nothing /\ (IsRich(build[b].req) \/ Admissible(build[b].src, build[b].req))
       THEN Enter(b, "probed") ELSE Stop(b)
    /\ UNCHANGED <<files, visible>>

(* collect_toolchain *)
CollectToolchain(b) ==
    /\ Work(b, "probed")
    /\ Advance(b, "tools", "tools", tools)
    /\ UNCHANGED <<files, visible>>

(* load_shell_paths and analyze_shell, of a composition. *)
ShellText(req) == IF IsRich(req) THEN shell ELSE None
ShellOk(req)   == IsRich(req) => shell \notin Escapes

(* assemble and make_plan: the plan is frozen. *)
Plan(b) ==
    /\ Work(b, "tools")
    /\ LET w == build[b]
       IN  IF ShellOk(w.req) /\ Admissible(w.src, w.req)
           THEN Advance(b, "planned", "planned", ShellText(w.req))
           ELSE Stop(b)
    /\ UNCHANGED <<files, visible>>

(* A fresh emission after the plan is frozen; a composition reads its shell *)
(* again.  A difference is refused.  The source bytes that were parsed are  *)
(* copied to a private file.                                                *)
Reassemble(b) ==
    /\ Work(b, "planned")
    /\ LET w == build[b]
           text == ShellText(w.req)
       IN  IF ShellOk(w.req) /\ MakePlan(w.src, w.req, text).emission
                                  = MakePlan(w.src, w.req, w.planned).emission
           THEN Advance(b, "frozen", "text", text)
           ELSE Stop(b)
    /\ UNCHANGED <<files, visible>>

(* Mutant: the caller's path is opened again. *)
FrozenReopened(b) == source

(* The text that check_file and the TV passes read. *)
Frozen(b) == build[b].src

(* check_file, collect_translation_validation and their verdicts. *)
Prove(b) ==
    /\ Work(b, "frozen")
    /\ LET w == build[b]
           p == Program[w.src]
           closure == ClosureOf(w.src, w.req)
       IN  IF /\ Frozen(b) \in Readable
              /\ CertificatesOk(CheckFile[Frozen(b)], closure)
              /\ TvOk(CollectTv(Frozen(b), w.req, closure), ExpectedTv(p, closure, w.req))
           THEN Advance(b, "proved", "checked", Frozen(b))
           ELSE Stop(b)
    /\ UNCHANGED <<files, visible>>

(* compile_verus_source; whole-crate Verus may fail. *)
Compile(b) ==
    /\ Work(b, "proved")
    /\ \/ Advance(b, "compiled", "linked", tools)
       \/ Stop(b)
    /\ UNCHANGED <<files, visible>>

(* Mutant: the link inputs are not read again. *)
StageUnread(b) ==
    /\ Work(b, "compiled")
    /\ IF Valid(Staged(build[b])) THEN Enter(b, "staged") ELSE Stop(b)
    /\ UNCHANGED <<files, visible>>

(* stage_and_publish up to the rename: Cargo.lock and the link dependencies *)
(* are read again and compared, the provers are not; the stage, a sibling   *)
(* directory, is synced and validated like any bundle.                      *)
Stage(b) ==
    /\ Work(b, "compiled")
    /\ IF build[b].tools.links = tools.links /\ Valid(Staged(build[b]))
       THEN Enter(b, "staged") ELSE Stop(b)
    /\ UNCHANGED <<files, visible>>

(* Mutant: the rename replaces what it finds. *)
PublishOver(b) ==
    /\ Work(b, "staged")
    /\ bundle' = Staged(build[b]) /\ original' = Staged(build[b])
    /\ Stop(b)
    /\ UNCHANGED <<files, damage, report>>

(* fs::rename does not replace a directory that is not empty; the stage is *)
(* dropped then.                                                           *)
Publish(b) ==
    /\ Work(b, "staged")
    /\ IF bundle = Nothing
       THEN bundle' = Staged(build[b]) /\ original' = Staged(build[b])
       ELSE UNCHANGED <<bundle, original>>
    /\ Stop(b)
    /\ UNCHANGED <<files, damage, report>>

(* The process dies: a stage directory may stay behind, under its own name. *)
Die(b) == ~Work(b, "idle") /\ Stop(b) /\ UNCHANGED <<files, visible>>

(***************************************************************************)
(* The environment, and verify-build.                                      *)
(***************************************************************************)
(* Once builds are over nobody reads the source or the shell any more. *)
Edit ==
    /\ edits < MaxEdits /\ report = "none" /\ damage = 0
    /\ \/ source' \in Sources \ {source} /\ UNCHANGED shell
       \/ shell' \in Shells \ {shell} /\ UNCHANGED source
    /\ edits' = edits + 1
    /\ UNCHANGED <<tools, build, visible>>

Versions ==
    {v \in [provers : 0..MaxUpgrades, links : 0..MaxUpgrades] : v.provers + v.links <= MaxUpgrades}

Upgrade ==
    /\ \/ tools' = [tools EXCEPT !.provers = @ + 1]
       \/ tools' = [tools EXCEPT !.links = @ + 1]
    /\ tools' \in Versions
    /\ UNCHANGED <<source, shell, edits, build, visible>>

(* A bundle that one build makes of one source and one shell.  It records  *)
(* the tools it found when it began; the provers may be newer by the time  *)
(* it compiles, the link inputs may not.                                   *)
BundleOf(s, req, text, recorded, compiling) ==
    Staged([src |-> s, req |-> req, planned |-> text, text |-> text, checked |-> s,
            tools |-> recorded, linked |-> compiling])

NoOlder(compiling, recorded) ==
    compiling.links = recorded.links /\ recorded.provers <= compiling.provers

MadeBundles ==
    {BundleOf(x[1], x[2], IF IsRich(x[2]) THEN x[3] ELSE None, x[4], x[5]) :
        x \in {y \in Readable \X Requests \X Shells \X Versions \X Versions :
                  Admissible(y[1], y[2]) /\ NoOlder(y[5], y[4])}}

WholeBundles == {b \in MadeBundles : Valid(b)}

Whole(b) == b \in WholeBundles

AllIdle == \A b \in Builders : Work(b, "idle")

(* A file is lost, added, or overwritten by its namesake in another bundle. *)
(* Builds no longer matter to the bundle then: they are over.               *)
Damage ==
    /\ bundle # Nothing /\ damage < MaxDamage /\ AllIdle
    /\ \/ \E f \in FileNames : f \in DOMAIN bundle
             /\ bundle' = [g \in DOMAIN bundle \ {f} |-> bundle[g]]
       \/ bundle' = Having(bundle, "stray", None)
       \/ \E other \in WholeBundles : \E f \in DOMAIN bundle \ {"stray"} :
             bundle' = [bundle EXCEPT ![f] = other[f]]
    /\ damage' = damage + 1
    /\ report' = "none"
    /\ UNCHANGED <<files, build, original>>

VerifyBuild(replay) ==
    /\ bundle # Nothing /\ AllIdle
    /\ report' = IF Valid(bundle) /\ (replay => Replays(bundle))
                 THEN IF replay THEN "replayed" ELSE "valid"
                 ELSE "refused"
    /\ UNCHANGED <<files, build, bundle, original, damage>>

VbInit ==
    /\ source \in Sources /\ shell = InitialShell
    /\ tools = [provers |-> 0, links |-> 0] /\ edits = 0
    /\ build = [b \in Builders |-> Idle]
    /\ bundle = Nothing /\ original = Nothing /\ damage = 0 /\ report = "none"

VbNext ==
    \/ \E b \in Builders :
          \/ \E req \in Requests : ReadSource(b, req)
          \/ ProbeDestination(b) \/ CollectToolchain(b) \/ Plan(b) \/ Reassemble(b)
          \/ Prove(b) \/ Compile(b) \/ Stage(b) \/ Publish(b) \/ Die(b)
    \/ Edit \/ Upgrade \/ Damage
    \/ \E replay \in BOOLEAN : VerifyBuild(replay)

(***************************************************************************)
(* Properties.                                                             *)
(***************************************************************************)

(* What the destination shows is what one build makes of one source, one   *)
(* shell and one set of link inputs, whatever the author edited, upgraded  *)
(* or interrupted while it was built.  Only the provers are not held fast: *)
(* stage_and_publish does not measure Verus, z3, rustc and forge again, so *)
(* those that compiled may be newer than those that toolchain.json names.  *)
PublishedIsOneBuild == original # Nothing => Whole(original)

(* What an export reaches, through code or through a contract, however the *)
(* build looked for it: the names that every set has that contains the     *)
(* exports and, with a function, all that its parts call.                  *)
Calls(p, n, m) ==
    \E c \in UNION {p[n].req, p[n].ens, p[n].dec, p[n].body} : c[1] = "named" /\ c[2] = m
Covers(p, roots, S) ==
    /\ roots \cap Nodes(p) \subseteq S
    /\ \A n \in S, m \in Nodes(p) : Calls(p, n, m) => m \in S
ReachedFrom(p, roots) ==
    {n \in Nodes(p) : \A S \in SUBSET Nodes(p) : Covers(p, roots, S) => n \in S}

(* The same for each source under each request, computed once. *)
Reached == [x \in Readable \X Requests |-> ReachedFrom(Program[x[1]], Roots(x[2]))]

(* No function that an export reaches is slag, a boundary, holed, may      *)
(* diverge or panic; none, spec fns included, is proved below L3; none was *)
(* translated in doubt.                                                    *)
ExportsProved ==
    original # Nothing =>
        LET p == Program[original.input]
            reached == Reached[<<original.input, original.plan.req>>]
        IN  /\ \A n \in reached : p[n].level >= 3
            /\ \A f \in {n \in reached : p[n].kind = "fn"} :
                /\ ~p[f].slag /\ ~p[f].boundary /\ ~p[f].holes
                /\ p[f].fx \cap {"diverge", "panic"} = {}
                /\ \A phase \in {"contract", "exec", "body"} : p[f].tv[phase] \in {"faithful", "rich"}

(* verify-build accepts nothing but a bundle that some build made whole;   *)
(* with --replay nothing but one that the recorded tools compiled.         *)
AcceptedBundleIsWhole ==
    /\ report \in {"valid", "replayed"} => Whole(bundle)
    /\ report = "replayed" => bundle.artifact = Compiled(bundle.emission, bundle.tools)

(***************************************************************************)
(* forge kernel-image and its validation (forge/src/kernel_image.rs).      *)
(*                                                                         *)
(* One build runs at a time and may die at any step; another one starts    *)
(* afterwards.  The author edits the Thermite source and the platform      *)
(* tree (shells included) meanwhile.  Publication writes the files beside  *)
(* the image one after the other and renames the image last.  A digest is  *)
(* the thing it is a digest of; the builder is a function of the tree.     *)
(***************************************************************************)

CONSTANTS Kernels,     \* the texts the source path may hold
          Decls,       \* Decls[s]: the boundary declarations of s
          Checked,     \* Checked[s]: [items -> [level, slag]], what forge check says
          Registry,    \* frozen name -> [reachable, signature, domain, contract]
          Exports,     \* the composition exports
          Trees,       \* the contents of the platform tree
          Boots,       \* Boots[t]: does the QEMU matrix pass for t?
          MaxKernelEdits, MaxImageBuilds

VARIABLES kernel, tree, kernelEdits,   \* the author's files
          job, jobs,                   \* the build that runs; builds so far
          out,                         \* the files beside the output path
          audit                        \* validate_image, and its last verdict

authored == <<kernel, tree, kernelEdits>>
kiVars   == <<authored, job, jobs, out, audit>>

Rest == [pc |-> "rest"]

(* validate_boundaries, one declaration: exact name, reachable from source, *)
(* same signature, exactly the platform domain, same contract digest.       *)
BoundaryOk(d) ==
    /\ d.name \in DOMAIN Registry
    /\ Registry[d.name].reachable
    /\ d.signature = Registry[d.name].signature
    /\ d.fx = {Registry[d.name].domain}
    /\ d.contract = Registry[d.name].contract

(* validate_boundaries: no name twice, no reachable operation missing. *)
BoundariesOk(s) ==
    /\ \A i \in DOMAIN Decls[s] : BoundaryOk(Decls[s][i])
    /\ \A i, j \in DOMAIN Decls[s] : Decls[s][i].name = Decls[s][j].name => i = j
    /\ {n \in DOMAIN Registry : Registry[n].reachable}
          \subseteq {Decls[s][i].name : i \in DOMAIN Decls[s]}
    /\ Decls[s] # <<>>

BoundaryNames(s) == {Decls[s][i].item : i \in DOMAIN Decls[s]}

(* build_image: the certificates of one text, judged with the boundaries of *)
(* the text that was parsed.                                                *)
CertifiedOk(certs, boundaries) ==
    /\ \A n \in DOMAIN certs : ~certs[n].slag
    /\ Exports \subseteq DOMAIN certs
    /\ \A n \in Exports : certs[n].level >= 3
    /\ \A n \in DOMAIN certs \ boundaries : certs[n].level >= 3

(* The files of publish, in the order they are written; the image is last. *)
Siblings == <<"receipt.json", "efi", "pdb", "sections", "symbols", "receipt", "evidence">>

Clean == \A i \in DOMAIN Siblings : Siblings[i] \notin DOMAIN out

(***************************************************************************)
(* build_image                                                             *)
(***************************************************************************)

(* Read and parse the source; its boundaries must be the frozen ones. *)
ReadKernel ==
    /\ job = Rest /\ jobs < MaxImageBuilds
    /\ jobs' = jobs + 1
    /\ job' = IF BoundariesOk(kernel) THEN [pc |-> "parsed", src |-> kernel] ELSE Rest
    /\ UNCHANGED <<authored, out, audit>>

(* check_file opens the path again. *)
CheckKernel ==
    /\ job.pc = "parsed"
    /\ job' = IF CertifiedOk(Checked[kernel], BoundaryNames(job.src))
              THEN Having([job EXCEPT !.pc = "certified"], "certs", Checked[kernel]) ELSE Rest
    /\ UNCHANGED <<authored, jobs, out, audit>>

(* The frozen builder, then the QEMU matrix on the staged image. *)
BuildStaged ==
    /\ job.pc = "certified"
    /\ job' = IF Boots[tree] THEN Having([job EXCEPT !.pc = "booted"], "image", tree) ELSE Rest
    /\ UNCHANGED <<authored, jobs, out, audit>>

(* bind_tree, the shells and bind_evidence: the receipt. *)
BindReceipt ==
    /\ job.pc = "booted"
    /\ job' = Having([job EXCEPT !.pc = "bound"], "tree", tree)
    /\ UNCHANGED <<authored, jobs, out, audit>>

(* Rebuild once more: the image must be byte-identical. *)
Rebuild ==
    /\ job.pc = "bound"
    /\ job' = IF tree = job.image THEN [job EXCEPT !.pc = "rebuilt"] ELSE Rest
    /\ UNCHANGED <<authored, jobs, out, audit>>

ReceiptOf(w) == [build |-> jobs, source |-> w.src, certs |-> w.certs, tree |-> w.tree,
                 image |-> w.image]

(* Mutant: publish does not look at what is there. *)
ProbeTargetsBlind ==
    /\ job.pc = "rebuilt"
    /\ job' = Having([job EXCEPT !.pc = "writing"], "next", 1)
    /\ UNCHANGED <<authored, jobs, out, audit>>

(* publish: every target must be absent, the image too. *)
ProbeTargets ==
    /\ job.pc = "rebuilt"
    /\ job' = IF Clean /\ "img" \notin DOMAIN out
              THEN Having([job EXCEPT !.pc = "writing"], "next", 1) ELSE Rest
    /\ UNCHANGED <<authored, jobs, out, audit>>

(* Mutant: the image is renamed before the other files are written. *)
WriteNextImageFirst ==
    /\ job.pc = "writing"
    /\ LET n == job.next
       IN  /\ out' = Having(out, IF n = 1 THEN "img" ELSE Siblings[n-1], ReceiptOf(job))
           /\ job' = IF n <= Len(Siblings) THEN [job EXCEPT !.next = n + 1] ELSE Rest
    /\ UNCHANGED <<authored, jobs, audit>>

(* publish: write the receipt, copy the artifacts and the evidence, rename *)
(* the image.                                                              *)
WriteNext ==
    /\ job.pc = "writing"
    /\ LET n == job.next
       IN  /\ out' = Having(out, IF n <= Len(Siblings) THEN Siblings[n] ELSE "img", ReceiptOf(job))
           /\ job' = IF n <= Len(Siblings) THEN [job EXCEPT !.next = n + 1] ELSE Rest
    /\ UNCHANGED <<authored, jobs, audit>>

BuilderDies == job # Rest /\ job' = Rest /\ UNCHANGED <<authored, jobs, out, audit>>

(* What an aborted publication left behind blocks the next one until it is *)
(* removed by hand.                                                        *)
RemoveLeftovers ==
    /\ job = Rest /\ "img" \notin DOMAIN out /\ ~Clean
    /\ out' = <<>>
    /\ UNCHANGED <<authored, job, jobs, audit>>

EditKernel ==
    /\ kernelEdits < MaxKernelEdits
    /\ \/ kernel' \in Kernels \ {kernel} /\ UNCHANGED tree
       \/ tree' \in Trees \ {tree} /\ UNCHANGED kernel
    /\ kernelEdits' = kernelEdits + 1
    /\ audit' = [audit EXCEPT !.still = FALSE]
    /\ UNCHANGED <<job, jobs, out>>

(***************************************************************************)
(* validate_image                                                          *)
(***************************************************************************)

(* The receipt, the files, the source digest, the boundaries, the tree and *)
(* the evidence.                                                           *)
BeginAudit(replay) ==
    /\ job = Rest /\ "img" \in DOMAIN out /\ audit.pc = "rest"
    /\ LET r == out["receipt.json"]
           ok == /\ DOMAIN out = {Siblings[i] : i \in DOMAIN Siblings} \cup {"img"}
                 /\ \A f \in DOMAIN out : out[f] = r
                 /\ kernel = r.source /\ BoundariesOk(kernel)
                 /\ tree = r.tree
       IN  audit' = IF "receipt.json" \in DOMAIN out /\ ok
                    THEN [pc |-> "checking", replay |-> replay, verdict |-> "none", still |-> TRUE]
                    ELSE [pc |-> "rest", replay |-> replay, verdict |-> "refused", still |-> TRUE]
    /\ UNCHANGED <<authored, job, jobs, out>>

(* Mutant: the certificates of the receipt are taken as they are. *)
CertificatesTrusted(r) == TRUE

(* check_file again: same certificates, exports still at L3. *)
CertificatesSame(r) == Checked[kernel] = r.certs /\ \A n \in Exports : r.certs[n].level >= 3

(* A replay builds the image again and boots it. *)
EndAudit ==
    /\ audit.pc = "checking"
    /\ LET r == out["receipt.json"]
           ok == /\ CertificatesSame(r)
                 /\ audit.replay => tree = r.image /\ Boots[tree]
       IN  audit' = [audit EXCEPT !.pc = "rest", !.verdict = IF ok THEN "valid" ELSE "refused"]
    /\ UNCHANGED <<authored, job, jobs, out>>

KiInit ==
    /\ kernel \in Kernels /\ tree \in Trees /\ kernelEdits = 0
    /\ job = Rest /\ jobs = 0 /\ out = <<>>
    /\ audit = [pc |-> "rest", replay |-> FALSE, verdict |-> "none", still |-> TRUE]

KiNext ==
    \/ ReadKernel \/ CheckKernel \/ BuildStaged \/ BindReceipt \/ Rebuild
    \/ ProbeTargets \/ WriteNext \/ BuilderDies \/ RemoveLeftovers
    \/ EditKernel \/ EndAudit \/ \E replay \in BOOLEAN : BeginAudit(replay)

(***************************************************************************)
(* Properties.                                                             *)
(***************************************************************************)

(* The image is the publication sentinel: where it can be seen, every file *)
(* beside it is there and of the same build, whatever died before.         *)
ImageSentinel ==
    "img" \in DOMAIN out =>
        \A i \in DOMAIN Siblings : Siblings[i] \in DOMAIN out /\ out[Siblings[i]] = out["img"]

(* An image that validates while nobody edits carries the certificates of  *)
(* the very source it names, and after a replay is the image of the very   *)
(* tree it names, although the build read both more than once.             *)
AcceptedImageIsBound ==
    audit.verdict = "valid" /\ audit.still =>
        LET r == out["receipt.json"]
        IN  /\ r.certs = Checked[r.source]
            /\ audit.replay => r.image = r.tree

(* The two protocols, side by side. *)
PublicationSpec ==
    /\ VbInit /\ KiInit
    /\ [][(VbNext /\ UNCHANGED kiVars) \/ (KiNext /\ UNCHANGED vbVars)]_<<vbVars, kiVars>>

(* What is published is published once: no later build, whole or dead,     *)
(* replaces a bundle, or touches a file of a publication whose image is in *)
(* place.                                                                  *)
PublishedStays ==
    [][/\ original # Nothing => original' = original
       /\ "img" \in DOMAIN out => out' = out]_<<vbVars, kiVars>>
====
