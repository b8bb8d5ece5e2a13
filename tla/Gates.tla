--------------------------------- MODULE Gates ---------------------------------
(* The gates of scripts/ and the two workflows that run them, with _ci.py and   *)
(* check_gate_coverage.py, the gate that watches the others.  Developers edit   *)
(* the tree and push it; the jobs of the workflows run their commands against   *)
(* the pushed tree, each job until a command fails.  Jobs see one checkout and  *)
(* write nothing another one reads, so they run one after the other here.       *)
(* A tree is one value for each facet some gate looks at.                       *)
EXTENDS Naturals, Sequences, FiniteSets, SequencesExt

CONSTANTS
  Options,      \* [facet -> the values it may take, the repository's own first]
  SearchWindow,       \* WINDOW of check_source_links.py
  MinimumFiles, \* MINIMUM_FILES of check_layering.py
  MaxTreeEdits      \* bound: edits before the push

VARIABLES
  tree,         \* the tree
  edited,       \* the facets changed
  jobs,         \* what is left of every job: places in it, or <<>> before the push
  ran,          \* the commands that have run and exited with 0
  result        \* "editing", "running", "green" or "red"
gtVars == <<tree, edited, jobs, ran, result>>

GtInit ==
  /\ tree = [f \in DOMAIN Options |-> Options[f][1]]
  /\ edited = {} /\ jobs = <<>> /\ ran = {} /\ result = "editing"

(* check_layering.py: the longest listed prefix of a path is its layer; a path  *)
(* may have none.                                                               *)
LayerAt(name, level) == [name |-> name, level |-> level]
LAYERS ==
  {LayerAt(<<"util">>, 0), LayerAt(<<"core">>, 1), LayerAt(<<"graph">>, 2), LayerAt(<<"backend", "api">>, 3),
   LayerAt(<<"backend", "cpu">>, 4), LayerAt(<<"backend", "vulkan">>, 4), LayerAt(<<"dispatch">>, 5),
   LayerAt(<<"plan">>, 5), LayerAt(<<"api">>, 6), LayerAt(<<"autograd">>, 7)}
LayerOf(path) ==
  LET matching == {l \in LAYERS : IsPrefix(l.name, path)}
  IN  {l \in matching : \A m \in matching : Len(m.name) <= Len(l.name)}
IterSources(t) == {f \in t.files : LayerOf(f) # {}}
Layering(t) ==
  /\ \A i \in t.includes : \A own \in LayerOf(i[1]), dep \in LayerOf(i[2]) : dep # own => dep.level < own.level
  /\ Cardinality(IterSources(t)) >= MinimumFiles

(* check_format.py: the pinned version, and sources to look at. *)
Format(t) == t.clangFormat = "18.1.8" /\ t.sources # {} /\ \A s \in t.sources : s.formatted

(* push_block() and check_push_constants.py; the fields are <<type, count>>.    *)
GLSL_SCALAR_BYTES ==
  [float |-> 4, int |-> 4, uint |-> 4, uint64_t |-> 8, vec2 |-> 8, vec4 |-> 16, Operand |-> 32]
PushBlock(fields) == FoldSeq(LAMBDA f, sum : sum + GLSL_SCALAR_BYTES[f[1]] * f[2], 0, fields)
PushConstants(t) == t.push # {} /\ \A k \in t.push : PushBlock(k) <= 128

(* check_precise_gemm.py: other families may contract. *)
PreciseGemm(t) ==
  \A s \in t.shaders : s.family \in {"gemm", "gemv"} /\ s.muladd => s.precise

(* _ci.run_blocks(): one block for each step, its comment lines left out. *)
BlockWithComments(step) == {step[i].command : i \in DOMAIN step}
Block(step) == {step[i].command : i \in {i \in DOMAIN step : ~step[i].comment}}
RunBlocks(t) == UNION {{Block(t.workflows[j][i]) : i \in DOMAIN t.workflows[j]} : j \in DOMAIN t.workflows}
RunsCommand(t, script, arg) ==
  \E b \in RunBlocks(t) : (\E c \in b : c.script = script) /\ (arg = "" \/ \E c \in b : c.arg = arg)

(* check_min_spec.py: the clamps declared, a step at the floor, and - where     *)
(* there is a device - that every limit Python can see is clamped.              *)
CheckDevice(t) == t.observable # {} /\ (t.flagRead \/ \A f \in t.observable : t.limits[f] <= t.floors[f])
MinSpec(t, static) ==
  /\ t.floors # <<>>
  /\ RunsCommand(t, "pytest", "VKML_MIN_SPEC=1")
  /\ static \/ CheckDevice(t)

(* check_versions.py: everything a document says of what one file decides. *)
Versions(t) ==
  /\ \A k \in DOMAIN t.decided : t.decided[k] # "unreadable"
  /\ \A m \in t.mentions : m[2] = t.decided[m[1]]

(* check_design_system.py: sizes and colours that are tokens, tokens in use.    *)
DesignSystem(t) ==
  /\ t.css.literals = {}
  /\ \A v \in t.css.declared \ t.css.referenced : v \in t.css.scale

(* check_baselines.py; provenance() of a file that is no object is nothing.     *)
Required(rel) == {"commit", "recorded_at"} \cup (IF rel = "bench" THEN {"driver", "warmed"} ELSE {})
Baselines(t) == \A rel \in DOMAIN t.baselines :
  t.baselines[rel].is = "object" /\ Required(rel) \subseteq t.baselines[rel].recorded

(* check_gate_coverage.py: a script that can fail is run by a step, with the    *)
(* argument that makes it a gate, or is exempt.                                 *)
EXEMPT ==
  {"_ci", "check_baselines", "coverage_matrix", "tracker", "docs_health", "measure_docs", "shoot_docs",
   "make_assets", "hardware_report", "mutation_check", "check_cpu_only_build", "verify_gates"}
REQUIRE_ARGS(s) == CASE s = "docs_graph" -> "--check" [] s = "mutation_check" -> "--patterns" [] OTHER -> ""
GateScripts(t) == {s.name : s \in {s \in t.scripts : s.canFail}}
GateCoverage(t) ==
  \A s \in GateScripts(t) :
    RunsCommand(t, s, REQUIRE_ARGS(s)) \/ (s \in EXEMPT /\ REQUIRE_ARGS(s) = "")

FileOwnership(t) == t.foreign = {}

(* check_docs_examples.py, in the job whose build has no Vulkan: blocks that    *)
(* need a device are skipped, claims that differ per machine not compared.      *)
DocsExamples(t) == \A e \in t.examples : e.device \/ e.perMachine \/ e.claimed = e.printed
(* check_module_coverage.py: a target of None is recorded as absent. *)
ModuleCoverage(t) == \A m \in t.modules : m.target = "None" \/ m.resolves

(* docs_graph.py: prose links between pages, without the navigation around the  *)
(* text and without links of a page to itself; --check compares with what was   *)
(* recorded.                                                                    *)
BuildGraph(t) == {<<l.from, l.to>> : l \in {l \in t.links : ~l.chrome /\ l.from # l.to /\ {l.from, l.to} \subseteq t.pages}}
Orphans(t) == {p \in t.pages : \A l \in BuildGraph(t) : l[2] # p}
DeadEnds(t) == {p \in t.pages : \A l \in BuildGraph(t) : l[1] # p}
DocsGraph(t) == Orphans(t) \subseteq t.recorded.orphans /\ DeadEnds(t) \subseteq t.recorded.deadEnds

(* check_source_links.py: what a link is labelled for is within WINDOW lines    *)
(* before the line it names, or in the two after it.                            *)
SourceLinks(t) ==
  /\ t.sourceLinks # {}
  /\ \A l \in t.sourceLinks :
       /\ l.file \in DOMAIN t.lines /\ l.line <= Len(t.lines[l.file])
       /\ l.subject # "none" =>
            \E n \in 1..Len(t.lines[l.file]) :
              l.line <= n + SearchWindow /\ n <= l.line + 2 /\ t.lines[l.file][n] = l.subject

(* check_css_bindings.py: an element none of whose classes has a rule, a rule   *)
(* nothing uses, and - in Site.tla - a code block without its button.           *)
DefinedClasses(t) == t.rules
UsedClasses(t) == UNION t.classGroups \cup t.scriptClasses
CssBindings(t) ==
  /\ \A g \in t.classGroups : g # {} => g \cap (DefinedClasses(t) \cup {"prev"}) # {}
  /\ DefinedClasses(t) \subseteq UsedClasses(t)

(* check_docs_references.py.  A path in the site's prose resolves as it is, or  *)
(* by its name; in the documents, any file of that name that is long enough     *)
(* will do, and one that is missing counts only beside the reference tree.      *)
Resolve(t, r) == r.file \in DOMAIN t.lines
ProseReferences(t) ==
  \A r \in t.prose : Resolve(t, r) /\ r.line <= Len(t.lines[r.file]) /\ r.constants \subseteq t.constants
Candidates(t, r) == IF r.file \in DOMAIN t.lines THEN {r.file} ELSE {}
StaleDocsReferences(t) ==
  \A r \in t.documents : ~r.superseded =>
    IF Candidates(t, r) = {} THEN ~t.referenceTree
    ELSE \E c \in Candidates(t, r) : r.line <= Len(t.lines[c])
MarkdownImages(t) == \A i \in t.images : i.form # "raw" /\ (i.form = "relative" => i.exists)
UnlistedNativeMembers(t) == \A c \in t.native : c.imports /\ c.bound \subseteq c.grouped
UnrenderedMarkup(t) == t.leftovers = {}
OversizedSiteFiles(t) == \A a \in t.assets : a <= 80
(* Both ways: a gap without a reason, and a reason without a gap. *)
CapabilityReasons(t) ==
  /\ {k \in DOMAIN t.ops : ~t.ops[k].ruled} = t.gradientReasons
  /\ {k \in DOMAIN t.ops : ~t.ops[k].gpu} = t.backendReasons
DocsReferences(t) ==
  /\ ProseReferences(t) /\ MarkdownImages(t) /\ UnlistedNativeMembers(t) /\ StaleDocsReferences(t)
  /\ UnrenderedMarkup(t) /\ OversizedSiteFiles(t) /\ CapabilityReasons(t)

(* The exit status of a command; one that is no gate of this module succeeds.   *)
Exits0(t, c) ==
  CASE c.script = "check_layering" -> Layering(t)
    [] c.script = "check_format" -> Format(t)
    [] c.script = "check_push_constants" -> PushConstants(t)
    [] c.script = "check_precise_gemm" -> PreciseGemm(t)
    [] c.script = "check_min_spec" -> MinSpec(t, c.arg = "--static-only")
    [] c.script = "check_versions" -> Versions(t)
    [] c.script = "check_design_system" -> DesignSystem(t)
    [] c.script = "check_baselines" -> Baselines(t)
    [] c.script = "check_gate_coverage" -> GateCoverage(t)
    [] c.script = "check_file_ownership" -> FileOwnership(t)
    [] c.script = "check_docs_examples" -> DocsExamples(t)
    [] c.script = "check_module_coverage" -> ModuleCoverage(t)
    [] c.script = "docs_graph" -> c.arg = "--check" => DocsGraph(t)
    [] c.script = "check_source_links" -> SourceLinks(t)
    [] c.script = "check_css_bindings" -> CssBindings(t)
    [] c.script = "check_docs_references" -> DocsReferences(t)
    [] OTHER -> TRUE

Edit(f) ==
  /\ result = "editing" /\ Cardinality(edited) < MaxTreeEdits /\ f \notin edited
  /\ \E n \in 2..Len(Options[f]) : tree' = [tree EXCEPT ![f] = Options[f][n]]
  /\ edited' = edited \cup {f}
  /\ UNCHANGED <<jobs, ran, result>>
(* What a job has to run: its lines but for the comments, by step and place.    *)
Uncommented(job) ==
  UNION {{<<i, k>> : k \in {k \in DOMAIN job[i] : ~job[i][k].comment}} : i \in DOMAIN job}
Push ==
  /\ result = "editing" /\ result' = "running"
  /\ jobs' = [j \in DOMAIN tree.workflows |-> Uncommented(tree.workflows[j])]
  /\ UNCHANGED <<tree, edited, ran>>
Before(p, q) == p[1] < q[1] \/ (p[1] = q[1] /\ p[2] < q[2])
CommandAt(j, p) == tree.workflows[j][p[1]][p[2]].command
(* The shell stops a step, and the runner the job, at the first failure. *)
RunCommand ==
  /\ result = "running"
  /\ \E j \in DOMAIN jobs : \E p \in jobs[j] :
       /\ \A k \in DOMAIN jobs : k < j => jobs[k] = {}
       /\ \A q \in jobs[j] : ~Before(q, p)
       /\ IF Exits0(tree, CommandAt(j, p))
          THEN jobs' = [jobs EXCEPT ![j] = @ \ {p}] /\ ran' = ran \cup {CommandAt(j, p)} /\ UNCHANGED result
          ELSE result' = "red" /\ UNCHANGED <<jobs, ran>>
  /\ UNCHANGED <<tree, edited>>
Finish ==
  /\ result = "running" /\ (\A j \in DOMAIN jobs : jobs[j] = {}) /\ result' = "green"
  /\ UNCHANGED <<tree, edited, jobs, ran>>

GtNext == (\E f \in DOMAIN Options : Edit(f)) \/ Push \/ RunCommand \/ Finish
GtSpec == GtInit /\ [][GtNext]_gtVars

(* What the promise rests on, and the watcher does not look at: that it is run  *)
(* itself, that the gates it is to watch can fail, and that in a step which     *)
(* holds a script and the argument it must have, it is the script that has it.  *)
Watching == {"check_layering", "check_min_spec", "check_versions", "check_push_constants", "check_source_links",
             "docs_graph", "check_css_bindings", "check_docs_references"}
WithArgument(t) == {<<s, REQUIRE_ARGS(s)>> : s \in GateScripts(t)} \cup {<<"pytest", "VKML_MIN_SPEC=1">>}
Watched(t) ==
  /\ \E b \in RunBlocks(t) : \E c \in b : c.script = "check_gate_coverage"
  /\ Watching \subseteq GateScripts(t)
  /\ \A b \in RunBlocks(t) : \A a \in WithArgument(t) :
       (\E c \in b : c.script = a[1]) /\ (\E c \in b : c.arg = a[2]) => \E c \in b : c.script = a[1] /\ c.arg = a[2]

(* check_gate_coverage.py: "it can fail, and no job gives it the chance" - and  *)
(* what the gates are for.  When both workflows are green, every script that    *)
(* can fail and is not exempt has run, with its argument, and what they promise *)
(* is true of the pushed tree: no layers include each other in a circle, the    *)
(* suite has run at the guaranteed floor, no two documents state two versions,  *)
(* a reader who follows a link into the sources finds what it is labelled for,  *)
(* no page is cut off from the prose that was not before, every element has a   *)
(* style, and the limitations page lists the gaps there are - whatever two      *)
(* edits were made to the tree, the workflows and the list of scripts.          *)
LayersInACircle(t) ==
  \E s \in (SUBSET UNION {LayerOf(i[1]) : i \in t.includes}) \ {{}} : \A a \in s :
    \E i \in t.includes : a \in LayerOf(i[1]) /\ LayerOf(i[2]) \cap (s \ {a}) # {}
GreenMeansHeld ==
  result = "green" =>
    /\ \A s \in GateScripts(tree) \ EXEMPT :
         \E c \in ran : c.script = s /\ (REQUIRE_ARGS(s) # "" => c.arg = REQUIRE_ARGS(s))
    /\ ~LayersInACircle(tree)
    /\ \E c \in ran : c.script = "pytest" /\ c.arg = "VKML_MIN_SPEC=1"
    /\ \A m, n \in tree.mentions : m[1] = n[1] => m[2] = n[2]
    /\ \A k \in tree.push : PushBlock(k) <= 128
    /\ \A l \in tree.sourceLinks : l.subject # "none" =>
         \E n \in 1..(l.line + 2) : n <= Len(tree.lines[l.file]) /\ tree.lines[l.file][n] = l.subject
    /\ \A p \in tree.pages \ tree.recorded.orphans :
         \E l \in tree.links : l.to = p /\ l.from \in tree.pages \ {p} /\ ~l.chrome
    /\ \A g \in tree.classGroups \ {{}} : g = {"prev"} \/ \E c \in g : c \in tree.rules \cup {"prev"}
    /\ \A k \in DOMAIN tree.ops : ~tree.ops[k].ruled <=> k \in tree.gradientReasons
================================================================================
