------------------------------ MODULE MCGates ------------------------------
(* An instance of Gates for TLC.  The first value of every facet is the tree  *)
(* as it should be; the others are the edits that the gates exist for, and    *)
(* some that are none of their business.                                      *)
EXTENDS Gates, TLC

Do(script, arg) == [command |-> [script |-> script, arg |-> arg], comment |-> FALSE]
Off(script, arg) == [command |-> [script |-> script, arg |-> arg], comment |-> TRUE]

(* The jobs of the workflows, a sequence of steps each.                       *)
StaticJob ==
  << <<Do("check_layering", "")>>, <<Do("pip", "install"), Do("check_format", "")>>, <<Do("check_push_constants", "")>>,
     <<Do("check_min_spec", "--static-only")>>, <<Do("check_precise_gemm", "")>>, <<Do("check_versions", "")>>,
     <<Do("check_design_system", "")>>, <<Do("check_baselines", "")>>, <<Do("mutation_check", "--patterns")>>,
     <<Do("check_gate_coverage", "")>>, <<Do("check_file_ownership", "")>> >>
PythonJob == << <<Do("check_docs_examples", "")>>, <<Do("check_module_coverage", "")>>, <<Do("pytest", "")>> >>
GpuJob == << <<Do("check_min_spec", "")>>, <<Do("pytest", "VKML_MIN_SPEC=1")>> >>
PagesJob(graphCommand) ==
  << <<Do("web/build", "")>>,
     <<Do("check_docs_links", ""), graphCommand, Do("check_source_links", ""), Do("check_design_system", ""),
       Do("check_css_bindings", ""), Do("check_docs_references", ""), Do("verify_gates", "")>> >>
PagesChecked == PagesJob(Do("docs_graph", "--check"))
Workflows == <<StaticJob, PythonJob, GpuJob, PagesChecked>>

GateOf(name, canFail) == [name |-> name, canFail |-> canFail]
GateFiles ==
  {GateOf(n, TRUE) : n \in {
     "check_layering", "check_format", "check_push_constants", "check_min_spec", "check_precise_gemm",
     "check_versions", "check_design_system", "check_baselines", "mutation_check", "check_gate_coverage",
     "check_file_ownership", "check_docs_examples", "check_module_coverage", "check_docs_links", "docs_graph",
     "check_source_links", "check_css_bindings", "check_docs_references", "verify_gates", "coverage_matrix",
     "tracker"}}
  \cup {GateOf("docs_health", FALSE)}

CpuFile == <<"backend", "cpu", "a.cpp">>
VulkanFile == <<"backend", "vulkan", "b.cpp">>
CoreFile == <<"core", "c.h">>
Umbrella == <<"vkml.h">>
IncludesOfOurs == {<<CpuFile, CoreFile>>, <<VulkanFile, CoreFile>>, <<Umbrella, CpuFile>>, <<CoreFile, Umbrella>>}

Shader(precise) == [family |-> "gemm", muladd |-> TRUE, precise |-> precise]
Baseline(form, recorded) == [is |-> form, recorded |-> recorded]
Css(literals, declared, referenced, scale) ==
  [literals |-> literals, declared |-> declared, referenced |-> referenced, scale |-> scale]
Example(device, claimed, printed) ==
  [device |-> device, perMachine |-> FALSE, claimed |-> claimed, printed |-> printed]
Module(target, resolves) == [target |-> target, resolves |-> resolves]
LinkOf(from, to, chrome) == [from |-> from, to |-> to, chrome |-> chrome]
SourceLink(line, subject) == [file |-> "ops.h", line |-> line, subject |-> subject]
LinesOf(first, second) == [ops |-> <<>>] @@ ("ops.h" :> <<first, second, "x", "x">>)
ProseOf(file, line, constants) == [file |-> file, line |-> line, constants |-> constants]
Document(file, line, superseded) == [file |-> file, line |-> line, superseded |-> superseded]
Image(form, exists) == [form |-> form, exists |-> exists]
Native(bound) == [imports |-> TRUE, bound |-> bound, grouped |-> {"shape"}]
OperatorHas(ruled, gpu) == [ruled |-> ruled, gpu |-> gpu]

TreesTried == [
  files |-> <<{CpuFile, VulkanFile, CoreFile, Umbrella}, {CoreFile, Umbrella}>>,
  includes |-> <<IncludesOfOurs, IncludesOfOurs \cup {<<CoreFile, CpuFile>>},
                 IncludesOfOurs \cup {<<CpuFile, VulkanFile>>, <<VulkanFile, CpuFile>>}>>,
  clangFormat |-> <<"18.1.8", "19">>,
  sources |-> <<{[formatted |-> TRUE]}, {[formatted |-> FALSE]}, {}>>,
  push |-> <<{<<<<"Operand", 3>>, <<"uint", 6>>>>}, {<<<<"Operand", 4>>, <<"uint", 1>>>>}>>,
  shaders |-> <<{Shader(TRUE)}, {Shader(FALSE)}>>,
  floors |-> <<[shared |-> 16, push |-> 128], <<>>>>,
  limits |-> <<[shared |-> 64, push |-> 256]>>,
  observable |-> <<{"shared"}, {}>>,
  flagRead |-> <<TRUE, FALSE>>,
  decided |-> <<[cmake |-> "3.25"], [cmake |-> "3.26"], [cmake |-> "unreadable"]>>,
  mentions |-> <<{<<"cmake", "3.25">>}, {<<"cmake", "3.24">>, <<"cmake", "3.25">>}>>,
  css |-> <<Css({}, {"bg", "fs-1"}, {"bg"}, {"fs-1"}), Css({"13px"}, {}, {}, {}), Css({}, {"bg"}, {}, {})>>,
  baselines |-> <<[bench |-> Baseline("object", {"commit", "recorded_at", "driver", "warmed"})],
                  [bench |-> Baseline("object", {"commit", "recorded_at"})], [bench |-> Baseline("list", {})]>>,
  workflows |-> <<Workflows,
                  <<Tail(StaticJob), PythonJob, GpuJob, PagesChecked>>,
                  <<[StaticJob EXCEPT ![1] = <<Off("check_layering", "")>>], PythonJob, GpuJob, PagesChecked>>,
                  <<StaticJob, PythonJob, GpuJob, PagesJob(Do("docs_graph", ""))>>,
                  <<StaticJob, PythonJob, <<GpuJob[1], <<Off("pytest", "VKML_MIN_SPEC=1")>>>>, PagesChecked>>>>,
  scripts |-> <<GateFiles, GateFiles \cup {GateOf("check_new", TRUE)}, GateFiles \cup {GateOf("check_new", FALSE)}>>,
  foreign |-> <<{}, {"build/cache"}>>,
  examples |-> <<{Example(FALSE, "1", "1"), Example(TRUE, "1", "2")}, {Example(FALSE, "1", "2")}>>,
  modules |-> <<{Module("nn.Linear", TRUE), Module("None", FALSE)}, {Module("nn.Linear", FALSE)}>>,
  pages |-> <<{"index", "a", "b"}, {"index", "a", "b", "new"}>>,
  links |-> <<{LinkOf("index", "a", FALSE), LinkOf("a", "b", FALSE), LinkOf("b", "b", FALSE)},
              {LinkOf("index", "a", FALSE), LinkOf("a", "b", TRUE), LinkOf("b", "a", FALSE)}>>,
  recorded |-> <<[orphans |-> {"index"}, deadEnds |-> {"b"}], [orphans |-> {"index", "new"}, deadEnds |-> {"b", "new"}]>>,
  sourceLinks |-> <<{SourceLink(3, "add")}, {SourceLink(5, "none")}, {}>>,
  lines |-> <<LinesOf("x", "add"), LinesOf("add", "x")>>,
  rules |-> <<{"pill"}, {"pill", "ghost"}>>,
  classGroups |-> <<{{"pill", "yes"}, {"prev"}}, {{"pill"}, {"verdict"}}>>,
  scriptClasses |-> <<{}, {"ghost"}>>,
  prose |-> <<{ProseOf("ops.h", 4, {"kBlock"})}, {ProseOf("gone.h", 1, {})}>>,
  constants |-> <<{"kBlock"}, {}>>,
  documents |-> <<{Document("ops.h", 2, FALSE), Document("gone.h", 1, TRUE)}, {Document("gone.h", 1, FALSE)}>>,
  referenceTree |-> <<FALSE, TRUE>>,
  images |-> <<{Image("relative", TRUE)}, {Image("raw", TRUE)}, {Image("relative", FALSE)}>>,
  native |-> <<{Native({"shape"})}, {Native({"shape", "item"})}>>,
  leftovers |-> <<{}, {"code span"}>>,
  assets |-> <<{50}, {50, 81}>>,
  ops |-> <<[add |-> OperatorHas(TRUE, TRUE), argmax |-> OperatorHas(FALSE, FALSE)],
            [add |-> OperatorHas(TRUE, TRUE), argmax |-> OperatorHas(TRUE, TRUE)]>>,
  gradientReasons |-> <<{"argmax"}, {}>>,
  backendReasons |-> <<{"argmax"}, {}>>]

(* Every tree of this instance is one of which the gates' promise is proved.  *)
ASSUME TreesWatched ==
  /\ \A w \in DOMAIN TreesTried.workflows, s \in DOMAIN TreesTried.scripts :
       Watched([workflows |-> TreesTried.workflows[w], scripts |-> TreesTried.scripts[s]])
  /\ \A i \in DOMAIN TreesTried.sourceLinks : \A l \in TreesTried.sourceLinks[i] : l.line \in Nat
=============================================================================
