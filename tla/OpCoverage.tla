------------------------------- MODULE OpCoverage -------------------------------
(* The coverage ratchet: what the suite executed of every operator, recorded    *)
(* when the session ends, and scripts/coverage_matrix.py, which reads the       *)
(* recording, names the gaps and compares them with an accepted baseline.       *)
EXTENDS Naturals, FiniteSets

CONSTANTS
  Operators,    \* the inventory: [name, kind ("leaf", "view" or "compute"), rule, sources]
  Tests,        \* what a test may run: [op, gpu, strided, large, backward]
  MaxSuiteEdits,     \* bound: edits of the suite, and the GPU hidden or shown
  MaxSessions   \* bound: runs of the suite
(* A test runs an operator there is: a rule fires only where there is one, and  *)
(* an input is strided only where there are inputs.                             *)
ASSUME OpCoverageAssumption ==
  \A t \in Tests :
    /\ \E o \in Operators : o.name = t.op
    /\ \A o \in Operators : o.name = t.op => (t.backward => o.rule) /\ (t.strided => o.sources)

VARIABLES
  suite, gpuSeen,   \* the tests there are; whether this machine shows a GPU
  dispatches,       \* the recording: [op, backend, strided, large]
  fired,            \* the recording: operators whose backward rule ran
  baseline,         \* what was accepted: [backends, gaps], or NoBaseline
  accepted,         \* what the recording behind the baseline had exercised
  gate,             \* what --check last returned, or "none"
  suiteEdits, sessions
ocVars == <<suite, gpuSeen, dispatches, fired, baseline, accepted, gate, suiteEdits, sessions>>

NoBaseline == [backends |-> {}, gaps |-> <<>>]
OcInit ==
  /\ suite = Tests /\ gpuSeen \in BOOLEAN
  /\ dispatches = {} /\ fired = {} /\ baseline = NoBaseline /\ accepted = {} /\ gate = "none"
  /\ suiteEdits = 0 /\ sessions = 0

Named(name) == CHOOSE o \in Operators : o.name = name
Of(test) == Named(test.op)
(* The executor records a view with the backend "view" and never sees a leaf.   *)
BackendOf(test) == IF Of(test).kind = "view" THEN "view" ELSE IF test.gpu THEN "vulkan" ELSE "cpu"
Ran == {t \in suite : (t.gpu => gpuSeen) /\ Of(t).kind # "leaf"}

(* pytest_sessionfinish: the recording of one session replaces the last one.    *)
RunSuite ==
  /\ sessions < MaxSessions /\ sessions' = sessions + 1
  /\ dispatches' = {[op |-> t.op, backend |-> BackendOf(t), strided |-> t.strided, large |-> t.large] : t \in Ran}
  /\ fired' = {t.op : t \in {t \in Ran : t.backward}}
  /\ gate' = "none"
  /\ UNCHANGED <<suite, gpuSeen, baseline, accepted, suiteEdits>>
EditSuite(t) ==
  /\ suiteEdits < MaxSuiteEdits /\ suiteEdits' = suiteEdits + 1
  /\ suite' = IF t \in suite THEN suite \ {t} ELSE suite \cup {t}
  /\ UNCHANGED <<gpuSeen, dispatches, fired, baseline, accepted, gate, sessions>>
HideOrShowGpu ==
  /\ suiteEdits < MaxSuiteEdits /\ suiteEdits' = suiteEdits + 1 /\ gpuSeen' = ~gpuSeen
  /\ UNCHANGED <<suite, dispatches, fired, baseline, accepted, gate, sessions>>

(* OpCoverage and read_dump(): what the recording has of one operator.          *)
Lines(op) == {d \in dispatches : d.op = op}
Backends(op) == {d.backend : d \in Lines(op)}
IsView(op) == Backends(op) = {"view"}
Executed == {d.op : d \in dispatches}
BackendsSeen == {d.backend : d \in dispatches} \ {"view"}

(* analyse(): the five sets a baseline records. *)
Observable == {o.name : o \in {o \in Operators : o.kind # "leaf"}}
Computed == {op \in Executed : ~IsView(op)}
GapsOfOneBackend == {}
SingleBackendOnly ==
  IF Cardinality(BackendsSeen) < 2 THEN {} ELSE {op \in Computed : ~(BackendsSeen \subseteq Backends(op))}
Gaps ==
  [never_executed |-> Observable \ Executed,
   backward_never_fired |-> {o.name : o \in {o \in Operators : o.rule}} \ fired,
   single_backend_only |-> SingleBackendOnly,
   never_strided_input |-> {op \in Computed : Named(op).sources /\ \A d \in Lines(op) : ~d.strided},
   never_across_workgroups |-> {op \in Computed : \A d \in Lines(op) : ~d.large}]

(* What a recording shows to have been exercised, path by path. *)
Exercised ==
  {<<op, "ran">> : op \in Executed} \cup {<<op, "backward">> : op \in fired}
    \cup {<<d.op, "strided">> : d \in {d \in dispatches : d.strided /\ d.backend # "view"}}
    \cup {<<d.op, "large">> : d \in {d \in dispatches : d.large /\ d.backend # "view"}}
    \cup {<<op, "both">> : op \in {op \in Computed : {"cpu", "vulkan"} \subseteq Backends(op)}}

WriteBaseline ==
  /\ sessions > 0
  /\ baseline' = [backends |-> BackendsSeen, gaps |-> Gaps] /\ accepted' = Exercised /\ gate' = "none"
  /\ UNCHANGED <<suite, gpuSeen, dispatches, fired, suiteEdits, sessions>>

(* check(): other backends cannot be compared; a new gap fails, a closed one    *)
(* does not.                                                                    *)
GapsClosed(key) == baseline.gaps[key] \ Gaps[key]
Appeared(key) == Gaps[key] \ baseline.gaps[key]
AlwaysComparable == TRUE
Comparable == baseline.backends = BackendsSeen
Check ==
  /\ sessions > 0 /\ baseline # NoBaseline
  /\ gate' = IF ~Comparable THEN "skipped"
             ELSE IF \E key \in DOMAIN Gaps : Appeared(key) # {} THEN "failed" ELSE "ok"
  /\ UNCHANGED <<suite, gpuSeen, dispatches, fired, baseline, accepted, suiteEdits, sessions>>

OcNext == RunSuite \/ (\E t \in Tests : EditSuite(t)) \/ HideOrShowGpu \/ WriteBaseline \/ Check
OcSpec == OcInit /\ [][OcNext]_ocVars

(* A gate that says "no new gaps" has lost nothing: whatever the suite ran when *)
(* the baseline was accepted (an operator, its rule, a strided input, a second  *)
(* workgroup, the other backend) it ran again in the session that was checked.  *)
NothingLost == gate = "ok" => accepted \subseteq Exercised
================================================================================
