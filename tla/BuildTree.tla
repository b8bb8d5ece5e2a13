-------------------------------- MODULE BuildTree --------------------------------
(* The scripts that change the working tree to see whether something notices:   *)
(* mutation_check.py, verify_gates.py, check_cpu_only_build.py, asan_python.py. *)
(* They share the sources, the extension the build writes, the extension Python *)
(* imports - another file after an editable install - and the built site.  One  *)
(* script runs at a time; it may be interrupted, so that the `finally` of the   *)
(* try block it is in still runs, or killed, and then the next one runs on what *)
(* was left.  A tree, an extension and a site are the set of defects in them.   *)
EXTENDS Naturals, Sequences, FiniteSets, SequencesExt

CONSTANTS
  Campaign,     \* MUTATIONS, in order: [id, compiled, anchored, reaches, caughtBy]
  Controls,     \* CONTROLS: [id, rebuild, anchored, sees, red] - red: the gate fails on a clean tree
  MaxScripts    \* bound: the scripts run in a behaviour
ASSUME BuildTreeAssumption == \A c, d \in Controls : c.id = d.id => c = d     \* one control of a gate

VARIABLES
  sources, binary, copy,   \* copy: the imported extension, {"same file"} without an editable install
  siteOf,                  \* the defects of the sources the site was built from
  script, phase,           \* the script that runs and where it is
  todo,                    \* the mutations still to try, or the control
  original,                \* the file's text before the damage
  before, code,            \* the fingerprint before a build, the gate's exit status on the damage
  compiledRan,             \* a mutation of compiled sources has been tried
  stash, preasan,          \* the saved extensions
  verdicts,                \* the verdicts given: <<mutation or control, verdict>>
  harm,                    \* what happened that the scripts do not claim to undo
  scriptsRun
btVars == <<sources, binary, copy, siteOf, script, phase, todo, original, before, code,
            compiledRan, stash, preasan, verdicts, harm, scriptsRun>>
Exts == <<binary, copy>>
Own == <<todo, original, before, code, compiledRan, verdicts>>
Saves == <<stash, preasan>>
Book == <<harm, scriptsRun>>

Absent == {"absent"}
SameFile == {"same file"}
Mutations == ToSet(Campaign)
(* imported_extension_dir(): the file `import vkml` would load. *)
Imported == IF copy = SameFile THEN binary ELSE copy
(* What `cmake --build` makes of the sources. *)
BuiltFrom(tree) == {m.id : m \in {k \in Mutations : k.id \in tree /\ k.compiled /\ k.reaches}}
(* sync_extension(): what the build produced, put where the tests import it. *)
Synced(ext) == IF copy = SameFile THEN SameFile ELSE ext

BtInit ==
  /\ sources = {} /\ binary = {} /\ copy \in {SameFile, {}} /\ siteOf = {}
  /\ script = "none" /\ phase = "out" /\ todo = <<>> /\ original = {} /\ before = {} /\ code = FALSE
  /\ compiledRan = FALSE /\ stash = <<>> /\ preasan = Absent /\ verdicts = {} /\ harm = {} /\ scriptsRun = 0

Begins(which, at) ==
  /\ script = "none" /\ scriptsRun < MaxScripts /\ scriptsRun' = scriptsRun + 1
  /\ script' = which /\ phase' = at
At(which, at) == script = which /\ phase = at
Ends == script' = "none" /\ phase' = "out"
GoTo(at) == phase' = at /\ UNCHANGED script
Judge(what, verdict) == verdicts' = verdicts \cup {<<what, verdict>>}

----
(* mutation_check.py: main(), with or without a path-substring. *)
Mutate ==
  /\ Imported # Absent /\ Begins("mutate", "next")
  /\ todo' \in {Campaign} \cup {<<m>> : m \in Mutations} /\ compiledRan' = FALSE
  /\ UNCHANGED <<sources, Exts, siteOf, original, before, code, verdicts, Saves, harm>>
Mutation == Head(todo)
ApplyMutation ==
  /\ At("mutate", "next") /\ todo # <<>>
  /\ IF Mutation.anchored /\ Mutation.id \notin sources
     THEN /\ original' = sources /\ sources' = sources \cup {Mutation.id}
          /\ before' = Imported
          /\ GoTo(IF Mutation.compiled THEN "build" ELSE "test")
          /\ UNCHANGED <<todo, verdicts>>
     ELSE /\ Judge(Mutation.id, "PATTERN-MISSING") /\ todo' = Tail(todo)
          /\ UNCHANGED <<original, sources, before, script, phase>>
  /\ UNCHANGED <<Exts, siteOf, code, compiledRan, Saves, Book>>
(* build(), sync_extension() and the comparison of the fingerprints. *)
BuildMutation ==
  /\ At("mutate", "build")
  /\ \/ /\ binary' = BuiltFrom(sources) /\ copy' = Synced(binary')
        /\ IF (IF copy = SameFile THEN binary' ELSE copy') = before
           THEN Judge(Mutation.id, "NOT-IN-IMPORTED-BINARY") /\ GoTo("finally")
           ELSE GoTo("test") /\ UNCHANGED verdicts
     \/ Judge(Mutation.id, "BUILD-FAILED") /\ GoTo("finally") /\ UNCHANGED Exts
  /\ UNCHANGED <<sources, siteOf, todo, original, before, code, compiledRan, Saves, Book>>
(* pytest -k selector reads the Python sources and the imported extension. *)
SuiteFails ==
  \E m \in Mutations :
    /\ Mutation.id \in m.caughtBy
    /\ m.id \in (IF m.compiled THEN Imported ELSE sources)
TestMutation ==
  /\ At("mutate", "test") /\ GoTo("finally")
  /\ Judge(Mutation.id, IF SuiteFails THEN "KILLED" ELSE "SURVIVED")
  /\ UNCHANGED <<sources, Exts, siteOf, todo, original, before, code, compiledRan, Saves, Book>>
(* finally: path.write_text(original). *)
RestoreSkipped == sources
Restored == original
RestoreMutation ==
  /\ At("mutate", "finally") /\ sources' = Restored /\ todo' = Tail(todo) /\ GoTo("next")
  /\ compiledRan' = (compiledRan \/ Mutation.compiled)
  /\ UNCHANGED <<Exts, siteOf, original, before, code, verdicts, Saves, Book>>
(* The rebuild from the restored sources; when a compiled mutation ran, what it *)
(* makes is put where the tests import it, and its failure is reported.         *)
Rebuilt(ok) == IF ok THEN BuiltFrom(sources) ELSE binary
RebuildAtEnd ==
  /\ At("mutate", "next") /\ todo = <<>> /\ Ends
  /\ \E ok \in BOOLEAN :
       /\ binary' = Rebuilt(ok)
       /\ copy' = IF ok /\ compiledRan THEN Synced(binary') ELSE copy
       /\ harm' = harm \cup (IF ok \/ ~compiledRan THEN {} ELSE {"build failed"})
  /\ UNCHANGED <<sources, siteOf, Own, Saves, scriptsRun>>

----
(* verify_gates.py: exercise() one control. *)
Exercise ==
  /\ \E c \in Controls : Begins("gates", "break") /\ todo' = <<c>>
  /\ UNCHANGED <<sources, Exts, siteOf, original, before, code, compiledRan, verdicts, Saves, harm>>
Control == todo[1]
BreakTarget ==
  /\ At("gates", "break")
  /\ IF Control.anchored /\ Control.id \notin sources
     THEN /\ original' = sources /\ sources' = sources \cup {Control.id}
          /\ GoTo(IF Control.rebuild THEN "site" ELSE "gate") /\ UNCHANGED verdicts
     ELSE Judge(Control.id, "STALE") /\ Ends /\ UNCHANGED <<original, sources>>
  /\ UNCHANGED <<Exts, siteOf, todo, before, code, compiledRan, Saves, Book>>
(* build_site() ignores the exit status of web/build.py. *)
BuildSite ==
  /\ At("gates", "site") /\ siteOf' \in {sources, siteOf} /\ GoTo("gate")
  /\ UNCHANGED <<sources, Exts, Own, Saves, Book>>
(* run_gate(): a gate reads the sources or the site; a blind one never fails. *)
GateFails ==
  Control.red \/ (Control.sees /\ Control.id \in (IF Control.rebuild THEN siteOf ELSE sources))
RunGate ==
  /\ At("gates", "gate") /\ code' = GateFails /\ GoTo("finally")
  /\ UNCHANGED <<sources, Exts, siteOf, todo, original, before, compiledRan, verdicts, Saves, Book>>
SitesAfter == IF Control.rebuild THEN {Restored, siteOf} ELSE {siteOf}
RestoreTarget ==
  /\ At("gates", "finally") /\ sources' = Restored /\ siteOf' \in SitesAfter
  /\ harm' = harm \cup (IF siteOf' = sources' THEN {} ELSE {"build failed"})
  /\ GoTo("again")
  /\ UNCHANGED <<Exts, Own, Saves, scriptsRun>>
CleanRunSkipped == FALSE
StillRed == GateFails
GiveVerdict ==
  /\ At("gates", "again") /\ Ends
  /\ Judge(Control.id, IF code /\ ~StillRed THEN "verified" ELSE "FAILED")
  /\ UNCHANGED <<sources, Exts, siteOf, todo, original, before, code, compiledRan, Saves, Book>>

----
(* check_cpu_only_build.py: both extensions are stashed, the built one is       *)
(* unlinked before the try block.                                               *)
CpuOnly ==
  /\ binary # Absent /\ Imported # Absent /\ Begins("cpu", "unlink") /\ stash' = Exts
  /\ UNCHANGED <<sources, Exts, siteOf, Own, preasan, harm>>
UnlinkBuilt ==
  /\ At("cpu", "unlink") /\ binary' = Absent /\ GoTo("unlinked")
  /\ UNCHANGED <<sources, copy, siteOf, Own, Saves, Book>>
BuildCpuOnly ==
  /\ At("cpu", "unlinked") /\ binary' \in {{"cpu-only"}, Absent}
  /\ GoTo(IF binary' = Absent THEN "finally" ELSE "swap")
  /\ UNCHANGED <<sources, copy, siteOf, Own, Saves, Book>>
SwapAndTest ==
  /\ At("cpu", "swap") /\ copy' = Synced(binary) /\ GoTo("finally")
  /\ UNCHANGED <<sources, binary, siteOf, Own, Saves, Book>>
RestoreCpuOnly(kept) ==
  /\ script = "cpu" /\ phase \in {"finally", "unwind"} /\ Ends /\ stash' = <<>>
  /\ binary' = IF kept THEN binary ELSE stash[1]
  /\ copy' = IF kept THEN copy ELSE stash[2]
  /\ harm' = harm \cup (IF kept THEN {"--keep"} ELSE {})
  /\ UNCHANGED <<sources, siteOf, Own, preasan, scriptsRun>>

----
(* asan_python.py: the saved copy lies beside the extension; what a killed run  *)
(* left there is overwritten by the next.                                       *)
Asan ==
  /\ Begins("asan", "build") /\ stash' = <<binary>>
  /\ preasan' = IF binary = Absent THEN preasan ELSE binary
  /\ UNCHANGED <<sources, Exts, siteOf, Own, harm>>
BuildAsan ==
  /\ At("asan", "build") /\ binary' \in {{"asan"}, binary} /\ GoTo("finally")
  /\ UNCHANGED <<sources, copy, siteOf, Own, Saves, Book>>
RestoreAsan ==
  /\ script = "asan" /\ phase \in {"finally", "unwind"} /\ Ends
  /\ binary' = IF stash = <<Absent>> THEN Absent ELSE preasan
  /\ preasan' = IF stash = <<Absent>> THEN preasan ELSE Absent
  /\ stash' = <<>>
  /\ UNCHANGED <<sources, copy, siteOf, Own, Book>>

----
(* KeyboardInterrupt: to the finally of the try block it is in, then out.       *)
InTry == {"build", "test", "site", "gate", "swap", "unlinked"}
OutsideTry == {"next", "break", "again", "unlink", "unlinked"}
Interrupt ==
  /\ script # "none"
  /\ \/ phase \in InTry /\ GoTo("unwind")
     \/ phase \in OutsideTry /\ Ends
  /\ harm' = harm \cup {"interrupted"}
  /\ UNCHANGED <<sources, Exts, siteOf, Own, Saves, scriptsRun>>
Unwind ==
  /\ script \in {"mutate", "gates"} /\ phase = "unwind" /\ Ends /\ sources' = Restored
  /\ siteOf' \in (IF script = "gates" THEN SitesAfter ELSE {siteOf})
  /\ UNCHANGED <<Exts, Own, Saves, Book>>
Kill ==
  /\ script # "none" /\ Ends /\ harm' = harm \cup {"killed"} /\ stash' = <<>>
  /\ UNCHANGED <<sources, Exts, siteOf, Own, preasan, scriptsRun>>

BtNext ==
  \/ Mutate \/ ApplyMutation \/ BuildMutation \/ TestMutation \/ RestoreMutation \/ RebuildAtEnd
  \/ Exercise \/ BreakTarget \/ BuildSite \/ RunGate \/ RestoreTarget \/ GiveVerdict
  \/ CpuOnly \/ UnlinkBuilt \/ BuildCpuOnly \/ SwapAndTest \/ (\E kept \in BOOLEAN : RestoreCpuOnly(kept))
  \/ Asan \/ BuildAsan \/ RestoreAsan \/ Interrupt \/ Unwind \/ Kill
BtSpec == BtInit /\ [][BtNext]_btVars

----
(* Whatever order the scripts run in, a script that was not killed leaves the   *)
(* sources as it found them - interrupted or not -, and when nothing was        *)
(* interrupted and no build failed the extensions and the site too.             *)
TreeRestored ==
  script = "none" =>
    /\ "killed" \notin harm => sources = {}
    /\ harm = {} => binary = {} /\ Imported = {} /\ siteOf = {} /\ preasan = Absent

(* A control is "verified" only for a gate that notices its damage and is green *)
(* without it, however stale the built site is (verify_gates.py exercise()).    *)
VerifiedCanFail ==
  \A c \in Controls : <<c.id, "verified">> \in verdicts => c.sees /\ ~c.red

(* "A compiled mutation that leaves the imported binary byte identical did not  *)
(* reach the tests, and reporting it as SURVIVED would blame the suite for a    *)
(* defect it never saw" (mutation_check.py:377-379): a mutation that the build  *)
(* does not take in is never called a survivor.                                 *)
SurvivorsReachedTheTests ==
  \A m \in Mutations : m.compiled /\ <<m.id, "SURVIVED">> \in verdicts => m.reaches

(* The scripts that damage the tree to test the tests undo what they did, and   *)
(* call nothing verified that cannot fail.                                      *)
ScriptsHonest == TreeRestored /\ VerifiedCanFail
================================================================================
