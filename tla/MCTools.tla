------------------------------- MODULE MCTools -------------------------------
(***************************************************************************)
(* The programs around the library, which share no state, in one run of    *)
(* TLC: `active` is the one that runs, and the others stay in one of their *)
(* initial states.  The reachable states are the sum of the components'.   *)
(***************************************************************************)
EXTENDS TopologicalOrder, Training, Capture, Viewer, MCBuildTree, MCSite, OpCoverage, MCBench, Extract, MCGates

VARIABLE active

Components == {"order", "training", "capture", "viewer", "scripts", "site", "coverage", "bench", "extract", "gates"}

\* Pins a component that does not run to one of its initial states.
Pinned(component, at) == IF active = component THEN TRUE ELSE at

ToolsInit ==
  /\ active \in Components
  /\ TrInit
  /\ CapInit
  /\ VwInit
  /\ Pinned("scripts", copy = {}) /\ BtInit
  /\ Pinned("site", installed = Ops) /\ StInit
  /\ Pinned("coverage", gpuSeen = TRUE) /\ OcInit
  /\ Pinned("bench", kernels = CHOOSE k \in Revisions : TRUE) /\ BeInit
  /\ Pinned("extract", kind = "header") /\ ExInit
  /\ GtInit
  /\ Pinned("order", src = [n \in Node |-> <<>>] /\ computed = {} /\ asked = <<>>) /\ TopoInit

OrderStep ==
  /\ active = "order" /\ TopoNext
  /\ UNCHANGED <<active, trVars, capVars, vwVars, btVars, siteVars, ocVars, beVars, exVars, gtVars>>

ToolsNext ==
  \/ OrderStep
  \/ active = "training" /\ TrNext
     /\ UNCHANGED <<active, tvars, capVars, vwVars, btVars, siteVars, ocVars, beVars, exVars, gtVars>>
  \/ active = "capture" /\ CapNext
     /\ UNCHANGED <<active, tvars, trVars, vwVars, btVars, siteVars, ocVars, beVars, exVars, gtVars>>
  \/ active = "viewer" /\ VwNext
     /\ UNCHANGED <<active, tvars, trVars, capVars, btVars, siteVars, ocVars, beVars, exVars, gtVars>>
  \/ active = "scripts" /\ BtNext
     /\ UNCHANGED <<active, tvars, trVars, capVars, vwVars, siteVars, ocVars, beVars, exVars, gtVars>>
  \/ active = "site" /\ StNext
     /\ UNCHANGED <<active, tvars, trVars, capVars, vwVars, btVars, ocVars, beVars, exVars, gtVars>>
  \/ active = "coverage" /\ OcNext
     /\ UNCHANGED <<active, tvars, trVars, capVars, vwVars, btVars, siteVars, beVars, exVars, gtVars>>
  \/ active = "bench" /\ BeNext
     /\ UNCHANGED <<active, tvars, trVars, capVars, vwVars, btVars, siteVars, ocVars, exVars, gtVars>>
  \/ active = "extract" /\ ExNext
     /\ UNCHANGED <<active, tvars, trVars, capVars, vwVars, btVars, siteVars, ocVars, beVars, gtVars>>
  \/ active = "gates" /\ GtNext
     /\ UNCHANGED <<active, tvars, trVars, capVars, vwVars, btVars, siteVars, ocVars, beVars, exVars>>

toolsVars == <<active, tvars, trVars, capVars, vwVars, btVars, siteVars, ocVars, beVars, exVars, gtVars>>

\* The search for an order is one function that runs to its end.
ToolsSpec == ToolsInit /\ [][ToolsNext]_toolsVars /\ WF_toolsVars(OrderStep)

-----------------------------------------------------------------------------
\* A full operator, one without a rule, a view and a leaf, and tests of them.
OperatorOf(name, class, ruled, fed) == [name |-> name, kind |-> class, rule |-> ruled, sources |-> fed]
OperatorsTried ==
  {OperatorOf("add", "compute", TRUE, TRUE), OperatorOf("rand", "compute", FALSE, FALSE),
   OperatorOf("permute", "view", TRUE, TRUE), OperatorOf("leaf", "leaf", FALSE, FALSE)}
TestOf(op, gpu, strided, large, backward) ==
  [op |-> op, gpu |-> gpu, strided |-> strided, large |-> large, backward |-> backward]
TestsTried ==
  {TestOf("add", FALSE, FALSE, TRUE, TRUE), TestOf("add", TRUE, TRUE, FALSE, FALSE),
   TestOf("rand", FALSE, FALSE, FALSE, FALSE), TestOf("rand", TRUE, FALSE, TRUE, FALSE),
   TestOf("permute", FALSE, TRUE, FALSE, TRUE), TestOf("add", FALSE, TRUE, FALSE, FALSE)}
=============================================================================
