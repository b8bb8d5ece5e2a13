----------------------------- MODULE MCBuildTree -----------------------------
(***************************************************************************)
(* The mutations and the controls of BuildTree's instances.                *)
(***************************************************************************)
EXTENDS BuildTree

\* A compiled mutation a test catches, one the build does not take in, one whose
\* pattern is gone, and one of the Python code.
MutationOf(id, compiled, anchored, reaches, caughtBy) ==
  [id |-> id, compiled |-> compiled, anchored |-> anchored, reaches |-> reaches, caughtBy |-> caughtBy]
CampaignTried ==
  <<MutationOf("shader", TRUE, TRUE, TRUE, {"shader"}), MutationOf("unbuilt", TRUE, TRUE, FALSE, {}),
    MutationOf("gone", TRUE, FALSE, FALSE, {}), MutationOf("python", FALSE, TRUE, TRUE, {"python"})>>

\* A gate that sees its damage in the built site, one that sees nothing, one that
\* is red anyway, and one whose damage no longer applies.
ControlOf(id, rebuild, anchored, sees, red) ==
  [id |-> id, rebuild |-> rebuild, anchored |-> anchored, sees |-> sees, red |-> red]
ControlsTried ==
  {ControlOf("docs", TRUE, TRUE, TRUE, FALSE), ControlOf("blind", FALSE, TRUE, FALSE, FALSE),
   ControlOf("red", FALSE, TRUE, TRUE, TRUE), ControlOf("stale", FALSE, FALSE, TRUE, FALSE)}
=============================================================================
