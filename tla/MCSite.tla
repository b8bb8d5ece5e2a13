------------------------------- MODULE MCSite -------------------------------
(* Instances of Site for TLC: two groups of operators, one class, four guide *)
(* pages that may be drafted with headings that repeat, a heading             *)
(* with nothing to make a slug of, a mistyped diagram, or a dead link.        *)
EXTENDS Site

HeadingOf(level, id, text) == [is |-> "heading", level |-> level, id |-> id, text |-> text]
GroupsTried == <<[page |-> "api-binary", ops |-> <<"add", "mul">>], [page |-> "api-reduction", ops |-> <<"sum">>]>>
ClassesTried ==
  <<[page |-> "class-linear", name |-> "Linear", found |-> TRUE,
     groups |-> <<[id |-> "forward", names |-> <<"forward", "gone">>]>>,
     members |-> <<"weight", "forward", "__init__">>, hidden |-> {"__init__"}, see |-> {"add", "Linear", "nowhere"}]>>
GuideTried == <<"index", "get-started", "concepts", "reference-env">>
CapabilityTried == <<"capabilities", "compatibility", "limitations">>
NavTried == <<"get-started", "concepts", "compatibility", "capabilities", "limitations", "reference-env">>
SwitchesTried == {[name |-> "VKML_EAGER", slug |-> "vkml-eager", category |-> "debugging"]}
MentionsTried == [o \in {"add", "mul", "sum"} |-> IF o = "add" THEN {"sum", "Linear"} ELSE {}]
DraftsTried ==
  {<<>>,
   <<HeadingOf(2, NoId, "a"), HeadingOf(3, NoId, "a"), HeadingOf(2, Id("a"), "b"), [is |-> "pre", copy |-> FALSE]>>,
   <<HeadingOf(2, NoId, "")>>,
   <<[is |-> "diagram", name |-> "layer_stak"]>>,
   <<[is |-> "link", to |-> <<"concepts", Id("a")>>]>>}
SeeListsTried == {<<"mul">>, <<"sum">>}
=============================================================================
