SPECIFICATION StSpec
CONSTANTS
 Groups <- GroupsTried
 Classes <- ClassesTried
 Guide <- GuideTried
 Capability <- CapabilityTried
 NavSections <- NavTried
 Mentions <- MentionsTried
 Drafts <- DraftsTried
 SeeLists <- SeeListsTried
 Diagrams = {"layer_stack"}
 EnvPage = "reference-env"
 Switches <- SwitchesTried
 Deferred = "sum"
 MaxBuilds = 2
 MaxSiteEdits = 2
INVARIANT EveryLinkResolves
CHECK_DEADLOCK FALSE
