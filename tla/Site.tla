---------------------------------- MODULE Site ----------------------------------
(* The documentation site: build() of web/build.py and the gates that read what *)
(* it wrote.  A name is an operator or a class, a page is its slug; text is left*)
(* out but for the identifiers, links and blocks in it.                         *)
EXTENDS Integers, Sequences, FiniteSetsExt, SequencesExt

CONSTANTS
  Groups,       \* GROUPS: <<[page, ops]>>
  Classes,      \* CLASSES: <<[page, name, found, groups, members, hidden, see]>>: groups = <<[id, names]>>,
                \* hidden = the members with a leading underscore
  Guide,        \* the slugs of PAGES, in order
  Capability,   \* the slugs of capability_pages()
  NavSections,  \* NAV_SECTIONS, flattened
  Mentions,     \* [operator -> the names in backticks in its prose]
  Drafts,       \* the bodies an author may give a guide page
  SeeLists,     \* the `see` lists an author may give an operator
  Diagrams,     \* the functions of web/diagrams.py
  EnvPage,      \* the guide page of the environment switches
  Switches,     \* env_switches(): [name, slug, category]
  Deferred,     \* an operator that the installed module may lack
  MaxBuilds, MaxSiteEdits   \* bounds

(* A heading is [level, id, text]: a hand-written id or NoId, and the slug of   *)
(* its text, "" when nothing of it is left.  An id is <<slug, n>>.              *)
NoId == <<"", 0>>
Id(slug) == <<slug, 1>>
NoPage == ""
ElementsOf(seqs) == UNION {ToSet(s) : s \in ToSet(seqs)}
Ops == UNION {ToSet(g.ops) : g \in ToSet(Groups)}
ClassNames == {c.name : c \in ToSet(Classes)}

VARIABLES
  body,         \* [guide page -> the blocks of its draft]
  see,          \* [operator -> its see list]
  installed,    \* the functions of the installed module
  site,         \* web/_site: [page -> what was written], over the pages that are there
  search,       \* the search index in every page of the build
  spc, unwritten,    \* the build under way, and the pages it has yet to write
  gated,      \* what the gates said of the site as it is, or "unknown"
  builds, edits
siteVars == <<body, see, installed, site, search, spc, unwritten, gated, builds, edits>>

StInit ==
  /\ body \in [ToSet(Guide) -> {CHOOSE d \in Drafts : \A e \in Drafts : Len(d) <= Len(e)}]
  /\ see = [o \in Ops |-> <<>>]
  /\ installed \in {Ops, Ops \ {Deferred}}
  /\ site = <<>> /\ search = {} /\ spc = "idle" /\ unwritten = <<>> /\ gated = "unknown"
  /\ builds = 0 /\ edits = 0

(* with_heading_ids(): hand-written ids stay; a slug that is taken gets -2, -3. *)
HeadsOf(blocks) == SelectSeq(blocks, LAMBDA b : b.is = "heading")
HandIds(heads) == {h.id : h \in ToSet(heads)} \ {NoId}
NothingSeen(heads) == {}
Seen(heads) == HandIds(heads)
Free(slug, seen) == <<slug, Min({n \in 1..(Cardinality(seen) + 1) : <<slug, n>> \notin seen})>>
WithHeadingIds(heads) ==
  FoldLeft(LAMBDA done, h :
             IF h.id # NoId THEN [done EXCEPT !.out = Append(@, [level |-> h.level, id |-> h.id, made |-> FALSE])]
             ELSE IF h.text = "" THEN [done EXCEPT !.out = Append(@, [level |-> h.level, id |-> NoId, made |-> FALSE])]
             ELSE LET id == Free(h.text, done.seen) IN
                  [seen |-> done.seen \cup {id}, out |-> Append(done.out, [level |-> h.level, id |-> id, made |-> TRUE])],
           [seen |-> Seen(heads), out |-> <<>>], heads).out

(* inline(): a name in backticks links to its page; an operator to its entry.   *)
PageOf(op) == (CHOOSE g \in ToSet(Groups) : op \in ToSet(g.ops)).page
ClassPageOf(name) == (CHOOSE c \in ToSet(Classes) : c.name = name).page
NameLinks(names) ==
  {<<PageOf(n), Id(n)>> : n \in names \cap Ops} \cup {<<ClassPageOf(n), NoId>> : n \in names \cap ClassNames}

(* sidenav(): the sections, of which only the pages of PAGES are known, the     *)
(* categories and the classes.  crumbs() and the top bar link to four pages.    *)
Sidenav == {<<p, NoId>> : p \in (ToSet(NavSections) \cap ToSet(Guide)) \cup {"api"}
                              \cup {g.page : g \in ToSet(Groups)} \cup {c.page : c \in ToSet(Classes)}}
TopBar == {<<p, NoId>> : p \in {"index", "get-started", "concepts", "api"}}

(* One page as it is written: the ids of its headings, the table of contents,   *)
(* its links to other pages and within itself, the code blocks and their        *)
(* buttons, previous and next.                                                  *)
Page(heads, toc, links, within, blocks, prev, next) ==
  [build |-> builds, heads |-> heads, toc |-> toc, links |-> links \cup TopBar, within |-> within,
   bare |-> Len(SelectSeq(blocks, LAMBDA b : ~b.copy)), prev |-> prev, next |-> next]

(* api_entry() for every operator of a category: see lists link within the page.*)
GroupPage(g) ==
  Page([i \in DOMAIN g.ops |-> [level |-> 3, id |-> Id(g.ops[i])]],
       [i \in DOMAIN g.ops |-> Id(g.ops[i])],
       Sidenav \cup UNION {NameLinks(Mentions[o]) : o \in ToSet(g.ops)},
       {Id(o) : o \in ToSet(g.ops)} \cup {Id(s) : s \in ElementsOf([i \in DOMAIN g.ops |-> see[g.ops[i]]])},
       <<>>, NoPage, NoPage)
(* The overview: one card per category, a link whose title is a heading without *)
(* an id, and a contents rail of the categories' slugs, which no heading has.   *)
Rail == [i \in DOMAIN Groups |-> Id(Groups[i].page)]
Overview ==
  Page(<<>>, Rail, Sidenav \cup {<<g.page, NoId>> : g \in ToSet(Groups)}, ToSet(Rail), <<>>, NoPage, NoPage)

(* class_page(): the groups as written, then the members nothing listed; a      *)
(* member that is not in the class is passed over.                              *)
MemberId(m) == <<"m-" \o m, 1>>
Grouped(c) ==
  LET left == ToSet(c.members) \ ElementsOf([i \in DOMAIN c.groups |-> c.groups[i].names]) IN
  IF left = {} THEN c.groups
  ELSE Append(c.groups, [id |-> "other-members", names |-> SetToSeq(left)])
ClassHeads(c) ==
  FlattenSeq([i \in DOMAIN Grouped(c) |->
    LET g == Grouped(c)[i]
        there == SelectSeq(g.names, LAMBDA m : m \in ToSet(c.members)) IN
    <<[level |-> 2, id |-> MemberId(g.id)]>> \o [k \in DOMAIN there |-> [level |-> 3, id |-> MemberId(there[k])]]])
ClassPage(c) ==
  LET heads == IF c.found THEN ClassHeads(c) ELSE <<>>
      ids == [i \in DOMAIN heads |-> heads[i].id] IN
  Page(heads, ids, Sidenav \cup NameLinks(IF c.found THEN c.see ELSE {}), ToSet(ids), <<>>, NoPage, NoPage)

(* A guide or capability page: diagrams, buttons, ids, previous and next, and   *)
(* the contents from the h2 that have an id.  The landing page has no sidebar.  *)
ReadingOrder == SelectSeq(NavSections, LAMBDA p : p \in ToSet(Guide) \cup ToSet(Capability))
Beside(p, step) ==
  LET at == {i \in DOMAIN ReadingOrder : ReadingOrder[i] = p} IN
  IF at = {} \/ (Min(at) + step) \notin DOMAIN ReadingOrder THEN NoPage ELSE ReadingOrder[Min(at) + step]
EnsureCopyButtons(blocks) ==
  [i \in DOMAIN blocks |-> IF blocks[i].is = "pre" THEN [blocks[i] EXCEPT !.copy = TRUE] ELSE blocks[i]]
BlocksOf(blocks, is) == SelectSeq(blocks, LAMBDA b : b.is = is)
GuidePage(p, blocks) ==
  LET heads == WithHeadingIds(HeadsOf(blocks))
      toc == SelectSeq(heads, LAMBDA h : h.level = 2 /\ h.id # NoId)
      ids == [i \in DOMAIN toc |-> toc[i].id]
      around == {Beside(p, -1), Beside(p, 1)} \ {NoPage} IN
  Page(heads, IF p = "index" THEN <<>> ELSE ids,
       (IF p = "index" THEN {} ELSE Sidenav) \cup {<<q, NoId>> : q \in around}
         \cup {b.to : b \in ToSet(BlocksOf(blocks, "link"))},
       IF p = "index" THEN {} ELSE ToSet(ids),
       BlocksOf(EnsureCopyButtons(blocks), "pre"), Beside(p, -1), Beside(p, 1))
(* capability_pages(): headings with ids of their own, and one link between them*)
CapabilityBlocks(p) ==
  LET heading == [is |-> "heading", level |-> 2, id |-> Id("gradients"), text |-> "gradients"] IN
  IF p = "limitations" THEN <<heading>>
  ELSE IF p = "capabilities" THEN <<[is |-> "link", to |-> <<"limitations", Id("gradients")>>]>>
  ELSE [i \in 1..1 |-> [is |-> "link", to |-> <<PageOf(Groups[1].ops[1]), Id(Groups[1].ops[1])>>]]

(* reference_env.py: the table of the switches, a heading for each category and *)
(* a row, which has no id, for each switch.                                     *)
EnvTable ==
  SetToSeq({[is |-> "heading", level |-> 3, id |-> Id("env-" \o s.category), text |-> s.category] : s \in Switches})
Content(p) == IF p = EnvPage THEN body[p] \o EnvTable ELSE body[p]

AllPages == <<"api">> \o [i \in DOMAIN Groups |-> Groups[i].page] \o [i \in DOMAIN Classes |-> Classes[i].page]
              \o Guide \o Capability
Written(p) ==
  CASE p = "api" -> Overview
    [] \E g \in ToSet(Groups) : g.page = p -> GroupPage(CHOOSE g \in ToSet(Groups) : g.page = p)
    [] \E c \in ToSet(Classes) : c.page = p -> ClassPage(CHOOSE c \in ToSet(Classes) : c.page = p)
    [] p \in ToSet(Guide) -> GuidePage(p, Content(p))
    [] OTHER -> GuidePage(p, CapabilityBlocks(p))

(* The search index: operators, guide pages, classes and their members, and the *)
(* environment switches.                                                        *)
SwitchResults == {<<EnvPage, Id(s.slug)>> : s \in Switches}
SearchIndex ==
  {<<PageOf(o), Id(o)>> : o \in Ops} \cup {<<p, NoId>> : p \in ToSet(Guide)}
    \cup {<<c.page, NoId>> : c \in ToSet(Classes)}
    \cup UNION {{<<c.page, MemberId(m)>> : m \in ToSet(c.members) \ c.hidden} : c \in {c \in ToSet(Classes) : c.found}}
    \cup SwitchResults

(* An author writes a page or a see list. *)
Draft(p, blocks) ==
  /\ spc = "idle" /\ edits < MaxSiteEdits /\ edits' = edits + 1
  /\ body[p] # blocks /\ body' = [body EXCEPT ![p] = blocks]
  /\ UNCHANGED <<see, installed, site, search, spc, unwritten, gated, builds>>
DraftSee(o, list) ==
  /\ spc = "idle" /\ edits < MaxSiteEdits /\ edits' = edits + 1
  /\ see[o] # list /\ see' = [see EXCEPT ![o] = list]
  /\ UNCHANGED <<body, installed, site, search, spc, unwritten, gated, builds>>

(* build(): the old site goes first; an operator the module lacks ends it here. *)
SiteKept == site
SiteRemoved == <<>>
StartBuild ==
  /\ spc = "idle" /\ builds < MaxBuilds /\ builds' = builds + 1
  /\ site' = SiteRemoved /\ gated' = "unknown"
  /\ IF Ops \subseteq installed
     THEN spc' = "writing" /\ unwritten' = AllPages /\ search' = SearchIndex
     ELSE UNCHANGED <<spc, unwritten, search>>
  /\ UNCHANGED <<body, see, installed, edits>>
UnknownDiagram(p) ==
  p \in ToSet(Guide) /\ \E b \in ToSet(BlocksOf(body[p], "diagram")) : b.name \notin Diagrams
WritePage ==
  /\ spc = "writing" /\ ~UnknownDiagram(Head(unwritten))
  /\ site' = [p \in DOMAIN site \cup {Head(unwritten)} |-> IF p = Head(unwritten) THEN Written(p) ELSE site[p]]
  /\ unwritten' = Tail(unwritten) /\ spc' = IF Len(unwritten) = 1 THEN "idle" ELSE "writing"
  /\ UNCHANGED <<body, see, installed, search, gated, builds, edits>>
(* An unknown diagram raises, and so does ^C: what is written stays.            *)
BuildStops ==
  /\ spc = "writing" /\ spc' = "idle" /\ unwritten' = <<>>
  /\ UNCHANGED <<body, see, installed, site, search, gated, builds, edits>>

(* check_docs_links.py: links to other pages, and to their anchors; links       *)
(* within a page are passed over.  headings_without_ids, the copy buttons of    *)
(* check_css_bindings.py and oversized_sidebar, which wants get-started.        *)
IdsOn(p) == {h.id : h \in ToSet(site[p].heads)} \ {NoId}
Resolves(link) ==
  link[1] \in DOMAIN site /\ (link[2] # NoId => link[2] \in IdsOn(link[1]))
LinksGate == site # <<>> /\ \A p \in DOMAIN site : \A link \in site[p].links : Resolves(link)
HeadingsGate == \A p \in DOMAIN site : \A h \in ToSet(site[p].heads) : h.id # NoId
ButtonsGate == site # <<>> /\ \A p \in DOMAIN site : site[p].bare = 0
SidebarGate == "get-started" \in DOMAIN site
RunGates ==
  /\ spc = "idle" /\ gated = "unknown"
  /\ gated' = IF LinksGate /\ HeadingsGate /\ ButtonsGate /\ SidebarGate THEN "pass" ELSE "fail"
  /\ UNCHANGED <<body, see, installed, site, search, spc, unwritten, builds, edits>>

StNext ==
  \/ \E p \in ToSet(Guide), blocks \in Drafts : Draft(p, blocks)
  \/ \E o \in Ops, list \in SeeLists : DraftSee(o, list)
  \/ StartBuild \/ WritePage \/ BuildStops \/ RunGates
StSpec == StInit /\ [][StNext]_siteVars

(* A site that passes the gates is whole, whichever build stopped half way      *)
(* before them and whatever was edited since: every page the structure names,   *)
(* all of one build; on the guide and capability pages every identifier the     *)
(* build made up is the only one of its name; the contents rail of every page   *)
(* but the overview leads to headings of the page; previous and next are        *)
(* inverse; and every search result leads to what it names, but those of the    *)
(* switches, which lead to the top of their page.                               *)
SiteWhole ==
  gated = "pass" =>
    /\ DOMAIN site = ToSet(AllPages) /\ \A p, q \in DOMAIN site : site[p].build = site[q].build
    /\ \A p \in ToSet(Guide) \cup ToSet(Capability) : \A i, j \in DOMAIN site[p].heads :
         site[p].heads[i].made /\ i # j => site[p].heads[i].id # site[p].heads[j].id
    /\ \A p \in DOMAIN site \ {"api"} : ToSet(site[p].toc) \subseteq IdsOn(p)
    /\ \A p, q \in DOMAIN site : site[p].next = q <=> site[q].prev = p
    /\ \A link \in search : Resolves(IF link \in SwitchResults THEN <<link[1], NoId>> ELSE link)

(* "Every internal link and anchor in the built site must resolve."  A link     *)
(* within its own page is one too, and so is a result of the search: the rail   *)
(* of the overview, the see lists and the switches make dead ones.              *)
EveryLinkResolves ==
  gated = "pass" =>
    /\ \A p \in DOMAIN site : site[p].within \subseteq IdsOn(p)
    /\ \A link \in search : Resolves(link)
================================================================================
