--------------------------------- MODULE Extract ---------------------------------
(* The line scanners of web/research.py that the reference pages are made from: *)
(* C++ headers, classes, GLSL functions, CPU kernels, the switch of the Vulkan  *)
(* backend and the test files.  A source line is [is, name]: what the scanners' *)
(* patterns tell of it, the name in it, and whether a `{` at its end opens an   *)
(* inline body that goes on below it.  A file grows line by line.               *)
EXTENDS Naturals, Sequences, FiniteSetsExt, SequencesExt

CONSTANTS
  FileKinds,    \* the files that are scanned: a subset of DOMAIN Alphabet
  Names,        \* the names a line may hold
  MaxLines      \* bound: the lines of a file

(* `///`, `//` or `#`, a blank line, a whole declaration (an inline body on one *)
(* line with it included), the first line of a wrapped one and the rest of it   *)
(* (with a call in its default argument), a line of control flow, assignment or *)
(* `template`, and the lines of a class, a switch and a test file.  A statement *)
(* of an inline body `states` a name when it reads like a declaration of it:    *)
(* `return full(...)` or `return value;`; `closes` is the brace that ends it.   *)
Line(is) == [is |-> is, name |-> "", body |-> FALSE]
Naming(is) == {[is |-> is, name |-> n, body |-> FALSE] : n \in Names}
Opening(is) == {[is |-> is, name |-> n, body |-> TRUE] : n \in Names}
BodyLines == Naming("states") \cup {Line("control"), Line("closes")}
Prose == {Line("doc"), Line("note"), Line("blank")}
Alphabet ==
  [header |-> Prose \cup Naming("decl") \cup Naming("opens") \cup {Line("control")},
   class |-> Prose \cup Naming("decl") \cup Opening("decl") \cup Naming("opens")
              \cup {Line("public"), Line("private")} \cup BodyLines,
   kernel |-> Prose \cup Naming("decl") \cup {Line("control")},
   switch |-> Naming("case") \cup Naming("pipe") \cup {Line("break"), Line("control")},
   test |-> Naming("def") \cup Naming("call")]
ASSUME FilesAssumption == FileKinds \subseteq DOMAIN Alphabet

VARIABLES
  kind,     \* the kind of the file
  file      \* its lines
exVars == <<kind, file>>
ExInit == kind \in FileKinds /\ file = <<>>
(* A wrapped declaration is ended by the next line.  `file` is what stands      *)
(* between the opening line of a class and its last brace: statements stand in  *)
(* inline bodies, and labels and declarations outside of them.                  *)
Wrapped == file # <<>> /\ Last(file).is = "opens"
InBody == \E i \in DOMAIN file : file[i].body /\ \A k \in (i + 1)..Len(file) : file[k].is # "closes"
AddLine(l) ==
  /\ Len(file) < MaxLines /\ l \in Alphabet[kind] /\ ~Wrapped
  /\ kind = "class" /\ l \notin Prose => (l \in BodyLines <=> InBody)
  /\ file' = Append(file, l)
  /\ UNCHANGED kind
EndDeclaration(n, opensBody) ==
  /\ Wrapped /\ (opensBody => kind = "class")
  /\ file' = Append(file, [is |-> "ends", name |-> n, body |-> opensBody])
  /\ UNCHANGED kind
ExNext ==
  \/ \E l \in UNION {Alphabet[k] : k \in FileKinds} : AddLine(l)
  \/ \E n \in Names, opensBody \in BOOLEAN : EndDeclaration(n, opensBody)
ExSpec == ExInit /\ [][ExNext]_exVars

(* A scanner folds over the numbered lines, with the lines of the `///` block it*)
(* holds and what it has found: [name, doc, line].                              *)
Numbered == [i \in DOMAIN file |-> i]
Found(scan, i, name) == [scan EXCEPT !.out = Append(@, [name |-> name, doc |-> scan.doc, line |-> i]), !.doc = {}]
Held(scan, i) == [scan EXCEPT !.doc = @ \cup {i}]
Dropped(scan) == [scan EXCEPT !.doc = {}]
NothingYet == [doc |-> {}, out |-> <<>>]

(* parse_header(): a comment keeps the block, a blank line drops it.  The lines *)
(* of a wrapped declaration are each scanned, the last for the call in it.      *)
BlankKept(scan) == scan
AtBlank(scan) == Dropped(scan)
HeaderLine(scan, i) ==
  CASE file[i].is = "doc" -> Held(scan, i)
    [] file[i].is = "note" -> scan
    [] file[i].is = "blank" -> AtBlank(scan)
    [] file[i].is \in {"decl", "opens", "ends"} -> Found(scan, i, file[i].name)
    [] OTHER -> Dropped(scan)
ParseHeader == FoldLeft(HeaderLine, NothingYet, Numbered).out

(* parse_classes(): the same within a class, under its access.  A wrapped       *)
(* declaration is joined to its last line, which is the one recorded, under the *)
(* name in its first.  Statements are scanned like members, and a brace that    *)
(* closes keeps the block.                                                      *)
Joined(scan, i) == [scan EXCEPT !.opened = file[i].name]
Listed(scan, i, name) == [Found(scan, i, name) EXCEPT !.all = @ \cup {<<i, scan.access>>}]
ClassLine(scan, i) ==
  CASE file[i].is = "opens" -> Joined(scan, i)
    [] file[i].is = "ends" -> Listed(scan, i, scan.opened)
    [] file[i].is \in {"decl", "states"} -> Listed(scan, i, file[i].name)
    [] file[i].is = "doc" -> Held(scan, i)
    [] file[i].is \in {"note", "closes"} -> scan
    [] file[i].is = "blank" -> AtBlank(scan)
    [] file[i].is \in {"public", "private"} -> [Dropped(scan) EXCEPT !.access = file[i].is]
    [] OTHER -> Dropped(scan)
ParseClass ==
  FoldLeft(ClassLine, [doc |-> {}, out |-> <<>>, access |-> "private", opened |-> "", all |-> {}], Numbered)
Public == {m \in ToSet(ParseClass.out) : <<m.line, "public">> \in ParseClass.all}

(* shader_functions() and cpu_kernel_doc(): only a function that has a block is *)
(* listed; whatever is not a comment drops the block.                           *)
FunctionLine(scan, i) ==
  IF file[i].is = "doc" THEN Held(scan, i)
  ELSE IF file[i].is = "note" THEN scan
  ELSE IF file[i].is = "decl" /\ scan.doc # {} THEN Found(scan, i, file[i].name)
  ELSE Dropped(scan)
ShaderFunctions == FoldLeft(FunctionLine, NothingYet, Numbered).out
CpuKernelDoc(name) ==
  LET of == {i \in DOMAIN ShaderFunctions : ShaderFunctions[i].name = name}
  IN  IF of = {} THEN {} ELSE ShaderFunctions[Min(of)].doc

(* pipeline_map(): the case labels in scope until a break, and the pipelines    *)
(* under them; autograd_rules(): the first label of every kind.                 *)
SwitchLine(scan, i) ==
  CASE file[i].is = "case" -> [scan EXCEPT !.active = @ \cup {file[i].name}]
    [] file[i].is = "pipe" -> [scan EXCEPT !.map = @ \cup {<<k, file[i].name>> : k \in scan.active}]
    [] file[i].is = "break" -> [scan EXCEPT !.active = {}]
    [] OTHER -> scan
PipelineMap == FoldLeft(SwitchLine, [active |-> {}, map |-> {}], Numbered).map
LinesThat(is) == {i \in DOMAIN file : file[i].is = is}
AutogradRules ==
  {[name |-> n, line |-> Min({i \in LinesThat("case") : file[i].name = n})]
     : n \in {file[i].name : i \in LinesThat("case")}}

(* test_index(): a call counts for the last `def test_` above it.               *)
TestLine(scan, i) ==
  IF file[i].is = "def" THEN [scan EXCEPT !.current = i]
  ELSE IF scan.current = 0 THEN scan
  ELSE [scan EXCEPT !.index = @ \cup {<<file[i].name, scan.current>>}]
TestIndex == FoldLeft(TestLine, [current |-> 0, index |-> {}], Numbered).index

(* What a reader of the file would say: the block of a declaration is the `///` *)
(* lines above it with nothing but comments, and braces of bodies, in between;  *)
(* a wrapped one lies at its last line; a label holds until the next.           *)
KindsBetween(i, j) == {file[k].is : k \in (i + 1)..(j - 1)}
BlockAbove(j) == {i \in 1..(j - 1) : file[i].is = "doc" /\ KindsBetween(i, j) \subseteq {"doc", "note", "closes"}}
LastLine(j) == IF file[j].is = "opens" THEN j + 1 ELSE j
UnderPublic(j) == \E a \in LinesThat("public") : a < j /\ "private" \notin KindsBetween(a, j)
(* Whatever was written above and below it, a declaration is listed with its own*)
(* name, line and block, a member under its own access and never twice, a       *)
(* pipeline under the labels that reach it, a call under the test it is in: no  *)
(* block, label or test leaks into the next.  A class has no other members, but *)
(* for the statements of inline bodies that read like one.                      *)
ScannersExact ==
  /\ kind = "header" =>
       {d \in ToSet(ParseHeader) : file[d.line].is # "ends"} =
         {[name |-> file[j].name, doc |-> BlockAbove(j), line |-> j] : j \in LinesThat("decl") \cup LinesThat("opens")}
  /\ kind = "class" =>
       Public = {[name |-> file[j].name, doc |-> BlockAbove(j), line |-> LastLine(j)] :
                   j \in {j \in LinesThat("decl") \cup LinesThat("opens") \cup LinesThat("states") :
                            LastLine(j) \in DOMAIN file /\ UnderPublic(j)}}
  /\ kind = "kernel" =>
       /\ \A f \in ToSet(ShaderFunctions) : f.doc = BlockAbove(f.line) /\ f.doc # {}
       /\ \A j \in LinesThat("decl") : BlockAbove(j) # {} => \E f \in ToSet(ShaderFunctions) : f.line = j
       /\ \A n \in Names : CpuKernelDoc(n) = {} \/ \E j \in LinesThat("decl") :
            file[j].name = n /\ CpuKernelDoc(n) = BlockAbove(j)
  /\ kind = "switch" =>
       /\ PipelineMap = {<<file[cp[1]].name, file[cp[2]].name>> :
            cp \in {cp \in LinesThat("case") \X LinesThat("pipe") :
                            cp[1] < cp[2] /\ "break" \notin KindsBetween(cp[1], cp[2])}}
       /\ \A r \in AutogradRules : file[r.line].is = "case" /\ file[r.line].name = r.name
  /\ kind = "test" =>
       TestIndex = {<<file[dc[2]].name, dc[1]>> :
         dc \in {dc \in LinesThat("def") \X LinesThat("call") :
                         dc[1] < dc[2] /\ "def" \notin KindsBetween(dc[1], dc[2])}}
================================================================================
