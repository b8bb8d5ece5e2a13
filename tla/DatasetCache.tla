----------------------------- MODULE DatasetCache -----------------------------
(* The dataset files of the examples: _download() of examples/mnist/data.py,    *)
(* which caches a download through a temporary name, and the checks both        *)
(* loaders make of what they find (examples/mnist/data.py and cifar100/data.py).*)
(* A file's content is the set of its chunks that are there; an open file       *)
(* handle keeps writing to its file when the file is renamed.                   *)
EXTENDS Naturals, FiniteSets

CONSTANTS
  Loaders,      \* processes that load the dataset (train.py, gui.py ...)
  Mirrors,      \* the number of mirrors tried
  MaxRuns       \* bound: the times one process calls _download
ASSUME MirrorsAssumption == Mirrors \in Nat \ {0}

Chunks == {1, 2}
Gone == {0}     \* no such file

VARIABLES
  cached,       \* the file at CACHE/name
  part,         \* the file at CACHE/name.part
  dlpc,         \* [Loaders -> where _download() is]
  handle,       \* [Loaders -> the name its open file has now]
  put,          \* [Loaders -> the chunks it has written]
  mirror,       \* [Loaders -> the mirror it tries]
  calls,        \* [Loaders -> the calls so far]
  met,          \* whether two downloads were ever under way at once
  archive,      \* the CIFAR-100 archive somebody put into CACHE by hand
  cifar         \* [arrays, names : what the last load() and class_names() of it gave]
dcVars == <<cached, part, dlpc, handle, put, mirror, calls, met, archive, cifar>>
Mnist == <<cached, part, dlpc, handle, put, mirror, calls, met>>
Cifar == <<archive, cifar>>

(* The archive of CIFAR-100 is fetched by hand: what may lie in CACHE under the *)
(* two names, and what its members may hold.                                    *)
Flaws == {"none", "absent", "truncated", "no member", "not a file", "foreign global",
          "no label key", "wrong rows", "wrong labels"}
Archives == [zip : Flaws, tgz : Flaws]
NotFetched == [zip |-> "absent", tgz |-> "absent"]
NotRead == [arrays |-> "unread", names |-> "unread"]

DcInit ==
  /\ cached = Gone /\ part = Gone
  /\ dlpc = [p \in Loaders |-> "out"]
  /\ handle = [p \in Loaders |-> "none"]
  /\ put = [p \in Loaders |-> {}]
  /\ mirror = [p \in Loaders |-> 1]
  /\ calls = [p \in Loaders |-> 0]
  /\ met = FALSE
  /\ archive = NotFetched /\ cifar = NotRead

Downloading(p) == dlpc[p] \notin {"out", "returned", "raised"}

(* `if path.exists(): return path` - whatever its length. *)
Call(p) ==
  /\ dlpc[p] = "out" /\ calls[p] < MaxRuns
  /\ archive = NotFetched /\ cifar = NotRead     \* bound: MNIST here, CIFAR-100 below
  /\ calls' = [calls EXCEPT ![p] = @ + 1]
  /\ dlpc' = [dlpc EXCEPT ![p] = IF cached # Gone THEN "returned" ELSE "fetch"]
  /\ mirror' = [mirror EXCEPT ![p] = 1]
  /\ met' = (met \/ (cached = Gone /\ \E q \in Loaders \ {p} : Downloading(q)))
  /\ UNCHANGED <<cached, part, handle, put, Cifar>>

(* Downloading straight to the name: a slip used by a mutant. *)
FetchedToPath(p) ==
  /\ dlpc[p] = "fetch"
  /\ cached' = {}
  /\ handle' = [handle EXCEPT ![p] = "cached"]
  /\ put' = [put EXCEPT ![p] = {}]
  /\ dlpc' = [dlpc EXCEPT ![p] = "write"]
  /\ UNCHANGED <<part, mirror, calls, met, Cifar>>

(* The whole payload is in memory before the temporary file is opened; opening  *)
(* truncates the file another process may have open.                            *)
Fetched(p) ==
  /\ dlpc[p] = "fetch"
  /\ part' = {}
  /\ handle' = [handle EXCEPT ![p] = "part"]
  /\ put' = [put EXCEPT ![p] = {}]
  /\ dlpc' = [dlpc EXCEPT ![p] = "write"]
  /\ UNCHANGED <<cached, mirror, calls, met, Cifar>>

Write(p) ==
  /\ dlpc[p] = "write"
  /\ \E c \in Chunks \ put[p] :
       /\ put' = [put EXCEPT ![p] = @ \cup {c}]
       /\ part' = IF handle[p] = "part" THEN part \cup {c} ELSE part
       /\ cached' = IF handle[p] = "cached" THEN cached \cup {c} ELSE cached
  /\ dlpc' = [dlpc EXCEPT ![p] = IF put'[p] = Chunks THEN "rename" ELSE "write"]
  /\ UNCHANGED <<handle, mirror, calls, met, Cifar>>

(* Any exception but an interrupt is caught and the next mirror tried. *)
Failed(p) ==
  IF mirror[p] < Mirrors
  THEN dlpc' = [dlpc EXCEPT ![p] = "fetch"] /\ mirror' = [mirror EXCEPT ![p] = @ + 1]
  ELSE dlpc' = [dlpc EXCEPT ![p] = "raised"] /\ UNCHANGED mirror

(* write_bytes() closed the handle.  The name may have been renamed away by the *)
(* process that shared it: FileNotFoundError.                                   *)
Rename(p) ==
  /\ dlpc[p] = "rename"
  /\ IF part = Gone
     THEN Failed(p) /\ UNCHANGED <<cached, part, handle>>
     ELSE /\ cached' = part /\ part' = Gone
          /\ handle' = [q \in Loaders |-> IF q = p THEN "none"
                          ELSE IF handle[q] = "cached" THEN "lost"
                          ELSE IF handle[q] = "part" /\ dlpc[q] = "write" THEN "cached" ELSE handle[q]]
          /\ dlpc' = [dlpc EXCEPT ![p] = "returned"] /\ UNCHANGED mirror
  /\ UNCHANGED <<put, calls, met, Cifar>>

(* A mirror that fails, before the temporary file or while it is written. *)
Fault(p) ==
  /\ dlpc[p] \in {"fetch", "write"}
  /\ Failed(p)
  /\ handle' = [handle EXCEPT ![p] = "none"]
  /\ UNCHANGED <<cached, part, put, calls, met, Cifar>>

(* The process is interrupted or killed, or uses what it got; it may run again. *)
Leave(p) ==
  /\ dlpc[p] # "out"
  /\ dlpc' = [dlpc EXCEPT ![p] = "out"]
  /\ handle' = [handle EXCEPT ![p] = "none"]
  /\ UNCHANGED <<cached, part, put, mirror, calls, met, Cifar>>

(* _read_idx() and load(): the header, then the number of items; a truncated    *)
(* gzip stream raises on the way.                                               *)
ReadIdx(file) == IF file # Chunks THEN "raises" ELSE "array"

(* _archive_path(): the first container that exists. *)
ArchivePath(a) == IF a.zip # "absent" THEN "zip" ELSE IF a.tgz # "absent" THEN "tgz" ELSE "none"
Only(a) == IF ArchivePath(a) = "none" THEN "absent" ELSE a[ArchivePath(a)]

(* _member_bytes(): members are read by name.  extractfile() of a directory is  *)
(* None; a name a container lacks - in a zip a directory too - is a KeyError.   *)
MemberBytes(a) ==
  LET flaw == Only(a) IN
  CASE flaw = "absent"     -> "FileNotFoundError"
    [] flaw = "truncated"  -> "ValueError"
    [] flaw = "no member"  -> "KeyError"
    [] flaw = "not a file" -> IF ArchivePath(a) = "tgz" THEN "ValueError" ELSE "KeyError"
    [] OTHER               -> "bytes"

(* find_class(): nothing but numpy's array reconstruction is imported. *)
Allowed(global) == global = "numpy"
Globals(a) == IF Only(a) = "foreign global" THEN {"numpy", "other"} ELSE {"numpy"}
Unpickle(a) ==
  IF \A g \in Globals(a) : Allowed(g) THEN "record" ELSE "UnpicklingError"

(* load(): both splits, each with its keys, its rows and its labels. *)
CifarLoad(a) ==
  IF MemberBytes(a) # "bytes" THEN MemberBytes(a)
  ELSE IF Unpickle(a) # "record" THEN Unpickle(a)
  ELSE IF Only(a) \in {"no label key", "wrong rows", "wrong labels"} THEN "ValueError"
  ELSE "arrays"
(* class_names() reads the meta member only. *)
CifarNames(a) ==
  IF MemberBytes(a) # "bytes" THEN MemberBytes(a)
  ELSE IF Unpickle(a) # "record" THEN Unpickle(a) ELSE "names"

(* Bound: a behaviour is about MNIST or about CIFAR-100; they share nothing.    *)
FetchArchive(a) ==
  /\ archive = NotFetched /\ \A p \in Loaders : calls[p] = 0
  /\ archive' = a /\ cifar' = NotRead
  /\ UNCHANGED Mnist
LoadCifar ==
  /\ \A p \in Loaders : calls[p] = 0
  /\ cifar' = [arrays |-> CifarLoad(archive), names |-> CifarNames(archive)]
  /\ UNCHANGED <<archive, Mnist>>

DcNext ==
  \/ \E p \in Loaders : Call(p) \/ Fetched(p) \/ Write(p) \/ Rename(p) \/ Fault(p) \/ Leave(p)
  \/ (\E a \in Archives : FetchArchive(a)) \/ LoadCifar
DcSpec == DcInit /\ [][DcNext]_dcVars

(* "an interrupted download cannot leave a truncated file that looks cached     *)
(* next time": what is cached is whole, also after failing mirrors, interrupts  *)
(* and kills at any point - as long as no two downloads were under way at once: *)
(* they share the temporary name, and the one that renames it can hand the      *)
(* other's half-written file to every later call.                               *)
CachedWhole == ~met /\ cached # Gone => ReadIdx(cached) = "array"

(* An archive that is cut short, doctored or mislabelled gives an exception and *)
(* never arrays; a sound one behind a flawed one of the other container does    *)
(* not help.                                                                    *)
OnlySoundArchives ==
  cifar.arrays \in {"unread", "arrays"} =>
    cifar.arrays = "unread" \/ (Only(archive) = "none" /\ cifar.names = "names")

(* No loader hands out data that is not what it claims to be. *)
DatasetsWhole == CachedWhole /\ OnlySoundArchives
================================================================================
