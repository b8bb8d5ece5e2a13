------------------------------ MODULE Checkpoint ------------------------------
(* Checkpoints: save() and load() of python/vkml/serialize.py, run by several   *)
(* processes on one path.  A file is what load() can tell of it; a save writes  *)
(* it member by member under a temporary name and renames it.  Processes are    *)
(* interrupted (an exception raised inside save) and killed (nothing runs any   *)
(* more) between any two steps, and a later process may get a dead one's pid.   *)
EXTENDS Naturals, FiniteSets

CONSTANTS
  Procs,        \* the pids
  Keys,         \* the names of the state dict
  MaxSaves      \* bound: saves started by one process

VARIABLES
  dest,         \* the file at `path`
  partials,     \* the files at path.<pid>.partial
  ckpc,         \* [Procs -> where the process is]
  written,      \* [Procs -> the members its save has written]
  saves,        \* [Procs -> the number of its saves so far]
  seen          \* what the last load of any process returned
ckVars == <<dest, partials, ckpc, written, saves, seen>>

Absent == [zip |-> FALSE, of |-> <<>>]

(* A file being written: a zip archive has its directory only once it is closed. *)
Archive(p, n, closed, ms) ==
  [zip |-> closed, of |-> <<p, n>>, expands |-> 1, header |-> "vkml-checkpoint",
   version |-> 1, keys |-> Keys, members |-> ms, meta |-> "object"]

HeaderMember == "vkml.json"
Members == Keys \cup {HeaderMember}
Whole(p, n) == Archive(p, n, TRUE, Members)

(* What may lie at `path` before the first save: nothing, an older checkpoint,  *)
(* and files that differ from one in a single respect.                          *)
Older == Whole("before", 0)
NotAList == {}
NotANumber == 0
Foreign ==
  {[Older EXCEPT !.zip = FALSE], [Older EXCEPT !.expands = 101],
   [Older EXCEPT !.members = Keys], [Older EXCEPT !.header = "garbled"],
   [Older EXCEPT !.header = "other"], [Older EXCEPT !.version = 2],
   [Older EXCEPT !.keys = NotAList], [Older EXCEPT !.version = NotANumber],
   [Older EXCEPT !.members = Members \ {CHOOSE k \in Keys : TRUE}],
   [Older EXCEPT !.members = Members \cup {"stray"}],
   [Older EXCEPT !.meta = "list"]}
FormatVersion == 1
MaxExpansionRatio == 100

(* load(): the checks in their order, then the tensors of the key list - the    *)
(* list decides, not the archive's directory.                                   *)
RejectBomb(f) == f.expands > MaxExpansionRatio
Load(f) ==
  CASE ~f.zip                            -> "not a zip archive"
    [] RejectBomb(f)                     -> "expands too far"
    [] HeaderMember \notin f.members     -> "no header"
    [] f.header = "garbled"              -> "header is not JSON"
    [] f.header # "vkml-checkpoint"      -> "not a vkml checkpoint"
    [] f.version = NotANumber            -> "version is no integer"
    [] f.version > FormatVersion         -> "newer format"
    [] f.keys = NotAList                 -> "the key list is malformed"
    [] ~(f.keys \subseteq f.members)     -> "a listed tensor is missing"
    [] f.meta # "object"                 -> "metadata is not an object"
    [] OTHER                             -> "loaded"
Unread == [result |-> "unread", of |-> <<>>, tensors |-> {}]
Loaded(f) == [result |-> Load(f), of |-> f.of, tensors |-> IF Load(f) = "loaded" THEN f.keys ELSE {}]

(* The pid is in the temporary name. *)
TempNameShared(p) == CHOOSE q \in Procs : TRUE
TempName(p) == p

Idle == "idle"
CkInit ==
  /\ dest \in {Absent, Older} \cup Foreign
  /\ partials = [p \in Procs |-> Absent]
  /\ ckpc = [p \in Procs |-> Idle]
  /\ written = [p \in Procs |-> {}]
  /\ saves = [p \in Procs |-> 0]
  /\ seen = Unread

(* save() converts and validates every entry and the header before it opens a   *)
(* file; opening with "w" truncates what an earlier life of the pid left.       *)
Open(p) ==
  /\ ckpc[p] = Idle /\ saves[p] < MaxSaves
  /\ saves' = [saves EXCEPT ![p] = @ + 1]
  /\ written' = [written EXCEPT ![p] = {}]
  /\ partials' = [partials EXCEPT ![TempName(p)] = Archive(p, saves[p] + 1, FALSE, {})]
  /\ ckpc' = [ckpc EXCEPT ![p] = "writing"]
  /\ UNCHANGED <<dest, seen>>

(* The header first, then one member for each key. *)
WriteMember(p) ==
  /\ ckpc[p] = "writing"
  /\ \E m \in Members \ written[p] :
       /\ m # HeaderMember => HeaderMember \in written[p]
       /\ written' = [written EXCEPT ![p] = @ \cup {m}]
       /\ partials' = [partials EXCEPT ![TempName(p)].members = @ \cup {m}]
  /\ UNCHANGED <<dest, ckpc, saves, seen>>

(* Leaving the with block writes the archive's directory, also when an          *)
(* exception is on its way out of it.                                           *)
Close(p) ==
  /\ ckpc[p] = "writing" /\ written[p] = Members
  /\ partials' = [partials EXCEPT ![TempName(p)].zip = TRUE]
  /\ ckpc' = [ckpc EXCEPT ![p] = "closed"]
  /\ UNCHANGED <<dest, written, saves, seen>>

(* os.replace inside the with block: a plausible slip, used by a mutant. *)
ReplaceEarly(p) ==
  /\ ckpc[p] = "writing" /\ HeaderMember \in written[p]
  /\ dest' = partials[TempName(p)]
  /\ partials' = [partials EXCEPT ![TempName(p)] = Absent]
  /\ ckpc' = [ckpc EXCEPT ![p] = "replaced"]
  /\ UNCHANGED <<written, saves, seen>>

Replace(p) ==
  /\ ckpc[p] = "closed"
  /\ dest' = partials[TempName(p)]
  /\ partials' = [partials EXCEPT ![TempName(p)] = Absent]
  /\ ckpc' = [ckpc EXCEPT ![p] = "replaced"]
  /\ UNCHANGED <<written, saves, seen>>

Return(p) ==
  /\ ckpc[p] = "replaced"
  /\ ckpc' = [ckpc EXCEPT ![p] = Idle]
  /\ UNCHANGED <<dest, partials, written, saves, seen>>

(* `except BaseException`: an error or a KeyboardInterrupt anywhere in the try. *)
Interrupt(p) ==
  /\ ckpc[p] \in {"writing", "closed", "replaced"}
  /\ partials' = IF ckpc[p] = "writing" THEN [partials EXCEPT ![TempName(p)].zip = TRUE] ELSE partials
  /\ ckpc' = [ckpc EXCEPT ![p] = "raising"]
  /\ UNCHANGED <<dest, written, saves, seen>>
(* unlink(missing_ok): after the rename there is nothing left to unlink. *)
Unlink(p) ==
  /\ ckpc[p] = "raising"
  /\ partials' = [partials EXCEPT ![TempName(p)] = Absent]
  /\ ckpc' = [ckpc EXCEPT ![p] = Idle]
  /\ UNCHANGED <<dest, written, saves, seen>>

(* A killed process runs no handler; its partial file stays. *)
Kill(p) ==
  /\ ckpc[p] \notin {Idle, "dead"}
  /\ ckpc' = [ckpc EXCEPT ![p] = "dead"]
  /\ UNCHANGED <<dest, partials, written, saves, seen>>
ReusePid(p) ==
  /\ ckpc[p] = "dead"
  /\ ckpc' = [ckpc EXCEPT ![p] = Idle]
  /\ UNCHANGED <<dest, partials, written, saves, seen>>

(* load() opens the path twice: is_zipfile() first, then the archive.  An open  *)
(* file keeps its content when another one is renamed over its name.            *)
Probe(p) ==
  /\ ckpc[p] = Idle /\ dest # Absent
  /\ IF dest.zip
     THEN ckpc' = [ckpc EXCEPT ![p] = "probed"] /\ UNCHANGED seen
     ELSE seen' = Loaded(dest) /\ UNCHANGED ckpc
  /\ UNCHANGED <<dest, partials, written, saves>>
Read(p) ==
  /\ ckpc[p] = "probed"
  /\ seen' = Loaded(dest)
  /\ ckpc' = [ckpc EXCEPT ![p] = Idle]
  /\ UNCHANGED <<dest, partials, written, saves>>

CkNext == \E p \in Procs :
  \/ Open(p) \/ WriteMember(p) \/ Close(p) \/ Replace(p) \/ Return(p)
  \/ Interrupt(p) \/ Unlink(p) \/ Kill(p) \/ ReusePid(p) \/ Probe(p) \/ Read(p)
CkSpec == CkInit /\ [][CkNext]_ckVars

Saved(f) == \E p \in Procs : \E n \in 1..saves[p] : f = Whole(p, n)

(* save: "WRITES ATOMICALLY ... an interrupt during the write leaves the        *)
(* previous checkpoint intact."  At every moment, also after a kill at any      *)
(* point, the path holds what lay there before any save or one save's complete  *)
(* archive, and a load that succeeded returned every tensor of one save.        *)
DestinationWhole ==
  /\ Saved(dest) \/ dest \in {Absent, Older} \cup Foreign
  /\ seen.result = "loaded" => seen.tensors = Keys

(* "two processes saving to one path cannot delete each other's half-written    *)
(* file": while a process writes, its temporary file is its own and holds       *)
(* exactly the members it has written.                                          *)
PartialOwned ==
  \A p \in Procs : ckpc[p] \in {"writing", "closed"} =>
    partials[TempName(p)] = Archive(p, saves[p], ckpc[p] = "closed", written[p])
================================================================================
