----------------------------- MODULE MCLibrary -----------------------------
(***************************************************************************)
(* The components of the library that share no state, in one run of TLC:   *)
(* `active` is the one that runs, and the others stay in one of their      *)
(* initial states.  The reachable states are the sum of the components'.   *)
(***************************************************************************)
EXTENDS VkAllocator, Checkpoint, DatasetCache, DataLoader, Optimizer, NnState, Layers, Devices,
        Autograd

VARIABLE active

Components == {"allocator", "checkpoint", "cache", "loader", "optimizer", "modules", "layers", "devices", "autograd"}

\* Pins a component that does not run to one of its initial states.
Pinned(component, at) == IF active = component THEN TRUE ELSE at

\* The graph of an autograd that does not run.
Chain == [n \in Operation |-> <<n - 1, n - 1>>]

LibraryInit ==
  /\ active \in Components
  /\ AllocInit
  /\ Pinned("checkpoint", dest = Older) /\ CkInit
  /\ DcInit
  /\ Pinned("loader", conf = [fraction |-> 50, batch |-> 2, seed |-> 3, shuffle |-> TRUE, dropLast |-> FALSE,
                              transforms |-> <<>>]) /\ DlInit
  /\ Pinned("optimizer", rule = "sgd") /\ OptInit
  /\ NnInit
  /\ LyInit
  /\ Pinned("devices", compiled = FALSE /\ devices = <<>> /\ broken = {}) /\ DvInit
  /\ Pinned("autograd", tape = Chain) /\ AgInit /\ Pinned("autograd", requires = {})

LibraryNext ==
  \/ active = "allocator" /\ AllocNext
     /\ UNCHANGED <<active, ckVars, dcVars, dlVars, optVars, nnVars, lyVars, dvVars, agVars>>
  \/ active = "checkpoint" /\ CkNext
     /\ UNCHANGED <<active, avars, dcVars, dlVars, optVars, nnVars, lyVars, dvVars, agVars>>
  \/ active = "cache" /\ DcNext
     /\ UNCHANGED <<active, avars, ckVars, dlVars, optVars, nnVars, lyVars, dvVars, agVars>>
  \/ active = "loader" /\ DlNext
     /\ UNCHANGED <<active, avars, ckVars, dcVars, optVars, nnVars, lyVars, dvVars, agVars>>
  \/ active = "optimizer" /\ OptNext
     /\ UNCHANGED <<active, avars, ckVars, dcVars, dlVars, nnVars, lyVars, dvVars, agVars>>
  \/ active = "modules" /\ NnNext
     /\ UNCHANGED <<active, avars, ckVars, dcVars, dlVars, optVars, lyVars, dvVars, agVars>>
  \/ active = "layers" /\ LyNext
     /\ UNCHANGED <<active, avars, ckVars, dcVars, dlVars, optVars, nnVars, dvVars, agVars>>
  \/ active = "devices" /\ DvNext
     /\ UNCHANGED <<active, avars, ckVars, dcVars, dlVars, optVars, nnVars, lyVars, agVars>>
  \/ active = "autograd" /\ AgNext
     /\ UNCHANGED <<active, avars, ckVars, dcVars, dlVars, optVars, nnVars, lyVars, dvVars>>

LibrarySpec ==
  LibraryInit /\ [][LibraryNext]_<<active, avars, ckVars, dcVars, dlVars, optVars, nnVars, lyVars, dvVars, agVars>>
=============================================================================
