--------------------------------- MODULE Devices ---------------------------------
(* Choosing a device: best_device() of python/vkml/__init__.py, resolve_device()*)
(* of both examples, init_vulkan() and the registry behind device("vulkan:N").  *)
(* A session asks any number of times; initialising a device may fail.          *)
EXTENDS Naturals, Sequences, FiniteSets

CONSTANTS
  MaxDevices,   \* bound: the Vulkan devices of the machine
  MaxAsks       \* bound: the calls of a session
ASSUME DevicesAssumption == {MaxDevices, MaxAsks} \subseteq Nat

Name(is) == [is |-> is, at |-> 0]     \* an argument without an index, or an exception
Vulkan(i) == [is |-> "vulkan:", at |-> i]
Cpu == Name("cpu")
DeviceKinds == {"discrete", "integrated"}
DeviceArguments == {Name(n) : n \in {"cpu", "auto", "vulkan", "cpu:0", "gpu:0"}} \cup {Vulkan(i) : i \in 0..MaxDevices}

VARIABLES
  compiled,     \* has_vulkan
  devices,      \* vulkan_device_reports(): type, missing_requirement, in enumeration order
  broken,       \* the devices whose initialisation fails today
  registered,   \* the Vulkan backends the registry knows
  answer,       \* what the last call gave: a device, or the exception
  question, asks
dvVars == <<compiled, devices, broken, registered, answer, question, asks>>

DvInit ==
  /\ compiled \in BOOLEAN
  /\ devices \in UNION {[1..n -> [type : DeviceKinds, missing : BOOLEAN]] : n \in 0..MaxDevices}
  /\ broken \in SUBSET (0..(Len(devices) - 1))
  /\ registered = {} /\ answer = Cpu /\ question = Cpu /\ asks = 0

(* vulkan_backend(index): one backend for each device, registered when made.    *)
InitFails(i) == i >= Len(devices) \/ i \in broken \/ devices[i + 1].missing
RegisteredWith(i) == IF InitFails(i) THEN registered ELSE registered \cup {i}

(* best_device(): the first discrete device that qualifies, else the first that *)
(* does; min() keeps the enumeration order among equals.                        *)
Qualified == {i \in 0..(Len(devices) - 1) : ~devices[i + 1].missing}
Rank(i) == IF devices[i + 1].type = "discrete" THEN 0 ELSE 1
Best == CHOOSE i \in Qualified : \A j \in Qualified : Rank(i) < Rank(j) \/ (Rank(i) = Rank(j) /\ i <= j)
BestDevice ==
  IF ~compiled \/ devices = <<>> \/ Qualified = {}
  THEN answer' = Cpu /\ UNCHANGED registered
  ELSE /\ registered' = RegisteredWith(Best)
       /\ answer' = IF InitFails(Best) THEN Cpu ELSE Vulkan(Best)

(* The index of a --device argument: what follows the colon, whatever precedes  *)
(* it.  Without a Vulkan build there is no init_vulkan.                         *)
IndexOf(name) == name.at
AlwaysZero(name) == 0
Initialised(name) == IndexOf(name)
(* V.device(name) parses the name. *)
Parsed(name) ==
  CASE name.is = "gpu:0" -> Name("DeviceError") [] name.is = "cpu:0" -> Cpu [] OTHER -> name
NamedDevice(name) ==
  IF ~compiled THEN answer' = Name("AttributeError") /\ UNCHANGED registered
  ELSE /\ registered' = RegisteredWith(Initialised(name))
       /\ answer' = IF InitFails(Initialised(name)) THEN Name("DeviceError") ELSE Parsed(name)

(* resolve_device(args.device). *)
ResolveDevice(name) ==
  /\ asks < MaxAsks /\ asks' = asks + 1 /\ question' = name
  /\ CASE name.is = "cpu" -> answer' = Cpu /\ UNCHANGED registered
       [] name.is = "auto" -> BestDevice
       [] name.is = "vulkan" -> answer' = Name("SystemExit") /\ UNCHANGED registered
       [] OTHER -> NamedDevice(name)
  /\ UNCHANGED <<compiled, devices, broken>>

DvNext == \E name \in DeviceArguments : ResolveDevice(name)
DvSpec == DvInit /\ [][DvNext]_dvVars

Refusals == {Name(e) : e \in {"AttributeError", "DeviceError", "SystemExit"}}
(* "THIS IS THE ONLY PATH THAT FALLS BACK": whatever was asked before, a device *)
(* that is named is returned with a backend behind it or not at all, never      *)
(* another one; and auto never raises, takes the CPU only when the device it    *)
(* prefers cannot be had, and prefers a discrete one.                           *)
NeverDowngraded ==
  /\ answer \notin Refusals \cup {Cpu} => answer.at \in registered
  /\ question.is \notin {"cpu", "auto", "cpu:0"} => answer \in Refusals \cup {question}
  /\ question.is = "auto" =>
       /\ answer \notin Refusals
       /\ answer = Cpu /\ compiled => \A i \in Qualified \ broken : \E j \in Qualified \cap broken : Rank(j) <= Rank(i)
       /\ answer # Cpu => \A i \in 0..(Len(devices) - 1) :
            devices[i + 1].type = "discrete" /\ ~devices[i + 1].missing => devices[answer.at + 1].type = "discrete"
================================================================================
