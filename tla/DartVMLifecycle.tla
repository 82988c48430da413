--------------------------- MODULE DartVMLifecycle ---------------------------
(***************************************************************************)
(* The one Dart VM of a process (DartVMRef): shells on any threads create  *)
(* it or share it, the last one destroys it, and the service isolate, on a *)
(* thread of the VM, looks for what belongs to its VM while the VM is made *)
(* and destroyed.                                                          *)
(***************************************************************************)
EXTENDS Naturals

CONSTANTS
    Shell,          \* shells, each on a platform thread of its own
    NoShell,
    MaxLaunches,    \* bound: calls of DartVMRef::Create
    Leaks           \* the values of leak_vm that launches use

VARIABLES
    pc,             \* where each shell is
    launch,         \* the number of its launch that is under way; a VM that it makes
                    \* has the same number
    ref,            \* the VM of its vm_
    leak_vm,        \* the settings of the launch
    gVMMutex,       \* who holds it
    gVMDependentsMutex,
    gVM,            \* what the weak pointer names, alive or not
    gVMDependents,  \* gVMData, gVMServiceProtocol and gVMIsolateNameServer
    gVMLeak,
    gDartInitialized,
    vms,            \* the VMs there were, and how far they are
    service,        \* their service isolates
    found,          \* whose dependents the service isolate found
    asked,          \* VMs handed to a launch that set leak_vm
    launches,
    aborted         \* an FML_CHECK ended the process

lockVars == <<gVMMutex, gVMDependentsMutex>>
weakVars == <<gVM, gVMDependents, gVMLeak>>
vmVars == <<vms, gDartInitialized>>
serviceVars == <<service, found>>
lifecycleVars ==
    <<pc, launch, ref, leak_vm, lockVars, weakVars, vmVars, serviceVars, asked, launches, aborted>>

NoVM == 0
VM == 1 .. MaxLaunches

ASSUME ShellAssumption == NoShell \notin Shell
ASSUME LaunchesAssumption == MaxLaunches \in Nat
ASSUME LeaksAssumption == Leaks \subseteq BOOLEAN

VMInit ==
    /\ pc = [s \in Shell |-> "out"] /\ launch = [s \in Shell |-> 0] /\ ref = [s \in Shell |-> NoVM]
    /\ leak_vm = [s \in Shell |-> FALSE]
    /\ gVMMutex = NoShell /\ gVMDependentsMutex = NoShell
    /\ gVM = NoVM /\ gVMDependents = NoVM /\ gVMLeak = NoVM
    /\ gDartInitialized = FALSE /\ vms = [v \in VM |-> "none"]
    /\ service = [v \in VM |-> "none"] /\ found = [v \in VM |-> {}]
    /\ asked = {} /\ launches = 0 /\ aborted = FALSE

-----------------------------------------------------------------------------
(* Strong and weak references.                                             *)

Holds(s, v) == pc[s] \in {"has", "drops"} /\ ref[s] = v
Referenced(v) == v # NoVM /\ (gVMLeak = v \/ \E s \in Shell : Holds(s, v))

\* gVM.lock() and gVM.expired()
Running == Referenced(gVM)

\* The VM holds its dependents until its destructor's body has run.
Exists(v) == vms[v] \in {"constructed", "running", "destroyed"}
Lock(v) == IF v # NoVM /\ Exists(v) THEN v ELSE NoVM

-----------------------------------------------------------------------------
(* DartVMRef::Create.                                                      *)

\* Shell::Create
LaunchShell(s) ==
    /\ ~aborted /\ pc[s] = "out" /\ launches < MaxLaunches
    /\ pc' = [pc EXCEPT ![s] = "create"] /\ launches' = launches + 1
    /\ launch' = [launch EXCEPT ![s] = launches']
    /\ \E leak \in Leaks : leak_vm' = [leak_vm EXCEPT ![s] = leak]
    /\ UNCHANGED <<ref, lockVars, weakVars, vmVars, serviceVars, asked, aborted>>

Create(s) == ~aborted /\ pc[s] = "create" /\ gVMMutex = NoShell

Returns(s) ==
    launch' = [launch EXCEPT ![s] = 0] /\ leak_vm' = [leak_vm EXCEPT ![s] = FALSE]

\* Once a VM was leaked no launch may ask for a VM that shuts down.
CreateAborts(s) ==
    /\ Create(s) /\ ~leak_vm[s] /\ gVMLeak # NoVM
    /\ aborted' = TRUE
    /\ UNCHANGED <<launch, pc, ref, leak_vm, lockVars, weakVars, vmVars, serviceVars, asked,
                   launches>>

MayCreate(s) == Create(s) /\ (leak_vm[s] \/ gVMLeak = NoVM)

\* A VM runs: the caller shares it, whatever its settings.
CreateShares(s) ==
    /\ MayCreate(s) /\ Running
    /\ ref' = [ref EXCEPT ![s] = gVM] /\ pc' = [pc EXCEPT ![s] = "has"]
    /\ asked' = IF leak_vm[s] THEN asked \cup {gVM} ELSE asked
    /\ Returns(s)
    /\ UNCHANGED <<lockVars, weakVars, vmVars, serviceVars, launches, aborted>>

\* There is no snapshot to make VM data of: the caller gets no VM, and Shell::Create
\* does not go on without one.
CreateFails(s) ==
    /\ MayCreate(s) /\ ~Running
    /\ gVMDependents' = NoVM /\ gVM' = NoVM
    /\ aborted' = TRUE
    /\ UNCHANGED <<launch, pc, ref, leak_vm, lockVars, gVMLeak, vmVars, serviceVars, asked,
                   launches>>

\* Mutant: the VM is made before gVMDependentsMutex is taken.
CreateBeginsUnlocked(s) ==
    /\ MayCreate(s) /\ ~Running
    /\ gVMMutex' = s
    /\ gVMDependents' = NoVM /\ gVM' = NoVM
    /\ ref' = [ref EXCEPT ![s] = launch[s]]
    /\ vms' = [vms EXCEPT ![launch[s]] = "constructed"]
    /\ pc' = [pc EXCEPT ![s] = "constructs"]
    /\ UNCHANGED <<launch, leak_vm, gVMDependentsMutex, gVMLeak, gDartInitialized,
                   serviceVars, asked,
                   launches, aborted>>

\* No VM runs: one is made, under both mutexes.
CreateBegins(s) ==
    /\ MayCreate(s) /\ ~Running /\ gVMDependentsMutex = NoShell
    /\ gVMMutex' = s /\ gVMDependentsMutex' = s
    /\ gVMDependents' = NoVM /\ gVM' = NoVM
    /\ ref' = [ref EXCEPT ![s] = launch[s]]
    /\ vms' = [vms EXCEPT ![launch[s]] = "constructed"]
    /\ pc' = [pc EXCEPT ![s] = "constructs"]
    /\ UNCHANGED <<launch, leak_vm, gVMLeak, gDartInitialized, serviceVars, asked, launches,
                   aborted>>

\* DartVMInitializer::Initialize: Dart_Initialize starts the thread of the service
\* isolate and does not wait for it.
InitializeVM(s) ==
    /\ ~aborted /\ pc[s] = "constructs" /\ pc' = [pc EXCEPT ![s] = "publishes"]
    /\ gDartInitialized' = TRUE
    /\ service' = [service EXCEPT ![ref[s]] = "starts"]
    /\ UNCHANGED <<launch, ref, leak_vm, lockVars, weakVars, vms, found, asked, launches,
                   aborted>>

\* Create hands out the new VM, and leaks it if it is told to.
CreateEnds(s) ==
    /\ ~aborted /\ pc[s] = "publishes" /\ pc' = [pc EXCEPT ![s] = "has"]
    /\ gVM' = ref[s] /\ gVMDependents' = ref[s]
    /\ gVMLeak' = IF leak_vm[s] THEN ref[s] ELSE gVMLeak
    /\ asked' = IF leak_vm[s] THEN asked \cup {ref[s]} ELSE asked
    /\ vms' = [vms EXCEPT ![ref[s]] = "running"]
    /\ gVMMutex' = NoShell /\ gVMDependentsMutex' = NoShell
    /\ Returns(s)
    /\ UNCHANGED <<ref, gDartInitialized, serviceVars, launches, aborted>>

\* Shell::Spawn copies the reference.
Spawn(s, t) ==
    /\ ~aborted /\ pc[s] = "has" /\ pc[t] = "out"
    /\ ref' = [ref EXCEPT ![t] = ref[s]] /\ pc' = [pc EXCEPT ![t] = "has"]
    /\ UNCHANGED <<launch, leak_vm, lockVars, weakVars, vmVars, serviceVars, asked, launches,
                   aborted>>

-----------------------------------------------------------------------------
(* ~DartVMRef and ~DartVM.                                                 *)

\* ~Shell
Drop(s) ==
    /\ ~aborted /\ pc[s] = "has" /\ pc' = [pc EXCEPT ![s] = "drops"]
    /\ UNCHANGED <<launch, ref, leak_vm, lockVars, weakVars, vmVars, serviceVars, asked,
                   launches, aborted>>

LastReference(s) == gVMLeak # ref[s] /\ ~\E t \in Shell \ {s} : Holds(t, ref[s])

\* Mutant: the reference is dropped without gVMMutex.
ReleaseUnlocked(s) ==
    /\ ~aborted /\ pc[s] = "drops"
    /\ IF LastReference(s)
       THEN /\ pc' = [pc EXCEPT ![s] = "destroys"]
            /\ vms' = [vms EXCEPT ![ref[s]] = "destroyed"]
            /\ UNCHANGED ref
       ELSE /\ pc' = [pc EXCEPT ![s] = "out"] /\ ref' = [ref EXCEPT ![s] = NoVM]
            /\ UNCHANGED vms
    /\ UNCHANGED <<launch, leak_vm, lockVars, weakVars, gDartInitialized, serviceVars, asked,
                   launches, aborted>>

\* ~DartVMRef: the VM is destroyed, under gVMMutex, by its last reference.
Release(s) ==
    /\ ~aborted /\ pc[s] = "drops" /\ gVMMutex = NoShell
    /\ IF LastReference(s)
       THEN /\ pc' = [pc EXCEPT ![s] = "destroys"] /\ gVMMutex' = s
            /\ vms' = [vms EXCEPT ![ref[s]] = "destroyed"]
            /\ UNCHANGED ref
       ELSE /\ pc' = [pc EXCEPT ![s] = "out"] /\ ref' = [ref EXCEPT ![s] = NoVM]
            /\ UNCHANGED <<vms, gVMMutex>>
    /\ UNCHANGED <<launch, leak_vm, gVMDependentsMutex, weakVars, gDartInitialized, serviceVars,
                   asked, launches, aborted>>

\* DartVMInitializer::Cleanup ...
Cleanup(s) ==
    /\ ~aborted /\ pc[s] = "destroys" /\ pc' = [pc EXCEPT ![s] = "cleans"]
    /\ gDartInitialized' = FALSE
    /\ UNCHANGED <<launch, ref, leak_vm, lockVars, weakVars, vms, serviceVars, asked, launches,
                   aborted>>

\* ... and Dart_Cleanup, which waits for the thread of the service isolate to have
\* started it and ends it.  Then the VM lets go of its dependents.
CleanupEnds(s) ==
    /\ ~aborted /\ pc[s] = "cleans" /\ service[ref[s]] \in {"runs", "failed"}
    /\ service' = [service EXCEPT ![ref[s]] = "ended"]
    /\ vms' = [vms EXCEPT ![ref[s]] = "gone"]
    /\ pc' = [pc EXCEPT ![s] = "out"] /\ ref' = [ref EXCEPT ![s] = NoVM]
    /\ gVMMutex' = NoShell
    /\ UNCHANGED <<launch, leak_vm, gVMDependentsMutex, weakVars, gDartInitialized, found,
                   asked,
                   launches, aborted>>

-----------------------------------------------------------------------------
(* DartIsolate::DartCreateAndStartServiceIsolate, on a thread of the VM.   *)

Find(v) == found' = [found EXCEPT ![v] = @ \cup {Lock(gVMDependents)}]

\* Mutant: GetVMData takes gVMMutex.
GetVMDataLocked(v) ==
    /\ ~aborted /\ service[v] = "starts" /\ gVMDependentsMutex = NoShell /\ gVMMutex = NoShell
    /\ Find(v)
    /\ service' = [service EXCEPT ![v] = IF Lock(gVMDependents) = NoVM THEN "failed" ELSE "creates"]
    /\ UNCHANGED <<pc, launch, ref, leak_vm, lockVars, weakVars, vmVars, asked, launches,
                   aborted>>

\* Without VM data there is no service isolate, nor when enable_vm_service is off.
GetVMData(v) ==
    /\ ~aborted /\ service[v] = "starts" /\ gVMDependentsMutex = NoShell
    /\ Find(v)
    /\ \E next \in {"failed", "creates"} :
          /\ Lock(gVMDependents) = NoVM => next = "failed"
          /\ service' = [service EXCEPT ![v] = next]
    /\ UNCHANGED <<pc, launch, ref, leak_vm, lockVars, weakVars, vmVars, asked, launches,
                   aborted>>

\* CreateRootIsolate gives the isolate the name server; it, or the startup of the
\* service, may fail.
GetIsolateNameServer(v) ==
    /\ ~aborted /\ service[v] = "creates" /\ gVMDependentsMutex = NoShell
    /\ Find(v)
    /\ \E next \in {"failed", "hooks"} : service' = [service EXCEPT ![v] = next]
    /\ UNCHANGED <<pc, launch, ref, leak_vm, lockVars, weakVars, vmVars, asked, launches,
                   aborted>>

\* GetServiceProtocol, whose hooks are set.
GetServiceProtocol(v) ==
    /\ ~aborted /\ service[v] = "hooks" /\ gVMDependentsMutex = NoShell
    /\ Find(v)
    /\ service' = [service EXCEPT ![v] = "runs"]
    /\ UNCHANGED <<pc, launch, ref, leak_vm, lockVars, weakVars, vmVars, asked, launches,
                   aborted>>

-----------------------------------------------------------------------------
Creating(s) ==
    CreateAborts(s) \/ CreateShares(s) \/ CreateFails(s) \/ CreateBegins(s)
    \/ InitializeVM(s) \/ CreateEnds(s)

Destroying(s) == Release(s) \/ Cleanup(s) \/ CleanupEnds(s)

Starting(v) == GetVMData(v) \/ GetIsolateNameServer(v) \/ GetServiceProtocol(v)

VMNext ==
    \/ \E s \in Shell : LaunchShell(s) \/ Drop(s) \/ Creating(s) \/ Destroying(s)
    \/ \E s, t \in Shell : Spawn(s, t)
    \/ \E v \in VM : Starting(v)

VMSpec == VMInit /\ [][VMNext]_lifecycleVars

\* A thread that can go on does; nobody need launch or drop a shell.
FairVMSpec ==
    /\ VMSpec
    /\ \A s \in Shell : WF_lifecycleVars(Creating(s) \/ Destroying(s))
    /\ \A v \in VM : WF_lifecycleVars(Starting(v))

-----------------------------------------------------------------------------
(* Properties.                                                             *)

\* The type invariant.
VMTypeOK ==
    /\ pc \in [Shell -> {"out", "create", "constructs", "publishes", "has", "drops", "destroys",
                         "cleans"}]
    /\ launch \in [Shell -> VM \cup {0}] /\ ref \in [Shell -> VM \cup {NoVM}]
    /\ leak_vm \in [Shell -> BOOLEAN]
    /\ gVMMutex \in Shell \cup {NoShell} /\ gVMDependentsMutex \in Shell \cup {NoShell}
    /\ gVM \in VM \cup {NoVM} /\ gVMDependents \in VM \cup {NoVM} /\ gVMLeak \in VM \cup {NoVM}
    /\ gDartInitialized \in BOOLEAN /\ aborted \in BOOLEAN
    /\ vms \in [VM -> {"none", "constructed", "running", "destroyed", "gone"}]
    /\ service \in [VM -> {"none", "starts", "creates", "hooks", "runs", "failed", "ended"}]
    /\ found \in [VM -> SUBSET (VM \cup {NoVM})]
    /\ asked \subseteq VM /\ launches \in 0 .. MaxLaunches

\* There is one VM in the process at a time ("There can only be one VM running in
\* the process at any given time."), from its construction to the end of its
\* destruction; Dart is not initialized twice; and a shell's VM runs.
OneVM ==
    /\ \A v, w \in VM : Exists(v) /\ Exists(w) => v = w
    /\ \A s \in Shell : pc[s] = "constructs" => ~gDartInitialized
    /\ \A s \in Shell : pc[s] \in {"has", "drops"} => ref[s] # NoVM /\ vms[ref[s]] = "running"

\* Whenever the service isolate of a VM asks for the VM data, the name server and the
\* service protocol it gets those of its own VM, be the VM still under construction
\* or destroyed meanwhile.
ServiceFindsItsVM == \A v \in VM : found[v] \subseteq {v}

\* Every Create and every destruction ends, however the mutexes and the waiting of
\* Dart_Cleanup interleave, and every service isolate is started or has failed.
VMSettles ==
    /\ \A s \in Shell : []<>(aborted \/ pc[s] \in {"out", "has"})
    /\ <>[](aborted \/ \A v \in VM : service[v] \in {"none", "runs", "failed", "ended"})

\* A VM that a launch with leak_vm was given is never shut down.
\* (The code does not keep this: a launch that shares a VM does not leak it.)
LeakedNeverShutsDown == \A v \in asked : vms[v] = "running"

=============================================================================
