---------------------------- MODULE RuntimeProofs ---------------------------
(***************************************************************************)
(* Theorems about the Dart runtime, for any number of shells, launches,    *)
(* calls, messages and microtasks.  Of the VM of the process: there is one *)
(* at a time, and its service isolate finds what belongs to it.  Of the    *)
(* root isolate of an engine: a launch leaves all of it or nothing.        *)
(***************************************************************************)
EXTENDS DartVMLifecycle, RootIsolate, TLAPS

\* The provers of a leaf that names none, in the order they are tried.
USE SMT, Zenon, Z3T(30), SMTT(60)

-----------------------------------------------------------------------------
(* The VM of the process.                                                  *)

Constructing(s) == pc[s] \in {"constructs", "publishes"}
Collecting(s) == pc[s] \in {"destroys", "cleans"}

\* Who holds which mutex.
MutexInv ==
    /\ \A s \in Shell : gVMMutex = s <=> Constructing(s) \/ Collecting(s)
    /\ \A s \in Shell : gVMDependentsMutex = s <=> Constructing(s)

\* A launch that is under way has a number of its own, and no VM has it yet.
LaunchNumberInv ==
    /\ \A s \in Shell :
          pc[s] = "create" =>
              launch[s] \in VM /\ launch[s] <= launches /\ vms[launch[s]] = "none"
    /\ \A s, t \in Shell : pc[s] = "create" /\ pc[t] = "create" /\ launch[s] = launch[t] => s = t
    /\ \A v \in VM : v > launches => vms[v] = "none"

\* What the state of a shell says of its VM.
ShellInv ==
    \A s \in Shell :
        /\ Constructing(s) => /\ ref[s] \in VM /\ vms[ref[s]] = "constructed"
                              /\ gVM = NoVM /\ gVMDependents = NoVM /\ gVMLeak = NoVM
        /\ pc[s] \in {"has", "drops"} => ref[s] \in VM /\ vms[ref[s]] = "running"
        /\ Collecting(s) => ref[s] \in VM /\ vms[ref[s]] = "destroyed"

\* What the state of a VM says of the process.
VMInv ==
    \A v \in VM :
        /\ vms[v] = "constructed" => \E s \in Shell : Constructing(s) /\ ref[s] = v
        /\ vms[v] = "running" => gVM = v /\ gVMDependents = v /\ Referenced(v)
        /\ vms[v] = "destroyed" =>
              gVM = v /\ gVMDependents = v /\ \E s \in Shell : Collecting(s) /\ ref[s] = v
        /\ gVMLeak = v => vms[v] = "running"

\* Dart is initialized while there is a VM that was initialized and not cleaned up.
DartInv ==
    gDartInitialized => \/ \E v \in VM : vms[v] = "running"
                        \/ \E s \in Shell : pc[s] \in {"publishes", "destroys"}

\* The service isolate is at work only while its VM is there.
ServiceInv ==
    \A v \in VM :
        /\ service[v] \in {"starts", "creates", "hooks"} =>
              Exists(v)
        /\ found[v] \subseteq {v}

\* The inductive invariant.
VMInvariant == VMTypeOK /\ MutexInv /\ LaunchNumberInv /\ ShellInv /\ VMInv /\ DartInv /\ ServiceInv

\* No VM has the number that stands for none.
LEMMA NoVMIsNone == NoVM \notin VM /\ VM \subseteq Nat
BY LaunchesAssumption DEF NoVM, VM

\* At first there is no VM, and nobody holds a mutex.
LEMMA VMInvariantInit == VMInit => VMInvariant
<1> SUFFICES ASSUME VMInit PROVE VMInvariant
  OBVIOUS
<1> USE ShellAssumption, LaunchesAssumption, NoVMIsNone DEF VMInit
<1>1. VMTypeOK
  <2>1. launches \in 0 .. MaxLaunches
    OBVIOUS
  <2>2. found \in [VM -> SUBSET (VM \cup {NoVM})] /\ leak_vm \in [Shell -> BOOLEAN]
    OBVIOUS
  <2> QED BY <2>1, <2>2, Zenon DEF VMTypeOK
<1>2. MutexInv /\ LaunchNumberInv /\ ShellInv
  BY DEF MutexInv, LaunchNumberInv, ShellInv, Constructing, Collecting
<1>3. VMInv /\ DartInv /\ ServiceInv
  BY DEF VMInv, DartInv, ServiceInv
<1> QED
  BY <1>1, <1>2, <1>3 DEF VMInvariant

\* Every step of a shell or of a service isolate preserves the invariant.
LEMMA VMInvariantStep == VMInvariant /\ [VMNext]_lifecycleVars => VMInvariant'
<1> SUFFICES ASSUME VMInvariant, [VMNext]_lifecycleVars PROVE VMInvariant'
  OBVIOUS
<1> USE ShellAssumption, LaunchesAssumption, LeaksAssumption, NoVMIsNone DEF lifecycleVars, lockVars,
   weakVars, vmVars, serviceVars
<1>1. ASSUME NEW s \in Shell, LaunchShell(s) PROVE VMInvariant'
  <2>1. VMTypeOK'
    BY <1>1 DEF LaunchShell, VMInvariant, VMTypeOK, VM
  <2>2. MutexInv'
    BY <1>1 DEF LaunchShell, VMInvariant, MutexInv, VMTypeOK, Constructing, Collecting
  <2>3. LaunchNumberInv'
    BY <1>1 DEF LaunchShell, VMInvariant, LaunchNumberInv, VMTypeOK, VM
  <2>4. ShellInv'
    BY <1>1 DEF LaunchShell, VMInvariant, VMTypeOK, MutexInv, LaunchNumberInv, ShellInv, VMInv, Constructing,
       Collecting, Referenced, Holds
  <2>5. VMInv'
    BY <1>1 DEF LaunchShell, VMInvariant, VMTypeOK, MutexInv, LaunchNumberInv, ShellInv, VMInv, Constructing,
       Collecting, Referenced, Holds
  <2>6. DartInv'
    BY <1>1 DEF LaunchShell, VMInvariant, VMTypeOK, MutexInv, ShellInv, VMInv, DartInv, Constructing, Collecting
  <2>7. ServiceInv'
    BY <1>1 DEF LaunchShell, VMInvariant, VMTypeOK, MutexInv, ShellInv, VMInv, ServiceInv, LaunchNumberInv, Exists,
       Constructing, Collecting
  <2> QED BY <2>1, <2>2, <2>3, <2>4, <2>5, <2>6, <2>7 DEF VMInvariant
<1>2. ASSUME NEW s \in Shell, Drop(s) PROVE VMInvariant'
  <2>1. VMTypeOK'
    BY <1>2 DEF Drop, VMInvariant, VMTypeOK
  <2>2. MutexInv'
    BY <1>2 DEF Drop, VMInvariant, MutexInv, VMTypeOK, Constructing, Collecting
  <2>3. LaunchNumberInv'
    BY <1>2 DEF Drop, VMInvariant, LaunchNumberInv, VMTypeOK
  <2>4. ShellInv'
    BY <1>2 DEF Drop, VMInvariant, VMTypeOK, MutexInv, LaunchNumberInv, ShellInv, VMInv, Constructing,
       Collecting, Referenced, Holds
  <2>5. VMInv'
    BY <1>2 DEF Drop, VMInvariant, VMTypeOK, MutexInv, LaunchNumberInv, ShellInv, VMInv, Constructing,
       Collecting, Referenced, Holds
  <2>6. DartInv'
    BY <1>2 DEF Drop, VMInvariant, VMTypeOK, MutexInv, ShellInv, VMInv, DartInv, Constructing, Collecting
  <2>7. ServiceInv'
    BY <1>2 DEF Drop, VMInvariant, VMTypeOK, MutexInv, ShellInv, VMInv, ServiceInv, LaunchNumberInv, Exists,
       Constructing, Collecting
  <2> QED BY <2>1, <2>2, <2>3, <2>4, <2>5, <2>6, <2>7 DEF VMInvariant
<1>3. ASSUME NEW s \in Shell, CreateAborts(s) PROVE VMInvariant'
  <2>1. VMTypeOK'
    BY <1>3 DEF CreateAborts, Create, VMInvariant, VMTypeOK
  <2>2. MutexInv'
    BY <1>3 DEF CreateAborts, Create, VMInvariant, MutexInv, VMTypeOK, Constructing, Collecting
  <2>3. LaunchNumberInv'
    BY <1>3 DEF CreateAborts, Create, VMInvariant, LaunchNumberInv, VMTypeOK
  <2>4. ShellInv'
    BY <1>3 DEF CreateAborts, Create, VMInvariant, VMTypeOK, MutexInv, LaunchNumberInv, ShellInv, VMInv,
       Constructing, Collecting, Referenced, Holds
  <2>5. VMInv'
    BY <1>3 DEF CreateAborts, Create, VMInvariant, VMTypeOK, MutexInv, LaunchNumberInv, ShellInv, VMInv,
       Constructing, Collecting, Referenced, Holds
  <2>6. DartInv'
    BY <1>3 DEF CreateAborts, Create, VMInvariant, VMTypeOK, MutexInv, ShellInv, VMInv, DartInv,
       Constructing, Collecting
  <2>7. ServiceInv'
    BY <1>3 DEF CreateAborts, Create, VMInvariant, VMTypeOK, MutexInv, ShellInv, VMInv, ServiceInv,
       LaunchNumberInv, Exists, Constructing, Collecting
  <2> QED BY <2>1, <2>2, <2>3, <2>4, <2>5, <2>6, <2>7 DEF VMInvariant
<1>4. ASSUME NEW s \in Shell, CreateShares(s) PROVE VMInvariant'
  <2>1. VMTypeOK'
    BY <1>4 DEF CreateShares, MayCreate, Create, Running, Returns, VMInvariant, VMTypeOK, Referenced
  <2>2. MutexInv'
    BY <1>4 DEF CreateShares, MayCreate, Create, Running, Returns, VMInvariant, MutexInv, VMTypeOK,
       Constructing, Collecting
  <2>3. LaunchNumberInv'
    BY <1>4 DEF CreateShares, MayCreate, Create, Running, Returns, VMInvariant, LaunchNumberInv, VMTypeOK
  <2>4. ShellInv'
    BY <1>4 DEF CreateShares, MayCreate, Create, Running, Returns, VMInvariant, VMTypeOK, MutexInv,
       LaunchNumberInv, ShellInv, VMInv, Constructing, Collecting, Referenced, Holds
  <2>5. VMInv'
    BY <1>4 DEF CreateShares, MayCreate, Create, Running, Returns, VMInvariant, VMTypeOK, MutexInv,
       LaunchNumberInv, ShellInv, VMInv, Constructing, Collecting, Referenced, Holds
  <2>6. DartInv'
    BY <1>4 DEF CreateShares, MayCreate, Create, Running, Returns, VMInvariant, VMTypeOK, MutexInv,
       ShellInv, VMInv, DartInv, Constructing, Collecting
  <2>7. ServiceInv'
    BY <1>4 DEF CreateShares, MayCreate, Create, Running, Returns, VMInvariant, VMTypeOK, MutexInv,
       ShellInv, VMInv, ServiceInv, LaunchNumberInv, Exists, Constructing, Collecting
  <2> QED BY <2>1, <2>2, <2>3, <2>4, <2>5, <2>6, <2>7 DEF VMInvariant
<1>5. ASSUME NEW s \in Shell, CreateFails(s) PROVE VMInvariant'
  <2>1. VMTypeOK'
    BY <1>5 DEF CreateFails, MayCreate, Create, Running, VMInvariant, VMTypeOK
  <2>2. MutexInv'
    BY <1>5 DEF CreateFails, MayCreate, Create, Running, VMInvariant, MutexInv, VMTypeOK, Constructing,
       Collecting
  <2>3. LaunchNumberInv'
    BY <1>5 DEF CreateFails, MayCreate, Create, Running, VMInvariant, LaunchNumberInv, VMTypeOK
  <2>4. ShellInv'
    BY <1>5 DEF CreateFails, MayCreate, Create, Running, VMInvariant, VMTypeOK, MutexInv, LaunchNumberInv,
       ShellInv, VMInv, Constructing, Collecting, Referenced, Holds
  <2>5. VMInv'
    BY <1>5 DEF CreateFails, MayCreate, Create, Running, VMInvariant, VMTypeOK, MutexInv, LaunchNumberInv,
       ShellInv, VMInv, Constructing, Collecting, Referenced, Holds
  <2>6. DartInv'
    BY <1>5 DEF CreateFails, MayCreate, Create, Running, VMInvariant, VMTypeOK, MutexInv, ShellInv,
       VMInv, DartInv, Constructing, Collecting
  <2>7. ServiceInv'
    BY <1>5 DEF CreateFails, MayCreate, Create, Running, VMInvariant, VMTypeOK, MutexInv, ShellInv,
       VMInv, ServiceInv, LaunchNumberInv, Exists, Constructing, Collecting
  <2> QED BY <2>1, <2>2, <2>3, <2>4, <2>5, <2>6, <2>7 DEF VMInvariant
<1>6. ASSUME NEW s \in Shell, CreateBegins(s) PROVE VMInvariant'
  <2>1. VMTypeOK'
    BY <1>6 DEF CreateBegins, MayCreate, Create, Running, VMInvariant, VMTypeOK, LaunchNumberInv
  <2>2. MutexInv'
    BY <1>6 DEF CreateBegins, MayCreate, Create, Running, VMInvariant, MutexInv, VMTypeOK, Constructing,
       Collecting
  <2>3. LaunchNumberInv'
    BY <1>6 DEF CreateBegins, MayCreate, Create, Running, VMInvariant, LaunchNumberInv, VMTypeOK
  <2>4. ShellInv'
    BY <1>6 DEF CreateBegins, MayCreate, Create, Running, VMInvariant, VMTypeOK, MutexInv, LaunchNumberInv,
       ShellInv, VMInv, Constructing, Collecting, Referenced, Holds
  <2>5. VMInv'
    BY <1>6 DEF CreateBegins, MayCreate, Create, Running, VMInvariant, VMTypeOK, MutexInv, LaunchNumberInv,
       ShellInv, VMInv, Constructing, Collecting, Referenced, Holds
  <2>6. DartInv'
    BY <1>6 DEF CreateBegins, MayCreate, Create, Running, VMInvariant, VMTypeOK, MutexInv, ShellInv,
       VMInv, DartInv, Constructing, Collecting
  <2>7. ServiceInv'
    BY <1>6 DEF CreateBegins, MayCreate, Create, Running, VMInvariant, VMTypeOK, MutexInv, ShellInv,
       VMInv, ServiceInv, LaunchNumberInv, Exists, Constructing, Collecting
  <2> QED BY <2>1, <2>2, <2>3, <2>4, <2>5, <2>6, <2>7 DEF VMInvariant
<1>7. ASSUME NEW s \in Shell, InitializeVM(s) PROVE VMInvariant'
  <2>1. VMTypeOK'
    BY <1>7, Zenon DEF InitializeVM, VMInvariant, VMTypeOK
  <2>2. MutexInv'
    BY <1>7 DEF InitializeVM, VMInvariant, MutexInv, VMTypeOK, Constructing, Collecting
  <2>3. LaunchNumberInv'
    BY <1>7 DEF InitializeVM, VMInvariant, LaunchNumberInv, VMTypeOK
  <2>4. ShellInv'
    BY <1>7 DEF InitializeVM, VMInvariant, VMTypeOK, MutexInv, LaunchNumberInv, ShellInv, VMInv, Constructing,
       Collecting, Referenced, Holds
  <2>5. VMInv'
    BY <1>7 DEF InitializeVM, VMInvariant, VMTypeOK, MutexInv, LaunchNumberInv, ShellInv, VMInv, Constructing,
       Collecting, Referenced, Holds
  <2>6. DartInv'
    BY <1>7 DEF InitializeVM, VMInvariant, VMTypeOK, MutexInv, ShellInv, VMInv, DartInv, Constructing,
       Collecting
  <2>7. ServiceInv'
    BY <1>7 DEF InitializeVM, VMInvariant, VMTypeOK, MutexInv, ShellInv, VMInv, ServiceInv, LaunchNumberInv,
       Exists, Constructing, Collecting
  <2> QED BY <2>1, <2>2, <2>3, <2>4, <2>5, <2>6, <2>7 DEF VMInvariant
<1>8. ASSUME NEW s \in Shell, CreateEnds(s) PROVE VMInvariant'
  <2>1. VMTypeOK'
    BY <1>8, ZenonT(60) DEF CreateEnds, Returns, VMInvariant, VMTypeOK, ShellInv, Constructing
  <2>2. MutexInv'
    BY <1>8 DEF CreateEnds, Returns, VMInvariant, MutexInv, VMTypeOK, Constructing, Collecting
  <2>3. LaunchNumberInv'
    BY <1>8 DEF CreateEnds, Returns, VMInvariant, LaunchNumberInv, VMTypeOK, ShellInv, Constructing
  <2>4. ShellInv'
    BY <1>8 DEF CreateEnds, Returns, VMInvariant, VMTypeOK, MutexInv, LaunchNumberInv, ShellInv, VMInv,
       Constructing, Collecting, Referenced, Holds
  <2>5. VMInv'
    BY <1>8 DEF CreateEnds, Returns, VMInvariant, VMTypeOK, MutexInv, LaunchNumberInv, ShellInv, VMInv,
       Constructing, Collecting, Referenced, Holds
  <2>6. DartInv'
    BY <1>8 DEF CreateEnds, Returns, VMInvariant, VMTypeOK, MutexInv, ShellInv, VMInv, DartInv,
       Constructing, Collecting
  <2>7. ServiceInv'
    BY <1>8 DEF CreateEnds, Returns, VMInvariant, VMTypeOK, MutexInv, ShellInv, VMInv, ServiceInv,
       LaunchNumberInv, Exists, Constructing, Collecting
  <2> QED BY <2>1, <2>2, <2>3, <2>4, <2>5, <2>6, <2>7 DEF VMInvariant
<1>9. ASSUME NEW s \in Shell, Release(s) PROVE VMInvariant'
  <2>1. VMTypeOK'
    BY <1>9 DEF Release, LastReference, VMInvariant, VMTypeOK
  <2>2. MutexInv'
    BY <1>9 DEF Release, LastReference, VMInvariant, MutexInv, VMTypeOK, Constructing, Collecting
  <2>3. LaunchNumberInv'
    <3>1. CASE LastReference(s)
      <4>1. /\ vms' = [vms EXCEPT ![ref[s]] = "destroyed"] /\ vms[ref[s]] = "running"
            /\ pc' = [pc EXCEPT ![s] = "destroys"] /\ launch' = launch /\ launches' = launches
        BY <1>9, <3>1 DEF Release, VMInvariant, ShellInv
      <4>2. \A v \in VM : vms'[v] = "none" <=> vms[v] = "none"
        BY <4>1 DEF VMInvariant, VMTypeOK
      <4> QED BY <4>1, <4>2 DEF VMInvariant, VMTypeOK, LaunchNumberInv
    <3>2. CASE ~LastReference(s)
      BY <1>9, <3>2 DEF Release, VMInvariant, VMTypeOK, LaunchNumberInv
    <3> QED BY <3>1, <3>2
  <2>4. ShellInv'
    <3>1. CASE LastReference(s)
      <4>1. \A t \in Shell : ~Constructing(t) /\ ~Collecting(t)
        BY <1>9 DEF Release, VMInvariant, MutexInv
      <4>2. \A t \in Shell \ {s} : pc[t] \in {"has", "drops"} => ref[t] # ref[s]
        BY <3>1 DEF LastReference, Holds
      <4>3. /\ ref' = ref /\ vms' = [vms EXCEPT ![ref[s]] = "destroyed"]
            /\ pc' = [pc EXCEPT ![s] = "destroys"] /\ ref[s] \in VM
        BY <1>9, <3>1 DEF Release, VMInvariant, ShellInv
      <4> QED BY <4>1, <4>2, <4>3 DEF VMInvariant, VMTypeOK, ShellInv, Constructing, Collecting
    <3>2. CASE ~LastReference(s)
      BY <1>9, <3>2 DEF Release, VMInvariant, VMTypeOK, MutexInv, ShellInv, Constructing, Collecting
    <3> QED BY <3>1, <3>2
  <2>5. VMInv'
    BY <1>9 DEF Release, LastReference, VMInvariant, VMTypeOK, MutexInv, LaunchNumberInv, ShellInv, VMInv,
       Constructing, Collecting, Referenced, Holds
  <2>6. DartInv'
    BY <1>9 DEF Release, LastReference, VMInvariant, VMTypeOK, MutexInv, ShellInv, VMInv, DartInv,
       Constructing, Collecting
  <2>7. ServiceInv'
    BY <1>9 DEF Release, LastReference, VMInvariant, VMTypeOK, MutexInv, ShellInv, VMInv, ServiceInv,
       LaunchNumberInv, Exists, Constructing, Collecting
  <2> QED BY <2>1, <2>2, <2>3, <2>4, <2>5, <2>6, <2>7 DEF VMInvariant
<1>10. ASSUME NEW s \in Shell, Cleanup(s) PROVE VMInvariant'
  <2>1. VMTypeOK'
    BY <1>10, Zenon DEF Cleanup, VMInvariant, VMTypeOK
  <2>2. MutexInv'
    BY <1>10 DEF Cleanup, VMInvariant, MutexInv, VMTypeOK, Constructing, Collecting
  <2>3. LaunchNumberInv'
    BY <1>10 DEF Cleanup, VMInvariant, LaunchNumberInv, VMTypeOK
  <2>4. ShellInv'
    BY <1>10 DEF Cleanup, VMInvariant, VMTypeOK, MutexInv, LaunchNumberInv, ShellInv, VMInv, Constructing,
       Collecting, Referenced, Holds
  <2>5. VMInv'
    BY <1>10 DEF Cleanup, VMInvariant, VMTypeOK, MutexInv, LaunchNumberInv, ShellInv, VMInv, Constructing,
       Collecting, Referenced, Holds
  <2>6. DartInv'
    BY <1>10 DEF Cleanup, VMInvariant, VMTypeOK, MutexInv, ShellInv, VMInv, DartInv, Constructing,
       Collecting
  <2>7. ServiceInv'
    BY <1>10 DEF Cleanup, VMInvariant, VMTypeOK, MutexInv, ShellInv, VMInv, ServiceInv, LaunchNumberInv,
       Exists, Constructing, Collecting
  <2> QED BY <2>1, <2>2, <2>3, <2>4, <2>5, <2>6, <2>7 DEF VMInvariant
<1>11. ASSUME NEW s \in Shell, CleanupEnds(s) PROVE VMInvariant'
  <2>1. VMTypeOK'
    BY <1>11, Zenon DEF CleanupEnds, VMInvariant, VMTypeOK
  <2>2. MutexInv'
    BY <1>11 DEF CleanupEnds, VMInvariant, MutexInv, VMTypeOK, Constructing, Collecting
  <2>3. LaunchNumberInv'
    BY <1>11 DEF CleanupEnds, VMInvariant, LaunchNumberInv, VMTypeOK, ShellInv, Collecting
  <2>4. ShellInv'
    BY <1>11 DEF CleanupEnds, VMInvariant, VMTypeOK, MutexInv, LaunchNumberInv, ShellInv, VMInv, Constructing,
       Collecting, Referenced, Holds
  <2>5. VMInv'
    BY <1>11 DEF CleanupEnds, VMInvariant, VMTypeOK, MutexInv, LaunchNumberInv, ShellInv, VMInv, Constructing,
       Collecting, Referenced, Holds
  <2>6. DartInv'
    BY <1>11 DEF CleanupEnds, VMInvariant, VMTypeOK, MutexInv, ShellInv, VMInv, DartInv, Constructing,
       Collecting
  <2>7. ServiceInv'
    BY <1>11 DEF CleanupEnds, VMInvariant, VMTypeOK, MutexInv, ShellInv, VMInv, ServiceInv, LaunchNumberInv,
       Exists, Constructing, Collecting
  <2> QED BY <2>1, <2>2, <2>3, <2>4, <2>5, <2>6, <2>7 DEF VMInvariant
<1>12. ASSUME NEW s \in Shell, NEW t \in Shell, Spawn(s, t) PROVE VMInvariant'
  <2>1. VMTypeOK'
    BY <1>12 DEF Spawn, VMInvariant, VMTypeOK
  <2>2. MutexInv'
    BY <1>12 DEF Spawn, VMInvariant, MutexInv, VMTypeOK, Constructing, Collecting
  <2>3. LaunchNumberInv'
    BY <1>12 DEF Spawn, VMInvariant, LaunchNumberInv, VMTypeOK
  <2>4. ShellInv'
    BY <1>12 DEF Spawn, VMInvariant, VMTypeOK, MutexInv, LaunchNumberInv, ShellInv, VMInv, Constructing,
       Collecting, Referenced, Holds
  <2>5. VMInv'
    BY <1>12 DEF Spawn, VMInvariant, VMTypeOK, MutexInv, LaunchNumberInv, ShellInv, VMInv, Constructing,
       Collecting, Referenced, Holds
  <2>6. DartInv'
    BY <1>12 DEF Spawn, VMInvariant, VMTypeOK, MutexInv, ShellInv, VMInv, DartInv, Constructing, Collecting
  <2>7. ServiceInv'
    BY <1>12 DEF Spawn, VMInvariant, VMTypeOK, MutexInv, ShellInv, VMInv, ServiceInv, LaunchNumberInv, Exists,
       Constructing, Collecting
  <2> QED BY <2>1, <2>2, <2>3, <2>4, <2>5, <2>6, <2>7 DEF VMInvariant
<1>13. ASSUME NEW v \in VM, GetVMData(v) PROVE VMInvariant'
  <2>1. VMTypeOK'
    BY <1>13 DEF GetVMData, Find, Lock, VMInvariant, VMTypeOK
  <2>2. MutexInv'
    BY <1>13 DEF GetVMData, Find, Lock, VMInvariant, MutexInv, VMTypeOK, Constructing, Collecting
  <2>3. LaunchNumberInv'
    BY <1>13 DEF GetVMData, Find, Lock, VMInvariant, LaunchNumberInv, VMTypeOK
  <2>4. ShellInv'
    BY <1>13 DEF GetVMData, Find, Lock, VMInvariant, VMTypeOK, MutexInv, LaunchNumberInv, ShellInv, VMInv,
       Constructing, Collecting, Referenced, Holds
  <2>5. VMInv'
    BY <1>13 DEF GetVMData, Find, Lock, VMInvariant, VMTypeOK, MutexInv, LaunchNumberInv, ShellInv, VMInv,
       Constructing, Collecting, Referenced, Holds
  <2>6. DartInv'
    BY <1>13 DEF GetVMData, Find, Lock, VMInvariant, VMTypeOK, MutexInv, ShellInv, VMInv, DartInv,
       Constructing, Collecting
  <2>7. ServiceInv'
    BY <1>13 DEF GetVMData, Find, Lock, VMInvariant, VMTypeOK, MutexInv, ShellInv, VMInv, ServiceInv,
       LaunchNumberInv, Exists, Constructing, Collecting
  <2> QED BY <2>1, <2>2, <2>3, <2>4, <2>5, <2>6, <2>7 DEF VMInvariant
<1>14. ASSUME NEW v \in VM, GetIsolateNameServer(v) PROVE VMInvariant'
  <2>1. VMTypeOK'
    BY <1>14 DEF GetIsolateNameServer, Find, Lock, VMInvariant, VMTypeOK
  <2>2. MutexInv'
    BY <1>14 DEF GetIsolateNameServer, Find, Lock, VMInvariant, MutexInv, VMTypeOK, Constructing,
       Collecting
  <2>3. LaunchNumberInv'
    BY <1>14 DEF GetIsolateNameServer, Find, Lock, VMInvariant, LaunchNumberInv, VMTypeOK
  <2>4. ShellInv'
    BY <1>14 DEF GetIsolateNameServer, Find, Lock, VMInvariant, VMTypeOK, MutexInv, LaunchNumberInv, ShellInv,
       VMInv, Constructing, Collecting, Referenced, Holds
  <2>5. VMInv'
    BY <1>14 DEF GetIsolateNameServer, Find, Lock, VMInvariant, VMTypeOK, MutexInv, LaunchNumberInv, ShellInv,
       VMInv, Constructing, Collecting, Referenced, Holds
  <2>6. DartInv'
    BY <1>14 DEF GetIsolateNameServer, Find, Lock, VMInvariant, VMTypeOK, MutexInv, ShellInv, VMInv,
       DartInv, Constructing, Collecting
  <2>7. ServiceInv'
    BY <1>14 DEF GetIsolateNameServer, Find, Lock, VMInvariant, VMTypeOK, MutexInv, ShellInv, VMInv,
       ServiceInv, LaunchNumberInv, Exists, Constructing, Collecting
  <2> QED BY <2>1, <2>2, <2>3, <2>4, <2>5, <2>6, <2>7 DEF VMInvariant
<1>15. ASSUME NEW v \in VM, GetServiceProtocol(v) PROVE VMInvariant'
  <2>1. VMTypeOK'
    BY <1>15 DEF GetServiceProtocol, Find, Lock, VMInvariant, VMTypeOK
  <2>2. MutexInv'
    BY <1>15 DEF GetServiceProtocol, Find, Lock, VMInvariant, MutexInv, VMTypeOK, Constructing, Collecting
  <2>3. LaunchNumberInv'
    BY <1>15 DEF GetServiceProtocol, Find, Lock, VMInvariant, LaunchNumberInv, VMTypeOK
  <2>4. ShellInv'
    BY <1>15 DEF GetServiceProtocol, Find, Lock, VMInvariant, VMTypeOK, MutexInv, LaunchNumberInv, ShellInv,
       VMInv, Constructing, Collecting, Referenced, Holds
  <2>5. VMInv'
    BY <1>15 DEF GetServiceProtocol, Find, Lock, VMInvariant, VMTypeOK, MutexInv, LaunchNumberInv, ShellInv,
       VMInv, Constructing, Collecting, Referenced, Holds
  <2>6. DartInv'
    BY <1>15 DEF GetServiceProtocol, Find, Lock, VMInvariant, VMTypeOK, MutexInv, ShellInv, VMInv,
       DartInv, Constructing, Collecting
  <2>7. ServiceInv'
    BY <1>15 DEF GetServiceProtocol, Find, Lock, VMInvariant, VMTypeOK, MutexInv, ShellInv, VMInv,
       ServiceInv, LaunchNumberInv, Exists, Constructing, Collecting
  <2> QED BY <2>1, <2>2, <2>3, <2>4, <2>5, <2>6, <2>7 DEF VMInvariant
<1>16. CASE UNCHANGED lifecycleVars
  BY <1>16 DEF VMInvariant, VMTypeOK, MutexInv, LaunchNumberInv, ShellInv, VMInv, DartInv, ServiceInv,
     Constructing, Collecting, Referenced, Holds, Exists
<1> QED
  BY <1>1, <1>2, <1>3, <1>4, <1>5, <1>6, <1>7, <1>8, <1>9, <1>10, <1>11, <1>12, <1>13, <1>14,
     <1>15, <1>16 DEF VMNext, Creating, Destroying, Starting

\* There is one VM in the process at a time, from its construction to the end of its
\* destruction, for any number of shells and launches: gVMMutex covers both, and the
\* weak pointer gVM names the only VM that may still be there when it is free.
THEOREM OneVMHolds == VMSpec => []OneVM
<1>1. VMInvariant => OneVM
  BY ShellAssumption, NoVMIsNone DEF VMInvariant, VMTypeOK, MutexInv, ShellInv, VMInv, DartInv, OneVM,
     Constructing, Collecting, Exists
<1> QED
  BY VMInvariantInit, VMInvariantStep, <1>1, PTL DEF VMSpec

\* A service isolate that looks for VM data, name server or service protocol finds
\* those of its own VM: while its VM is made gVMDependentsMutex keeps it waiting, and
\* Dart_Cleanup waits for it before the VM lets go of them.
THEOREM ServiceFound == VMSpec => []ServiceFindsItsVM
<1>1. VMInvariant => ServiceFindsItsVM
  BY DEF VMInvariant, ServiceInv, ServiceFindsItsVM
<1> QED
  BY VMInvariantInit, VMInvariantStep, <1>1, PTL DEF VMSpec

-----------------------------------------------------------------------------
(* The root isolate.  The inductive invariant adds to AllOrNothing what    *)
(* each step of the launch finds.                                          *)

\* What the steps of a launch find: the engine, which is not destroyed meanwhile,
\* and an isolate in the phase that the step before it left.
LaunchInv ==
    at \in LaunchSteps =>
        /\ engine
        /\ isolate.object <=> at # "rerun"
        /\ isolate.vm <=> at \notin {"rerun", "create"}
        /\ at = "launched" => isolate.phase = "Running"

\* What a launch leaves, but for the locales that the controller holds.
Launched ==
    at \notin LaunchSteps =>
        /\ isolate.vm <=> isolate.object
        /\ isolate.object => /\ engine /\ IsRootIsolateRunning
                             /\ controller.flushed /\ isolate.locale = controller.locale

IInv == TypeOK /\ Launched /\ LaunchInv

\* The controller holds the locales that the engine was given last.
Told == controller.locale = controller.sent

\* The parts of an isolate that no Dart code and no message handler changes.
Same(i, j) ==
    /\ j \in IsolateType
    /\ j.gen = i.gen /\ j.object = i.object /\ j.vm = i.vm
    /\ j.phase = i.phase /\ j.locale = i.locale

\* A new isolate, and what is left of an isolate, are isolates.
LEMMA IsolatesTyped ==
    ASSUME TypeOK
    PROVE  /\ \A gen \in Nat : /\ NewIsolate(gen) \in IsolateType
                              /\ NewIsolate(gen).object /\ ~NewIsolate(gen).vm
           /\ Gone \in IsolateType /\ ~Gone.object /\ ~Gone.vm
BY LocaleAssumption, FlagsAssumption, ZenonT(60) DEF TypeOK, NewIsolate, Gone, IsolateType, Phase

\* The end of OnHandleMessage changes the pause and the exit flag only.
LEMMA EpilogueSame ==
    ASSUME NEW i \in IsolateType
    PROVE  Same(i, Epilogue(i))
BY ZenonT(60) DEF Same, Epilogue, IsolateType

\* Dart code leaves the phase, the VM isolate and the object alone, whether the
\* message handler looks at the ports after it or not.
LEMMA DartKeeps ==
    ASSUME TypeOK, NEW i \in IsolateType, NEW ts \in Seq(TaskType),
           RunDart(i, ts, FALSE) \/ RunDart(i, ts, TRUE)
    PROVE  /\ Same(i, isolate') /\ tasks' \in Seq(TaskType)
           /\ used' \in [messages : Nat, requests : Nat, microtasks : Nat]
<1> DEFINE After(m, n, open) ==
        [i EXCEPT !.microtasks = @ + m, !.inbox = @ + n, !.ports = @ /\ open]
<1>1. PICK m \in 0 .. 1, n \in 0 .. 1, open \in BOOLEAN :
        /\ used' = [used EXCEPT !.microtasks = @ + m, !.messages = @ + n]
        /\ isolate' \in {After(m, n, open), Epilogue(After(m, n, open))}
        /\ tasks' = IF n = 0 THEN ts ELSE Append(ts, Task("message", i.gen))
  BY Zenon DEF RunDart
<1>2. Same(i, After(m, n, open))
  <2>1. /\ i.microtasks + m \in Nat /\ i.inbox + n \in Nat
        /\ (i.ports /\ open) \in BOOLEAN
    BY DEF IsolateType
  <2>. HIDE DEF After
  <2>. QED BY <2>1, Zenon DEF After, Same, IsolateType
<1>3. Same(i, isolate')
  BY <1>1, <1>2, EpilogueSame, Zenon DEF Same
<1>4. Task("message", i.gen) \in TaskType
  BY DEF Task, TaskType, IsolateType
<1>5. tasks' \in Seq(TaskType)
  BY <1>1, <1>4
<1>6. used' \in [messages : Nat, requests : Nat, microtasks : Nat]
  <2>1. used.microtasks + m \in Nat /\ used.messages + n \in Nat
    BY DEF TypeOK
  <2>. QED BY <1>1, <2>1, Zenon DEF TypeOK
<1>. QED BY <1>3, <1>5, <1>6

\* The result of a step outside a launch on the isolate i it began with: it is
\* the same isolate or it is gone.
Kept(i) == Same(i, isolate') \/ isolate' = Gone

StepTyped ==
    /\ tasks' \in Seq(TaskType)
    /\ used' \in [messages : Nat, requests : Nat, microtasks : Nat]

\* Dart_HandleMessage keeps the isolate or ends it.
LEMMA HandleKeeps ==
    ASSUME TypeOK, NEW i \in IsolateType, NEW ts \in Seq(TaskType), HandleMessage(i, ts)
    PROVE  Kept(i) /\ StepTyped
<1> DEFINE j == [i EXCEPT !.service = "none", !.inbox = IF @ > 0 THEN @ - 1 ELSE 0]
<1>1. Same(i, j)
  <2>1. (IF i.inbox > 0 THEN i.inbox - 1 ELSE 0) \in Nat
    BY DEF IsolateType
  <2>. QED BY <2>1, Zenon DEF Same, IsolateType
<1>2. j \in IsolateType
  BY <1>1 DEF Same
<1>3. Same(j, Epilogue(j))
  BY <1>2, EpilogueSame
<1>4. ASSUME NEW k, Same(j, k) PROVE Same(i, k)
  BY <1>1, <1>4 DEF Same
<1> HIDE DEF j
<1>5. CASE Quiet(Epilogue(j), ts)
  BY <1>3, <1>4, <1>5 DEF Quiet, Kept, StepTyped, TypeOK
<1>6. CASE RunDart(j, ts, TRUE) \/ RunDart(j, ts, FALSE)
  <2>1. Same(j, isolate') /\ StepTyped
    BY <1>2, <1>6, DartKeeps, Zenon DEF StepTyped
  <2>. QED BY <1>4, <2>1 DEF Kept
<1>7. CASE Quiet(Gone, ts)
  BY <1>7 DEF Quiet, Kept, StepTyped, TypeOK
<1>. QED BY <1>5, <1>6, <1>7, Zenon DEF HandleMessage, j

\* So does the whole handler, paused or not.
LEMMA OnHandleKeeps ==
    ASSUME TypeOK, NEW ts \in Seq(TaskType), OnHandleMessage(ts)
    PROVE  Kept(isolate) /\ StepTyped
<1> DEFINE i == IF isolate.first THEN isolate
                ELSE [isolate EXCEPT !.first = TRUE, !.start = isolate.should_start]
           quiet == [i EXCEPT !.service = "none"]
           started == [i EXCEPT !.service = "none", !.start = FALSE, !.should_start = FALSE]
           ending == [i EXCEPT !.service = "none", !.exit = FALSE, !.should_exit = FALSE]
<1>1. Same(isolate, i)
  BY ZenonT(60) DEF TypeOK, Same, IsolateType
<1>2. i \in IsolateType
  BY <1>1 DEF Same
<1> HIDE DEF i
<1>3. Same(i, quiet) /\ Same(i, started) /\ Same(i, ending)
  BY <1>2, Zenon DEF Same, IsolateType
<1>4. quiet \in IsolateType /\ started \in IsolateType /\ ending \in IsolateType
  BY <1>3 DEF Same
<1> HIDE DEF quiet, started, ending
<1>5. Same(i, Epilogue(i)) /\ Same(ending, Epilogue(ending))
  BY <1>2, <1>4, EpilogueSame
<1>6. ASSUME NEW k \in {i, quiet, started, ending}, NEW l, Same(k, l) PROVE Same(isolate, l)
  <2>1. Same(isolate, k)
    BY <1>1, <1>3, <1>6 DEF Same
  <2>. QED BY <1>6, <2>1 DEF Same
<1>7. CASE \E k \in {Epilogue(i), quiet, Epilogue(ending)} : Quiet(k, ts)
  <2>1. Same(isolate, Epilogue(i)) /\ Same(isolate, Epilogue(ending))
    BY <1>5, <1>6
  <2>2. Same(isolate, quiet)
    BY <1>1, <1>3 DEF Same
  <2>. QED BY <1>7, <2>1, <2>2 DEF Quiet, Kept, StepTyped, TypeOK
<1>8. CASE HandleMessage(i, ts) \/ HandleMessage(started, ts)
  <2>1. StepTyped /\ (Kept(i) \/ Kept(started))
    BY <1>2, <1>4, <1>8, HandleKeeps
  <2>. QED BY <1>6, <2>1 DEF Kept
<1>9. i.service \in {"none", "some", "resume"}
  BY <1>2 DEF IsolateType
<1>10. CASE i.start
  <2>1. PausedOnStart(i, ts)
    BY <1>10 DEF OnHandleMessage, i
  <2>. QED BY <1>7, <1>8, <1>9, <2>1, Zenon DEF PausedOnStart, quiet, started
<1>11. CASE ~i.start /\ i.exit
  <2>1. PausedOnExit(i, ts)
    BY <1>11 DEF OnHandleMessage, i
  <2>. QED BY <1>7, <1>9, <2>1, Zenon DEF PausedOnExit, quiet, ending
<1>12. CASE ~i.start /\ ~i.exit
  <2>1. HandleMessage(i, ts)
    BY <1>12 DEF OnHandleMessage, i
  <2>. QED BY <1>8, <2>1
<1>. QED BY <1>10, <1>11, <1>12

-----------------------------------------------------------------------------

\* All of an isolate, or nothing of it: Launched outside a launch.
Whole ==
    /\ isolate.vm <=> isolate.object
    /\ isolate.object => /\ engine /\ IsRootIsolateRunning
                         /\ controller.flushed /\ isolate.locale = controller.locale

\* A step that keeps the isolate or ends it leaves it whole.
LEMMA KeptIsWhole ==
    ASSUME IInv, at \notin LaunchSteps, Kept(isolate), UNCHANGED <<flags, engine, controller>>
    PROVE  isolate' \in IsolateType /\ Whole'
<1>1. Whole
  BY DEF IInv, Launched, Whole
<1>2. CASE Same(isolate, isolate')
  BY <1>1, <1>2 DEF Same, Whole, IsRootIsolateRunning, HasRootIsolate
<1>3. CASE isolate' = Gone
  BY <1>3, IsolatesTyped DEF IInv, Whole
<1>. QED BY <1>2, <1>3 DEF Kept

\* A step that ends outside a launch with a whole isolate keeps the invariant.
LEMMA WholeEnds ==
    ASSUME IInv, UNCHANGED flags, engine' \in BOOLEAN,
           controller' \in ControllerType,
           isolate' \in IsolateType, Whole', StepTyped,
           at' \in {"idle", "observe", "flush"}, back' \in {"idle", "observe"}, calls' \in Nat
    PROVE  IInv'
<1>1. TypeOK'
  BY DEF IInv, TypeOK, StepTyped
<1>2. Launched'
  BY DEF Launched, Whole
<1>3. LaunchInv'
  BY DEF LaunchInv, LaunchSteps
<1>. QED BY <1>1, <1>2, <1>3 DEF IInv

\* An entry point of the engine, called outside a launch, keeps the invariant.
LEMMA CallKeeps ==
    ASSUME IInv, at \notin LaunchSteps, NEW what \in Calls, NEW ts \in Seq(TaskType),
           NEW next \in {"idle", "observe", "flush"},
           what \in {"run", "restart"} => next \in {"idle", "observe"},
           Call(what, ts, next), UNCHANGED flags, calls' \in Nat
    PROVE  IInv'
<1>1. Whole /\ TypeOK
  BY DEF IInv, Launched, Whole
<1>2. Same(isolate, isolate) /\ isolate.gen + 1 \in Nat
  BY <1>1 DEF Same, TypeOK, IsolateType
<1>3. ASSUME Quiet(isolate, ts) PROVE Kept(isolate) /\ StepTyped
  BY <1>1, <1>2, <1>3 DEF Quiet, Kept, StepTyped, TypeOK
<1>4. ASSUME Kept(isolate), StepTyped, at' = next, UNCHANGED <<engine, controller, back>>
      PROVE  IInv'
  <2>1. isolate' \in IsolateType /\ Whole'
    BY <1>4, KeptIsWhole
  <2>. QED BY <1>1, <1>4, <2>1, WholeEnds DEF TypeOK
<1>5. CASE ~engine
  BY <1>3, <1>4, <1>5 DEF Call
<1>6. ASSUME tasks' = ts, UNCHANGED <<engine, used>>, engine, next \in {"idle", "observe"},
             controller' \in ControllerType,
             back' = next,
             \/ at' = "create" /\ isolate' = NewIsolate(isolate.gen + 1)
             \/ at' = "rerun" /\ isolate' \in IsolateType /\ ~isolate'.object /\ ~isolate'.vm
      PROVE  IInv'
  <2>1. /\ isolate' \in IsolateType /\ ~isolate'.vm /\ at' \in {"create", "rerun"}
        /\ (isolate'.object <=> at' = "create")
    BY <1>1, <1>2, <1>6, IsolatesTyped, ZenonT(60) DEF IsolateType
  <2>2. TypeOK'
    BY <1>1, <1>6, <2>1 DEF TypeOK, LaunchSteps
  <2>3. Launched' /\ LaunchInv'
    BY <1>6, <2>1 DEF Launched, LaunchInv, LaunchSteps
  <2>. QED BY <2>2, <2>3 DEF IInv
<1>7. CASE engine /\ what = "run"
  <2>1. Run(ts, next)
    BY <1>7 DEF Call
  <2>2. CASE at' = next /\ back' = "idle" /\ UNCHANGED isolate
    <3>1. Whole' /\ isolate' \in IsolateType /\ StepTyped
      BY <1>1, <2>1, <2>2 DEF Run, Whole, IsRootIsolateRunning, HasRootIsolate, TypeOK, StepTyped
    <3>. QED BY <1>1, <2>1, <2>2, <3>1, WholeEnds DEF Run, TypeOK
  <2>3. CASE isolate' = NewIsolate(isolate.gen + 1) /\ at' = "create" /\ back' = next
    BY <1>1, <1>6, <1>7, <2>1, <2>3 DEF Run, TypeOK
  <2>. QED BY <2>1, <2>2, <2>3 DEF Run
<1>8. CASE engine /\ what = "restart"
  <2>1. Restart(ts, next)
    BY <1>8 DEF Call
  <2>2. CASE at' = next /\ UNCHANGED <<controller, isolate, back>>
    <3>1. Kept(isolate) /\ StepTyped
      BY <1>1, <1>2, <2>1, <2>2 DEF Restart, Kept, Same, TypeOK, StepTyped
    <3>. QED BY <1>4, <2>1, <2>2, <3>1 DEF Restart
  <2>3. CASE controller' = Clone /\ Shutdown /\ at' = "rerun" /\ back' = next
    <3>1. controller' \in ControllerType
      BY <1>1, <2>3, Zenon DEF TypeOK, ControllerType, Clone
    <3>2. isolate' \in IsolateType /\ ~isolate'.object /\ ~isolate'.vm
      BY <1>1, <2>3, IsolatesTyped DEF Shutdown, Whole, TypeOK
    <3>. QED BY <1>6, <1>8, <2>1, <2>3, <3>1, <3>2 DEF Restart
  <2>. QED BY <2>1, <2>2, <2>3 DEF Restart
<1>9. CASE engine /\ what = "locales"
  <2>1. SetLocales(ts, next)
    BY <1>9 DEF Call
  <2>2. PICK l \in Locale :
            /\ controller' = [controller EXCEPT !.locale = l, !.sent = l]
            /\ IF HasRootIsolate
               THEN RunDart([isolate EXCEPT !.locale = l], ts, FALSE)
               ELSE Quiet(isolate, ts)
    BY <2>1, Zenon DEF SetLocales
  <2>3. /\ controller' \in ControllerType
        /\ controller'.root = controller.root /\ controller'.flushed = controller.flushed
        /\ controller'.locale = l
    BY <1>1, <2>2, Zenon DEF TypeOK, ControllerType
  <2>4. StepTyped /\ isolate' \in IsolateType /\ Whole'
    <3>1. CASE isolate.object
      <4> DEFINE i == [isolate EXCEPT !.locale = l]
      <4>1. /\ i \in IsolateType /\ i.locale = l /\ i.gen = isolate.gen
            /\ i.object = isolate.object /\ i.vm = isolate.vm /\ i.phase = isolate.phase
        BY <1>1, Zenon DEF TypeOK, IsolateType
      <4>2. RunDart(i, ts, FALSE)
        BY <1>1, <2>2, <3>1, Zenon DEF Whole, IsRootIsolateRunning
      <4> HIDE DEF i
      <4>3. Same(i, isolate') /\ StepTyped
        BY <1>1, <4>1, <4>2, DartKeeps, Zenon DEF StepTyped
      <4>. QED BY <1>1, <2>1, <2>3, <3>1, <4>1, <4>3
               DEF Same, Whole, IsRootIsolateRunning, HasRootIsolate, SetLocales
    <3>2. CASE ~isolate.object
      <4>1. Quiet(isolate, ts)
        BY <2>2, <3>2 DEF HasRootIsolate
      <4>. QED BY <1>1, <3>2, <4>1 DEF Quiet, Whole, StepTyped, TypeOK
    <3>. QED BY <3>1, <3>2
  <2>. QED BY <1>1, <2>1, <2>3, <2>4, WholeEnds DEF SetLocales, TypeOK
<1>10. CASE engine /\ what = "deliver"
  <2>1. Deliver(ts, next)
    BY <1>10 DEF Call
  <2>2. Kept(isolate) /\ StepTyped
    <3>1. CASE RunDart(isolate, ts, FALSE)
      BY <1>1, <3>1, DartKeeps, Zenon DEF Kept, StepTyped, TypeOK
    <3>. QED BY <1>3, <2>1, <3>1, Zenon DEF Deliver
  <2>. QED BY <1>4, <2>1, <2>2 DEF Deliver
<1>11. CASE engine /\ what = "destroy"
  <2>1. Destroy(ts, next)
    BY <1>11 DEF Call
  <2>2. isolate' \in IsolateType /\ ~isolate'.object /\ ~isolate'.vm
    BY <1>1, <2>1, IsolatesTyped DEF Destroy, Shutdown, Whole, TypeOK
  <2>3. Whole' /\ StepTyped
    BY <1>1, <2>1, <2>2 DEF Destroy, Whole, StepTyped, TypeOK
  <2>. QED BY <1>1, <2>1, <2>2, <2>3, WholeEnds, Zenon DEF Destroy, TypeOK
<1>. QED BY <1>5, <1>7, <1>8, <1>9, <1>10, <1>11 DEF Calls

\* A step that stays where it is and keeps the isolate keeps the invariant.
LEMMA SameKeeps ==
    ASSUME IInv, Same(isolate, isolate'), StepTyped, calls' \in Nat,
           UNCHANGED <<flags, engine, controller, at, back>>
    PROVE  IInv'
<1>1. TypeOK'
  BY DEF IInv, TypeOK, StepTyped, Same
<1>2. Launched' /\ LaunchInv'
  BY DEF IInv, Launched, LaunchInv, Same, IsRootIsolateRunning, HasRootIsolate
<1>. QED BY <1>1, <1>2 DEF IInv

\* A launch that fails leaves nothing.
LEMMA FailureKeeps ==
    ASSUME IInv, LaunchFails
    PROVE  IInv'
<1>1. TypeOK /\ isolate' = Gone
  BY DEF IInv, LaunchFails
<1>2. isolate' \in IsolateType /\ Whole'
  BY <1>1, IsolatesTyped DEF Whole
<1>3. StepTyped /\ engine' \in BOOLEAN /\ calls' \in Nat
  BY <1>1 DEF LaunchFails, Launching, TypeOK, StepTyped
<1>4. /\ controller' \in ControllerType
      /\ at' \in {"idle", "observe", "flush"} /\ back' \in {"idle", "observe"}
      /\ UNCHANGED flags
  BY <1>1 DEF LaunchFails, Launching, TypeOK
<1>. QED BY <1>2, <1>3, <1>4, WholeEnds

\* A step from one stage of the launch to the next.
LEMMA LaunchKeeps ==
    ASSUME IInv, at \in LaunchSteps, at' \in LaunchSteps \ {"rerun", "create"},
           isolate' \in IsolateType, isolate'.object, isolate'.vm,
           at' = "launched" => isolate'.phase = "Running",
           StepTyped, UNCHANGED <<controller, back>>, Launching
    PROVE  IInv'
<1>1. TypeOK'
  BY DEF IInv, TypeOK, StepTyped, Launching
<1>2. Launched' /\ LaunchInv'
  BY DEF IInv, Launched, LaunchInv, Launching, LaunchSteps
<1>. QED BY <1>1, <1>2 DEF IInv

\* The invariant holds at the start.
LEMMA InitIInv == Init => IInv
<1> SUFFICES ASSUME Init PROVE IInv
  OBVIOUS
<1>1. /\ isolate \in IsolateType /\ ~isolate.object /\ ~isolate.vm
  BY LocaleAssumption, FlagsAssumption, Zenon DEF Init, NewIsolate, IsolateType, Phase
<1>2. tasks \in Seq(TaskType)
  BY DEF Init
<1>3. /\ controller \in ControllerType
      /\ used \in [messages : Nat, requests : Nat, microtasks : Nat]
  BY LocaleAssumption, Zenon DEF Init, ControllerType
<1>4. TypeOK
  BY <1>1, <1>2, <1>3 DEF Init, TypeOK
<1>. QED BY <1>1, <1>4 DEF Init, IInv, Launched, LaunchInv, LaunchSteps

\* A task of the runner keeps the invariant.
LEMMA TaskKeeps ==
    ASSUME IInv, TakeTask
    PROVE  IInv'
<1> DEFINE task == Head(tasks)
           ts == Tail(tasks)
<1>1. TypeOK /\ at = "idle" /\ at \notin LaunchSteps /\ UNCHANGED <<flags, calls>>
  BY DEF IInv, TakeTask, LaunchSteps
<1>2. task \in TaskType /\ ts \in Seq(TaskType)
  BY <1>1 DEF TypeOK, TakeTask
<1> HIDE DEF task, ts
<1>3. CASE task.do \in Calls
  <2>1. Call(task.do, ts, "observe")
    BY <1>3 DEF TakeTask, task, ts
  <2>2. calls' \in Nat
    BY <1>1 DEF TypeOK
  <2>. QED BY <1>1, <1>2, <1>3, <2>1, <2>2, CallKeeps
<1>4. CASE task.do \notin Calls
  <2>1. /\ at' = "observe" /\ UNCHANGED <<engine, controller, back>>
        /\ OnMessageTask(task.gen, ts) \/ Quiet(isolate, ts)
    BY <1>4 DEF TakeTask, task, ts
  <2>2. ASSUME Quiet(isolate, ts) PROVE Kept(isolate) /\ StepTyped
    BY <1>1, <1>2, <2>2 DEF Quiet, Kept, Same, StepTyped, TypeOK
  <2>3. ASSUME OnHandleMessage(ts) PROVE Kept(isolate) /\ StepTyped
    BY <1>1, <1>2, <2>3, OnHandleKeeps
  <2>4. Kept(isolate) /\ StepTyped
    BY <2>1, <2>2, <2>3 DEF OnMessageTask
  <2>5. isolate' \in IsolateType /\ Whole'
    BY <1>1, <2>1, <2>4, KeptIsWhole
  <2>. QED BY <1>1, <2>1, <2>4, <2>5, WholeEnds DEF TypeOK
<1>. QED BY <1>3, <1>4

\* Every step keeps the invariant.
LEMMA NextIInv == IInv /\ [Next]_vars => IInv'
<1> SUFFICES ASSUME IInv, [Next]_vars PROVE IInv'
  OBVIOUS
<1>1. TypeOK
  BY DEF IInv
<1>2. Same(isolate, isolate)
  BY <1>1 DEF Same, TypeOK
<1>3. CASE UNCHANGED vars
  BY <1>1, <1>2, <1>3, SameKeeps DEF vars, StepTyped, TypeOK
<1>4. CASE PostCall
  <2>1. PICK what \in Calls : tasks' = Append(tasks, Task(what, 0))
    BY <1>4 DEF PostCall, Calls
  <2>2. Task(what, 0) \in TaskType
    BY DEF Task, TaskType
  <2>3. StepTyped /\ calls' \in Nat
    BY <1>1, <1>4, <2>1, <2>2 DEF PostCall, StepTyped, TypeOK
  <2>. QED BY <1>2, <1>4, <2>3, SameKeeps DEF PostCall
<1>5. CASE CallNow
  <2>1. PICK what \in Calls \ {"restart"} : \E next \in Behind(what) : Call(what, tasks, next)
    BY <1>5 DEF CallNow
  <2>2. PICK next \in Behind(what) : Call(what, tasks, next)
    BY <2>1
  <2>3. next \in {"idle", "observe", "flush"} /\ (what = "run" => next = "idle")
    BY <2>1, <2>2 DEF Behind
  <2>4. /\ at \notin LaunchSteps /\ UNCHANGED flags
        /\ calls' \in Nat /\ tasks \in Seq(TaskType)
    BY <1>1, <1>5 DEF CallNow, LaunchSteps, TypeOK
  <2>. QED BY <2>1, <2>2, <2>3, <2>4, CallKeeps
<1>6. CASE SendMessage \/ SendServiceMessage
  <2>1. isolate.inbox + 1 \in Nat /\ used.messages + 1 \in Nat /\ used.requests + 1 \in Nat
    BY <1>1 DEF TypeOK, IsolateType
  <2>2. used' \in [messages : Nat, requests : Nat, microtasks : Nat]
    BY <1>1, <1>6, <2>1, Zenon DEF SendMessage, SendServiceMessage, TypeOK
  <2>3. Same(isolate, isolate')
    <3>1. CASE SendMessage
      BY <1>1, <2>1, <3>1, Zenon DEF SendMessage, Same, TypeOK, IsolateType
    <3>2. CASE SendServiceMessage
      <4>1. PICK what \in {"none", "some", "resume"} : isolate' = [isolate EXCEPT !.service = what]
        BY <1>1, <3>2 DEF SendServiceMessage, TypeOK, IsolateType
      <4>. QED BY <1>1, <4>1, Zenon DEF Same, TypeOK, IsolateType
    <3>. QED BY <1>6, <3>1, <3>2
  <2>4. Task("message", isolate.gen) \in TaskType
    BY <1>1 DEF Task, TaskType, TypeOK, IsolateType
  <2>5. tasks' = Append(tasks, Task("message", isolate.gen)) /\ tasks \in Seq(TaskType)
    BY <1>1, <1>6 DEF SendMessage, SendServiceMessage, TypeOK
  <2>6. StepTyped
    BY <2>2, <2>4, <2>5 DEF StepTyped
  <2>. QED BY <1>1, <1>6, <2>3, <2>6, SameKeeps DEF SendMessage, SendServiceMessage, TypeOK
<1>7. CASE TakeTask
  BY <1>7, TaskKeeps
<1>8. CASE RunMicrotask
  <2> DEFINE i == [isolate EXCEPT !.microtasks = @ - 1]
  <2>1. isolate.microtasks - 1 \in Nat
    BY <1>1, <1>8 DEF RunMicrotask, TypeOK, IsolateType
  <2>2. Same(isolate, i)
    BY <1>1, <2>1, Zenon DEF Same, TypeOK, IsolateType
  <2>3. i \in IsolateType /\ RunDart(i, tasks, FALSE)
    BY <1>8, <2>2, Zenon DEF RunMicrotask, Same
  <2> HIDE DEF i
  <2>4. Same(i, isolate') /\ StepTyped
    BY <1>1, <2>3, DartKeeps, Zenon DEF StepTyped, TypeOK
  <2>5. Same(isolate, isolate')
    BY <2>2, <2>4 DEF Same
  <2>. QED BY <1>1, <1>8, <2>4, <2>5, SameKeeps DEF RunMicrotask, TypeOK
<1>9. CASE Observed \/ PostEmptyTask
  <2>1. Task("empty", 0) \in TaskType
    BY DEF Task, TaskType
  <2>2. /\ tasks' \in {tasks, Append(tasks, Task("empty", 0))} /\ tasks \in Seq(TaskType)
        /\ isolate' = isolate /\ used' = used
    BY <1>1, <1>9 DEF Observed, PostEmptyTask, TypeOK
  <2>3. StepTyped /\ Kept(isolate)
    <3>1. Append(tasks, Task("empty", 0)) \in Seq(TaskType)
      BY <2>1, <2>2
    <3>2. StepTyped
      BY <1>1, <2>2, <3>1, Zenon DEF StepTyped, TypeOK
    <3>. QED BY <1>2, <2>2, <3>2 DEF Kept
  <2>4. /\ at \notin LaunchSteps /\ at' = "idle"
        /\ UNCHANGED <<flags, engine, controller, back, calls>>
    BY <1>9 DEF Observed, PostEmptyTask, LaunchSteps
  <2>5. isolate' \in IsolateType /\ Whole'
    BY <2>3, <2>4, KeptIsWhole
  <2>. QED BY <1>1, <2>3, <2>4, <2>5, WholeEnds DEF TypeOK
<1>10. CASE Rerun
  <2>1. /\ engine /\ ~isolate.object /\ ~isolate.vm
        /\ tasks' = tasks /\ UNCHANGED <<flags, engine, controller, used, calls>>
    BY <1>10 DEF Rerun, Run, IInv, LaunchInv, LaunchSteps
  <2>2. StepTyped
    BY <1>1, <2>1 DEF StepTyped, TypeOK
  <2>3. CASE at' = back /\ back' = "idle" /\ UNCHANGED isolate
    <3>1. isolate' \in IsolateType /\ Whole'
      BY <1>1, <2>1, <2>3 DEF Whole, TypeOK
    <3>. QED BY <1>1, <2>1, <2>2, <2>3, <3>1, WholeEnds DEF TypeOK
  <2>4. CASE isolate' = NewIsolate(isolate.gen + 1) /\ at' = "create" /\ back' = back
    <3>1. isolate.gen + 1 \in Nat
      BY <1>1 DEF TypeOK, IsolateType
    <3>2. isolate' \in IsolateType /\ isolate'.object /\ ~isolate'.vm
      BY <1>1, <2>4, <3>1, IsolatesTyped
    <3>3. TypeOK'
      BY <1>1, <2>1, <2>4, <3>2 DEF TypeOK, LaunchSteps
    <3>4. Launched' /\ LaunchInv'
      BY <2>1, <2>4, <3>2 DEF Launched, LaunchInv, LaunchSteps
    <3>. QED BY <3>3, <3>4 DEF IInv
  <2>. QED BY <1>10, <2>3, <2>4 DEF Rerun, Run
<1>11. CASE CreateRootIsolate \/ Initialize \/ LoadLibraries \/ PrepareIsolate
  <2>1. /\ at \in LaunchSteps \ {"rerun"} /\ isolate.object
        /\ at # "create" => isolate.vm
    BY <1>11 DEF CreateRootIsolate, Initialize, LoadLibraries, PrepareIsolate, IInv, LaunchInv, LaunchSteps
  <2>2. CASE LaunchFails
    BY <2>2, FailureKeeps
  <2>3. ASSUME NEW step \in IsolateType, step.object, step.vm,
               NEW next \in {"initialize", "libraries", "prepare", "run"}, LaunchStep(step, next)
        PROVE  IInv'
    <3>1. StepTyped
      BY <1>1, <2>3 DEF LaunchStep, StepTyped, TypeOK
    <3>. QED BY <2>1, <2>3, <3>1, LaunchKeeps DEF LaunchStep, LaunchSteps
  <2>4. CASE at = "create" /\ LaunchStep([isolate EXCEPT !.vm = TRUE], "initialize")
    <3> DEFINE step == [isolate EXCEPT !.vm = TRUE]
    <3>1. step \in IsolateType /\ step.object /\ step.vm
      BY <1>1, <2>1, Zenon DEF TypeOK, IsolateType
    <3>. QED BY <2>3, <2>4, <3>1, Zenon
  <2>5. ASSUME NEW phase \in {"Initialized", "LibrariesSetup", "Ready"}, at # "create",
               NEW next \in {"initialize", "libraries", "prepare", "run"},
               LaunchStep([isolate EXCEPT !.phase = phase], next)
        PROVE  IInv'
    <3> DEFINE step == [isolate EXCEPT !.phase = phase]
    <3>1. phase \in Phase
      BY DEF Phase
    <3>2. step \in IsolateType /\ step.object /\ step.vm
      BY <1>1, <2>1, <2>5, <3>1, Zenon DEF TypeOK, IsolateType
    <3>. QED BY <2>3, <2>5, <3>2, Zenon
  <2>. QED BY <1>11, <2>2, <2>4, <2>5
           DEF CreateRootIsolate, Initialize, LoadLibraries, PrepareIsolate
<1>12. CASE RunFromLibrary
  <2>1. isolate.object /\ isolate.vm /\ at \in LaunchSteps
    BY <1>12 DEF RunFromLibrary, IInv, LaunchInv, LaunchSteps
  <2> DEFINE i == [isolate EXCEPT !.phase = "Running", !.inbox = @ + 1]
             ts == Append(tasks, Task("message", isolate.gen))
  <2>2. isolate.inbox + 1 \in Nat /\ "Running" \in Phase
    BY <1>1 DEF TypeOK, IsolateType, Phase
  <2>3. i \in IsolateType /\ i.object /\ i.vm /\ i.phase = "Running"
    BY <1>1, <2>1, <2>2, Zenon DEF TypeOK, IsolateType
  <2>4. Task("message", isolate.gen) \in TaskType
    BY <1>1 DEF Task, TaskType, TypeOK, IsolateType
  <2>5. ts \in Seq(TaskType)
    BY <1>1, <2>4 DEF TypeOK
  <2> HIDE DEF i, ts
  <2>6. CASE RunDart(i, ts, FALSE) /\ at' = "launched" /\ UNCHANGED <<controller, back>> /\ Launching
    <3>1. Same(i, isolate') /\ StepTyped
      BY <1>1, <2>3, <2>5, <2>6, DartKeeps, Zenon DEF StepTyped
    <3>2. isolate' \in IsolateType /\ isolate'.object /\ isolate'.vm /\ isolate'.phase = "Running"
      BY <2>3, <3>1 DEF Same
    <3>. QED BY <2>1, <2>6, <3>1, <3>2, LaunchKeeps DEF LaunchSteps
  <2>7. CASE LaunchFails
    BY <2>7, FailureKeeps
  <2>. QED BY <1>12, <2>6, <2>7, Zenon DEF RunFromLibrary, i, ts
<1>13. CASE RootIsolateLaunched
  <2>1. engine /\ isolate.object /\ isolate.vm /\ isolate.phase = "Running"
    BY <1>13 DEF RootIsolateLaunched, IInv, LaunchInv, LaunchSteps
  <2> DEFINE i == [isolate EXCEPT !.locale = controller.locale]
  <2>2. /\ i \in IsolateType /\ i.object /\ i.vm /\ i.phase = "Running"
        /\ i.gen = isolate.gen /\ i.locale = controller.locale
    BY <1>1, <2>1, Zenon DEF TypeOK, IsolateType, ControllerType
  <2>3. RunDart(i, tasks, FALSE)
    BY <1>13, Zenon DEF RootIsolateLaunched
  <2> HIDE DEF i
  <2>4. Same(i, isolate') /\ StepTyped
    BY <1>1, <2>2, <2>3, DartKeeps, Zenon DEF StepTyped, TypeOK
  <2>5. /\ controller' \in ControllerType
        /\ controller'.root = isolate.gen /\ controller'.flushed
        /\ controller'.locale = controller.locale
    BY <1>1, <1>13, Zenon DEF RootIsolateLaunched, TypeOK, IsolateType, ControllerType
  <2>6. isolate' \in IsolateType /\ UNCHANGED <<flags, engine, calls>>
    BY <1>13, <2>4 DEF Same, RootIsolateLaunched, Launching
  <2>7. Whole'
    BY <2>1, <2>2, <2>4, <2>5, <2>6 DEF Whole, Same, IsRootIsolateRunning, HasRootIsolate
  <2>. QED BY <1>1, <1>13, <2>4, <2>5, <2>6, <2>7, WholeEnds DEF RootIsolateLaunched, TypeOK
<1>. QED
  BY <1>3, <1>4, <1>5, <1>6, <1>7, <1>8, <1>9, <1>10, <1>11, <1>12, <1>13 DEF Next, UIThread, Launch

\* No step loses the locales: what a new controller gets from Clone included.
LEMMA NextTold == TypeOK /\ Told /\ [Next]_vars => Told'
<1> SUFFICES ASSUME TypeOK, Told, [Next]_vars PROVE Told'
  OBVIOUS
<1>1. ASSUME UNCHANGED controller PROVE Told'
  BY <1>1 DEF Told
<1>2. ASSUME NEW what \in Calls, NEW ts, NEW next, Call(what, ts, next) PROVE Told'
  <2>1. ASSUME NEW l \in Locale, controller' = [controller EXCEPT !.locale = l, !.sent = l]
        PROVE  Told'
    BY <2>1 DEF Told, TypeOK, ControllerType
  <2>2. ASSUME controller' = Clone PROVE Told'
    <3>1. Clone.locale = controller.locale /\ Clone.sent = controller.sent
      BY ZenonT(60) DEF Clone, TypeOK, ControllerType
    <3>. QED BY <2>2, <3>1 DEF Told
  <2>3. CASE engine /\ what = "locales"
    BY <1>2, <2>1, <2>3, Zenon DEF Call, SetLocales
  <2>4. CASE engine /\ what = "restart"
    BY <1>1, <1>2, <2>2, <2>4 DEF Call, Restart
  <2>5. CASE engine => what \in {"run", "deliver", "destroy"}
    BY <1>1, <1>2, <2>5, Zenon DEF Call, Run, Deliver, Destroy
  <2>. QED BY <2>3, <2>4, <2>5 DEF Calls
<1>3. CASE Rerun
  BY <1>1, <1>3 DEF Rerun, Run
<1>4. CASE RootIsolateLaunched
  BY <1>4 DEF RootIsolateLaunched, Told, TypeOK, ControllerType
<1>5. CASE TakeTask
  BY <1>1, <1>2, <1>5 DEF TakeTask
<1>6. CASE CallNow
  BY <1>2, <1>6 DEF CallNow
<1>7. CASE CreateRootIsolate \/ Initialize \/ LoadLibraries \/ PrepareIsolate \/ RunFromLibrary
  BY <1>1, <1>7, Zenon DEF CreateRootIsolate, Initialize, LoadLibraries, PrepareIsolate, RunFromLibrary,
                    LaunchStep, LaunchFails
<1>8. CASE PostCall \/ SendMessage \/ SendServiceMessage \/ RunMicrotask \/ Observed \/ PostEmptyTask
  BY <1>1, <1>8, Zenon DEF PostCall, SendMessage, SendServiceMessage, RunMicrotask, Observed, PostEmptyTask
<1>9. CASE UNCHANGED vars
  BY <1>1, <1>9 DEF vars
<1>. QED BY <1>3, <1>4, <1>5, <1>6, <1>7, <1>8, <1>9 DEF Next, UIThread, Launch

\* Outside a launch there is a running root isolate that its controller knows and
\* that has the locales set last, or nothing of an isolate: whichever of its steps
\* CreateRunningRootIsolate fails in, and through restarts, fatal errors and the
\* destruction of the engine.
THEOREM LaunchedOrGone == Spec => []AllOrNothing
<1>1. Spec => []IInv
  BY InitIInv, NextIInv, PTL DEF Spec
<1>2. Init => Told
  BY DEF Init, Told
<1>3. IInv => TypeOK
  BY DEF IInv
<1>4. Spec => []Told
  BY <1>1, <1>2, <1>3, NextTold, PTL DEF Spec
<1>5. IInv /\ Told => AllOrNothing
  BY DEF IInv, Launched, Told, AllOrNothing
<1>. QED BY <1>1, <1>4, <1>5, PTL

=============================================================================
