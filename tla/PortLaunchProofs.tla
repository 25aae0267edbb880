-------------------------- MODULE PortLaunchProofs --------------------------
(***************************************************************************)
(* The port properties hold for any number of launchers, any port ranges   *)
(* within the assumptions and any number of attempts.                      *)
(*                                                                         *)
(* IInv is inductive: every action is that of one launcher l (or of the    *)
(* other programs, which touch no launcher), and leaves the rest as it was.*)
(***************************************************************************)
EXTENDS PortLaunch, TLAPS

LEMMA FreePorts == Free \subseteq Ports
BY DEF Free

LEMMA FirstFreeIsFree == \A f : FirstFree(f) \subseteq f /\ FirstFree(f) \subseteq Free
BY DEF FirstFree

\* What the allocators choose: a port, and a display that maps to one.
LEMMA SshChoice ==
  ASSUME TypeOK, NEW l \in Launchers, AllocateSsh(l)
  PROVE  \/ /\ \E p \in Ports : ssh' = [ssh EXCEPT ![l] = p]
            /\ \E q \in {"popen", "vnc"} : pc' = [pc EXCEPT ![l] = q]
            /\ l \notin Graphical => pc' = [pc EXCEPT ![l] = "vnc"]
            /\ raised' = raised
         \/ /\ pc' = [pc EXCEPT ![l] = "raised"]
            /\ raised' = [raised EXCEPT ![l] = "RuntimeError"]
            /\ ssh' = ssh
BY FreePorts, FirstFreeIsFree DEF AllocateSsh, Goto, RaiseIn

LEMMA VncChoice ==
  ASSUME NEW l \in Launchers, AllocateVnc(l)
  PROVE  \/ /\ \E d \in Ports : VncBase + d \in Ports /\ vnc' = [vnc EXCEPT ![l] = d]
            /\ pc' = [pc EXCEPT ![l] = "popen"]
            /\ raised' = raised
         \/ /\ pc' = [pc EXCEPT ![l] = "raised"]
            /\ raised' = [raised EXCEPT ![l] = "OSError"]
            /\ vnc' = vnc
<1>1. ASSUME NEW p \in Ephemeral \cap Free, DisplayFits(p)
      PROVE  p \in Ports /\ VncBase + p \in Ports
  BY <1>1, PortsAssumption, FreePorts DEF DisplayFits, Ports
<1>2. ASSUME NEW d \in FirstFree(VncFallback)
      PROVE  d \in Ports /\ VncBase + d \in Ports
  <2>1. d \in VncFallback /\ d \in Ports
    BY <1>2, FirstFreeIsFree, FreePorts
  <2>2. d \in 1..(MaxPort - VncBase)
    BY <2>1, PortsAssumption
  <2> QED BY <2>1, <2>2, PortsAssumption DEF Ports
<1> QED
  BY <1>1, <1>2 DEF AllocateVnc, Goto, RaiseIn

\* The counters of one launcher as numbers.
LEMMA CountTypes ==
  ASSUME TypeOK, NEW l \in Launchers
  PROVE  /\ MaxPortRetries \in Nat
         /\ tries[l] \in Nat /\ tries[l] <= MaxPortRetries
         /\ lost[l] \in Nat /\ lost[l] <= MaxPortRetries
<1>1. tries[l] \in 0..MaxPortRetries /\ lost[l] \in 0..MaxPortRetries
  BY DEF TypeOK
<1> QED
  BY <1>1, RetriesAssumption

\* Each variable keeps its type.  `lost` needs AttemptInv: it counts attempts.
LEMMA TypeStep == ASSUME IInv, Next PROVE TypeOK'
<1>1. TypeOK /\ \A l \in Launchers : AttemptInv(l)
  BY DEF IInv
<1>2. ASSUME NEW l \in Launchers, AllocateSsh(l) PROVE TypeOK'
  <2>1. tries[l] < MaxPortRetries /\ tries' = [tries EXCEPT ![l] = @ + 1]
    BY <1>1, <1>2 DEF AllocateSsh, AttemptInv
  <2>2. tries[l] + 1 \in 0..MaxPortRetries
    BY <1>1, <2>1, CountTypes
  <2>3. tries' \in [Launchers -> 0..MaxPortRetries]
    BY <1>1, <2>1, <2>2 DEF TypeOK
  <2>4. UNCHANGED <<vnc, log, qemu, cause, lost, others>>
    BY <1>2 DEF AllocateSsh
  <2>5. ssh' \in [Launchers -> Ports \cup {NoPort}]
    BY <1>1, <1>2, SshChoice DEF TypeOK
  <2>6. pc' \in [Launchers -> {"ssh", "vnc", "popen", "settle", "up", "raised"}]
    BY <1>1, <1>2, SshChoice DEF TypeOK
  <2>7. raised' \in [Launchers -> {"none", "RuntimeError", "OSError",
                                  "AddressAlreadyInUse", "RunTestError"}]
    BY <1>1, <1>2, SshChoice DEF TypeOK
  <2> QED BY <1>1, <2>3, <2>4, <2>5, <2>6, <2>7 DEF TypeOK
<1>3. ASSUME NEW l \in Launchers, AllocateVnc(l) PROVE TypeOK'
  <2>1. UNCHANGED <<ssh, tries, log, qemu, cause, lost, others>>
    BY <1>3 DEF AllocateVnc
  <2> QED BY <1>1, <1>3, <2>1, VncChoice DEF TypeOK
<1>4. ASSUME NEW l \in Launchers, Popen(l) PROVE TypeOK'
  BY <1>1, <1>4 DEF Popen, Goto, TypeOK
<1>5. ASSUME NEW l \in Launchers, SettlePoll(l) PROVE TypeOK'
  BY <1>1, <1>5 DEF SettlePoll, Goto, RaiseIn, TypeOK
<1>6. ASSUME NEW l \in Launchers, QemuBinds(l) PROVE TypeOK'
  <2>1. UNCHANGED <<pc, ssh, vnc, tries, raised, others>>
    BY <1>6 DEF QemuBinds
  <2>2. /\ qemu' \in [Launchers -> {"none", "starting", "serving", "gone"}]
        /\ log' \in [Launchers -> BOOLEAN]
        /\ cause' \in [Launchers -> {"none", "in use", "died"}]
    BY <1>1, <1>6 DEF QemuBinds, TypeOK
  <2>3. lost[l] < tries[l]
    BY <1>1, <1>6 DEF QemuBinds, AttemptInv
  <2>4. lost[l] + 1 \in 0..MaxPortRetries
    BY <1>1, <2>3, CountTypes
  <2>5. lost' = lost \/ lost' = [lost EXCEPT ![l] = @ + 1]
    BY <1>6 DEF QemuBinds
  <2>6. lost' \in [Launchers -> 0..MaxPortRetries]
    BY <1>1, <2>4, <2>5 DEF TypeOK
  <2> QED BY <1>1, <2>1, <2>2, <2>6 DEF TypeOK
<1>7. ASSUME NEW l \in Launchers, QemuDies(l) PROVE TypeOK'
  BY <1>1, <1>7 DEF QemuDies, TypeOK
<1>8. CASE OtherBinds \/ OtherReleases
  BY <1>1, <1>8, FreePorts DEF OtherBinds, OtherReleases, TypeOK
<1> QED
  BY <1>2, <1>3, <1>4, <1>5, <1>6, <1>7, <1>8 DEF Next, Spawn

\* What a step leaves alone: everything of the other launchers.
SameFor(k) ==
  UNCHANGED <<pc[k], vnc[k], tries[k], log[k], qemu[k], cause[k], lost[k], raised[k]>>

LocalInv(l) ==
  /\ AttemptInv(l) /\ BlameInv(l)
  /\ l \notin Graphical /\ pc[l] \in {"popen", "settle", "up"} => VncBase + vnc[l] \in Ports
  /\ l \notin InheritStdio =>
       /\ raised[l] = "AddressAlreadyInUse" => lost[l] > 0 /\ tries[l] = MaxPortRetries
       /\ raised[l] = "RunTestError" => cause[l] = "died"

LEMMA LocalIsGlobal ==
  IInv <=> TypeOK /\ \A l \in Launchers : LocalInv(l)
BY DEF IInv, LocalInv, DisplayInRange, BlamesPortsWithReason

LEMMA OthersKeep ==
  ASSUME NEW l \in Launchers, LocalInv(l), SameFor(l) PROVE LocalInv(l)'
BY DEF LocalInv, SameFor, AttemptInv, BlameInv

\* A step of launcher l keeps its own invariant.
LEMMA OwnStep ==
  ASSUME TypeOK, NEW l \in Launchers, LocalInv(l),
         Spawn(l) \/ QemuBinds(l) \/ QemuDies(l)
  PROVE  LocalInv(l)'
<1>1. /\ MaxPortRetries \in Nat
      /\ tries[l] \in Nat /\ tries[l] <= MaxPortRetries
      /\ lost[l] \in Nat /\ lost[l] <= MaxPortRetries
  BY CountTypes
<1>2. CASE AllocateSsh(l)
  <2>1. /\ pc[l] = "ssh" /\ tries'[l] = tries[l] + 1
        /\ UNCHANGED <<vnc, log, qemu, cause, lost>>
    BY <1>2 DEF AllocateSsh, TypeOK
  <2>2. \/ /\ pc'[l] \in {"popen", "vnc"} /\ raised'[l] = raised[l]
           /\ l \notin Graphical => pc'[l] = "vnc"
        \/ pc'[l] = "raised" /\ raised'[l] = "RuntimeError"
    <3>1. pc \in [Launchers -> {"ssh", "vnc", "popen", "settle", "up", "raised"}]
          /\ l \in DOMAIN raised
      BY DEF TypeOK
    <3> QED BY <1>2, <3>1, SshChoice
  <2>3. AttemptInv(l)'
    BY <1>1, <2>1, <2>2 DEF LocalInv, AttemptInv
  <2> QED BY <2>1, <2>2, <2>3 DEF LocalInv, BlameInv
<1>3. CASE AllocateVnc(l)
  <2>1. pc[l] = "vnc" /\ UNCHANGED <<tries, log, qemu, cause, lost>>
    BY <1>3 DEF AllocateVnc
  <2>2. \/ /\ pc'[l] = "popen" /\ raised'[l] = raised[l]
           /\ VncBase + vnc'[l] \in Ports
        \/ pc'[l] = "raised" /\ raised'[l] = "OSError"
    <3>1. CASE \E d \in Ports : VncBase + d \in Ports /\ vnc' = [vnc EXCEPT ![l] = d]
                              /\ pc' = [pc EXCEPT ![l] = "popen"] /\ raised' = raised
      <4>1. PICK d \in Ports : VncBase + d \in Ports /\ vnc' = [vnc EXCEPT ![l] = d]
        BY <3>1
      <4>2. vnc'[l] = d
        BY <4>1 DEF TypeOK
      <4> QED BY <3>1, <4>1, <4>2 DEF TypeOK
    <3>2. CASE pc' = [pc EXCEPT ![l] = "raised"] /\ raised' = [raised EXCEPT ![l] = "OSError"]
      BY <3>2 DEF TypeOK
    <3> QED BY <1>3, <3>1, <3>2, VncChoice
  <2> QED BY <2>1, <2>2 DEF LocalInv, AttemptInv, BlameInv
<1>4. CASE Popen(l)
  BY <1>4 DEF Popen, Goto, TypeOK, LocalInv, AttemptInv, BlameInv
<1>5. CASE SettlePoll(l)
  <2>1. pc[l] = "settle" /\ UNCHANGED <<vnc, tries, log, qemu, cause, lost>>
    BY <1>5 DEF SettlePoll
  <2>2. CASE qemu[l] # "gone"
    <3>1. pc'[l] = "up" /\ raised' = raised
      BY <1>5, <2>2 DEF SettlePoll, Goto, TypeOK
    <3> QED BY <2>1, <3>1 DEF LocalInv, AttemptInv, BlameInv
  <2>3. CASE qemu[l] = "gone" /\ LogSaysInUse(l) /\ tries[l] < MaxPortRetries
    <3>1. pc'[l] = "ssh" /\ raised' = raised
      BY <1>5, <2>3 DEF SettlePoll, Goto, TypeOK
    <3> QED BY <2>1, <2>3, <3>1 DEF LocalInv, AttemptInv, BlameInv
  <2>4. CASE qemu[l] = "gone" /\ LogSaysInUse(l) /\ ~(tries[l] < MaxPortRetries)
    <3>1. pc'[l] = "raised" /\ raised'[l] = "AddressAlreadyInUse"
      BY <1>5, <2>4 DEF SettlePoll, RaiseIn, TypeOK
    <3>2. tries[l] = MaxPortRetries /\ lost[l] > 0
      BY <1>1, <2>4 DEF LogSaysInUse, LocalInv, BlameInv
    <3> QED BY <2>1, <2>4, <3>1, <3>2 DEF LocalInv, AttemptInv, BlameInv
  <2>5. CASE qemu[l] = "gone" /\ ~LogSaysInUse(l)
    <3>1. pc'[l] = "raised" /\ raised'[l] = "RunTestError"
      BY <1>5, <2>5 DEF SettlePoll, RaiseIn, TypeOK
    <3>2. l \notin InheritStdio => cause[l] = "died"
      BY <2>5 DEF LogSaysInUse, TypeOK, LocalInv, BlameInv
    <3> QED BY <2>1, <2>5, <3>1, <3>2 DEF LocalInv, AttemptInv, BlameInv
  <2> QED BY <2>2, <2>3, <2>4, <2>5
<1>6. CASE QemuBinds(l)
  <2>1. qemu[l] = "starting" /\ UNCHANGED <<pc, vnc, tries, raised>>
    BY <1>6 DEF QemuBinds
  <2>2. CASE qemu' = [qemu EXCEPT ![l] = "serving"] /\ UNCHANGED <<log, cause, lost>>
    BY <2>1, <2>2 DEF TypeOK, LocalInv, AttemptInv, BlameInv
  <2>3. CASE /\ qemu' = [qemu EXCEPT ![l] = "gone"]
             /\ log' = [log EXCEPT ![l] = l \notin InheritStdio]
             /\ cause' = [cause EXCEPT ![l] = "in use"]
             /\ lost' = [lost EXCEPT ![l] = @ + 1]
    <3>1. qemu'[l] = "gone" /\ cause'[l] = "in use"
      BY <2>3 DEF TypeOK
    <3>2. lost'[l] = lost[l] + 1
      BY <2>3 DEF TypeOK
    <3>3. tries'[l] = tries[l]
      BY <2>1
    <3>4. log'[l] <=> l \notin InheritStdio
      BY <2>3 DEF TypeOK
    <3>5. pc[l] \in {"settle", "up"} /\ lost[l] < tries[l]
      BY <2>1 DEF TypeOK, LocalInv, AttemptInv
    <3>6. lost'[l] <= tries'[l]
      BY <1>1, <3>5, <3>2, <3>3
    <3>7. AttemptInv(l)'
      BY <2>1, <3>1, <3>5, <3>6 DEF AttemptInv
    <3>8. raised[l] \notin {"AddressAlreadyInUse", "RunTestError"}
      BY <3>5 DEF LocalInv, BlameInv
    <3>9. lost'[l] > 0
      BY <1>1, <3>2
    <3> QED BY <2>1, <3>1, <3>7, <3>8, <3>4, <3>9 DEF LocalInv, BlameInv
  <2> QED BY <1>6, <2>2, <2>3 DEF QemuBinds
<1>7. CASE QemuDies(l)
  BY <1>7 DEF QemuDies, TypeOK, LocalInv, AttemptInv, BlameInv
<1> QED
  BY <1>2, <1>3, <1>4, <1>5, <1>6, <1>7 DEF Spawn

\* A step of launcher l leaves the others alone.
LEMMA OthersStep ==
  ASSUME TypeOK, NEW l \in Launchers, NEW k \in Launchers, k # l,
         Spawn(l) \/ QemuBinds(l) \/ QemuDies(l)
  PROVE  SameFor(k)
<1> USE DEF SameFor
<1>1. CASE AllocateSsh(l)
  <2>1. UNCHANGED <<vnc, log, qemu, cause, lost>> /\ tries'[k] = tries[k]
    BY <1>1 DEF AllocateSsh, TypeOK
  <2>2. pc'[k] = pc[k]
    BY <1>1 DEF AllocateSsh, Goto, RaiseIn, TypeOK
  <2>3. raised'[k] = raised[k]
    BY <1>1 DEF AllocateSsh, RaiseIn, TypeOK
  <2> QED BY <2>1, <2>2, <2>3
<1>2. CASE AllocateVnc(l)
  <2>1. UNCHANGED <<tries, log, qemu, cause, lost>>
    BY <1>2 DEF AllocateVnc
  <2>2. pc'[k] = pc[k]
    BY <1>2 DEF AllocateVnc, Goto, RaiseIn, TypeOK
  <2>3. raised'[k] = raised[k]
    BY <1>2 DEF AllocateVnc, RaiseIn, TypeOK
  <2>4. vnc'[k] = vnc[k]
    BY <1>2 DEF AllocateVnc, TypeOK
  <2> QED BY <2>1, <2>2, <2>3, <2>4
<1>3. CASE Popen(l)
  BY <1>3 DEF Popen, Goto, TypeOK
<1>4. CASE SettlePoll(l)
  BY <1>4 DEF SettlePoll, Goto, RaiseIn, TypeOK
<1>5. CASE QemuBinds(l)
  <2>1. UNCHANGED <<pc, vnc, tries, raised>>
    BY <1>5 DEF QemuBinds
  <2>2. qemu'[k] = qemu[k] /\ log'[k] = log[k]
    BY <1>5 DEF QemuBinds, TypeOK
  <2>3. cause'[k] = cause[k] /\ lost'[k] = lost[k]
    BY <1>5 DEF QemuBinds, TypeOK
  <2> QED BY <2>1, <2>2, <2>3
<1>6. CASE QemuDies(l)
  BY <1>6 DEF QemuDies, TypeOK
<1> QED
  BY <1>1, <1>2, <1>3, <1>4, <1>5, <1>6 DEF Spawn

LEMMA LocalStep == ASSUME IInv, Next PROVE \A k \in Launchers : LocalInv(k)'
<1>1. ASSUME NEW l \in Launchers, Spawn(l) \/ QemuBinds(l) \/ QemuDies(l)
      PROVE  \A k \in Launchers : LocalInv(k)'
  BY <1>1, LocalIsGlobal, OwnStep, OthersStep, OthersKeep
<1>2. CASE OtherBinds \/ OtherReleases
  <2>1. \A k \in Launchers : SameFor(k)
    BY <1>2 DEF OtherBinds, OtherReleases, SameFor
  <2> QED BY <2>1, LocalIsGlobal, OthersKeep
<1> QED
  BY <1>1, <1>2 DEF Next

LEMMA InitIInv == ASSUME Init PROVE IInv
<1>1. TypeOK
  BY PortsAssumption, RetriesAssumption DEF Init, TypeOK, NoPort
<1>2. ASSUME NEW l \in Launchers PROVE LocalInv(l)
  BY RetriesAssumption DEF Init, LocalInv, AttemptInv, BlameInv
<1> QED
  BY <1>1, <1>2, LocalIsGlobal

LEMMA StutterIInv == ASSUME IInv, UNCHANGED vars PROVE IInv'
<1>1. TypeOK'
  BY DEF IInv, TypeOK, vars
<1>2. \A l \in Launchers : SameFor(l)
  BY DEF vars, SameFor
<1>3. \A l \in Launchers : LocalInv(l)'
  BY <1>2, LocalIsGlobal, OthersKeep
<1>4. IInv' <=> TypeOK' /\ \A l \in Launchers : LocalInv(l)'
  BY DEF IInv, LocalInv, DisplayInRange, BlamesPortsWithReason
<1> QED
  BY <1>1, <1>3, <1>4

LEMMA StepIInv == ASSUME IInv, Next PROVE IInv'
<1>1. IInv' <=> TypeOK' /\ \A l \in Launchers : LocalInv(l)'
  BY DEF IInv, LocalInv, DisplayInRange, BlamesPortsWithReason
<1> QED
  BY <1>1, TypeStep, LocalStep

\* IInv is an inductive invariant of the launchers.
THEOREM Inductive == Spec => []IInv
<1> QED
  BY InitIInv, StepIInv, StutterIInv, PTL DEF Spec

\* Every variable keeps its type: no spawn makes more than MaxPortRetries
\* attempts, none loses its ports more often than it tried.
THEOREM TypeCorrect == Spec => []TypeOK
<1>1. IInv => TypeOK
  BY DEF IInv
<1> QED
  BY <1>1, Inductive, PTL

\* A VNC display always maps to a TCP port, for any ephemeral and fallback range.
THEOREM DisplayInRangeHolds == Spec => []DisplayInRange
<1>1. IInv => DisplayInRange
  BY DEF IInv
<1> QED
  BY <1>1, Inductive, PTL

\* A spawn blames the ports, or QEMU, only with reason.
THEOREM BlamesPortsWithReasonHolds == Spec => []BlamesPortsWithReason
<1>1. IInv => BlamesPortsWithReason
  BY DEF IInv
<1> QED
  BY <1>1, Inductive, PTL
=============================================================================
