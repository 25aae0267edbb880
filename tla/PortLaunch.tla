----------------------------- MODULE PortLaunch -----------------------------
(***************************************************************************)
(* Commands starting QEMUs on one host: ports.py, and the attempt() that   *)
(* run_test._spawn_overlay_vm and image_build._spawn_qemu retry.           *)
(*                                                                         *)
(* A port is chosen by binding 127.0.0.1:0 and releasing it, so between    *)
(* the choice and QEMU's own bind another command, another QEMU or any     *)
(* other program may take it.  A VNC display d is chosen by probing port   *)
(* d although QEMU listens on VncBase + d.                                 *)
(*                                                                         *)
(* External: the kernel hands out any free ephemeral port; QEMU binds its  *)
(* ports some time after Popen, and exits with "address already in use" on *)
(* its output when one is taken; it may also exit for any other reason.    *)
(***************************************************************************)
EXTENDS Integers, FiniteSets

CONSTANTS
  Launchers,       \* commands that start a QEMU
  InheritStdio,    \* those whose QEMU writes to the terminal (vm-run, vm-live)
  Graphical,       \* those without a VNC display
  Ephemeral,       \* ports the kernel hands out for port 0
  SshFallback,     \* ports.SSH_FALLBACK
  VncFallback,     \* ports.VNC_FALLBACK: displays, probed as ports
  VncBase,         \* 5900
  MaxPort,         \* 65535
  MaxPortRetries,  \* ports.MAX_PORT_RETRIES
  MaxOthers        \* bound on ports held by unrelated programs at a time

ASSUME PortsAssumption ==
  /\ VncBase \in Nat /\ MaxPort \in Nat
  /\ Ephemeral \subseteq 1..MaxPort
  /\ SshFallback \subseteq 1..MaxPort
  /\ VncFallback \subseteq 1..(MaxPort - VncBase)
ASSUME RetriesAssumption == MaxPortRetries \in Nat \ {0}
ASSUME LaunchersAssumption ==
  /\ InheritStdio \subseteq Launchers
  /\ Graphical \subseteq Launchers
  /\ MaxOthers \in Nat

VARIABLES
  pc,       \* pc[l]: "ssh", "vnc", "popen", "settle", "up", "raised"
  ssh,      \* ssh[l]: the ssh_port chosen
  vnc,      \* vnc[l]: the VNC display chosen
  tries,    \* tries[l]: attempts begun
  log,      \* log[l]: qemu.log holds "address already in use"
  qemu,     \* qemu[l]: "none", "starting", "serving", "gone"
  cause,    \* history: why the QEMU of this attempt exited
  lost,     \* history: attempts whose QEMU found a port taken
  raised,   \* raised[l]: the exception the spawn ended with
  others    \* ports held by unrelated programs

vars == <<pc, ssh, vnc, tries, log, qemu, cause, lost, raised, others>>

NoPort == 0
Ports == 1..MaxPort

-----------------------------------------------------------------------------
\* The TCP ports the QEMU of l listens on.
Listens(l) == {ssh[l]} \cup IF l \in Graphical THEN {} ELSE {VncBase + vnc[l]}

Bound == others \cup UNION {Listens(l) : l \in {k \in Launchers : qemu[k] = "serving"}}

Free == Ports \ Bound

RaiseIn(l, e) == /\ raised' = [raised EXCEPT ![l] = e]
                 /\ pc' = [pc EXCEPT ![l] = "raised"]

Goto(l, p) == pc' = [pc EXCEPT ![l] = p]

\* for candidate in fallback: the first that binds (none if the range is taken).
FirstFree(fallback) ==
  {p \in fallback \cap Free : \A q \in fallback \cap Free : p <= q}

Init ==
  /\ pc = [l \in Launchers |-> "ssh"]
  /\ ssh = [l \in Launchers |-> NoPort]
  /\ vnc = [l \in Launchers |-> NoPort]
  /\ tries = [l \in Launchers |-> 0]
  /\ log = [l \in Launchers |-> FALSE]
  /\ qemu = [l \in Launchers |-> "none"]
  /\ cause = [l \in Launchers |-> "none"]
  /\ lost = [l \in Launchers |-> 0]
  /\ raised = [l \in Launchers |-> "none"]
  /\ others = {}

-----------------------------------------------------------------------------
\* Mutant: the attempts are not counted.
AllocateSshUncounted(l) ==
  /\ pc[l] = "ssh"
  /\ \E p \in Ephemeral \cap Free : ssh' = [ssh EXCEPT ![l] = p]
  /\ Goto(l, IF l \in Graphical THEN "popen" ELSE "vnc")
  /\ UNCHANGED <<vnc, tries, log, qemu, cause, lost, raised, others>>

\* attempt(): allocate_ssh_port.  Ephemeral, else the fallback range, else
\* RuntimeError, which retry_on_addr_in_use does not catch.
AllocateSsh(l) ==
  /\ pc[l] = "ssh"
  /\ \/ \E p \in Ephemeral \cap Free :
          /\ ssh' = [ssh EXCEPT ![l] = p]
          /\ Goto(l, IF l \in Graphical THEN "popen" ELSE "vnc")
          /\ UNCHANGED raised
     \/ /\ Ephemeral \cap Free = {}
        /\ \E p \in FirstFree(SshFallback) :
             /\ ssh' = [ssh EXCEPT ![l] = p]
             /\ Goto(l, IF l \in Graphical THEN "popen" ELSE "vnc")
        /\ UNCHANGED raised
     \/ /\ (Ephemeral \cup SshFallback) \cap Free = {}
        /\ RaiseIn(l, "RuntimeError")
        /\ UNCHANGED ssh
  /\ tries' = [tries EXCEPT ![l] = @ + 1]
  /\ UNCHANGED <<vnc, log, qemu, cause, lost, others>>

\* Mutant: an off-by-one in the range check.
DisplayFitsOffByOne(p) == p + VncBase <= MaxPort + 1

\* An ephemeral port serves as a display only if VncBase + display is a port.
DisplayFits(p) == p + VncBase <= MaxPort

\* The ephemeral bind failed, or its one draw does not fit.
NoEphemeralDisplay ==
  Ephemeral \cap Free = {} \/ \E p \in Ephemeral \cap Free : ~DisplayFits(p)

\* attempt(): allocate_vnc_port.
AllocateVnc(l) ==
  /\ pc[l] = "vnc"
  /\ \/ \E p \in Ephemeral \cap Free :
          /\ DisplayFits(p)
          /\ vnc' = [vnc EXCEPT ![l] = p]
          /\ Goto(l, "popen")
          /\ UNCHANGED raised
     \/ /\ NoEphemeralDisplay
        /\ \E d \in FirstFree(VncFallback) : vnc' = [vnc EXCEPT ![l] = d]
        /\ Goto(l, "popen")
        /\ UNCHANGED raised
     \/ /\ NoEphemeralDisplay
        /\ VncFallback \cap Free = {}
        /\ RaiseIn(l, "OSError")
        /\ UNCHANGED vnc
  /\ UNCHANGED <<ssh, tries, log, qemu, cause, lost, others>>

\* attempt(): Popen.  qemu.log is opened in append mode, so it keeps what the
\* QEMUs of earlier attempts wrote.
Popen(l) ==
  /\ pc[l] = "popen"
  /\ qemu' = [qemu EXCEPT ![l] = "starting"]
  /\ cause' = [cause EXCEPT ![l] = "none"]
  /\ Goto(l, "settle")
  /\ UNCHANGED <<ssh, vnc, tries, log, lost, raised, others>>

\* Mutant: every early exit is blamed on the ports.
AnyExitIsInUse(l) == l \notin InheritStdio

\* What attempt() finds in qemu.log: the file is read whole, and does not
\* exist when QEMU inherited the terminal.
LogSaysInUse(l) == l \notin InheritStdio /\ log[l]

\* Mutant: one attempt too many (`<=` for `<`).
SettlePollOffByOne(l) ==
  /\ pc[l] = "settle"
  /\ IF qemu[l] # "gone"
     THEN Goto(l, "up") /\ UNCHANGED raised
     ELSE IF LogSaysInUse(l) /\ tries[l] <= MaxPortRetries
          THEN Goto(l, "ssh") /\ UNCHANGED raised
          ELSE RaiseIn(l, "RunTestError")
  /\ UNCHANGED <<ssh, vnc, tries, log, qemu, cause, lost, others>>

\* attempt(): the poll after the settle time, and retry_on_addr_in_use.  A
\* QEMU that has not bound its ports by then counts as started.
SettlePoll(l) ==
  /\ pc[l] = "settle"
  /\ IF qemu[l] # "gone"
     THEN Goto(l, "up") /\ UNCHANGED raised
     ELSE IF LogSaysInUse(l)
          THEN IF tries[l] < MaxPortRetries
               THEN Goto(l, "ssh") /\ UNCHANGED raised
               ELSE RaiseIn(l, "AddressAlreadyInUse")
          ELSE RaiseIn(l, "RunTestError")
  /\ UNCHANGED <<ssh, vnc, tries, log, qemu, cause, lost, others>>

-----------------------------------------------------------------------------
\* QEMU binds all its ports, or finds one taken (by others, or by its own two
\* options) and exits.
QemuBinds(l) ==
  /\ qemu[l] = "starting"
  /\ IF Listens(l) \subseteq Free /\ (l \in Graphical \/ ssh[l] # VncBase + vnc[l])
     THEN /\ qemu' = [qemu EXCEPT ![l] = "serving"]
          /\ UNCHANGED <<log, cause, lost>>
     ELSE /\ qemu' = [qemu EXCEPT ![l] = "gone"]
          /\ log' = [log EXCEPT ![l] = l \notin InheritStdio]
          /\ cause' = [cause EXCEPT ![l] = "in use"]
          /\ lost' = [lost EXCEPT ![l] = @ + 1]
  /\ UNCHANGED <<pc, ssh, vnc, tries, raised, others>>

\* QEMU exits for another reason: no KVM, a locked image, a crash, a poweroff.
QemuDies(l) ==
  /\ qemu[l] \in {"starting", "serving"}
  /\ qemu' = [qemu EXCEPT ![l] = "gone"]
  /\ cause' = [cause EXCEPT ![l] = "died"]
  /\ UNCHANGED <<pc, ssh, vnc, tries, log, lost, raised, others>>

OtherBinds ==
  /\ Cardinality(others) < MaxOthers
  /\ \E p \in Free : others' = others \cup {p}
  /\ UNCHANGED <<pc, ssh, vnc, tries, log, qemu, cause, lost, raised>>

OtherReleases ==
  /\ \E p \in others : others' = others \ {p}
  /\ UNCHANGED <<pc, ssh, vnc, tries, log, qemu, cause, lost, raised>>

Spawn(l) == AllocateSsh(l) \/ AllocateVnc(l) \/ Popen(l) \/ SettlePoll(l)

Next ==
  \/ \E l \in Launchers : Spawn(l) \/ QemuBinds(l) \/ QemuDies(l)
  \/ OtherBinds
  \/ OtherReleases

Spec == Init /\ [][Next]_vars

\* Each command keeps running; nothing is assumed of QEMU or the host.
FairSpec == Spec /\ \A l \in Launchers : WF_vars(Spawn(l))

-----------------------------------------------------------------------------
TypeOK ==
  /\ pc \in [Launchers -> {"ssh", "vnc", "popen", "settle", "up", "raised"}]
  /\ ssh \in [Launchers -> Ports \cup {NoPort}]
  /\ vnc \in [Launchers -> Ports \cup {NoPort}]
  /\ tries \in [Launchers -> 0..MaxPortRetries]
  /\ log \in [Launchers -> BOOLEAN]
  /\ qemu \in [Launchers -> {"none", "starting", "serving", "gone"}]
  /\ cause \in [Launchers -> {"none", "in use", "died"}]
  /\ lost \in [Launchers -> 0..MaxPortRetries]
  /\ raised \in [Launchers -> {"none", "RuntimeError", "OSError",
                              "AddressAlreadyInUse", "RunTestError"}]
  /\ others \subseteq Ports

\* A display handed to QEMU maps to a TCP port that exists, whatever port the
\* kernel or the fallback range offered (ports.py:91).
DisplayInRange ==
  \A l \in Launchers \ Graphical :
    pc[l] \in {"popen", "settle", "up"} => VncBase + vnc[l] \in Ports

\* A spawn with a log blames the ports only after one of its QEMUs found a
\* port taken and every attempt was used, and blames QEMU only when the
\* attempt it gave up on did not fail on a port.
BlamesPortsWithReason ==
  \A l \in Launchers \ InheritStdio :
    /\ raised[l] = "AddressAlreadyInUse" => lost[l] > 0 /\ tries[l] = MaxPortRetries
    /\ raised[l] = "RunTestError" => cause[l] = "died"

\* The inductive invariant, launcher by launcher.

\* A QEMU belongs to the attempt that started it, and an attempt loses its
\* ports at most once.
AttemptInv(l) ==
  /\ pc[l] \in {"ssh", "vnc", "popen", "raised"} => qemu[l] \in {"none", "gone"}
  /\ pc[l] = "ssh" => tries[l] < MaxPortRetries
  /\ lost[l] <= tries[l]
  /\ pc[l] \in {"vnc", "popen"} \/ qemu[l] = "starting" => lost[l] < tries[l]

\* The log remembers every lost port, and whoever is blamed stays blamed.
BlameInv(l) ==
  /\ raised[l] # "none" => pc[l] = "raised"
  /\ log[l] => lost[l] > 0
  /\ l \notin InheritStdio /\ cause[l] = "in use" => log[l]
  /\ qemu[l] = "gone" => cause[l] # "none"

IInv == /\ TypeOK
        /\ \A l \in Launchers : AttemptInv(l) /\ BlameInv(l)
        /\ DisplayInRange
        /\ BlamesPortsWithReason

\* Every spawn ends with a machine or an exception.
SpawnEnds == \A l \in Launchers : <>(pc[l] \in {"up", "raised"})

\* "If QEMU exits immediately with "address already in use" the whole
\* allocation is retried up to five times" (docs/architecture.md:210).
LostPortIsRetried ==
  \A l \in Launchers :
    raised[l] # "none" /\ cause[l] = "in use" => tries[l] = MaxPortRetries
=============================================================================
