----------------------------- MODULE RunCommand -----------------------------
(***************************************************************************)
(* One `run-test`, `vm-run`, `vm-live` or `spike-wayland-ubuntu` command,  *)
(* from its argument checks to its exit, beside the QEMU process it starts *)
(* and the operator who may interrupt it.                                  *)
(*                                                                         *)
(* The four bodies (run_run_test, run_vm_run, run_vm_live,                 *)
(* run_spike_wayland_ubuntu) are one try/except/finally skeleton around    *)
(* the same or twin helpers: _prepare_overlay, _spawn_overlay_vm,          *)
(* _shutdown_machine.  They differ in what they do with a machine that     *)
(* answers, in what they write and in what they delete.                    *)
(*                                                                         *)
(* Simplifications:                                                        *)
(*   - the smoke steps are one step with three outcomes (module SmokeFlow  *)
(*     opens it), wait_ssh one step with two (module WaitLoop opens it);   *)
(*   - which ports an attempt takes, and how its log is read, is in module *)
(*     PortLaunch: here a failed attempt is retried or not, freely;        *)
(*   - the throwaway files (overlay, vars copy, sockets) are one value;    *)
(*   - a message is taken to be printed, but for the ones inside the try   *)
(*     block, whose OSError the handlers take for the run's own;           *)
(*   - an attempt that QEMU does not survive leaves no process behind.     *)
(***************************************************************************)
EXTENDS Naturals, FiniteSets

CONSTANTS
  Commands,         \* the commands considered
  MaxPortRetries,   \* ports.MAX_PORT_RETRIES: attempts of one spawn
  MaxInterrupts     \* bound on the SIGINTs the command receives

ASSUME CommandsAssumption ==
  Commands \subseteq {"run-test", "vm-run", "vm-live", "spike"}
ASSUME RetriesAssumption == MaxPortRetries \in Nat \ {0}
ASSUME InterruptsAssumption == MaxInterrupts \in Nat

VARIABLES
  cmd,       \* the command
  keep,      \* --keep
  pc,        \* where the command is
  tries,     \* spawn attempts made
  exc,       \* the exception being handled
  machine,   \* the local `machine` is bound (the finally block can see it)
  failed,    \* the local `failed`
  rc,        \* the exit status the command will return
  recorded,  \* the list `recorded` of run_run_test holds guest commands
  result,    \* the dict `result` of run_run_test and of the spike
  file,      \* result.json
  runDir,    \* the run directory
  disks,     \* the throwaway files in it
  qemu,      \* the QEMU process
  cut        \* history: the places where a SIGINT arrived, in order

vars == <<cmd, keep, pc, tries, exc, machine, failed, rc, recorded, result,
          file, runDir, disks, qemu, cut>>

control == <<cmd, keep>>
report  == <<recorded, result, file>>
files   == <<runDir, disks>>

-----------------------------------------------------------------------------
\* What the program can raise, as its except clauses tell it apart: the listed
\* exceptions, any other Exception (subprocess.TimeoutExpired,
\* AddressAlreadyInUse, ValueError, RuntimeError...), KeyboardInterrupt.
Raised == {"listed", "other", "interrupt"}

\* Inside the try, where an exception reaches the handlers.
TryBlock == {"prepare", "download", "image", "spawn", "settle", "wait",
             "steps", "scp", "write", "report", "linger"}

\* Inside the finally, where a KeyboardInterrupt leaves the command.
FinallyBlock == {"cleanup", "qga", "ssh", "acpi", "kill", "reap", "finish"}

\* The commands that write a result.json, on success and in their handlers.
Reporters == {"run-test", "spike"}

Early == {"validate", "golden", "host"}

\* A QEMU that runs: undisturbed, with a guest that has stopped answering, or
\* with a guest asked to power off.  "quitting" has been killed or got the
\* terminal's SIGINT and will be gone.
Alive == {"running", "hung", "poweroff"}

\* A file or a directory: never made, there, deleted, or what a deletion that
\* failed or was cut off has left.
Fate == {"none", "there", "gone", "stuck"}
Untouched == {"none", "there"}

Dict == [ok: BOOLEAN, error: {"none"} \cup Raised, commands: BOOLEAN]
File == [state: {"absent", "torn", "whole"}, body: Dict]

EmptyDict == [ok |-> FALSE, error |-> "none", commands |-> FALSE]

Goto(p) == pc' = p

\* Control leaves the try block by exception e.
Raise(e) == /\ exc' = e
            /\ Goto("except")

Return(status) == /\ rc' = status
                  /\ Goto("exit")

-----------------------------------------------------------------------------
Init ==
  /\ cmd \in Commands
  /\ keep \in BOOLEAN
  /\ pc = "validate"
  /\ tries = 0
  /\ exc = "none"
  /\ machine = FALSE
  /\ failed = FALSE
  /\ rc = "none"
  /\ recorded = FALSE
  /\ result = EmptyDict
  /\ file = [state |-> "absent", body |-> EmptyDict]
  /\ runDir = "none"
  /\ disks = "none"
  /\ qemu = "none"
  /\ cut = {}

\* Argument validation: exit 2 before anything touches the cache.  The spike
\* has nothing to validate and boots no golden.
Validate ==
  /\ pc = "validate"
  /\ \/ cmd # "spike" /\ Return("2")
     \/ Goto(IF cmd = "spike" THEN "host" ELSE "golden") /\ UNCHANGED rc
  /\ UNCHANGED <<control, tries, exc, machine, failed, report, files, qemu, cut>>

\* The first require_golden, before check-host.
RequireGolden ==
  /\ pc = "golden"
  /\ \/ Return("1")
     \/ Goto("host") /\ UNCHANGED rc
  /\ UNCHANGED <<control, tries, exc, machine, failed, report, files, qemu, cut>>

\* check_host, the SSH key and OVMF checks, then mkdir of the run directory.
CheckHost ==
  /\ pc = "host"
  /\ \/ /\ Return("1")
        /\ UNCHANGED runDir
     \/ /\ Goto("prepare")
        /\ runDir' = "there"
        /\ UNCHANGED rc
  /\ UNCHANGED <<control, tries, exc, machine, failed, report, disks, qemu, cut>>

\* _prepare_overlay: a golden gone since the first check, a qemu-img that
\* fails, or a missing vars template raise, with or without an overlay left.
PrepareOverlay ==
  /\ pc = "prepare" /\ cmd # "spike"
  /\ \/ Goto("spawn") /\ disks' = "there" /\ UNCHANGED exc
     \/ Raise("listed") /\ disks' \in Untouched
  /\ UNCHANGED <<control, tries, machine, failed, rc, report, runDir, qemu, cut>>

\* The spike reads its public key and wants the cloud image: the cached one, or
\* a download by a curl with no limit on its time.
SpikeImage ==
  /\ pc = "prepare" /\ cmd = "spike"
  /\ \/ \E p \in {"download", "image"} : Goto(p) /\ UNCHANGED exc
     \/ Raise("other")
  /\ UNCHANGED <<control, tries, machine, failed, rc, report, files, qemu, cut>>

\* The server has sent the image, or curl gives up.  Nothing makes it do so.
DownloadEnds ==
  /\ pc = "download"
  /\ \/ Goto("image") /\ UNCHANGED exc
     \/ Raise("other")
  /\ UNCHANGED <<control, tries, machine, failed, rc, report, files, qemu, cut>>

\* The conversion, an overlay on the image, its resize, the seed and the vars
\* copy.  Any of them may raise, the last ones after the overlay was made.
SpikePrepare ==
  /\ pc = "image"
  /\ \/ Goto("spawn") /\ disks' = "there" /\ UNCHANGED exc
     \/ Raise("other") /\ disks' \in Untouched
  /\ UNCHANGED <<control, tries, machine, failed, rc, report, runDir, qemu, cut>>

\* One attempt of _spawn_overlay_vm up to Popen: ports, ssh_port, qemu.log.
SpawnAttempt ==
  /\ pc = "spawn"
  /\ \/ /\ qemu' = "running"
        /\ tries' = tries + 1
        /\ Goto("settle")
        /\ UNCHANGED exc
     \/ /\ \E e \in {"listed", "other"} : Raise(e)
        /\ UNCHANGED <<qemu, tries>>
  /\ UNCHANGED <<control, machine, failed, rc, report, files, cut>>

\* Mutant: one attempt too many (`<=` for `<`).
SettlePollOffByOne ==
  /\ pc = "settle"
  /\ \/ /\ qemu # "gone"
        /\ machine' = TRUE
        /\ \/ Goto(IF cmd = "vm-run" THEN "linger" ELSE "wait") /\ UNCHANGED exc
           \/ cmd = "vm-run" /\ Raise("listed")
     \/ /\ qemu = "gone"
        /\ (tries <= MaxPortRetries /\ Goto("spawn") /\ UNCHANGED exc) \/ Raise("listed")
        /\ UNCHANGED machine
  /\ UNCHANGED <<control, tries, failed, rc, report, files, qemu, cut>>

\* The poll after the settle time.  A live process is wrapped in a Machine
\* and assigned; a dead one is an AddressAlreadyInUse (retried while attempts
\* are left, then raised) or a RunTestError.  vm-run prints where its machine
\* listens before it waits.
SettlePoll ==
  /\ pc = "settle"
  /\ \/ /\ qemu # "gone"
        /\ machine' = TRUE
        /\ \/ Goto(IF cmd = "vm-run" THEN "linger" ELSE "wait") /\ UNCHANGED exc
           \/ cmd = "vm-run" /\ Raise("listed")
     \/ /\ qemu = "gone"
        /\ \/ tries < MaxPortRetries /\ Goto("spawn") /\ UNCHANGED exc
           \/ tries = MaxPortRetries /\ Raise("other")
           \/ Raise("listed")
        /\ UNCHANGED machine
  /\ UNCHANGED <<control, tries, failed, rc, report, files, qemu, cut>>

\* Mutant: a wait_ssh with neither deadline nor attempt limit.
WaitSshForever ==
  /\ pc = "wait"
  /\ qemu = "running" /\ Goto("steps")
  /\ UNCHANGED <<control, tries, exc, machine, failed, rc, report, files, qemu, cut>>

\* wait_ssh returns, or raises ImageBuildError or TimeoutError.
WaitSsh ==
  /\ pc = "wait"
  /\ \/ qemu = "running" /\ Goto("steps") /\ UNCHANGED exc
     \/ Raise("listed")
  /\ UNCHANGED <<control, tries, machine, failed, rc, report, files, qemu, cut>>

\* The smoke steps of the chosen flow (run-test), or session, install,
\* fixtures and launch (vm-live).  Success updates the dict in memory.  A
\* failure may come before or after the first guest command is recorded.
RunSteps ==
  /\ pc = "steps" /\ cmd # "spike"
  /\ \/ /\ qemu = "running"
        /\ Goto(IF cmd = "run-test" THEN "write" ELSE "linger")
        /\ result' = IF cmd = "run-test" THEN [result EXCEPT !.ok = TRUE]
                                         ELSE result
        /\ recorded' = (cmd = "run-test")
        /\ UNCHANGED exc
     \/ /\ \E e \in {"listed", "other"} : Raise(e)
        /\ recorded' \in {FALSE, cmd = "run-test"}
        /\ UNCHANGED result
  /\ UNCHANGED <<control, tries, machine, failed, rc, file, files, qemu, cut>>

\* The spike's steps: cloud-init, the desktop, the reboot, the session, the
\* screenshot; they raise what any clause but KeyboardInterrupt takes.
SpikeSteps ==
  /\ pc = "steps" /\ cmd = "spike"
  /\ \/ /\ qemu = "running"
        /\ result' = [result EXCEPT !.ok = TRUE]
        /\ Goto("write")
        /\ UNCHANGED exc
     \/ Raise("other") /\ UNCHANGED result
  /\ UNCHANGED <<control, tries, machine, failed, rc, recorded, file, files,
                 qemu, cut>>

\* scp_to_guest and scp_from_guest have no timeout, nor has the spike's scp of its
\* screenshot, and ssh has no keepalive: once the guest has stopped answering
\* such a call waits as long as QEMU lives.
ScpHangs ==
  /\ pc = "steps"
  /\ qemu = "hung"
  /\ recorded' = (cmd = "run-test")
  /\ Goto("scp")
  /\ UNCHANGED <<control, tries, exc, machine, failed, rc, result, file, files,
                 qemu, cut>>

ScpFails ==
  /\ pc = "scp"
  /\ qemu \notin Alive
  /\ Raise("listed")
  /\ UNCHANGED <<control, tries, machine, failed, rc, report, files, qemu, cut>>

\* result.json of a passing Reporter; a failing write leaves a torn file.
WriteResult ==
  /\ pc = "write"
  /\ \/ /\ file' = [state |-> "whole", body |-> result]
        /\ Goto("report")
        /\ UNCHANGED exc
     \/ /\ file' = [file EXCEPT !.state = "torn"]
        /\ Raise("listed")
  /\ UNCHANGED <<control, tries, machine, failed, rc, recorded, result, files,
                 qemu, cut>>

\* The summary lines, then `return 0`; a closed stdout raises OSError.
PrintSummary ==
  /\ pc = "report"
  /\ \/ rc' = "0" /\ Goto("cleanup") /\ UNCHANGED exc
     \/ Raise("listed") /\ UNCHANGED rc
  /\ UNCHANGED <<control, tries, machine, failed, report, files, qemu, cut>>

\* Mutant: vm-run and vm-live wait for Ctrl-C only.
WaitForCtrlC ==
  /\ pc = "linger"
  /\ cut # {} /\ rc' = "0" /\ Goto("cleanup")
  /\ UNCHANGED <<control, tries, exc, machine, failed, report, files, qemu, cut>>

\* vm-run and vm-live wait for QEMU to exit, then `return 0`.
WaitForQemu ==
  /\ pc = "linger"
  /\ qemu = "gone"
  /\ rc' = "0"
  /\ Goto("cleanup")
  /\ UNCHANGED <<control, tries, exc, machine, failed, report, files, qemu, cut>>

\* Mutant: the handlers do not set `failed`.
HandleExceptionForgets ==
  LET body == [result EXCEPT !.error = exc]
  IN /\ pc = "except"
     /\ Goto("cleanup")
     /\ result' = IF cmd \in Reporters THEN body ELSE result
     /\ file' = IF cmd \in Reporters THEN [state |-> "whole", body |-> body] ELSE file
     /\ rc' = IF exc = "interrupt" THEN "130" ELSE "1"
     /\ UNCHANGED <<control, tries, exc, machine, failed, recorded, files, qemu, cut>>

\* The except clauses: the dict gets the error, and the recorded commands in
\* the clause of the listed exceptions; a Reporter writes result.json.  A write
\* that fails here leaves by its own exception, through the finally.
HandleException ==
  LET body == [result EXCEPT !.error = exc,
                             !.commands = (exc = "listed" /\ recorded)]
  IN /\ pc = "except"
     /\ failed' = TRUE
     /\ Goto("cleanup")
     /\ IF cmd \in Reporters
        THEN /\ result' = body
             /\ \/ /\ file' = [state |-> "whole", body |-> body]
                   /\ rc' = IF exc = "interrupt" THEN "130" ELSE "1"
                \/ /\ file' = [file EXCEPT !.state = "torn"]
                   /\ rc' = "traceback"
        ELSE /\ UNCHANGED <<result, file>>
             /\ rc' = IF exc = "interrupt" THEN "130" ELSE "1"
     /\ UNCHANGED <<control, tries, exc, machine, recorded, files, qemu, cut>>

-----------------------------------------------------------------------------
\* The finally block.  _shutdown_machine runs only for a bound machine.
EnterFinally ==
  /\ pc = "cleanup"
  /\ Goto(IF machine THEN "qga" ELSE "finish")
  /\ UNCHANGED <<control, tries, exc, machine, failed, rc, report, files, qemu, cut>>

\* The guest may obey a poweroff request now; a QEMU that is going stays so.
GuestMayObey == qemu' \in {qemu, IF qemu = "running" THEN "poweroff" ELSE qemu}

\* Mutant: a shutdown request that was sent is taken for a shutdown.
QgaShutdownReturns ==
  /\ pc = "qga"
  /\ \/ qemu \in Alive /\ GuestMayObey /\ Goto("finish")
     \/ Goto("ssh") /\ UNCHANGED qemu
  /\ UNCHANGED <<control, tries, exc, machine, failed, rc, report, files, cut>>

\* qga_guest_shutdown: True once the request was sent, even with no reply.
QgaShutdown ==
  /\ pc = "qga"
  /\ \/ qemu \in Alive /\ GuestMayObey /\ Goto("reap")
     \/ Goto("ssh") /\ UNCHANGED qemu
  /\ UNCHANGED <<control, tries, exc, machine, failed, rc, report, files, cut>>

\* _ssh_poweroff: exit status 0 and 255 both count as success, and 255 is
\* also what a refused connection gives; a timeout or another status fails.
SshPoweroff ==
  /\ pc = "ssh"
  /\ \/ GuestMayObey /\ Goto("reap")
     \/ qemu \in Alive /\ GuestMayObey /\ Goto("acpi")
  /\ UNCHANGED <<control, tries, exc, machine, failed, rc, report, files, cut>>

\* qmp_system_powerdown: the guest may ignore the button.
AcpiPowerButton ==
  /\ pc = "acpi"
  /\ \/ qemu \in Alive /\ GuestMayObey /\ Goto("reap")
     \/ Goto("kill") /\ UNCHANGED qemu
  /\ UNCHANGED <<control, tries, exc, machine, failed, rc, report, files, cut>>

\* Machine.kill: SIGKILL if the process is still there.
Killed(q) == IF q \in Alive THEN "quitting" ELSE q

\* The last rung of run_shutdown.
KillRung ==
  /\ pc = "kill"
  /\ qemu' = Killed(qemu)
  /\ Goto("reap")
  /\ UNCHANGED <<control, tries, exc, machine, failed, rc, report, files, cut>>

\* A transport raises: _shutdown_machine kills.
CascadeRaises ==
  /\ pc \in {"qga", "ssh", "acpi"}
  /\ qemu' = Killed(qemu)
  /\ Goto("reap")
  /\ UNCHANGED <<control, tries, exc, machine, failed, rc, report, files, cut>>

\* Mutant: wait(timeout=15) without the kill.
ReapWithoutKill ==
  /\ pc = "reap"
  /\ Goto("finish")
  /\ UNCHANGED <<control, tries, exc, machine, failed, rc, report, files, qemu, cut>>

\* wait(timeout=15), and kill() when it times out.
Reap ==
  /\ pc = "reap"
  /\ qemu' = Killed(qemu)
  /\ Goto("finish")
  /\ UNCHANGED <<control, tries, exc, machine, failed, rc, report, files, cut>>

\* discard_throwaway_disks unlinks one file after the other and swallows the
\* OSError of each; rmtree(ignore_errors=True) does the same of a directory,
\* which goes only if all that is in it does.
DeleteFiles ==
  /\ disks' \in IF disks = "there" THEN {"gone", "stuck"} ELSE {disks}
  /\ \/ cmd = "run-test" /\ UNCHANGED runDir
     \/ cmd # "run-test" /\ disks' # "stuck" /\ runDir' = "gone"
     \/ cmd # "run-test" /\ runDir' = "stuck"

\* Mutant: --keep is looked at, `failed` is not.
FinishRunDirDropsFailed ==
  /\ pc = "finish"
  /\ IF keep THEN UNCHANGED files ELSE DeleteFiles
  /\ Goto("exit")
  /\ UNCHANGED <<control, tries, exc, machine, failed, rc, report, qemu, cut>>

\* _finish_run_dir drops the throwaway files of a passing run-test; the
\* others drop the whole run directory, the spike its result.json and its
\* screenshot with it.  --keep or a failure keep all.
FinishRunDir ==
  /\ pc = "finish"
  /\ IF keep \/ failed THEN UNCHANGED files ELSE DeleteFiles
  /\ Goto("exit")
  /\ UNCHANGED <<control, tries, exc, machine, failed, rc, report, qemu, cut>>

-----------------------------------------------------------------------------
\* SIGINT.  From a terminal it reaches QEMU too, which quits on it; sent to
\* the command alone it does not.  In the try block it becomes the exception;
\* in a handler it skips what is left of the handler; in the finally block it
\* skips what is left of the cleanup, a deletion under way included.  `failed`
\* is the handler's first assignment, so a second SIGINT may find it made or
\* not.
Interrupt ==
  /\ Cardinality(cut) < MaxInterrupts
  /\ pc \notin cut \cup {"exit"}
  /\ cut' = cut \cup {pc}
  /\ \/ UNCHANGED qemu
     \/ qemu \in Alive /\ qemu' = "quitting"
  /\ \/ pc \in Early /\ Return("traceback") /\ UNCHANGED <<exc, failed>>
     \/ pc \in TryBlock /\ Raise("interrupt") /\ UNCHANGED <<rc, failed>>
     \/ /\ pc = "except"
        /\ failed' \in BOOLEAN
        /\ rc' = "traceback"
        /\ Goto("cleanup")
        /\ UNCHANGED exc
     \/ pc \in FinallyBlock /\ Return("traceback") /\ UNCHANGED <<exc, failed>>
  /\ \/ UNCHANGED files
     \/ pc = "finish" /\ ~keep /\ ~failed /\ DeleteFiles
  /\ UNCHANGED <<control, tries, machine, report>>

\* A guest that stops answering: a kernel panic, a frozen userland.
GuestHangs ==
  /\ qemu = "running"
  /\ qemu' = "hung"
  /\ UNCHANGED <<control, pc, tries, exc, machine, failed, rc, report, files, cut>>

\* QEMU and its guest: a crash, a window closed by the operator, an attempt
\* that cannot bind its ports, a poweroff that completes, a kill that lands.
QemuExits ==
  /\ qemu \in Alive \cup {"quitting"}
  /\ qemu' = "gone"
  /\ UNCHANGED <<control, pc, tries, exc, machine, failed, rc, report, files, cut>>

Program ==
  \/ Validate \/ RequireGolden \/ CheckHost
  \/ PrepareOverlay \/ SpikeImage \/ SpikePrepare \/ SpawnAttempt \/ SettlePoll
  \/ WaitSsh \/ RunSteps \/ SpikeSteps \/ ScpHangs \/ ScpFails
  \/ WriteResult \/ PrintSummary \/ WaitForQemu
  \/ HandleException
  \/ EnterFinally \/ QgaShutdown \/ SshPoweroff \/ AcpiPowerButton
  \/ KillRung \/ CascadeRaises \/ Reap \/ FinishRunDir

Next == Program \/ DownloadEnds \/ Interrupt \/ GuestHangs \/ QemuExits

Spec == Init /\ [][Next]_vars

\* The program keeps running: every wait for the guest but scp has a timeout,
\* the wait for QEMU is enabled once it is gone, and the host's own tools
\* (qemu-img, xorriso) are taken to return.  A killed process goes away.  The
\* server of the spike's image owes nothing.
FairSpec == /\ Spec
            /\ WF_vars(Program)
            /\ WF_vars(qemu = "quitting" /\ QemuExits)

-----------------------------------------------------------------------------
Places == Early \cup TryBlock \cup {"except"} \cup FinallyBlock \cup {"exit"}

PlaceType ==
  /\ pc \in Places
  /\ exc \in {"none"} \cup Raised
  /\ rc \in {"none", "0", "1", "2", "130", "traceback"}
  /\ qemu \in {"none", "quitting", "gone"} \cup Alive

CountType == cmd \in Commands /\ tries \in 0..MaxPortRetries /\ cut \subseteq Places

FlagType == /\ {keep, machine, failed} \subseteq BOOLEAN
            /\ {runDir, disks} \subseteq Fate

ReportType ==
  recorded \in BOOLEAN /\ result \in Dict /\ file \in File

TypeOK == PlaceType /\ CountType /\ FlagType /\ ReportType

\* A command that has exited left no running QEMU behind, unless a SIGINT
\* arrived between Popen and the assignment of `machine`, or inside the
\* finally block (docs/architecture.md, shutdown cascade; run_test.py:619).
NoOrphan ==
  pc = "exit" /\ qemu \in Alive => cut \cap (FinallyBlock \cup {"settle"}) # {}

\* The overlay is deleted only once its QEMU is dead or dying, even though the
\* cascade stops at the first transport that claims success.  Two SIGINTs, one
\* before `machine` is bound and one before `failed` is, are the exception.
DisksOutliveQemu ==
  [][disks = "there" /\ disks' # "there" =>
       qemu \notin Alive \/ {"settle", "except"} \subseteq cut]_vars

\* What a Reporter's exit status, its result.json and its disks say of the run
\* agree: 0 means a whole ok report and disks kept only by --keep, or left by a
\* deletion that failed; 1 and 130 mean a whole report of that error and every
\* disk the run made.
ExitTellsTheRun ==
  pc = "exit" /\ runDir = "there" /\ cmd \in Reporters =>
    /\ rc = "0" => /\ file.state = "whole"
                   /\ file.body.ok
                   /\ file.body.error = "none"
                   /\ IF keep THEN disks = "there" ELSE disks \in {"gone", "stuck"}
    /\ rc \in {"1", "130"} => /\ file.state = "whole"
                              /\ (file.body.error = "interrupt") = (rc = "130")
                              /\ file.body.error # "none"
                              /\ disks \in Untouched

\* The run directory of an interactive command, or of the spike, with all that
\* is in it, survives every run that did not pass or was asked to keep it, and
\* no other ("deleted on success unless --keep").  A SIGINT may break this in
\* two places: in the handler, before it sets `failed`, and in the deletion of
\* a run that passed, which then ends in a traceback.
InteractiveRunDir ==
  pc = "exit" /\ cmd # "run-test" =>
    /\ keep \/ (rc # "0" /\ cut \cap {"except", "finish"} = {}) =>
         {runDir, disks} \subseteq Untouched
    /\ rc = "0" => IF keep THEN runDir = "there" ELSE runDir \in {"gone", "stuck"}

\* Every run-test and every spike ends, or is held in one of the two waits of
\* theirs without a bound: an scp from or to a guest that has stopped answering
\* (tests_spec.py:1014, spike.py:459), for as long as its QEMU lives, and the
\* spike's download of its image (spike.py:221).
RunTestEnds ==
  cmd \in Reporters ~>
    pc = "exit" \/ pc = "download" \/ (pc = "scp" /\ qemu \in Alive)

\* An interactive command ends once its QEMU has.
InteractiveEnds == pc = "linger" /\ qemu = "gone" ~> pc = "exit"

-----------------------------------------------------------------------------
\* The inductive invariant: the safety properties and what they rest on.

\* Where QEMU and the local `machine` can be at each place of the command, and
\* that another attempt begins only when one is left.
Unspawned == Early \cup {"prepare", "download", "image"}
WithMachine == {"wait", "steps", "scp", "write", "report", "linger"}
               \cup (FinallyBlock \ {"cleanup", "finish"})

PlaceInv ==
  /\ pc \in Unspawned => qemu = "none"
  /\ pc \in Unspawned \cup {"spawn", "settle"} => ~machine
  /\ pc \in Unspawned => tries = 0
  /\ pc = "spawn" => qemu \notin Alive /\ tries < MaxPortRetries
  /\ pc \in WithMachine => machine
  /\ ~machine /\ qemu \in Alive => pc = "settle" \/ "settle" \in cut
  /\ pc = "finish" /\ qemu \in Alive => ~machine

\* How a SIGINT has left its mark: the first one ends the try block, and only
\* a second one, in the handler, can keep `failed` from being set.
CutInv ==
  /\ pc \in Early \cup TryBlock => cut = {} /\ exc = "none" /\ ~failed
  /\ pc = "except" => exc # "none"
  /\ "settle" \in cut => exc # "none"
  /\ pc \in FinallyBlock /\ exc # "none" => failed \/ "except" \in cut
  /\ failed => exc # "none"

\* What has been written and what has been deleted, at each place.
Failures == {"1", "130"}

ReportInv ==
  /\ pc \in Early => runDir = "none"
  /\ pc \in TryBlock \cup {"except"} \cup FinallyBlock => runDir = "there"
  /\ pc # "exit" => disks \in Untouched
  /\ pc \in TryBlock \ Unspawned => disks = "there"
  /\ rc = "0" /\ pc # "exit" => disks = "there"
  /\ pc \in Early \cup TryBlock \cup {"except"} => rc = "none"
  /\ pc \in Early \cup TryBlock => result.error = "none"
  /\ pc \in {"write", "report"} => cmd \in Reporters /\ result.ok
  /\ pc = "linger" => cmd \notin Reporters
  /\ pc = "report" => file = [state |-> "whole", body |-> result]
  /\ pc \in FinallyBlock => rc # "none"
  /\ rc = "0" => exc = "none" /\ ~failed
  /\ rc = "0" /\ cmd \in Reporters =>
       file.state = "whole" /\ file.body.ok /\ file.body.error = "none"
  /\ pc \in FinallyBlock /\ rc # "0" => exc # "none"
  /\ rc \in Failures /\ pc \in FinallyBlock => failed
  /\ rc \in Failures /\ runDir = "there" => (exc = "interrupt") = (rc = "130")
  /\ rc \in Failures /\ runDir = "there" /\ cmd \in Reporters =>
       file.state = "whole" /\ file.body.error = exc /\ exc # "none"

IInv == /\ TypeOK /\ PlaceInv /\ CutInv /\ ReportInv
        /\ NoOrphan /\ ExitTellsTheRun /\ InteractiveRunDir

\* "On failure record `error` and the recorded guest commands in
\* result.json" (docs/architecture.md:340): a run-test that exits 1 after it
\* recorded guest commands has done so.
FailureRecordsCommands ==
  pc = "exit" /\ recorded /\ rc = "1" => file.body.commands
=============================================================================
