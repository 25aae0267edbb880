# Formal models of strataqemu

`strataqemu` builds golden disk images of Linux desktops, boots throwaway
overlays of them in QEMU and runs smoke tests of the Strata file manager inside.
These TLA+ modules model the parts of it in which processes, files, time and
failures meet. TLC checks them on small instances, TLAPS proves every
safety property that holds, and the one refinement, for every value of the constants. Every definition was translated from
the source; `PROJECT.json` maps it to the lines it stands for.

    tlc -workers 2 -config GoldenStore.cfg MCGoldenStore     # one run
    tlapm RunCommandProofs.tla                               # one module of proofs

## 1. Inventory

| component | code | state | operations | talks to |
|---|---|---|---|---|
| commands | `run_test.py`, `vm_live.py`, `spike.py` | locals `machine`, `failed`, `recorded`, `result`; `result.json`; run directory | validate, prepare, spawn, wait, steps, report, clean up | everything below; the operator's SIGINT |
| shutdown cascade | `qemu.py` 670-787 | the QEMU process | qemu-ga, ssh, ACPI, kill | guest, QEMU |
| ports and spawn | `ports.py`, the two `attempt()` | ports on 127.0.0.1, `qemu.log` | bind and release, Popen, settle, classify, retry | kernel, other programs |
| golden store | `image_build.py`, `overlay.py`, `artifacts.py` | `$CACHE/images`: goldens, symlink, vars, provenance | publish, require, overlay, prune | recipe directory, other commands |
| boot waits | `image_build.py` 235-648, `spike.py` 320-438, 553-582 | deadline, attempts, rejections | probe, classify, nap, give up | sshd, qemu-ga, QEMU |
| smoke flows | `tests_spec.py`, `guest-tests/` | `steps`, `intended`, screenshots; in the guest the binary and the running app | install, version oracle, launch, window oracle, About, quit, update | guest, GitHub releases |
| image-build lifecycle | `image_build.py`, `bootstrap.sh` | download and its partial, run directory, working disk, seed | download, convert, boot, set up, inventory, move | guest, other commands |
| check-host, CLI | `cli.py` | SSH key pair | probes, key generation, dispatch | host, ssh-keygen |
| recipes, seeds | `guest.py`, `cloudinit.py` | none | load, digest, format | recipe directory, xorriso, mtools |
| session discovery | `session.py` | none | choose session, display, instance | loginctl output |
| guest agents | `qemu.py` 187-666 | sockets; the virtio port's stale replies | qemu-ga ping, file-write, exec; QMP, RFB | QEMU, qemu-ga |
| spike | `spike.py` | as the commands, an older copy | download, spawn, reboot, find the desktop, picture | as above |
| fixtures | `sample_tree.py` | none | write sample files | |

The commands call everything else; nothing takes a lock. They share the cache
directory, the ports of the host and the guest's symlink, vars and provenance
with each other. QEMU is a child process, the guest is reached by ssh, scp, qemu-ga
and QMP, each of which may answer late, wrongly or not at all.

What is hard here, and what makes each part correct:

- **commands**: a SIGINT, a failing write or a guest that dies at any line of a
  try/except/finally of some 200 lines. No QEMU outlives its command, disks do not
  vanish under a QEMU, and exit status, `result.json` and kept files tell one story.
- **ports**: every port is chosen by binding and releasing it. A display must map to
  a port, and whoever is blamed for a failed start must deserve it.
- **golden store**: nine file operations publish a build, while runs, other builds
  and a prune work on the same names. A golden is not lost, a run boots a provisioned
  image of the digest it asked for.
- **shared cache**: two commands use one key pair, one download name, run directories
  named by the second, and the golden, and an image-prune goes through all of it.
  A golden is the pinned image, opened by the key the cache holds, and no disk changes
  under the command that made it.
- **guest agent**: the virtio port keeps replies of clients that gave up, and replies
  carry no id. A result must be that of the command that was asked about.
- **boot waits**: time, a reject counter that is cancelled, and three ways to give
  up. None may shorten the budget or miss a guest that has come up; the
  spike must not take the boot it is leaving for the one it waits for, nor the greeter's
  session for the desktop's.
- **smoke flows**: a picture must show the version the run claims, although the
  previous one may still be running and releases appear meanwhile.

All hazards, with the line each of them bites at and the properties that cover it, are
listed under `hazards` in `PROJECT.json`.

## 2. Modules

| module | models | checked by |
|---|---|---|
| `RunCommand` | one command with its QEMU and its operator | `MCRunCommand`, `RunCommandProofs` |
| `PortLaunch` | several spawns beside other users of ports | `MCPortLaunch`, `PortLaunchProofs` |
| `GoldenStore` | the files under `images/` and all who use them | `MCGoldenStore`, `GoldenStoreProofs` |
| `GoldenRegistry` | what `GoldenStore` promises (abstract) | refinement in `MCGoldenStore` and `GoldenStoreProofs`, `GoldenRegistryProofs` |
| `SharedCache` | keys, downloads and run directories, several commands | `MCSharedCache`, `SharedCacheProofs` |
| `WaitLoop` | the six waits, with time | `MCWaitLoop`, `WaitLoopProofs` |
| `QgaChannel` | the omarchy-3 kick over qemu-ga's port | `MCQgaChannel`, `QgaChannelProofs` |
| `SmokeFlow` | the five step flows with the guest's Strata | `MCSmokeFlow`, `SmokeFlowProofs` |

How they fit. `RunCommand` is the whole of one command; the modules beside it open what
is one step in it: `PortLaunch` the spawn, `WaitLoop` the wait for ssh, `SmokeFlow` the steps.
`SharedCache` is the composition of several commands over the cache, each of them
with the places at which it touches something shared; `GoldenStore` opens
its last steps, and its golden there is one variable. `QgaChannel` is one step ("boot") of a
build in it.

Operators whose comment begins with "Mutant:" are deliberately wrong variants
of the definition that follows them. No specification uses them; each property was
seen to fail with one of them in place of the code's version.

### RunCommand

`pc` is the line of `run_run_test`, `run_vm_run`, `run_vm_live` or
`run_spike_wayland_ubuntu` that the command has reached. `machine`, `failed`, `recorded` and `result` are the locals of that name;
`file` is `result.json`, which a failing write leaves torn. The three sets `Early`,
`TryBlock` and `FinallyBlock` say what an exception or a SIGINT does at a place.
`exc` distinguishes exceptions the way the except clauses do: listed there,
any other, or KeyboardInterrupt. `Interrupt` may reach QEMU too (from a terminal it does) or
the command alone. `failed` is the first assignment of a handler, so a SIGINT in a
handler may find it made or not.

QEMU is running, hung (its guest answers nothing), asked to power off, quitting
(killed) or gone. The cascade is one action per rung; `CascadeRaises` is the
`except Exception` around it.

The spike is the fourth command: it has its own preparation inside its try block (key and
cached image, or a download, `SpikeImage`, `DownloadEnds`; conversion, overlay, seed,
`SpikePrepare`) and steps (`SpikeSteps`), reports like run-test (`Reporters`) and deletes
its directory like the interactive ones. `DownloadEnds` is no step of `Program`: curl has
no limit on its time.

`runDir` and `disks` are never made, there, gone, or "stuck": deletions swallow their errors
(`discard_throwaway_disks`, `rmtree(ignore_errors=True)`), and a SIGINT may cut them
off, so a command that passed may leave a part behind (`DeleteFiles`).

The smoke steps and the ssh wait are one step each here; `SmokeFlow` and
`WaitLoop` open them. Why an attempt fails and is retried is in `PortLaunch`.

### PortLaunch

One process per command: `AllocateSsh`, `AllocateVnc`, `Popen`, `SettlePoll` are the
body of `attempt()` in its order, `SettlePoll` with the classification and the
retry. Ports are numbers; `Bound` is what anyone listens on. `log` says that
`qemu.log` holds the words "address already in use": it is opened in append mode and read
whole, so it never becomes false again. A QEMU that inherits the terminal
(`vm-run`, `vm-live`) has no log. Displays are probed as ports, as in the code, and
listened on at `VncBase + display`. QEMU binds at any time after Popen, also
after the settle time, when no retry will help.

### GoldenStore and GoldenRegistry

A build is numbered when it begins, and its number stands for its image. `name[i]` is
the digest in the golden's name, fixed as the build begins; `source[i]` is the recipe
that was uploaded. A digest is its recipe's value. `<id>.json` gives the build (`prov`) and a
recipe digest (`digest`), which the code computes anew when it writes the file;
`edited` is history: the builds during which the recipe was edited. Publishing is one action per
file operation: `LookForOldGolden`, `UnlinkOldGolden`, `MoveGolden`, `LookForLink`,
`UnlinkLink`, `MakeLink`, `SaveNvram`, `WriteProvenance`; between any two of them
another command may act, and `StopPublishing` may end the build. A file operation
whose precondition has gone raises, as `unlink`, `symlink_to` and a rename into a removed
directory do. Runs ask for the golden twice, create the overlay, copy the vars and boot,
in the code's order. `image-prune --images` lists, unlinks one by one and removes the
directory, as `shutil.rmtree` does.

`GoldenRegistry` has none of this: images are made, published under one
digest at most once, removed and booted. `GoldenStore!ImplementsRegistry` maps
`golden` to its `reg`, the images whose upload finished to `made`, and the open
backing file of a run to `booted`.

### SharedCache

A command is a record `c[p]`: its place, kind, second, the file its curl writes to, the key
and the image its disk was made from. A key half and a disk bear the name of the command
that made them. A file under `downloads/` is an inode, because what matters is what becomes
of it when someone else renames, removes or truncates the name: `data[i]` says which
sources write to it and whether its last opener has finished. `Crossing` is history: somebody
changed the download while this command stood between its own check and its use.
`check_host`, `ensure_ssh_key` and ssh-keygen's two files, `bootstrap.sh` line by line,
the spike's download, `convert_and_resize` or `create_overlay`, spawn, settle, the wait
for QEMU, unlink and move are actions. `Prune` removes `runs/` and, as `--images`, the golden. A QEMU locks its disk, so a second one, or a
qemu-img, fails on it. `Fails` is any tool that raises; `Interrupt` is SIGINT; a QEMU whose
command does not know it yet goes on.

Initially the cache holds what earlier commands may have left: no key, half of one or a pair; no
download, a whole one from either source, or a part; a golden or none.

### WaitLoop

One loop with six bodies. Time is a count of ticks; `Tick` happens only in
probes and naps, which are where the code spends it. `Limit` is
`_default_max_attempts`; the spike's loops have none. What ssh prints is one of the four
classes that `ssh_auth_rejected` and `ssh_not_listening` tell apart, the fourth being
neither. A booting guest may answer "connection reset" through QEMU's forwarder, which
counts as a rejection, so `Answers` allows it. `silentAt`, `streak` and `changedAt` are history.

`_reboot_and_wait` runs the loop twice: `stage` is "drop" until ssh fails or the time is
up, then `ComeBack` gives the second half what is left, at least `Grace` (15 s in
the code). `_wait_wayland` reads a table of sessions: `Tables` is what loginctl may
print for each state of the guest, in which order, and `Graphical` and `Select` are
`select_wayland_session`. An ssh call of it that fails or times out raises at once
("broken"), whatever state the guest is in.

### QgaChannel

`pc` is the line of `kick_omarchy3_skip_wizard` and of the `qga_` function it is in;
`requests` and `replies` are the two directions of the virtio port. A connection
that closes may lose what is under way in either direction, or leave it for the next
(`Disconnect`): the port outlives it, and there is no `guest-sync`. `_recv_json_line` keeps
the first line of what it read and drops the rest. Each reader takes for its
answer what the code takes: `OpenReply` whatever is in "return" for the handle,
`WriteReply` any object for a count, `PidReply` only a pid. The agent works off its requests
in order, buffers what is written until the close, and reports an exit once. Where the
close cannot write the buffer out (a full disk) its reply is an error (`unflushed`), which
the code ignores. A send may fail too: that ends the write (`WriteBreaks`). What
`skip-wizard.sh` does depends on how much of it was in the file when it was started.

### SmokeFlow

`Plan` has the entries of each flow in the order of its function; "live" is
`vm_live.py`'s, which installs from one of its sources and opens Strata on sample files. A
picture is the version on the screen. Every screenshot goes through one remote file
(`remote`), and a tool that exits 0 without writing it leaves the earlier one to be
copied (`silent` remembers that). The app is single-instance: a second launch raises the first.
`Quit` sends a SIGTERM and waits for nothing, so Strata may go now, later or not at all; `outlived` is
history: the previous Strata was still there at the launch of the new one. A step may end in a pass, a skip where the code has one, an exception run-test lists, or a
`subprocess.TimeoutExpired`, which it does not list. `reported` is what
`result.json` gets: the list `steps` is local to the flow and handed over at its end.

## 3. Runs

| run | result | bounds |
|---|---|---|
| `run_command` | pass | all four commands, the code's 5 attempts, 2 SIGINTs |
| `run_command_record` | violation of `FailureRecordsCommands` | same |
| `port_launch` | pass | 2 launchers (one logs, one does not), 6 ports, 2 attempts, 1 other program |
| `port_launch_stdio` | violation of `LostPortIsRetried` | 1 launcher |
| `golden_store` | pass | 2 recipes, 2 builders, 2 builds, 1 run, 1 edit, 1 stop, 1 prune |
| `golden_store_link` | violation of `LinkIsCurrent` | 1 builder, 2 edits |
| `wait_loop` | pass | all six waits, budget 9, nap 2-3, probe 0-2, grace 3, 3 rejections |
| `wait_loop_streak` | violation of `AbortIsConsecutive` | budget 9, ssh only |
| `shared_cache` | pass | 2 commands of 4 kinds, 2 seconds, 1 SIGINT, 1 prune |
| `qga_channel` | pass | 4 pings, 2 chunks, 2 polls |
| `smoke_flow` | pass | all flows, 3 versions |
| `smoke_flow_window` | violation of `OracleFailureIsPictured` | same |

Why the bounds are enough. Two SIGINTs are the least with which one lands in a
handler or in the cleanup another began; a third finds nothing new, since after
the second the command is at most one block from its exit. Two attempts are the
least with a retry and a give-up (`RunCommand` has all five). Six ports with a VNC
base of 3 make displays overflow, collide with the ssh port of the same QEMU and exhaust both
ranges. Two builders and two builds give every pairwise race of publishing, forced or
not, on one digest or two; one run and one prune race with both. A budget that is no
multiple of the nap makes the rounding of the limit matter, and three rejections can be
counted, cancelled and counted again. Versions matter only as previous,
intended and newer. Two commands of the same or of different kinds in the same or in
different seconds give every pairwise race on the cache; vm-run and vm-live are
not instantiated in `shared_cache` because they use a disk as run-test and end
as the spike, which are. Four pings are one more than the late replies an
open and two writes can swallow, and one lost status leaves one poll.

The commands exit, so every cfg says `CHECK_DEADLOCK FALSE`.

What the passing runs show:

- `NoOrphan`: a QEMU is orphaned only by a SIGINT in the settle time before `machine` is
  bound or inside the cleanup; no failure, timeout or early exit does it.
- `DisksOutliveQemu`: although the cascade believes the first transport that claims success,
  `_shutdown_machine`'s `wait(15)` and kill come before the files are deleted.
- `ExitTellsTheRun`, `InteractiveRunDir`: for every place a SIGINT or an error can hit and
  every exit status. Files that a passing command was to delete may be left, since
  deletions swallow errors; files that were to be kept are lost only by a SIGINT in the handler,
  before `failed` is set, or in the deletion itself. A rewritten report may hold `"ok": true` beside its `error`: the dict is
  updated before the first write; the property asks only for the error.
- `RunTestEnds`, `InteractiveEnds`: run-test and spike have two waits without a bound: an scp
  with a guest that has stopped answering, and the spike's curl. Everything else ends.
- `DisplayInRange`, `BlamesPortsWithReason`, `SpawnEnds`.
- `GoldenNotLost`, `BootsProvisionedImage`, `QuietFilesAgree`, `ImplementsRegistry`.
  `QuietFilesAgree` says that the files of one guest are of one build. That `<id>.json` gives the
  golden's digest, and the golden holds the recipe of that digest, it says only of
  builds during which nobody edited the recipe; with an edit both are false.
- `DeadlineBeforeLimit`, `NoticedInTime`, `AbortTakesTime`, `WaitEnds`. `NoticedInTime`
  assumes that a ready guest answers a probe within the probe's timeout.
- `RebootIsReal`: `_reboot_and_wait` returns on the old boot only when ssh answered for
  the whole timeout. It rests on an assumption about the guest: an sshd that has stopped
  answering for the shutdown does not answer again before the reboot.
- `PickedDesktop`: the greeter's and a closing session are passed over in every order.
- `GoldenTakesTheKey`, `GoldenIsPinned`, `GoldenAtRest`, `OwnDisk`, `OldGoldenSurvives`.
  Each names the races it does not survive: two ssh-keygen at once, two commands of one
  kind for one guest in one second, a download changed between a build's hash
  and its conversion, an image-prune. Nothing in the code guards against them, and
  `hazards` does not list them as covered where they are exempted.
- `ShortScriptIsExcused`: an empty or partial script can run and count as success,
  but only after more late pings than there are chunks, or a close that was answered with
  an error or not at all.
- `JudgedAfterExit`, `ReportIsNotLost`, `KickEnds`.
- `KickUsesItUp`: each step of the kick lowers a number (`Left`) that the agent cannot raise.
- `PicturesShowIntended`, `PicturesShowLatest`: a passing run whose CLI gave the intended
  version shows no other, and so does one whose CLI gave none if GitHub's latest release did
  not change in between; otherwise nothing compares the two. In an update the code
  has two ways to show the previous version all the same, which `Genuine` names: a Strata that
  outlived its SIGTERM is raised by the launch, and a silent screenshot tool leaves the earlier file.
- `BeforeIsPrevious`: the picture before the update is never of the new version.

The violations are disagreements of the code with its documentation; `findings` in
`PROJECT.json` quotes both sides. They are: the clause for unlisted exceptions loses
the recorded commands; `vm-run` and `vm-live` never retry a lost port; a reused golden leaves the
symlink behind; the rejections that abort a wait need not be consecutive; an ssh timeout
in the window oracle skips the screenshot.

Fairness. `RunCommand` assumes that the program takes its next step while it can
(every wait for the guest but scp has a timeout; scp to a silent guest and the
wait for QEMU are enabled once QEMU is gone; the host's own tools, such as
qemu-img, are taken to return) and that a killed process goes. Nothing is assumed of the guest, the
operator, or the server of the spike's download. `PortLaunch` assumes each launcher proceeds, which `Popen`, a fixed sleep
and `poll` justify; nothing of QEMU or the host. `WaitLoop` assumes that time passes and
that probes and naps end: `_ssh_run` and qemu-ga calls pass a timeout. `QgaChannel` assumes
that the kick proceeds, since every `recv` has a timeout; nothing of the agent.
`GoldenStore`, `SharedCache` and `SmokeFlow` are checked for safety only.

## 4. Proofs

`RunCommandProofs` proves `TypeOK`, `NoOrphan`, `ExitTellsTheRun`, `InteractiveRunDir`
and `DisksOutliveQemu` for every set of commands, number of attempts and number of
SIGINTs. None of them is inductive: each speaks of the exit, and what holds there was
decided earlier. `IInv` adds what is known on the way:

- `PlaceInv`: where QEMU may run and `machine` is bound. From "settle" on a live
  QEMU has its `machine`, unless a SIGINT came just there; at "finish" it is dead.
- `CutInv`: a SIGINT leaves the try block at once, so an exception in the cleanup without
  `failed` means a second one arrived in the handler.
- `ReportInv`: what the file holds and what was deleted, place by place.

The proof has one lemma per group of actions and conjunct group; `Interrupt` is
split by the block it lands in. `DisksOutliveQemu` follows from `IInv`: only
`FinishRunDir` deletes, and `PlaceInv` and `CutInv` say what QEMU is there.

`PortLaunchProofs` proves `TypeOK`, `DisplayInRange` and `BlamesPortsWithReason` for any
launchers, ports and retries under `PortsAssumption` (fallback displays fit, which
5900-5999 do) and `RetriesAssumption`. `AttemptInv` ties lost ports to attempts (an
attempt loses its ports at most once, and only until its QEMU is gone); `BlameInv` ties
the sticky log to a lost port.

`GoldenRegistryProofs` proves `RegistryInv` of the abstract registry, and
`GoldenStoreProofs` that the store implements it (`StoreImplementsRegistry`): only the move of
a build is a Publish, only an unlink or a step of a prune is a Remove, only the start
of a run's QEMU opens an image, the end of a provisioning is a Make, and every other step
leaves the mapped variables alone. What a Publish needs (the image was made and
published under no digest before) and what a boot needs (the golden is registered)
comes from the invariant, so the step proof assumes `IInv`.

`GoldenStoreProofs` also proves `TypeOK`, `GoldenNotLost`, `BootsProvisionedImage` and
`QuietFilesAgree` for any number of recipes, builders, builds, runs, edits, stops and prunes,
under the assumptions `GoldenStore` states of its constants. Each speaks of files several
operations wrote, so `IInv` says what is known between two of them:

- `BuildInv`: a build has a number of its own, and what is not begun left no trace.
- `ImageInv`: an image is published after it was provisioned, once, by the move of its build,
  and goes by the digest it was built for from then on, wherever it lies.
- `RunInv`: a run's open image is one that was published under the digest it asked for.
- `AccountInv`: every digest that was ever published has its golden, or is on record as
  taken away, or its build stands between unlink and move. `GoldenNotLost` alone is not
  inductive: it says nothing of a digest before somebody names it.
- `EditInv`: what a build uploaded, and what `<id>.json` gives, is the digest of its golden's
  name unless the build is in `edited`.
- `QuietInv`: while builds publish one at a time, which of the files are of the build before
  and which are the new one's already, place by place.

`WaitLoopProofs` proves all safety properties of `WaitLoop` that hold
(`AbortIsConsecutive` is the one the code violates) under `TimesAssumption`, for every
budget, sleep, probe time, grace and number of rejections. The invariants are about the
present moment, the properties about the end, so `IInv` says how they are tied:

- `AttemptInv`: each attempt but the current one has slept, so `attempts * Sleep` is at most
  the time passed; this is why the deadline comes before the limit.
- `RejectInv`: the same of the rejections since sshd was last silent.
- `RebootInv`: the second half of a reboot begins when the old boot has gone or the time
  is up. It uses the assumption on sshd stated in section 3.
- `DropInv`, `SettledInv`, `NoticeInv`: how old the change of the guest can be at each place
  of the loop without its having been seen.

`SharedCacheProofs` proves all safety properties of `SharedCache` for any set of commands
and of seconds, any number of SIGINTs and prunes. `NamesAssumption` only
keeps the names apart. `IInv` is:

- `PlaceInv`: from its mkdir on a command has a directory, and only a ready build without
  a QEMU comes to the unlink and the move.
- `DiskInv`: a disk lies where its command, or a twin of it, made it. A path tells
  kind and second (`SamePath`), so that two commands with one path are twins.
- `OwnInv`: `OwnDisk` from the making of the disk on.
- `KeyInv`: without a race of two ssh-keygen the halves are of one pair, and a
  build that has read the public half read this pair's.
- `GoldenInv`, `PinInv`: whose disk a golden was, and what a build has checked and no other
  command changed since.

`SafeStep` has one lemma per group of actions: `Quiet` for the steps that make no disk, key
or golden and start no QEMU, and one lemma each for those that do.

`QgaChannelProofs` proves `TypeOK`, `ShortScriptIsExcused`, `JudgedAfterExit` and
`ReportIsNotLost` for any number of pings, chunks and polls (`BoundsAssumption`: at least one
of each). Replies carry no id, so the proof argues from positions. The client appends
requests and takes replies from the front, a closing connection cuts the requests at the end
and the replies at the front, and the agent turns the first request into the last
reply (lemmas `Sends`, `LastReceives`, `Lates`, `AgentAnswers`): nothing overtakes. `IInv` is:

- `PingInv`: while pinging, no more is under way than pings were given up.
- `OpenInv`: the handle is the last reply; once it is read the port is silent.
- `TrueHandleInv`: with the real handle every reply is that to the request before it, so
  `buffered` is `offset`, and a reply to the close that is no error means that the script is
  in the file.
- `FalseHandleInv`, with `StaleAfter`: with a ping's reply for a handle, each chunk
  that passes for written has used up one more reply to a given-up ping. This is where
  `late["ping"] > Chunks` in the property comes from.
- `FileInv`: the agent's file never has more chunks than were asked for.
- `DeliveredInv`: from the exec on, the whole script is what is on the disk and what runs.
- `ExecInv`, `WatchInv`: the pid is the last reply, as the handle was; from then on the
  port speaks of the job alone, and an "exited" on it means the agent has forgotten the process.
- `PolledInv`: while no poll was given up, each has its reply, so the one report is read.

Each part has a lemma for the steps of the kick and one for those of the agent.
`KickIsFinite` proves `KickUsesItUp`: `Left` counts what pings, chunks and polls remain, and the
second guest-exec was counted from the start. This is the half of `KickEnds` that needs no
fairness; TLC checks the other half, that the kick can always go on.

`SmokeFlowProofs` proves `TypeOK`, `PicturesShowIntended`, `BeforeIsPrevious` and
`PicturesShowLatest` for any set of releases. The properties are about flows that
returned; `IInv` says what holds after each entry of `Plan` (`Behind`):

- `StepsInv`: only steps that are behind are recorded, and none is handed over before the end.
- `VersionInv`: once the CLI's version passed, it is that of the binary.
- `ReleaseInv`: releases only move on, so one that is at the end what was resolved at the start was
  it in between, and what was fetched is it.
- `InstallInv`, `UpdateInv`, `Relaunched`: what the binary, the running app, the remote screenshot file and
  the pictures can show before and after launch, quit and update.

Only model-checked: `RunTestEnds`, `InteractiveEnds`, `SpawnEnds`, `WaitEnds` and `KickEnds`,
because liveness under fairness is beyond the prover; and the violations, which
are counterexamples and need no proof. `GoldenStore`'s refinement is of the safety part only: the
registry promises nothing about what happens eventually.

## 5. Not modelled, and abstractions

- The probes of check-host, argparse, recipe loading, seed images, fixtures, the `setup.sh`
  scripts: pure functions or I/O without state of the program.
- The guest's smoke scripts are linear and stateless (the bindings script writes
  by way of Strata's own install.sh and then greps): each is a step that passes or fails.
- QMP `send-key` and `screendump` and the RFB handshake: one request and one reply on a
  fresh connection. What half a sequence of About's chords does depends on
  Strata's dialog, which is not in this repository.
- Version and archive names: string parsing, whose properties would be about formats.
- The spike's port retry is the twin of `PortLaunch`'s and not modelled again.
- Whether a dead compositor's socket file stays beside the live one's.
- File modes (goldens are 0444), wording, logging, timing values.
- A recipe is read at once; the code reads its files one by one.
- An attempt that QEMU does not survive leaves no process.
- Known and not asserted, because no document promises otherwise: a recipe edited during its
  build ends up under the digest of before the edit; a run may pair an old disk with newer
  vars when a forced rebuild publishes between its two reads; a failing flow's passed steps
  are not in `result.json`; after one lost port, an attempt that dies of something else
  is retried as a lost port; one failing ssh call ends the spike's Wayland wait at once; a
  key pair cut off between its halves is taken for a pair; an update may picture the Strata of
  before, which outlived its SIGTERM; of several archives in
  a directory `vm-live` takes the last in string order.

## 6. Plan

Done, in this order: RunCommand, PortLaunch, GoldenStore with GoldenRegistry, WaitLoop,
SmokeFlow, QgaChannel, SharedCache, the spike in RunCommand, WaitLoop and SharedCache, and
the proofs of section 4.

Next, modelling: the components of section 5 have no state that a model checker would
explore; what is left is larger instances (three commands in `SharedCache`, two runs in
`GoldenStore`), whose state spaces take hours to explore.

Next, proofs: no safety property that a run checks is without its theorem. What is left:

1. As `KickUsesItUp` for the kick, a measure that every round of a wait (`WaitLoop`) and
   every attempt of a spawn (`PortLaunch`) lowers. With fairness, which TLC keeps
   checking, it is why they end.
2. Facts between modules: that the steps `RunCommand` takes at once are what
   `PortLaunch` and `SmokeFlow` end with.
