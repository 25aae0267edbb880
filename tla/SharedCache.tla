---------------------------- MODULE SharedCache ----------------------------
(***************************************************************************)
(* $CACHE as several commands share it: the SSH key pair under keys/       *)
(* (ensure_ssh_key), the source image and its ".partial" under downloads/  *)
(* (bootstrap.sh of the Ubuntu recipe and the spike, which give their      *)
(* files the same names), the run directories under runs/, and the golden  *)
(* that image-build moves out of one of them.  GoldenStore has the files   *)
(* under images/ step by step; here they are one golden.  Nothing takes a  *)
(* lock, except that QEMU and qemu-img refuse a disk a QEMU has open.      *)
(*                                                                         *)
(* A command does one thing and ends.  Its key, its download, its disk     *)
(* bear its name.  What an earlier command left is the initial state.      *)
(*                                                                         *)
(* Simplifications: a download is torn until its end; a hash, a conversion *)
(* and image-prune are one step; curl ends with its command; an SSH key is *)
(* its generator; the guest is a cloud image (an ISO is attached, not      *)
(* converted); the smoke steps and the waits are in other modules.         *)
(***************************************************************************)
EXTENDS Naturals, FiniteSets

CONSTANTS
  Commands,        \* commands that are started
  Kinds,           \* what they may be
  None,            \* no file, no key, no QEMU
  OldBlob,         \* the source image an earlier command left
  OldPartial,      \* a part of it
  Earlier,         \* an earlier command: its key, its golden
  Stamps,          \* the seconds in which commands start
  NoStamp,         \* the command has no run directory yet
  MaxInterrupts,   \* bound on SIGINTs
  MaxPrunes        \* bound on image-prune commands

AllKinds == {"check-host", "image-build", "spike", "run-test", "vm-run", "vm-live"}
Runs == {"run-test", "vm-run", "vm-live"}

ASSUME KindsAssumption == Kinds \subseteq AllKinds
ASSUME CacheBoundsAssumption ==
  MaxInterrupts \in Nat /\ MaxPrunes \in Nat
ASSUME NamesAssumption ==
  /\ {None, OldBlob, OldPartial, Earlier} \cap Commands = {}
  /\ None \notin {OldBlob, OldPartial, Earlier} /\ NoStamp \notin Stamps

VARIABLES
  priv, pub,  \* the command whose key each half of the pair is
  blob,       \* the inode under the download's name
  partial,    \* the inode under its ".partial"
  data,       \* data[i]: who wrote inode i: sources, last opener, whole or not
  disk,       \* disk[<<dir, file>>]: the command whose disk is there
  vm,         \* vm[p]: the disk that p's QEMU has open
  golden,     \* the golden: the disk, the key it accepts, the image it came from
  c,          \* c[p]: the command
  raced,      \* history: two ssh-keygen were writing at once
  prunes, interrupts

vars == <<priv, pub, blob, partial, data, disk, vm, golden, c, raced,
          prunes, interrupts>>

keys == <<priv, pub, raced>>
files == <<blob, partial, data>>
bounds == <<prunes, interrupts>>

Inodes == Commands \cup {OldBlob, OldPartial}
Sources == {"pinned", "current"}

NoGolden == [disk |-> None, key |-> None, image |-> "torn", vouched |-> FALSE]
OldGolden == [disk |-> Earlier, key |-> Earlier, image |-> "pinned", vouched |-> TRUE]

Idle == [pc |-> "idle", kind |-> "image-build", at |-> NoStamp, fd |-> None,
         key |-> None, image |-> "torn", crossed |-> FALSE, ready |-> FALSE]

\* What the bytes of inode i are: one source's image, or not an image at all.
Content(i) ==
  IF i # None /\ data[i].whole /\ Cardinality(data[i].mix) = 1
  THEN CHOOSE s \in Sources : s \in data[i].mix
  ELSE "torn"

-----------------------------------------------------------------------------
(* Run directories *)

Suffix == [k \in AllKinds |->
  CASE k = "image-build" -> "-build"
    [] k = "vm-run"      -> "-vm"
    [] k = "vm-live"     -> "-live"
    [] k = "run-test"    -> ""
    [] k = "spike"       -> "-spike"
    [] k = "check-host"  -> "none"]

\* Mutant: every command names its directory by the stamp and the guest.
DirNameShared(p) == <<c[p].at, "">>

\* f"{stamp}-{guest.id}" and what each command appends; the stamp has seconds.
DirName(p) == <<c[p].at, Suffix[c[p].kind]>>

DiskFile(p) == IF c[p].kind = "image-build" THEN "working" ELSE "overlay"
DiskPath(p) == <<DirName(p), DiskFile(p)>>

DirNames == Stamps \X {Suffix[k] : k \in AllKinds \ {"check-host"}}
Paths == DirNames \X {"working", "overlay"}

\* Two commands of one kind that started in the same second.
Twins(p, q) == p # q /\ c[p].at = c[q].at /\ c[p].kind = c[q].kind
HasTwin(p) == p \in Commands /\ \E q \in Commands : Twins(p, q)

\* A QEMU has the disk d open, and its lock.
Locked(d) == \E q \in Commands : vm[q] = d

-----------------------------------------------------------------------------
\* Commands find what earlier ones left: a pair of keys or half of one, an
\* image of either source, a part of one, a golden that takes the key.
Init ==
  /\ \E k \in {<<None, None>>, <<Earlier, None>>, <<Earlier, Earlier>>} :
       priv = k[1] /\ pub = k[2]
  /\ golden \in {NoGolden} \cup {g \in {OldGolden} : g.key = pub}
  /\ blob \in {None, OldBlob}
  /\ partial \in {None, OldPartial}
  /\ blob = OldBlob => partial = None
  /\ \E s \in Sources :
       /\ blob = None => s = "pinned"
       /\ data = [i \in Inodes |-> [mix |-> IF i = OldBlob THEN {s} ELSE {},
                                    last |-> None, whole |-> i = OldBlob]]
  /\ disk = [f \in Paths |-> None]
  /\ vm = [p \in Commands |-> None]
  /\ c = [p \in Commands |-> Idle]
  /\ raced = FALSE
  /\ prunes = 0
  /\ interrupts = 0

\* The command goes to place l.
To(p, l) == c' = [c EXCEPT ![p].pc = l]

\* An exception: the finally block and the end.  The block asks and kills a
\* QEMU the command knows and need not see it gone (QemuQuits).
Raise(p) == To(p, "done")

\* Places where the host, a tool, the network or the guest may raise.
Fallible == {"keypriv", "keypub", "mkdir", "seed", "look", "open", "curl",
             "hash", "source", "spawn", "settle", "boot", "wait"}

Fails(p) ==
  /\ c[p].pc \in Fallible
  /\ Raise(p)
  /\ vm' = [vm EXCEPT ![p] = IF c[p].pc = "settle" THEN None ELSE @]
  /\ UNCHANGED <<keys, files, disk, golden, bounds>>

-----------------------------------------------------------------------------
(* Beginning: the golden, check-host with its key, the run directory *)

\* What a command does when it has its directory: the spike reads the public
\* key, a build looks for its source image, a run for the golden.
AfterMkdir == [k \in AllKinds |->
  IF k = "spike" THEN "seed" ELSE IF k = "image-build" THEN "look" ELSE "source"]

\* image-build reuses a golden unless forced; the commands that boot one ask
\* for it before anything else (require_golden).
Start(p) ==
  /\ c[p].pc = "idle"
  /\ \E k \in Kinds, force \in BOOLEAN :
       LET there == golden # NoGolden
           ends  == \/ k = "image-build" /\ there /\ ~force
                    \/ k \in Runs /\ ~there
       IN  c' = [c EXCEPT ![p] = [Idle EXCEPT
                   !.pc = IF ends THEN "done" ELSE "host",
                   !.kind = k]]
  /\ UNCHANGED <<keys, files, disk, vm, golden, bounds>>

\* check_host: whatever it finds missing ends the command before a key is made.
CheckHost(p) ==
  /\ c[p].pc = "host"
  /\ \E ok \in BOOLEAN : IF ok THEN To(p, "key") ELSE Raise(p)
  /\ UNCHANGED <<keys, files, disk, vm, golden, bounds>>

\* With its key, a check-host ends; the others make their run directory.
AfterKey(p) == IF c[p].kind = "check-host" THEN "done" ELSE "mkdir"

\* Mutant: every check-host makes a new key.
EnsureKeyAnew(p) ==
  /\ c[p].pc = "key"
  /\ To(p, "keygen")
  /\ priv' = None
  /\ UNCHANGED <<pub, raced, files, disk, vm, golden, bounds>>

\* ensure_ssh_key: the private half is all it looks for.
EnsureKey(p) ==
  /\ c[p].pc = "key"
  /\ To(p, IF priv # None THEN AfterKey(p) ELSE "keygen")
  /\ UNCHANGED <<keys, files, disk, vm, golden, bounds>>

\* ssh-keygen asks before it overwrites a key; with no answer it fails.
KeygenLook(p) ==
  /\ c[p].pc = "keygen"
  /\ IF priv = None THEN To(p, "keypriv") ELSE Raise(p)
  /\ raced' = (raced \/ (priv = None
                 /\ \E q \in Commands \ {p} : c[q].pc \in {"keypriv", "keypub"}))
  /\ UNCHANGED <<priv, pub, files, disk, vm, golden, bounds>>

KeygenPrivate(p) ==
  /\ c[p].pc = "keypriv"
  /\ priv' = p
  /\ To(p, "keypub")
  /\ UNCHANGED <<pub, raced, files, disk, vm, golden, bounds>>

\* Mutant: after it has made a key, the command forgets the directory.
KeygenPublicGoesOn(p) ==
  /\ c[p].pc = "keypub"
  /\ pub' = p
  /\ To(p, AfterMkdir[c[p].kind])
  /\ UNCHANGED <<priv, raced, files, disk, vm, golden, bounds>>

KeygenPublic(p) ==
  /\ c[p].pc = "keypub"
  /\ pub' = p
  /\ To(p, AfterKey(p))
  /\ UNCHANGED <<priv, raced, files, disk, vm, golden, bounds>>

\* The stamp is the wall clock's second: run_dir.mkdir(exist_ok=True)
MakeRunDir(p) ==
  /\ c[p].pc = "mkdir"
  /\ \E s \in Stamps :
       c' = [c EXCEPT ![p].at = s, ![p].pc = AfterMkdir[c[p].kind]]
  /\ UNCHANGED <<keys, files, disk, vm, golden, bounds>>

-----------------------------------------------------------------------------
(* The source image: bootstrap.sh, download_noble_cloudimg *)

\* The build wants the pinned image, the spike the current one.
Source(p) == IF c[p].kind = "spike" THEN "current" ELSE "pinned"

\* p changes the download's files under those who have checked them.
Crossing(p, cc) ==
  [q \in Commands |->
     IF q # p /\ cc[q].pc \in {"rename", "source"}
     THEN [cc[q] EXCEPT !.crossed = TRUE] ELSE cc[q]]

ToCrossing(p, l) == c' = Crossing(p, [c EXCEPT ![p].pc = l])

\* Mutant: the build, too, takes whatever file has the name.
LookForSourceAnyFile(p) ==
  /\ c[p].pc = "look"
  /\ To(p, IF blob # None THEN "source" ELSE "open")
  /\ UNCHANGED <<keys, files, disk, vm, golden, bounds>>

\* The build hashes a file it finds; the spike wants 10 MB of anything.
LookForSource(p) ==
  /\ c[p].pc = "look"
  /\ IF c[p].kind = "spike"
     THEN \/ blob # None /\ To(p, "source")
          \/ Content(blob) = "torn" /\ To(p, "open")
     ELSE To(p, IF blob = None THEN "clear"
                ELSE IF Content(blob) = "pinned" THEN "source" ELSE "stale")
  /\ UNCHANGED <<keys, files, disk, vm, golden, bounds>>

\* rm -f "$dest"
RemoveStale(p) ==
  /\ c[p].pc = "stale"
  /\ blob' = None
  /\ ToCrossing(p, "clear")
  /\ UNCHANGED <<keys, partial, data, disk, vm, golden, bounds>>

\* rm -f "$partial"; the spike has no such line.
ClearPartial(p) ==
  /\ c[p].pc = "clear"
  /\ partial' = None
  /\ ToCrossing(p, "open")
  /\ UNCHANGED <<keys, blob, data, disk, vm, golden, bounds>>

\* curl -o: it creates the partial file or truncates the one it finds.
OpenPartial(p) ==
  /\ c[p].pc = "open"
  /\ LET i == IF partial = None THEN p ELSE partial
         others == {q \in Commands : c[q].pc = "curl" /\ c[q].fd = i}
     IN  /\ partial' = i
         /\ data' = [data EXCEPT ![i] = [mix |-> {Source(q) : q \in others \cup {p}},
                                         last |-> p, whole |-> FALSE]]
         /\ c' = Crossing(p, [c EXCEPT ![p].pc = "curl", ![p].fd = i])
  /\ UNCHANGED <<keys, blob, disk, vm, golden, bounds>>

\* The last to open the file writes all of it; one that was truncated under
\* its feet leaves a hole.
EndCurl(p) ==
  /\ c[p].pc = "curl"
  /\ data' = [data EXCEPT ![c[p].fd].whole = @ \/ data[c[p].fd].last = p]
  /\ c' = [c EXCEPT ![p].fd = None,
               ![p].pc = IF c[p].kind = "spike" THEN "rename" ELSE "hash"]
  /\ UNCHANGED <<keys, blob, partial, disk, vm, golden, bounds>>

\* The hash is of whatever has the name now; a mismatch is removed.
HashPartial(p) ==
  /\ c[p].pc = "hash"
  /\ IF Content(partial) = "pinned"
     THEN To(p, "rename") /\ UNCHANGED partial
     ELSE partial' = None /\ ToCrossing(p, "done")
  /\ UNCHANGED <<keys, blob, data, disk, vm, golden, bounds>>

\* mv "$partial" "$dest", partial.replace(dest)
RenamePartial(p) ==
  /\ c[p].pc = "rename"
  /\ IF partial # None
     THEN blob' = partial /\ partial' = None /\ ToCrossing(p, "source")
     ELSE Raise(p) /\ UNCHANGED <<blob, partial>>
  /\ UNCHANGED <<keys, data, disk, vm, golden, bounds>>

-----------------------------------------------------------------------------
(* The disk, the seed and QEMU *)

\* Mutant: a forced build makes room before it begins.
MakeDiskMakesRoom(p) ==
  /\ c[p].pc = "source"
  /\ IF (IF c[p].kind \in Runs THEN golden = NoGolden ELSE blob = None)
          \/ (disk[DiskPath(p)] # None /\ Locked(disk[DiskPath(p)]))
     THEN Raise(p) /\ UNCHANGED <<disk, golden>>
     ELSE /\ disk' = [disk EXCEPT ![DiskPath(p)] = p]
          /\ golden' = IF c[p].kind = "image-build" THEN NoGolden ELSE golden
          /\ c' = [c EXCEPT
               ![p].pc = IF c[p].kind = "image-build" THEN "seed" ELSE "spawn",
               ![p].image = IF c[p].kind \in Runs THEN golden.image ELSE Content(blob),
               ![p].key = IF c[p].kind \in Runs THEN golden.key ELSE @]
  /\ UNCHANGED <<keys, files, vm, bounds>>

\* convert_and_resize copies the image, create_overlay backs the disk with the
\* image (spike) or the golden.  Both make the directory if it has gone.
MakeDisk(p) ==
  /\ c[p].pc = "source"
  /\ IF (IF c[p].kind \in Runs THEN golden = NoGolden ELSE blob = None)
          \/ (disk[DiskPath(p)] # None /\ Locked(disk[DiskPath(p)]))
     THEN Raise(p) /\ UNCHANGED disk
     ELSE /\ disk' = [disk EXCEPT ![DiskPath(p)] = p]
          /\ c' = [c EXCEPT
               ![p].pc = IF c[p].kind = "image-build" THEN "seed" ELSE "spawn",
               ![p].image = IF c[p].kind \in Runs THEN golden.image ELSE Content(blob),
               ![p].key = IF c[p].kind \in Runs THEN golden.key ELSE @]
  /\ UNCHANGED <<keys, files, vm, golden, bounds>>

\* _pubkey_for and the spike's read_text: no public half, no seed.
ReadPublicKey(p) ==
  /\ c[p].pc = "seed"
  /\ IF pub = None
     THEN Raise(p)
     ELSE c' = [c EXCEPT ![p].key = pub,
                  ![p].pc = IF c[p].kind = "spike" THEN "look" ELSE "spawn"]
  /\ UNCHANGED <<keys, files, disk, vm, golden, bounds>>

\* Popen: QEMU needs its disk, and no other QEMU on it.
Spawn(p) ==
  /\ c[p].pc = "spawn"
  /\ IF disk[DiskPath(p)] = None \/ Locked(disk[DiskPath(p)])
     THEN Raise(p) /\ UNCHANGED vm
     ELSE /\ vm' = [vm EXCEPT ![p] = disk[DiskPath(p)]]
          /\ To(p, "settle")
  /\ UNCHANGED <<keys, files, disk, golden, bounds>>

\* After the settle time the command has its machine; a QEMU that has gone
\* is an error.
Settle(p) ==
  /\ c[p].pc = "settle"
  /\ IF vm[p] = None THEN Raise(p) ELSE To(p, "boot")
  /\ UNCHANGED <<keys, files, disk, vm, golden, bounds>>

\* The guest lets in whoever has the private half of the key its disk was
\* seeded with; then cloud-init, setup.sh and the inventory, or the smoke, and
\* machine.shutdown(), which some transport takes.
Boot(p) ==
  /\ c[p].pc = "boot"
  /\ IF vm[p] = None \/ c[p].key # priv
     THEN Raise(p)
     ELSE c' = [c EXCEPT ![p].pc = "wait", ![p].ready = TRUE]
  /\ UNCHANGED <<keys, files, disk, vm, golden, bounds>>

\* Mutant: whatever became of QEMU, the build goes on.
WaitForQemuGoesOn(p) ==
  /\ c[p].pc = "wait"
  /\ To(p, IF c[p].kind = "image-build" THEN "unlink" ELSE "finish")
  /\ UNCHANGED <<keys, files, disk, vm, golden, bounds>>

\* The build waits, kills and waits again, and raises if QEMU is still there;
\* the others wait, kill and go on.
WaitForQemu(p) ==
  /\ c[p].pc = "wait"
  /\ IF c[p].kind = "image-build"
     THEN IF vm[p] = None THEN To(p, "unlink") ELSE Raise(p)
     ELSE To(p, "finish")
  /\ UNCHANGED <<keys, files, disk, vm, golden, bounds>>

\* The guest powers off, QEMU crashes, a kill takes effect.
QemuQuits(p) ==
  /\ vm[p] # None
  /\ vm' = [vm EXCEPT ![p] = None]
  /\ UNCHANGED <<keys, files, disk, golden, c, bounds>>

-----------------------------------------------------------------------------
(* The end *)

\* golden.unlink()
UnlinkGolden(p) ==
  /\ c[p].pc = "unlink"
  /\ golden' = NoGolden
  /\ To(p, "move")
  /\ UNCHANGED <<keys, files, disk, vm, bounds>>

\* shutil.move(working, golden): whatever disk has the name by now.
MoveGolden(p) ==
  /\ c[p].pc = "move"
  /\ LET d == disk[DiskPath(p)]
     IN  IF d = None
         THEN Raise(p) /\ UNCHANGED <<disk, golden>>
         ELSE /\ golden' = [disk |-> d, key |-> c[d].key, image |-> c[d].image,
                            vouched |-> c[d].ready]
              /\ disk' = [disk EXCEPT ![DiskPath(p)] = None]
              /\ To(p, "finish")
  /\ UNCHANGED <<keys, files, vm, bounds>>

\* A run-test removes its disk, the others their directory; all but the build
\* have --keep, and keep everything when they fail.
Finish(p) ==
  /\ c[p].pc = "finish"
  /\ LET mine == IF c[p].kind = "run-test" THEN {DiskPath(p)}
                 ELSE {f \in Paths : f[1] = DirName(p)}
     IN  \/ disk' = [f \in Paths |-> IF f \in mine THEN None ELSE disk[f]]
         \/ c[p].kind # "image-build" /\ UNCHANGED disk
  /\ To(p, "done")
  /\ UNCHANGED <<keys, files, vm, golden, bounds>>

\* SIGINT.  In the settle time the command knows no machine: QEMU goes on, as
\* it may after any exception.
Interrupt(p) ==
  /\ interrupts < MaxInterrupts
  /\ c[p].pc \notin {"idle", "done"}
  /\ interrupts' = interrupts + 1
  /\ Raise(p)
  /\ UNCHANGED <<keys, files, disk, vm, golden, prunes>>

\* image-prune removes runs/, whoever runs there; --images then images/, too.
Prune ==
  /\ prunes < MaxPrunes
  /\ prunes' = prunes + 1
  /\ disk' = [f \in Paths |-> None]
  /\ golden' \in {golden, NoGolden}
  /\ UNCHANGED <<keys, files, vm, c, interrupts>>

-----------------------------------------------------------------------------
Begin(p) ==
  \/ Start(p) \/ CheckHost(p) \/ EnsureKey(p) \/ KeygenLook(p) \/ KeygenPrivate(p)
  \/ KeygenPublic(p) \/ MakeRunDir(p)

Download(p) ==
  \/ LookForSource(p) \/ RemoveStale(p) \/ ClearPartial(p) \/ OpenPartial(p)
  \/ EndCurl(p) \/ HashPartial(p) \/ RenamePartial(p)

Drive(p) ==
  \/ MakeDisk(p) \/ ReadPublicKey(p) \/ Spawn(p) \/ Settle(p) \/ Boot(p)
  \/ WaitForQemu(p) \/ QemuQuits(p)

End(p) ==
  \/ UnlinkGolden(p) \/ MoveGolden(p) \/ Finish(p)
  \/ Fails(p) \/ Interrupt(p)

Next ==
  \/ Prune
  \/ \E p \in Commands : Begin(p) \/ Download(p) \/ Drive(p) \/ End(p)

Spec == Init /\ [][Next]_vars

-----------------------------------------------------------------------------
Places == Fallible \cup {"idle", "host", "key", "keygen", "stale", "clear", "rename",
                         "unlink", "move", "finish", "done"}
Command == Commands \cup {None, Earlier}
Image == Sources \cup {"torn"}

CommandRecord == [pc: Places, kind: AllKinds, at: Stamps \cup {NoStamp},
                  fd: Inodes \cup {None}, key: Command, image: Image,
                  crossed: BOOLEAN, ready: BOOLEAN]

TypeOK ==
  /\ {priv, pub} \subseteq Command
  /\ {blob, partial} \subseteq Inodes \cup {None}
  /\ data \in [Inodes -> [mix: SUBSET Sources, last: Command, whole: BOOLEAN]]
  /\ disk \in [Paths -> Commands \cup {None}]
  /\ vm \in [Commands -> Commands \cup {None}]
  /\ golden \in [disk: Command, key: Command, image: Image, vouched: BOOLEAN]
  /\ c \in [Commands -> CommandRecord]
  /\ \A p \in Commands :
       c[p].pc \in {"seed", "look", "source", "spawn", "boot", "wait", "move"}
         => c[p].at \in Stamps
  /\ raced \in BOOLEAN
  /\ prunes \in 0..MaxPrunes
  /\ interrupts \in 0..MaxInterrupts

\* A golden lets in the key pair the cache holds: "Downloads and the SSH key
\* are never deleted" (README.md:246), and no build, failure or SIGINT makes a
\* golden no command can log in to.  Two ssh-keygen at once do, and two builds
\* in one directory.
GoldenTakesTheKey ==
  golden # NoGolden /\ ~raced /\ ~HasTwin(golden.disk)
  => golden.key = priv /\ pub = priv

\* bootstrap.sh "must leave $CACHE/downloads/<SOURCE_FILENAME> with the pinned
\* SHA-256" (docs/architecture.md:247): a golden comes from the pinned image
\* and was set up to the end, unless another command changed the download
\* between this build's hash and its use, or built in the same directory.
GoldenIsPinned ==
  LET d == golden.disk
  IN  golden # NoGolden /\ d # Earlier
      => \/ golden.image = "pinned" /\ golden.vouched
         \/ c[d].crossed
         \/ HasTwin(d)

\* No QEMU writes to a golden: build_live moves the disk only after its QEMU
\* has gone, whatever the transport of the shutdown claimed.
GoldenAtRest ==
  golden # NoGolden => ~Locked(golden.disk) \/ HasTwin(golden.disk)

\* From the spawn to the move a command's disk stays under its name: no other
\* command removes or replaces it, unless it shares the directory (same kind,
\* same second) or is image-prune.
OwnDisk ==
  \A p \in Commands :
    /\ c[p].pc \in {"settle", "boot", "wait", "unlink", "move"}
    /\ prunes = 0 /\ ~HasTwin(p)
    => disk[DiskPath(p)] = p

\* A forced build that fails keeps the old golden ("On failure the run
\* directory is kept", README.md:84): but for image-prune --images, the golden
\* goes only when a command has its own disk ready, and then it is without one
\* no longer than to the move, unless a SIGINT, a prune or a twin comes in
\* between.
OldGoldenSurvives ==
  [][golden # NoGolden /\ golden' = NoGolden /\ prunes' = prunes
     => \E p \in Commands :
          /\ c'[p].pc = "move" /\ c[p].ready
          /\ disk[DiskPath(p)] # None \/ prunes > 0 \/ HasTwin(p)]_vars

-----------------------------------------------------------------------------
(* The inductive invariant behind the safety properties. *)

Undirected == {"idle", "host", "key", "keygen", "keypriv", "keypub", "mkdir"}
Drives == {"spawn", "settle", "boot", "wait", "unlink", "move"}
Stamped(p) == c[p].at \in Stamps

\* Which command is where.
PlaceInv ==
  \A p \in Commands :
    /\ c[p].pc \in Undirected => c[p].at = NoStamp
    /\ c[p].pc = "mkdir" => c[p].kind # "check-host"
    /\ c[p].pc = "seed" => c[p].kind \in {"spike", "image-build"}
    /\ c[p].pc \notin Undirected \cup {"done"} =>
         Stamped(p) /\ c[p].kind # "check-host"
    /\ c[p].pc \in {"unlink", "move"} => c[p].kind = "image-build" /\ vm[p] = None
    /\ c[p].pc \in {"wait", "unlink", "move"} => c[p].ready
    /\ c[p].pc \in Drives /\ c[p].kind = "image-build" => c[p].key # None

\* Disks are where their commands made them, QEMUs have a disk of their own
\* name open.
DiskInv ==
  /\ \A f \in Paths : disk[f] # None => Stamped(disk[f]) /\ f = DiskPath(disk[f])
  /\ \A p \in Commands : vm[p] # None =>
       /\ Stamped(p) /\ Stamped(vm[p]) /\ DiskPath(vm[p]) = DiskPath(p)
       /\ c[p].pc \in {"settle", "boot", "wait", "finish", "done"}

\* OwnDisk, from the disk's making on.
OwnInv ==
  \A p \in Commands :
    /\ c[p].pc \in Drives \/ (c[p].pc = "seed" /\ c[p].kind = "image-build")
    /\ prunes = 0 /\ ~HasTwin(p)
    => disk[DiskPath(p)] = p

\* Unless two wrote keys at once, the halves are of one pair or one is not
\* there, and nobody changes a pair.
KeyInv ==
  ~raced =>
    /\ pub # None => pub = priv
    /\ \A p \in Commands :
         /\ c[p].pc = "keypriv" => priv = None /\ pub = None
         /\ c[p].pc = "keypub" => priv = p /\ pub = None
         /\ c[p].kind = "image-build" /\ c[p].key # None =>
              c[p].key = priv /\ pub = priv
    /\ \A p, q \in Commands :
         {c[p].pc, c[q].pc} \subseteq {"keypriv", "keypub"} => p = q

\* A golden was a command's disk, that command's QEMU has gone, and a key opens
\* it.
GoldenInv ==
  golden # NoGolden =>
    \/ golden.disk = Earlier /\ golden.key = Earlier
    \/ /\ golden.disk \in Commands
       /\ Stamped(golden.disk)
       /\ \/ HasTwin(golden.disk)
          \/ /\ c[golden.disk].pc \in {"finish", "done"}
             /\ vm[golden.disk] = None
             /\ golden.key # None

\* A build that has checked its source image has the pinned one, unless another
\* command changed the download since.
PinInv ==
  \A p \in Commands :
    c[p].kind = "image-build" /\ ~c[p].crossed =>
      /\ c[p].pc = "rename" => Content(partial) = "pinned"
      /\ c[p].pc = "source" => Content(blob) = "pinned"
      /\ c[p].pc \in Drives \cup {"seed"} => c[p].image = "pinned"

IInv == /\ TypeOK /\ PlaceInv /\ DiskInv /\ OwnInv /\ KeyInv /\ GoldenInv
        /\ GoldenTakesTheKey /\ PinInv /\ GoldenIsPinned
=============================================================================
