---------------------------- MODULE GoldenStore ----------------------------
(***************************************************************************)
(* The files of one guest under $CACHE/images, and the commands that race  *)
(* on them: image-build (run_image_build, build_live), the commands that   *)
(* boot an overlay (require_golden, _prepare_overlay, QEMU's open of the   *)
(* backing file), image-prune --images, and the developer who edits the    *)
(* recipe.  Nothing locks these files.                                     *)
(*                                                                         *)
(* The golden is named by a digest of the recipe; the symlink, the saved   *)
(* OVMF vars and the provenance are named by the guest alone.  A digest is *)
(* computed from the recipe directory whenever a path is asked for.        *)
(*                                                                         *)
(* Simplifications: a recipe is one value read at once where the code      *)
(* reads its files one by one; the download, boot and set-up of a build    *)
(* are one step; each command names one guest.                             *)
(***************************************************************************)
EXTENDS Naturals, FiniteSets

CONSTANTS
  Recipes,     \* contents of the recipe directory (and so the digests)
  Builders,    \* image-build commands
  Runners,     \* run-test, vm-run, vm-live commands
  Iso,         \* the guest is an ISO autoinstall with UEFI firmware
  MaxBuilds,   \* bound on builds begun
  MaxEdits,    \* bound on edits of the recipe
  MaxStops,    \* bound on builds killed, interrupted or failing as they publish
  MaxPrunes,   \* bound on image-prune --images commands
  NoLink       \* the symlink is absent

ASSUME BoundsAssumption ==
  /\ MaxBuilds \in Nat /\ MaxEdits \in Nat /\ MaxStops \in Nat /\ MaxPrunes \in Nat
  /\ Iso \in BOOLEAN
ASSUME RecipesAssumption == NoLink \notin Recipes

VARIABLES
  recipe,    \* what the recipe directory holds
  dir,       \* $CACHE/images exists
  golden,    \* golden[d]: the image in <id>-<d>.qcow2, None if absent
  link,      \* where <id>.qcow2 points
  nvram,     \* the build whose vars <id>.vars.fd holds
  prov,      \* the build that wrote <id>.json
  digest,    \* the recipe digest <id>.json gives for that build
  builds,    \* builds begun: a build is numbered, its image with it
  name,      \* name[i]: the digest that names image i
  source,    \* source[i]: the recipe that was uploaded into image i
  published, \* history: images that were moved to a golden's name
  raced,     \* history: two builds were publishing at once
  edited,    \* history: builds during which the recipe was edited
  b,         \* b[x]: an image-build: pc, force, the number of its build
  r,         \* r[x]: a run: pc, reported and backing digest, vars, image booted
  prune,     \* image-prune: whether it runs, entries left to unlink, runs so far
  edits, stops,
  said,      \* history: the digest the last successful image-build printed
  lost       \* history: digests whose golden a prune or a stopped build took

vars == <<recipe, dir, golden, link, nvram, prov, digest, builds, name,
          source, published, raced, edited, b, r, prune, edits, stops, said, lost>>

images  == <<golden, link, nvram, prov, digest>>
history == <<builds, name, source, published, raced, edited>>

None == 0
Images == 1..MaxBuilds

\* Where a build is once the guest is provisioned: it is publishing.
Publishing == {"look", "unlink", "move", "linklook", "linkrm", "link", "nvram",
               "prov"}
Numbered == {"provision"} \cup Publishing
Building == {"host"} \cup Numbered
Preparing == {"host", "require", "overlay", "vars", "qemu"}

IdleBuild == [pc |-> "idle", force |-> FALSE, id |-> None]
IdleRun == [pc |-> "idle", reported |-> NoLink, backing |-> NoLink,
            nvram |-> None, booted |-> None]

-----------------------------------------------------------------------------
Init ==
  /\ recipe \in Recipes
  /\ dir = FALSE
  /\ golden = [d \in Recipes |-> None]
  /\ link = NoLink
  /\ nvram = None
  /\ prov = None
  /\ digest = NoLink
  /\ builds = 0
  /\ name = [i \in Images |-> NoLink]
  /\ source = [i \in Images |-> NoLink]
  /\ published = {}
  /\ raced = FALSE
  /\ edited = {}
  /\ b = [x \in Builders |-> IdleBuild]
  /\ r = [x \in Runners |-> IdleRun]
  /\ prune = [on |-> FALSE, todo |-> {}, count |-> 0]
  /\ edits = 0
  /\ stops = 0
  /\ said = NoLink
  /\ lost = {}

EditRecipe ==
  /\ edits < MaxEdits
  /\ \E d \in Recipes \ {recipe} : recipe' = d
  /\ edits' = edits + 1
  /\ edited' = edited \cup {b[x].id : x \in {x \in Builders : b[x].pc \in Numbered}}
  /\ UNCHANGED <<dir, images, builds, name, source, published, raced, b, r, prune,
                 stops, said, lost>>

-----------------------------------------------------------------------------
(* image-build *)

\* A step of build x to p.
BuildTo(x, p) == b' = [b EXCEPT ![x].pc = p]

\* An exception: image-build exits 1 (130 for SIGINT) and leaves the files.
BuildRaises(x) == b' = [b EXCEPT ![x] = IdleBuild]

\* The digest build x works for.
Name(x) == name[b[x].id]

\* run_image_build: an existing golden is printed and reused, whatever the
\* symlink, the vars and the provenance say.
ImageBuild(x) ==
  /\ b[x].pc = "idle"
  /\ \E force \in BOOLEAN :
       IF golden[recipe] # None /\ ~force
       THEN /\ said' = recipe
            /\ UNCHANGED b
       ELSE /\ builds < MaxBuilds
            /\ b' = [b EXCEPT ![x] = [pc |-> "host", force |-> force, id |-> None]]
            /\ UNCHANGED said
  /\ UNCHANGED <<recipe, dir, images, history, r, prune, edits, stops, lost>>

\* Mutant: a forced build removes the old golden before it has a new one.
BeginBuildUnlinks(x) ==
  /\ b[x].pc = "host"
  /\ builds < MaxBuilds
  /\ dir' = TRUE
  /\ builds' = builds + 1
  /\ name' = [name EXCEPT ![builds + 1] = recipe]
  /\ golden' = [golden EXCEPT ![recipe] = None]
  /\ b' = [b EXCEPT ![x].pc = "provision", ![x].id = builds + 1]
  /\ UNCHANGED <<recipe, link, nvram, prov, digest, source, published, raced,
                 edited, r, prune, edits, stops, said, lost>>

\* build_live up to `golden = golden_qcow2(guest, cache)`; check_host may
\* refuse.  The golden's name is fixed here.
BeginBuild(x) ==
  /\ b[x].pc = "host"
  /\ \/ /\ BuildRaises(x)
        /\ UNCHANGED <<dir, history>>
     \/ /\ builds < MaxBuilds
        /\ dir' = TRUE
        /\ builds' = builds + 1
        /\ name' = [name EXCEPT ![builds + 1] = recipe]
        /\ b' = [b EXCEPT ![x].pc = "provision", ![x].id = builds + 1]
        /\ UNCHANGED <<source, published, raced, edited>>
  /\ UNCHANGED <<recipe, images, r, prune, edits, stops, said, lost>>

\* Mutant: an error of the set-up is swallowed.
ProvisionSwallows(x) ==
  /\ b[x].pc = "provision"
  /\ \/ UNCHANGED source
     \/ source' = [source EXCEPT ![b[x].id] = recipe]
  /\ BuildTo(x, "look")
  /\ UNCHANGED <<recipe, dir, images, builds, name, published, raced, edited, r,
                 prune, edits, stops, said, lost>>

\* Download, boot, upload of the recipe's files, setup.sh, inventory and
\* shutdown, on the working disk in the run directory.
Provision(x) ==
  /\ b[x].pc = "provision"
  /\ \/ /\ BuildRaises(x)
        /\ UNCHANGED <<source, raced>>
     \/ /\ source' = [source EXCEPT ![b[x].id] = recipe]
        /\ raced' = (raced \/ \E y \in Builders \ {x} : b[y].pc \in Publishing)
        /\ BuildTo(x, "look")
  /\ UNCHANGED <<recipe, dir, images, builds, name, published, edited, r, prune,
                 edits, stops, said, lost>>

\* if golden.exists()
LookForOldGolden(x) ==
  /\ b[x].pc = "look"
  /\ BuildTo(x, IF golden[Name(x)] # None THEN "unlink" ELSE "move")
  /\ UNCHANGED <<recipe, dir, images, history, r, prune, edits, stops, said, lost>>

\* golden.unlink(): FileNotFoundError if another command was faster.
UnlinkOldGolden(x) ==
  /\ b[x].pc = "unlink"
  /\ IF golden[Name(x)] # None
     THEN BuildTo(x, "move") /\ golden' = [golden EXCEPT ![Name(x)] = None]
     ELSE BuildRaises(x) /\ UNCHANGED golden
  /\ UNCHANGED <<recipe, dir, link, nvram, prov, digest, history, r, prune,
                 edits, stops, said, lost>>

\* shutil.move(working, golden): a rename in the cache, which replaces.
MoveGolden(x) ==
  /\ b[x].pc = "move"
  /\ IF dir
     THEN /\ golden' = [golden EXCEPT ![Name(x)] = b[x].id]
          /\ published' = published \cup {b[x].id}
          /\ lost' = lost \ {Name(x)}
          /\ BuildTo(x, "linklook")
     ELSE /\ BuildRaises(x)
          /\ lost' = lost \cup {d \in {Name(x)} : golden[d] = None}
          /\ UNCHANGED <<golden, published>>
  /\ UNCHANGED <<recipe, dir, link, nvram, prov, digest, builds, name, source,
                 raced, edited, r, prune, edits, stops, said>>

\* _install_symlink: if link.exists() or link.is_symlink()
LookForLink(x) ==
  /\ b[x].pc = "linklook"
  /\ BuildTo(x, IF link # NoLink THEN "linkrm" ELSE "link")
  /\ UNCHANGED <<recipe, dir, images, history, r, prune, edits, stops, said, lost>>

UnlinkLink(x) ==
  /\ b[x].pc = "linkrm"
  /\ IF link # NoLink
     THEN BuildTo(x, "link") /\ link' = NoLink
     ELSE BuildRaises(x) /\ UNCHANGED link
  /\ UNCHANGED <<recipe, dir, golden, nvram, prov, digest, history, r, prune,
                 edits, stops, said, lost>>

\* Mutant: a lost race for the symlink starts the publishing over.
MakeLinkRetries(x) ==
  /\ b[x].pc = "link"
  /\ IF link = NoLink /\ dir
     THEN BuildTo(x, "nvram") /\ link' = Name(x)
     ELSE BuildTo(x, "look") /\ UNCHANGED link
  /\ UNCHANGED <<recipe, dir, golden, nvram, prov, digest, history, r, prune,
                 edits, stops, said, lost>>

\* Mutant: the symlink names the working disk, which the move has taken away.
MakeLinkToWorking(x) ==
  /\ b[x].pc = "link"
  /\ IF link = NoLink /\ dir
     THEN BuildTo(x, "nvram") /\ link' = b[x].id
     ELSE BuildRaises(x) /\ UNCHANGED link
  /\ UNCHANGED <<recipe, dir, golden, nvram, prov, digest, history, r, prune,
                 edits, stops, said, lost>>

\* link.symlink_to(golden.name): FileExistsError if another build was faster.
MakeLink(x) ==
  /\ b[x].pc = "link"
  /\ IF link = NoLink /\ dir
     THEN BuildTo(x, "nvram") /\ link' = Name(x)
     ELSE BuildRaises(x) /\ UNCHANGED link
  /\ UNCHANGED <<recipe, dir, golden, nvram, prov, digest, history, r, prune,
                 edits, stops, said, lost>>

\* Mutant: vars that exist are not overwritten.
SaveNvramOnce(x) ==
  /\ b[x].pc = "nvram"
  /\ BuildTo(x, "prov")
  /\ nvram' = IF Iso /\ nvram = None THEN b[x].id ELSE nvram
  /\ UNCHANGED <<recipe, dir, golden, link, prov, digest, history, r, prune,
                 edits, stops, said, lost>>

\* shutil.copyfile(ovmf_vars, dest_vars), ISO autoinstall guests only.
SaveNvram(x) ==
  /\ b[x].pc = "nvram"
  /\ IF dir \/ ~Iso
     THEN BuildTo(x, "prov") /\ nvram' = IF Iso THEN b[x].id ELSE nvram
     ELSE BuildRaises(x) /\ UNCHANGED nvram
  /\ UNCHANGED <<recipe, dir, golden, link, prov, digest, history, r, prune,
                 edits, stops, said, lost>>

\* _write_provenance makes the directory if it has to; then exit 0.  The name
\* of the golden is the build's own, its digest that of the recipe by now.
WriteProvenance(x) ==
  /\ b[x].pc = "prov"
  /\ prov' = b[x].id
  /\ digest' = recipe
  /\ dir' = TRUE
  /\ said' = Name(x)
  /\ b' = [b EXCEPT ![x] = IdleBuild]
  /\ UNCHANGED <<recipe, golden, link, nvram, history, r, prune, edits, stops, lost>>

\* A kill, a SIGINT, a full disk or a power cut while the build publishes.
\* Between the unlink and the move the digest is left without a golden.
StopPublishing(x) ==
  /\ b[x].pc \in Publishing
  /\ stops < MaxStops
  /\ stops' = stops + 1
  /\ lost' = lost \cup {d \in {Name(x)} : b[x].pc = "move" /\ golden[d] = None}
  /\ BuildRaises(x)
  /\ UNCHANGED <<recipe, dir, images, history, r, prune, edits, said>>

-----------------------------------------------------------------------------
(* run-test, vm-run, vm-live: up to the boot, and the end of the run *)

RunTo(x, p) == r' = [r EXCEPT ![x].pc = p]
RunRaises(x) == r' = [r EXCEPT ![x] = IdleRun]

\* The first require_golden: `result["golden"]` is its answer.
RequireGolden(x) ==
  /\ r[x].pc = "idle"
  /\ golden[recipe] # None
  /\ r' = [r EXCEPT ![x].pc = "require", ![x].reported = recipe]
  /\ UNCHANGED <<recipe, dir, images, history, b, prune, edits, stops, said, lost>>

\* _prepare_overlay asks again, for whatever the recipe digest is by now.
RequireAgain(x) ==
  /\ r[x].pc = "require"
  /\ IF golden[recipe] # None
     THEN r' = [r EXCEPT ![x].pc = "overlay", ![x].backing = recipe]
     ELSE RunRaises(x)
  /\ UNCHANGED <<recipe, dir, images, history, b, prune, edits, stops, said, lost>>

\* qemu-img create opens the backing file to read its size.
CreateOverlay(x) ==
  /\ r[x].pc = "overlay"
  /\ IF golden[r[x].backing] # None THEN RunTo(x, "vars") ELSE RunRaises(x)
  /\ UNCHANGED <<recipe, dir, images, history, b, prune, edits, stops, said, lost>>

\* _copy_run_vars: the guest's saved vars if there are any, else the host
\* template (None).
CopyRunVars(x) ==
  /\ r[x].pc = "vars"
  /\ r' = [r EXCEPT ![x].pc = "qemu", ![x].nvram = nvram]
  /\ UNCHANGED <<recipe, dir, images, history, b, prune, edits, stops, said, lost>>

\* QEMU opens the overlay and its backing file, and keeps them open.
Boot(x) ==
  /\ r[x].pc = "qemu"
  /\ IF golden[r[x].backing] # None
     THEN r' = [r EXCEPT ![x].pc = "running", ![x].booted = golden[r[x].backing]]
     ELSE RunRaises(x)
  /\ UNCHANGED <<recipe, dir, images, history, b, prune, edits, stops, said, lost>>

EndRun(x) ==
  /\ r[x].pc = "running"
  /\ RunRaises(x)
  /\ UNCHANGED <<recipe, dir, images, history, b, prune, edits, stops, said, lost>>

-----------------------------------------------------------------------------
(* image-prune --images: rmtree lists the directory, unlinks what it listed, *)
(* and removes the directory if nothing has appeared since.                  *)

GoldenEntry(d) == <<"golden", d>>

Entries == {GoldenEntry(d) : d \in {d \in Recipes : golden[d] # None}}
           \cup (IF link # NoLink THEN {<<"link">>} ELSE {})
           \cup (IF nvram # None THEN {<<"nvram">>} ELSE {})
           \cup (IF prov # None THEN {<<"prov">>} ELSE {})

PruneList ==
  /\ ~prune.on /\ dir
  /\ prune.count < MaxPrunes
  /\ prune' = [on |-> TRUE, todo |-> Entries, count |-> prune.count + 1]
  /\ UNCHANGED <<recipe, dir, images, history, b, r, edits, stops, said, lost>>

\* An entry that has gone since the listing makes rmtree raise.
PruneUnlink ==
  /\ prune.on
  /\ \E e \in prune.todo :
       IF e \in Entries
       THEN /\ prune' = [prune EXCEPT !.todo = @ \ {e}]
            /\ golden' = [d \in Recipes |-> IF e = GoldenEntry(d) THEN None ELSE golden[d]]
            /\ link' = IF e = <<"link">> THEN NoLink ELSE link
            /\ nvram' = IF e = <<"nvram">> THEN None ELSE nvram
            /\ prov' = IF e = <<"prov">> THEN None ELSE prov
            /\ digest' = IF e = <<"prov">> THEN NoLink ELSE digest
            /\ lost' = lost \cup {d \in Recipes : e = GoldenEntry(d)}
       ELSE /\ prune' = [prune EXCEPT !.on = FALSE, !.todo = {}]
            /\ UNCHANGED <<images, lost>>
  /\ UNCHANGED <<recipe, dir, history, b, r, edits, stops, said>>

PruneRmdir ==
  /\ prune.on /\ prune.todo = {}
  /\ prune' = [prune EXCEPT !.on = FALSE]
  /\ dir' = (Entries # {})
  /\ UNCHANGED <<recipe, images, history, b, r, edits, stops, said, lost>>

-----------------------------------------------------------------------------
Build(x) ==
  \/ ImageBuild(x) \/ BeginBuild(x) \/ Provision(x)
  \/ LookForOldGolden(x) \/ UnlinkOldGolden(x) \/ MoveGolden(x)
  \/ LookForLink(x) \/ UnlinkLink(x) \/ MakeLink(x)
  \/ SaveNvram(x) \/ WriteProvenance(x) \/ StopPublishing(x)

Run(x) ==
  \/ RequireGolden(x) \/ RequireAgain(x) \/ CreateOverlay(x)
  \/ CopyRunVars(x) \/ Boot(x) \/ EndRun(x)

Prune == PruneList \/ PruneUnlink \/ PruneRmdir

Next ==
  \/ EditRecipe
  \/ \E x \in Builders : Build(x)
  \/ \E x \in Runners : Run(x)
  \/ Prune

Spec == Init /\ [][Next]_vars

-----------------------------------------------------------------------------
Digest == Recipes \cup {NoLink}
Image == Images \cup {None}
FileNames == {GoldenEntry(d) : d \in Recipes} \cup {<<"link">>, <<"nvram">>, <<"prov">>}

BuildRecord == [pc: {"idle"} \cup Building, force: BOOLEAN, id: Image]
RunRecord == [pc: {"idle", "running"} \cup Preparing, reported: Digest,
              backing: Digest, nvram: Image, booted: Image]
PruneRecord == [on: BOOLEAN, todo: SUBSET FileNames, count: 0..MaxPrunes]

TypeOK ==
  /\ recipe \in Recipes
  /\ dir \in BOOLEAN
  /\ golden \in [Recipes -> Image]
  /\ link \in Digest
  /\ nvram \in Image
  /\ prov \in Image
  /\ digest \in Digest
  /\ builds \in 0..MaxBuilds
  /\ name \in [Images -> Digest]
  /\ source \in [Images -> Digest]
  /\ published \subseteq Images
  /\ raced \in BOOLEAN
  /\ edited \subseteq Images
  /\ b \in [Builders -> BuildRecord]
  /\ r \in [Runners -> RunRecord]
  /\ prune \in PruneRecord
  /\ edits \in 0..MaxEdits /\ stops \in 0..MaxStops
  /\ said \in Digest
  /\ lost \subseteq Recipes

\* A digest that was once published has a golden, unless a prune took it, a
\* build stopped between unlink and move, or a build is just there: a forced
\* rebuild does not take the old golden away before the new one is ready.
\* The symlink points only at such digests.
GoldenNotLost ==
  \A d \in Recipes :
    golden[d] = None
      /\ (link = d \/ said = d \/ \E x \in Runners : r[x].backing = d)
    => d \in lost \/ \E x \in Builders : b[x].pc = "move" /\ Name(x) = d

\* What a run boots is a whole image, provisioned before it was published and
\* published under the digest the run asked for.
BootsProvisionedImage ==
  \A x \in Runners :
    r[x].pc = "running" =>
      /\ source[r[x].booted] # NoLink
      /\ name[r[x].booted] = r[x].backing

\* The files, the renames and the races of builds, runs and prunes implement
\* the registry: images appear whole, once, under one digest, and a run boots
\* what is registered at that moment.
Registry == INSTANCE GoldenRegistry WITH
  Digests <- Recipes, Runs <- Runners,
  made <- {i \in Images : source[i] # NoLink},
  reg <- golden,
  booted <- [x \in Runners |-> r[x].booted]

ImplementsRegistry == Registry!RegistrySpec

\* While builds publish one at a time, nothing is stopped and nothing pruned,
\* the files that share the guest's name are of one build, the last to publish,
\* and it has a golden, whatever recipe is current and whichever build is next.
\* The digest in <id>.json is that golden's own, and what was uploaded into it
\* the recipe of that digest, unless the recipe was edited while the build ran.
QuietFilesAgree ==
  /\ ~raced /\ stops = 0 /\ prune.count = 0
  /\ \A x \in Builders : b[x].pc \notin Publishing
  /\ prov # None
  => /\ link = name[prov]
     /\ Iso => nvram = prov
     /\ golden[link] # None
     /\ prov \notin edited => digest = link /\ source[prov] = link

\* "`<id>.qcow2` symlink to the current golden" (docs/architecture.md):
\* after an image-build that exits 0 for the recipe as it is, with nothing
\* else running and nothing ever interrupted, the symlink names its golden.
LinkIsCurrent ==
  said = recipe /\ link # NoLink /\ stops = 0 /\ prune.count = 0
    /\ (\A x \in Builders : b[x].pc = "idle")
  => link = recipe

-----------------------------------------------------------------------------
(* The inductive invariant behind the safety properties. *)

\* Where a build is before and after the move.
Unmoved == {"look", "unlink", "move"}
Moved == Publishing \ Unmoved

\* Every build has a number, and an image, of its own; what is not begun has no
\* name, no content and was not published.
BuildInv ==
  /\ \A x \in Builders : b[x].pc \in Numbered => b[x].id \in 1..builds
  /\ \A x, y \in Builders :
       /\ b[x].pc \in Numbered /\ b[y].pc \in Numbered
       /\ b[x].id = b[y].id
       => x = y
  /\ \A i \in Images : name[i] \in Recipes <=> i <= builds
  /\ \A i \in Images : source[i] # NoLink \/ i \in published => i <= builds

\* An image is published after it was provisioned, by the move of its build, and
\* from then on goes by the digest it was built for.
ImageInv ==
  /\ \A i \in published : source[i] # NoLink
  /\ \A x \in Builders :
       /\ b[x].pc \in {"provision"} \cup Unmoved => b[x].id \notin published
       /\ b[x].pc \in Unmoved => source[b[x].id] # NoLink
       /\ b[x].pc \in Moved => b[x].id \in published
  /\ \A d \in Recipes :
       golden[d] # None => golden[d] \in published /\ name[golden[d]] = d
  /\ prov # None => prov \in published

\* A run has an image open while it runs, that of the digest it asked for.
RunInv ==
  \A x \in Runners :
    /\ r[x].pc \in {"overlay", "vars", "qemu"} => r[x].backing \in Recipes
    /\ r[x].pc = "running" =>
         r[x].booted \in published /\ name[r[x].booted] = r[x].backing
    /\ r[x].pc # "running" => r[x].booted = None

\* A golden of this digest was published: it is there, or it is known why not.
Published(d) == \E i \in published : name[i] = d
Accounted(d) ==
  \/ golden[d] # None
  \/ d \in lost
  \/ \E x \in Builders : b[x].pc = "move" /\ Name(x) = d

AccountInv ==
  /\ \A d \in Recipes : Published(d) => Accounted(d)
  /\ link # NoLink => Published(link)
  /\ said # NoLink => Published(said)
  /\ \A x \in Runners : r[x].backing # NoLink => Published(r[x].backing)

\* Of a build that no edit has disturbed, the recipe in the directory, the one
\* uploaded and the one <id>.json gives are the one it is named by.
EditInv ==
  /\ \A x \in Builders :
       b[x].pc \in Numbered => b[x].id \in edited \/ Name(x) = recipe
  /\ \A i \in Images : source[i] # NoLink => i \in edited \/ source[i] = name[i]
  /\ prov # None => prov \in edited \/ digest = name[prov]

\* The symlink, the vars and the provenance are of one build.
FilesAgree ==
  /\ link = name[prov]
  /\ Iso => nvram = prov

\* What is known of a build that publishes alone: until its move the files are
\* of the build before, whose golden is there unless this one has unlinked it to
\* replace it; from then on its own golden is there, and file by file follows.
QuietPlace(x) ==
  /\ b[x].pc \in Unmoved /\ prov # None =>
       /\ FilesAgree
       /\ golden[link] = None => b[x].pc = "move" /\ link = Name(x)
  /\ b[x].pc \in {"unlink"} \cup Moved => golden[Name(x)] # None
  /\ b[x].pc = "linkrm" => link # NoLink
  /\ b[x].pc = "link" => link = NoLink
  /\ b[x].pc \in {"nvram", "prov"} => link = Name(x)
  /\ b[x].pc = "prov" /\ Iso => nvram = b[x].id

Quiet == ~raced /\ stops = 0 /\ prune.count = 0

QuietInv ==
  /\ prune.count = 0 => ~prune.on /\ (builds > 0 => dir)
  /\ ~raced =>
       \A x, y \in Builders : b[x].pc \in Publishing /\ b[y].pc \in Publishing => x = y
  /\ Quiet => \A x \in Builders : QuietPlace(x)
  /\ QuietFilesAgree

IInv == TypeOK /\ BuildInv /\ ImageInv /\ RunInv /\ AccountInv /\ EditInv
        /\ QuietInv
=============================================================================
