------------------------- MODULE GoldenStoreProofs -------------------------
(***************************************************************************)
(* The safety properties of GoldenStore, and that it implements            *)
(* GoldenRegistry, for any number of recipes, builds, runs, prunes, edits  *)
(* and stops.                                                              *)
(*                                                                         *)
(* IInv is inductive.  A step moves at most one build, so each conjunct    *)
(* has a lemma for the steps that leave what it speaks of alone and one    *)
(* for each of the few actions that do not.                                *)
(***************************************************************************)
EXTENDS GoldenStore, TLAPS

-----------------------------------------------------------------------------
(* Builds *)

\* Build x goes to the place p; the other builds stay where they are.
Goes(x, p) ==
  /\ b' \in [Builders -> BuildRecord]
  /\ b'[x].pc = p /\ b'[x].id = b[x].id
  /\ \A y \in Builders : y # x => b'[y] = b[y]

\* Build x is over.
Ends(x) ==
  /\ b' \in [Builders -> BuildRecord]
  /\ b'[x].pc = "idle"
  /\ \A y \in Builders : y # x => b'[y] = b[y]

LEMMA BuildToGoes ==
  ASSUME TypeOK, NEW x \in Builders, NEW p \in {"idle"} \cup Building, BuildTo(x, p)
  PROVE  Goes(x, p)
<1> DEFINE new == [b[x] EXCEPT !.pc = p]
<1>1. b \in [Builders -> BuildRecord]
  BY DEF TypeOK
<1>2. new \in BuildRecord /\ new.pc = p /\ new.id = b[x].id
  BY <1>1 DEF BuildRecord
<1>3. b' = [b EXCEPT ![x] = new]
  BY DEF BuildTo
<1> HIDE DEF new
<1> QED
  BY <1>1, <1>2, <1>3 DEF Goes

LEMMA BuildRaisesEnds ==
  ASSUME TypeOK, NEW x \in Builders, b' = [b EXCEPT ![x] = IdleBuild]
  PROVE  Ends(x)
<1>1. b \in [Builders -> BuildRecord]
  BY DEF TypeOK
<1>2. IdleBuild \in BuildRecord /\ IdleBuild.pc = "idle"
  BY DEF IdleBuild, BuildRecord, Image
<1> QED
  BY <1>1, <1>2 DEF Ends

\* A build with a number has a name.
LEMMA NumberedHasName ==
  ASSUME TypeOK, BuildInv, NEW x \in Builders, b[x].pc \in Numbered
  PROVE  /\ b[x].id \in Images /\ b[x].id <= builds /\ b[x].id # None
         /\ Name(x) \in Recipes
<1>1. b[x].id \in 1..builds /\ builds \in 0..MaxBuilds /\ MaxBuilds \in Nat
  BY BoundsAssumption DEF TypeOK, BuildInv, Numbered
<1>2. b[x].id \in Images /\ b[x].id <= builds /\ b[x].id # None
  BY <1>1 DEF Images, None
<1> QED
  BY <1>2 DEF BuildInv, Name

-----------------------------------------------------------------------------
(* Steps of builds, one by one *)

\* Which way the build x goes in each of its steps.
LEMMA StepsOfBuild ==
  ASSUME TypeOK, NEW x \in Builders
  PROVE  /\ Provision(x) => Ends(x) \/ Goes(x, "look")
         /\ LookForOldGolden(x) => Goes(x, IF golden[Name(x)] # None THEN "unlink" ELSE "move")
         /\ UnlinkOldGolden(x) =>
              IF golden[Name(x)] # None THEN Goes(x, "move") ELSE Ends(x)
         /\ MoveGolden(x) => IF dir THEN Goes(x, "linklook") ELSE Ends(x)
         /\ LookForLink(x) => Goes(x, IF link # NoLink THEN "linkrm" ELSE "link")
         /\ UnlinkLink(x) => IF link # NoLink THEN Goes(x, "link") ELSE Ends(x)
         /\ MakeLink(x) => IF link = NoLink /\ dir THEN Goes(x, "nvram") ELSE Ends(x)
         /\ SaveNvram(x) => IF dir \/ ~Iso THEN Goes(x, "prov") ELSE Ends(x)
         /\ WriteProvenance(x) => Ends(x)
         /\ StopPublishing(x) => Ends(x)
<1>1. \A p \in {"idle"} \cup Building : BuildTo(x, p) => Goes(x, p)
  BY BuildToGoes
<1>2. {"look", "unlink", "move", "linklook", "linkrm", "link", "nvram", "prov"}
        \subseteq {"idle"} \cup Building
  BY DEF Building, Numbered, Publishing
<1>3. BuildRaises(x) => Ends(x)
  BY BuildRaisesEnds DEF BuildRaises
<1>4. Provision(x) => Ends(x) \/ Goes(x, "look")
  BY <1>1, <1>2, <1>3 DEF Provision
<1>5. LookForOldGolden(x) => Goes(x, IF golden[Name(x)] # None THEN "unlink" ELSE "move")
  BY <1>1, <1>2, <1>3 DEF LookForOldGolden
<1>6. UnlinkOldGolden(x) => IF golden[Name(x)] # None THEN Goes(x, "move") ELSE Ends(x)
  BY <1>1, <1>2, <1>3 DEF UnlinkOldGolden
<1>7. MoveGolden(x) => IF dir THEN Goes(x, "linklook") ELSE Ends(x)
  BY <1>1, <1>2, <1>3 DEF MoveGolden
<1>8. LookForLink(x) => Goes(x, IF link # NoLink THEN "linkrm" ELSE "link")
  BY <1>1, <1>2, <1>3 DEF LookForLink
<1>9. UnlinkLink(x) => IF link # NoLink THEN Goes(x, "link") ELSE Ends(x)
  BY <1>1, <1>2, <1>3 DEF UnlinkLink
<1>10. MakeLink(x) => IF link = NoLink /\ dir THEN Goes(x, "nvram") ELSE Ends(x)
  BY <1>1, <1>2, <1>3 DEF MakeLink
<1>11. SaveNvram(x) => IF dir \/ ~Iso THEN Goes(x, "prov") ELSE Ends(x)
  BY <1>1, <1>2, <1>3 DEF SaveNvram
<1>12. WriteProvenance(x) => Ends(x)
  BY BuildRaisesEnds DEF WriteProvenance
<1>13. StopPublishing(x) => Ends(x)
  BY <1>3 DEF StopPublishing
<1> QED
  BY <1>4, <1>5, <1>6, <1>7, <1>8, <1>9, <1>10, <1>11, <1>12, <1>13

-----------------------------------------------------------------------------
(* Numbers and names *)

\* No build gets a number, no name is given, nothing unnumbered gets content.
LEMMA BuildInvQuiet ==
  ASSUME BuildInv, UNCHANGED <<builds, name>>,
         \A i \in Images : source'[i] # NoLink \/ i \in published' =>
           source[i] # NoLink \/ i \in published \/ i <= builds,
         \A y \in Builders : b'[y].pc \in Numbered =>
           b[y].pc \in Numbered /\ b'[y].id = b[y].id
  PROVE  BuildInv'
BY DEF BuildInv

\* The steps of a build on its way leave the numbers alone.
LEMMA NumbersStay ==
  ASSUME NEW x \in Builders, b[x].pc \in Numbered,
         Ends(x) \/ \E p \in Publishing : Goes(x, p)
  PROVE  \A y \in Builders : b'[y].pc \in Numbered =>
           b[y].pc \in Numbered /\ b'[y].id = b[y].id
BY DEF Ends, Goes, Numbered, Publishing

\* The steps of a build that has its number, but the first.
Later(x) ==
  \/ LookForOldGolden(x) \/ UnlinkOldGolden(x) \/ MoveGolden(x)
  \/ LookForLink(x) \/ UnlinkLink(x) \/ MakeLink(x)
  \/ SaveNvram(x) \/ WriteProvenance(x) \/ StopPublishing(x)

LEMMA LaterStays ==
  ASSUME TypeOK, NEW x \in Builders, Provision(x) \/ Later(x)
  PROVE  /\ b[x].pc \in Numbered
         /\ Ends(x) \/ \E p \in Publishing : Goes(x, p)
         /\ UNCHANGED <<builds, name>>
<1>1. b[x].pc \in Numbered
  BY DEF Later, Provision, LookForOldGolden, UnlinkOldGolden, MoveGolden, LookForLink,
         UnlinkLink, MakeLink, SaveNvram, WriteProvenance, StopPublishing, Numbered,
         Publishing
<1>2. Ends(x) \/ \E p \in Publishing : Goes(x, p)
  BY StepsOfBuild DEF Later, Publishing
<1>3. UNCHANGED <<builds, name>>
  BY DEF Later, Provision, LookForOldGolden, UnlinkOldGolden, MoveGolden, LookForLink,
         UnlinkLink, MakeLink, SaveNvram, WriteProvenance, StopPublishing, history
<1> QED
  BY <1>1, <1>2, <1>3

LEMMA BuildInvLater ==
  ASSUME TypeOK, BuildInv, NEW x \in Builders, Provision(x) \/ Later(x)
  PROVE  BuildInv'
<1>1. b[x].id \in Images /\ b[x].id <= builds
  BY LaterStays, NumberedHasName
<1>2. \A i \in Images : source'[i] # NoLink \/ i \in published' =>
           source[i] # NoLink \/ i \in published \/ i <= builds
  <2>1. CASE Provision(x)
    BY <1>1, <2>1 DEF Provision, TypeOK
  <2>2. CASE MoveGolden(x)
    BY <1>1, <2>2 DEF MoveGolden
  <2>3. CASE Later(x) /\ ~MoveGolden(x)
    BY <2>3 DEF Later, LookForOldGolden, UnlinkOldGolden, LookForLink, UnlinkLink,
                MakeLink, SaveNvram, WriteProvenance, StopPublishing, history
  <2> QED
    BY <2>1, <2>2, <2>3
<1> QED
  BY <1>2, LaterStays, NumbersStay, BuildInvQuiet

\* A build begins, without a number or with the next one.
LEMMA BeginsAnew ==
  ASSUME TypeOK, NEW x \in Builders, BeginBuild(x)
  PROVE  \/ Ends(x) /\ UNCHANGED history
         \/ /\ builds < MaxBuilds /\ builds' = builds + 1 /\ builds' \in Images
            /\ name' = [name EXCEPT ![builds'] = recipe]
            /\ UNCHANGED <<source, published, raced, edited>>
            /\ dir' = TRUE
            /\ b' \in [Builders -> BuildRecord]
            /\ b'[x].pc = "provision" /\ b'[x].id = builds'
            /\ \A y \in Builders : y # x => b'[y] = b[y]
<1>1. CASE BuildRaises(x) /\ UNCHANGED <<dir, history>>
  BY <1>1, BuildRaisesEnds DEF BuildRaises, history
<1>2. CASE /\ builds < MaxBuilds
           /\ dir' = TRUE
           /\ builds' = builds + 1
           /\ name' = [name EXCEPT ![builds + 1] = recipe]
           /\ b' = [b EXCEPT ![x].pc = "provision", ![x].id = builds + 1]
           /\ UNCHANGED <<source, published, raced, edited>>
  <2> DEFINE new == [b[x] EXCEPT !.pc = "provision", !.id = builds + 1]
  <2>1. builds' \in Images
    BY <1>2, BoundsAssumption DEF TypeOK, Images
  <2>2. b \in [Builders -> BuildRecord]
    BY DEF TypeOK
  <2>3. new \in BuildRecord /\ new.pc = "provision" /\ new.id = builds'
    BY <1>2, <2>1, <2>2 DEF BuildRecord, Building, Numbered, Image
  <2>4. b' = [b EXCEPT ![x] = new]
    BY <1>2
  <2> HIDE DEF new
  <2> QED
    BY <1>2, <2>1, <2>2, <2>3, <2>4
<1> QED
  BY <1>1, <1>2 DEF BeginBuild

LEMMA BuildInvBegin ==
  ASSUME TypeOK, BuildInv, NEW x \in Builders, BeginBuild(x)
  PROVE  BuildInv'
<1>1. CASE Ends(x) /\ UNCHANGED history
  BY <1>1, BuildInvQuiet DEF Ends, Numbered, Publishing, history
<1>2. CASE ~(Ends(x) /\ UNCHANGED history)
  <2>1. /\ builds \in Nat /\ builds' = builds + 1 /\ builds' \in Images
        /\ name' = [name EXCEPT ![builds'] = recipe]
        /\ UNCHANGED <<source, published>>
        /\ b'[x].pc = "provision" /\ b'[x].id = builds'
        /\ \A y \in Builders : y # x => b'[y] = b[y]
    <3>1. builds \in Nat
      BY BoundsAssumption DEF TypeOK
    <3> QED
      BY <1>2, <3>1, BeginsAnew
  <2>2. \A y \in Builders : b'[y].pc \in Numbered =>
          b'[y].id \in 1..builds' /\ (y # x => b[y].pc \in Numbered /\ b'[y].id \in 1..builds)
    BY <2>1 DEF BuildInv, Numbered
  <2>3. \A i \in Images : name'[i] \in Recipes <=> i <= builds'
    <3>1. TAKE i \in Images
    <3>2. name'[i] = IF i = builds' THEN recipe ELSE name[i]
      BY <2>1 DEF TypeOK
    <3> QED
      BY <2>1, <3>2 DEF BuildInv, TypeOK, Images
  <2>4. \A i \in Images : source'[i] # NoLink \/ i \in published' => i <= builds'
    BY <2>1 DEF BuildInv, Images
  <2>5. \A y, z \in Builders :
          b'[y].pc \in Numbered /\ b'[z].pc \in Numbered /\ b'[y].id = b'[z].id => y = z
    <3>1. TAKE y, z \in Builders
    <3>2. HAVE b'[y].pc \in Numbered /\ b'[z].pc \in Numbered /\ b'[y].id = b'[z].id
    <3>3. CASE y # x /\ z # x
      BY <2>1, <3>2, <3>3 DEF BuildInv, Numbered
    <3>4. CASE y = x \/ z = x
      BY <2>1, <2>2, <3>2, <3>4
    <3> QED
      BY <3>3, <3>4
  <2> QED
    BY <2>2, <2>3, <2>4, <2>5 DEF BuildInv, Numbered
<1> QED
  BY <1>1, <1>2

-----------------------------------------------------------------------------
(* Images *)

\* Published images stay so, under their names, with their content.
ImagesStay ==
  \A i \in published :
    i \in published' /\ name'[i] = name[i] /\ (source[i] # NoLink => source'[i] # NoLink)

\* The step takes no build across one of the lines ImageInv draws.
KeepsSide(y) ==
  \/ b'[y].pc \notin Numbered
  \/ /\ b'[y].id = b[y].id
     /\ b'[y].pc \in {"provision"} => b[y].pc \in {"provision"}
     /\ b'[y].pc \in Unmoved => b[y].pc \in Unmoved
     /\ b'[y].pc \in Moved => b[y].pc \in Moved

LEMMA Sides ==
  /\ Unmoved \cup Moved = Publishing
  /\ Unmoved \cap Moved = {}
  /\ Moved = {"linklook", "linkrm", "link", "nvram", "prov"}
BY DEF Unmoved, Moved, Publishing

\* Nothing is published; files may go.
LEMMA ImageInvQuiet ==
  ASSUME ImageInv, TypeOK, ImagesStay, published' = published,
         \A i \in Images : source[i] # NoLink => source'[i] # NoLink,
         \A d \in Recipes : golden'[d] \in {golden[d], None},
         prov' \in {prov, None},
         \A y \in Builders : KeepsSide(y),
         \A y \in Builders : b[y].pc \in Unmoved => b[y].id \in Images
  PROVE  ImageInv'
<1>1. \A i \in published' : source'[i] # NoLink
  BY DEF ImagesStay, ImageInv
<1>2. ASSUME NEW y \in Builders
      PROVE  /\ b'[y].pc \in {"provision"} \cup Unmoved => b'[y].id \notin published'
             /\ b'[y].pc \in Unmoved => source'[b'[y].id] # NoLink
             /\ b'[y].pc \in Moved => b'[y].id \in published'
  BY Sides DEF KeepsSide, Numbered, ImageInv
<1>3. \A d \in Recipes :
        golden'[d] # None => golden'[d] \in published' /\ name'[golden'[d]] = d
  BY DEF ImageInv, ImagesStay
<1>4. prov' # None => prov' \in published'
  BY DEF ImageInv
<1> QED
  BY <1>1, <1>2, <1>3, <1>4 DEF ImageInv

\* MoveGolden publishes an image that was provisioned and not published, under
\* the name its build gave it.
LEMMA ImageInvMove ==
  ASSUME TypeOK, BuildInv, ImageInv, NEW x \in Builders, MoveGolden(x), dir
  PROVE  ImageInv'
<1>1. /\ b[x].id \in Images /\ b[x].id # None /\ Name(x) \in Recipes
      /\ source[b[x].id] # NoLink /\ b[x].id \notin published
      /\ b[x].pc \in Numbered
  BY NumberedHasName DEF MoveGolden, ImageInv, Numbered, Publishing, Unmoved
<1>2. Goes(x, "linklook")
  BY StepsOfBuild
<1>3. /\ golden' = [golden EXCEPT ![Name(x)] = b[x].id]
      /\ published' = published \cup {b[x].id}
      /\ UNCHANGED <<name, source, prov>>
  BY DEF MoveGolden
<1>4. \A i \in published' : source'[i] # NoLink
  BY <1>1, <1>3 DEF ImageInv
<1>5. ASSUME NEW y \in Builders
      PROVE  /\ b'[y].pc \in {"provision"} \cup Unmoved => b'[y].id \notin published'
             /\ b'[y].pc \in Unmoved => source'[b'[y].id] # NoLink
             /\ b'[y].pc \in Moved => b'[y].id \in published'
  <2>1. CASE y = x
    BY <1>2, <1>3, <2>1 DEF Goes, Unmoved
  <2>2. CASE y # x
    <3>1. b'[y] = b[y]
      BY <1>2, <2>2 DEF Goes
    <3>2. b[y].pc \in {"provision"} \cup Unmoved => b[y].id # b[x].id
      BY <1>1, <2>2, Sides DEF BuildInv, Numbered
    <3> QED
      BY <1>3, <3>1, <3>2 DEF ImageInv
  <2> QED
    BY <2>1, <2>2
<1>6. \A d \in Recipes :
        golden'[d] # None => golden'[d] \in published' /\ name'[golden'[d]] = d
  <2>1. TAKE d \in Recipes
  <2>2. golden'[d] = IF d = Name(x) THEN b[x].id ELSE golden[d]
    BY <1>3 DEF TypeOK
  <2> QED
    BY <1>3, <2>2 DEF ImageInv, Name
<1>7. prov' # None => prov' \in published'
  BY <1>3 DEF ImageInv
<1> QED
  BY <1>4, <1>5, <1>6, <1>7 DEF ImageInv

LEMMA ImageInvBegin ==
  ASSUME TypeOK, BuildInv, ImageInv, NEW x \in Builders, BeginBuild(x)
  PROVE  ImageInv' /\ ImagesStay
<1>1. \A y \in Builders : b[y].pc \in Unmoved => b[y].id \in Images
  BY NumberedHasName, Sides DEF Numbered
<1>2. UNCHANGED images
  BY DEF BeginBuild
<1>3. CASE Ends(x) /\ UNCHANGED history
  <2>1. ImagesStay
    BY <1>3 DEF ImagesStay, history
  <2>2. \A y \in Builders : KeepsSide(y)
    BY <1>3 DEF Ends, KeepsSide, Numbered, Publishing
  <2> QED
    BY <1>1, <1>2, <1>3, <2>1, <2>2, ImageInvQuiet DEF images, history
<1>4. CASE ~(Ends(x) /\ UNCHANGED history)
  <2>1. /\ builds' = builds + 1 /\ builds \in Nat
        /\ name' = [name EXCEPT ![builds'] = recipe]
        /\ UNCHANGED <<source, published, golden, prov>>
        /\ b'[x].pc = "provision" /\ b'[x].id = builds'
        /\ \A y \in Builders : y # x => b'[y] = b[y]
    <3>1. builds \in Nat
      BY BoundsAssumption DEF TypeOK
    <3> QED
      BY <1>2, <1>4, <3>1, BeginsAnew DEF images
  <2>2. \A i \in published : i \in Images /\ i <= builds /\ i # builds' /\ name'[i] = name[i]
    BY <2>1 DEF BuildInv, TypeOK, Images
  <2>3. builds' \notin published
    BY <2>2
  <2>4. ImagesStay
    BY <2>1, <2>2 DEF ImagesStay
  <2> QED
    BY <2>1, <2>2, <2>3, <2>4 DEF ImageInv, Moved, Unmoved, Publishing
<1> QED
  BY <1>3, <1>4

\* The steps of a build that publish nothing and write no provenance.
LEMMA ImageInvOther ==
  ASSUME TypeOK, BuildInv, ImageInv, NEW x \in Builders, Provision(x) \/ Later(x),
         ~(MoveGolden(x) /\ dir), ~WriteProvenance(x)
  PROVE  ImageInv' /\ ImagesStay
<1>1. \A y \in Builders : b[y].pc \in Numbered => b[y].id \in Images
  BY NumberedHasName
<1>2. /\ published' = published /\ name' = name /\ prov' = prov
      /\ \A i \in Images : source[i] # NoLink => source'[i] # NoLink
      /\ \A d \in Recipes : golden'[d] \in {golden[d], None}
  <2>1. CASE Provision(x)
    BY <2>1, RecipesAssumption DEF Provision, images, TypeOK
  <2>2. CASE UnlinkOldGolden(x)
    BY <2>2 DEF UnlinkOldGolden, history, TypeOK
  <2>3. CASE Later(x) /\ ~UnlinkOldGolden(x)
    BY <2>3 DEF Later, LookForOldGolden, MoveGolden, LookForLink, UnlinkLink, MakeLink,
                SaveNvram, WriteProvenance, StopPublishing, history, images
  <2> QED
    BY <2>1, <2>2, <2>3
<1>3. published \subseteq Images
  BY DEF TypeOK
<1>4. ImagesStay
  BY <1>2, <1>3 DEF ImagesStay
<1>5. CASE ~Provision(x) \/ Ends(x)
  <2>1. KeepsSide(x)
    BY <1>5, StepsOfBuild, Sides DEF Later, Ends, Goes, KeepsSide, Numbered, Unmoved,
       Publishing, LookForOldGolden, UnlinkOldGolden, MoveGolden, LookForLink, UnlinkLink,
       MakeLink, SaveNvram
  <2>2. \A y \in Builders : y # x => KeepsSide(y)
    BY LaterStays DEF Ends, Goes, KeepsSide
  <2> QED
    BY <1>1, <1>2, <1>4, <2>1, <2>2, Sides, ImageInvQuiet DEF Numbered
<1>6. CASE Provision(x) /\ ~Ends(x)
  <2>1. b'[x].pc = "look" /\ b'[x].id = b[x].id /\ \A y \in Builders : y # x => b'[y] = b[y]
    BY <1>6, StepsOfBuild DEF Goes
  <2>2. b[x].pc = "provision" /\ b[x].id \in Images
    BY <1>1, <1>6 DEF Provision, Numbered
  <2>3. ~BuildRaises(x)
    BY <1>6, BuildRaisesEnds DEF BuildRaises
  <2>4. source'[b[x].id] = recipe /\ recipe # NoLink
    BY <1>6, <2>2, <2>3, RecipesAssumption DEF Provision, TypeOK
  <2>5. ASSUME NEW y \in Builders
        PROVE  /\ b'[y].pc \in {"provision"} \cup Unmoved => b'[y].id \notin published'
               /\ b'[y].pc \in Unmoved => source'[b'[y].id] # NoLink
               /\ b'[y].pc \in Moved => b'[y].id \in published'
    <3>1. CASE y = x
      BY <1>2, <2>1, <2>2, <2>4, <3>1 DEF ImageInv, Moved, Unmoved
    <3>2. CASE y # x
      <4>1. b'[y] = b[y]
        BY <2>1, <3>2
      <4>2. b[y].pc \in Unmoved => b[y].id \in Images
        BY <1>1, Sides DEF Numbered
      <4> QED
        BY <1>2, <4>1, <4>2 DEF ImageInv
    <3> QED
      BY <3>1, <3>2
  <2>6. \A i \in published' : source'[i] # NoLink
    BY <1>2, <1>3 DEF ImageInv
  <2>7. \A d \in Recipes :
          golden'[d] # None => golden'[d] \in published' /\ name'[golden'[d]] = d
    BY <1>2 DEF ImageInv
  <2>8. prov' # None => prov' \in published'
    BY <1>2 DEF ImageInv
  <2> QED
    BY <1>4, <2>5, <2>6, <2>7, <2>8 DEF ImageInv
<1> QED
  BY <1>5, <1>6

LEMMA ImageInvLater ==
  ASSUME TypeOK, BuildInv, ImageInv, NEW x \in Builders, Provision(x) \/ Later(x)
  PROVE  ImageInv' /\ ImagesStay
<1>1. CASE MoveGolden(x) /\ dir
  BY <1>1, ImageInvMove DEF MoveGolden, ImagesStay
<1>2. CASE WriteProvenance(x)
  <2>1. Ends(x)
    BY <1>2, StepsOfBuild
  <2>2. b[x].id \in published
    BY <1>2, Sides DEF WriteProvenance, ImageInv
  <2>3. \A y \in Builders : b'[y].pc \in Numbered => b'[y] = b[y]
    BY <2>1 DEF Ends, Numbered, Publishing
  <2>4. UNCHANGED <<name, source, published, golden>> /\ prov' = b[x].id
    BY <1>2 DEF WriteProvenance, history
  <2>5. ImagesStay
    BY <2>4 DEF ImagesStay
  <2> QED
    BY <2>2, <2>3, <2>4, <2>5, Sides DEF ImageInv, Numbered
<1>3. CASE ~(MoveGolden(x) /\ dir) /\ ~WriteProvenance(x)
  BY <1>3, ImageInvOther
<1> QED
  BY <1>1, <1>2, <1>3

-----------------------------------------------------------------------------
(* The other commands *)

Outside == \/ EditRecipe
           \/ \E x \in Builders : ImageBuild(x)
           \/ \E x \in Runners : Run(x)
           \/ Prune

\* What happens outside the builds on their way takes files at most.
LEMMA OutsideTakes ==
  ASSUME TypeOK, Outside
  PROVE  /\ UNCHANGED <<builds, name, source, published, raced>>
         /\ b' \in [Builders -> BuildRecord]
         /\ \A y \in Builders : b'[y] = b[y] \/ (b'[y].pc = "host" /\ b[y].pc = "idle")
         /\ golden' \in [Recipes -> Image]
         /\ \A d \in Recipes : golden'[d] \in {golden[d], None}
         /\ link' \in {link, NoLink} /\ nvram' \in {nvram, None} /\ prov' \in {prov, None}
         /\ digest' \in {digest, NoLink} /\ (prov' # None => digest' = digest)
<1>1. /\ golden \in [Recipes -> Image]
      /\ b \in [Builders -> BuildRecord]
  BY DEF TypeOK
<1>2. CASE EditRecipe
  BY <1>1, <1>2 DEF EditRecipe, images, history
<1>3. ASSUME NEW x \in Builders, ImageBuild(x)
      PROVE  /\ b' \in [Builders -> BuildRecord]
             /\ \A y \in Builders : b'[y] = b[y] \/ (b'[y].pc = "host" /\ b[y].pc = "idle")
             /\ UNCHANGED <<images, history>>
  <2>1. PICK force \in BOOLEAN :
          \/ UNCHANGED b
          \/ b' = [b EXCEPT ![x] = [pc |-> "host", force |-> force, id |-> None]]
    BY <1>3 DEF ImageBuild
  <2>2. [pc |-> "host", force |-> force, id |-> None] \in BuildRecord
    BY DEF BuildRecord, Building, Image
  <2> QED
    BY <1>1, <1>3, <2>1, <2>2 DEF ImageBuild
<1>4. ASSUME NEW x \in Runners, Run(x)
      PROVE  UNCHANGED <<images, history, b>>
  BY <1>4 DEF Run, RequireGolden, RequireAgain, CreateOverlay, CopyRunVars, Boot, EndRun
<1>5. CASE PruneList \/ PruneRmdir
  BY <1>1, <1>5 DEF PruneList, PruneRmdir, images, history
<1>6. CASE PruneUnlink
  BY <1>1, <1>6 DEF PruneUnlink, images, history, Image
<1> QED
  BY <1>1, <1>2, <1>3, <1>4, <1>5, <1>6 DEF Outside, Prune, images, history

LEMMA OutsideKeepsImages ==
  ASSUME TypeOK, BuildInv, ImageInv, Outside
  PROVE  BuildInv' /\ ImageInv' /\ ImagesStay
<1>1. UNCHANGED <<builds, name, source, published>>
  BY OutsideTakes DEF history
<1>2. \A y \in Builders : b'[y].pc \in Numbered => b'[y] = b[y]
  BY OutsideTakes DEF Numbered, Publishing
<1>3. BuildInv'
  BY <1>1, <1>2, BuildInvQuiet
<1>4. ImagesStay
  BY <1>1 DEF ImagesStay
<1>5. \A y \in Builders : KeepsSide(y)
  BY <1>2 DEF KeepsSide
<1>6. \A y \in Builders : b[y].pc \in Unmoved => b[y].id \in Images
  BY NumberedHasName, Sides DEF Numbered
<1> QED
  BY <1>1, <1>3, <1>4, <1>5, <1>6, OutsideTakes, ImageInvQuiet

-----------------------------------------------------------------------------
(* Runs *)

\* Run x is over, goes on without an image, or boots.
RunEnds(x) == r'[x] = IdleRun
RunGoesOn(x) ==
  /\ r[x].pc # "running" /\ r'[x].pc # "running" /\ r'[x].booted = r[x].booted
  /\ \/ /\ r'[x].backing = r[x].backing
        /\ r'[x].pc \in {"overlay", "vars", "qemu"} => r[x].pc \in {"overlay", "vars"}
     \/ r'[x].backing = recipe /\ golden[recipe] # None
RunBoots(x) ==
  /\ r[x].pc = "qemu" /\ r'[x].pc = "running"
  /\ r'[x].backing = r[x].backing
  /\ golden[r[x].backing] # None /\ r'[x].booted = golden[r[x].backing]

LEMMA StepsOfRun ==
  ASSUME TypeOK, RunInv, NEW x \in Runners, Run(x)
  PROVE  /\ r' \in [Runners -> RunRecord]
         /\ \A y \in Runners : y # x => r'[y] = r[y]
         /\ RunEnds(x) \/ RunGoesOn(x) \/ RunBoots(x)
         /\ UNCHANGED <<recipe, dir, images, history, b, prune, edits, stops, said, lost>>
<1>1. /\ r \in [Runners -> RunRecord] /\ r[x] \in RunRecord /\ recipe \in Recipes
      /\ nvram \in Image /\ golden \in [Recipes -> Image]
  BY DEF TypeOK
<1>2. IdleRun \in RunRecord
  BY DEF IdleRun, RunRecord, Digest, Image
<1>3. UNCHANGED <<recipe, dir, images, history, b, prune, edits, stops, said, lost>>
  BY DEF Run, RequireGolden, RequireAgain, CreateOverlay, CopyRunVars, Boot, EndRun
<1>4. CASE r' = [r EXCEPT ![x] = IdleRun]
  BY <1>1, <1>3, <1>2, <1>4 DEF RunEnds
<1>5. CASE RequireGolden(x)
  <2> DEFINE n == [r[x] EXCEPT !.pc = "require", !.reported = recipe]
  <2>1. /\ n \in RunRecord /\ n.pc = "require" /\ n.booted = r[x].booted
        /\ n.backing = r[x].backing
    BY <1>1 DEF RunRecord, Preparing, Digest
  <2>2. r[x].pc = "idle" /\ r' = [r EXCEPT ![x] = n]
    BY <1>5 DEF RequireGolden
  <2> HIDE DEF n
  <2> QED
    BY <1>1, <1>3, <2>1, <2>2 DEF RunGoesOn
<1>6. CASE RequireAgain(x) /\ golden[recipe] # None
  <2> DEFINE n == [r[x] EXCEPT !.pc = "overlay", !.backing = recipe]
  <2>1. /\ n \in RunRecord /\ n.pc = "overlay" /\ n.booted = r[x].booted
        /\ n.backing = recipe
    BY <1>1 DEF RunRecord, Preparing, Digest
  <2>2. r[x].pc = "require" /\ r' = [r EXCEPT ![x] = n]
    BY <1>6 DEF RequireAgain
  <2> HIDE DEF n
  <2> QED
    BY <1>1, <1>3, <1>6, <2>1, <2>2 DEF RunGoesOn
<1>7. CASE CreateOverlay(x) /\ golden[r[x].backing] # None
  <2> DEFINE n == [r[x] EXCEPT !.pc = "vars"]
  <2>1. /\ n \in RunRecord /\ n.pc = "vars" /\ n.booted = r[x].booted
        /\ n.backing = r[x].backing
    BY <1>1 DEF RunRecord, Preparing
  <2>2. r[x].pc = "overlay" /\ r' = [r EXCEPT ![x] = n]
    BY <1>7 DEF CreateOverlay, RunTo
  <2> HIDE DEF n
  <2> QED
    BY <1>1, <1>3, <2>1, <2>2 DEF RunGoesOn
<1>8. CASE CopyRunVars(x)
  <2> DEFINE n == [r[x] EXCEPT !.pc = "qemu", !.nvram = nvram]
  <2>1. /\ n \in RunRecord /\ n.pc = "qemu" /\ n.booted = r[x].booted
        /\ n.backing = r[x].backing
    BY <1>1 DEF RunRecord, Preparing
  <2>2. r[x].pc = "vars" /\ r' = [r EXCEPT ![x] = n]
    BY <1>8 DEF CopyRunVars
  <2> HIDE DEF n
  <2> QED
    BY <1>1, <1>3, <2>1, <2>2 DEF RunGoesOn
<1>9. CASE Boot(x) /\ golden[r[x].backing] # None
  <2> DEFINE n == [r[x] EXCEPT !.pc = "running", !.booted = golden[r[x].backing]]
  <2>1. r[x].pc = "qemu" /\ r' = [r EXCEPT ![x] = n]
    BY <1>9 DEF Boot
  <2>2. golden[r[x].backing] \in Image
    BY <1>1, <2>1 DEF RunInv
  <2>3. /\ n \in RunRecord /\ n.pc = "running" /\ n.booted = golden[r[x].backing]
        /\ n.backing = r[x].backing
    BY <1>1, <1>3, <2>2 DEF RunRecord
  <2> HIDE DEF n
  <2> QED
    BY <1>1, <1>3, <1>9, <2>1, <2>3 DEF RunBoots
<1>10. /\ RequireAgain(x) /\ golden[recipe] = None => r' = [r EXCEPT ![x] = IdleRun]
       /\ CreateOverlay(x) /\ golden[r[x].backing] = None => r' = [r EXCEPT ![x] = IdleRun]
       /\ Boot(x) /\ golden[r[x].backing] = None => r' = [r EXCEPT ![x] = IdleRun]
       /\ EndRun(x) => r' = [r EXCEPT ![x] = IdleRun]
  BY DEF RequireAgain, CreateOverlay, Boot, EndRun, RunRaises
<1> QED
  BY <1>3, <1>4, <1>5, <1>6, <1>7, <1>8, <1>9, <1>10 DEF Run

\* A run that does not step keeps its promise: what it booted stays published.
LEMMA RunInvStays ==
  ASSUME RunInv, ImagesStay, r' = r
  PROVE  RunInv'
BY DEF RunInv, ImagesStay

\* A run boots what its digest is at that moment.
LEMMA RunInvRun ==
  ASSUME TypeOK, ImageInv, RunInv, NEW x \in Runners, Run(x)
  PROVE  RunInv'
<1>1. /\ \A y \in Runners : y # x => r'[y] = r[y]
      /\ RunEnds(x) \/ RunGoesOn(x) \/ RunBoots(x)
      /\ UNCHANGED <<published, name>>
  BY StepsOfRun DEF history
<1>2. CASE RunEnds(x)
  BY <1>1, <1>2 DEF RunInv, RunEnds, IdleRun
<1>3. CASE RunGoesOn(x)
  BY <1>1, <1>3 DEF RunInv, RunGoesOn, TypeOK
<1>4. CASE RunBoots(x)
  <2>1. r[x].backing \in Recipes
    BY <1>4 DEF RunBoots, RunInv
  <2>2. r'[x].booted \in published /\ name[r'[x].booted] = r'[x].backing
    BY <1>4, <2>1 DEF RunBoots, ImageInv
  <2> QED
    BY <1>1, <1>4, <2>2 DEF RunInv, RunBoots
<1> QED
  BY <1>1, <1>2, <1>3, <1>4

-----------------------------------------------------------------------------
(* Digests whose golden was published *)

\* A golden goes only when its digest becomes lost, or to make room for the next.
LEMMA OutsideAccounts ==
  ASSUME TypeOK, Outside, BuildInv, NEW d \in Recipes, Accounted(d)
  PROVE  Accounted(d)'
<1>1. /\ name' = name /\ \A y \in Builders : b[y].pc = "move" => b'[y] = b[y]
      /\ golden'[d] \in {golden[d], None}
  BY OutsideTakes DEF history
<1>2. CASE PruneUnlink
  <2>1. PICK e \in prune.todo :
          \/ /\ golden' = [f \in Recipes |-> IF e = GoldenEntry(f) THEN None ELSE golden[f]]
             /\ lost' = lost \cup {f \in Recipes : e = GoldenEntry(f)}
          \/ UNCHANGED <<golden, lost>>
    BY <1>2 DEF PruneUnlink, images
  <2>2. golden'[d] = golden[d] \/ d \in lost'
    BY <2>1
  <2>3. d \in lost => d \in lost'
    BY <2>1
  <2> QED
    BY <1>1, <2>2, <2>3 DEF Accounted, Name
<1>3. CASE ~PruneUnlink
  <2>1. UNCHANGED <<golden, lost>>
    BY <1>3 DEF Outside, EditRecipe, ImageBuild, Run, RequireGolden, RequireAgain,
                CreateOverlay, CopyRunVars, Boot, EndRun, Prune, PruneList, PruneRmdir, images
  <2> QED
    BY <1>1, <2>1 DEF Accounted, Name
<1> QED
  BY <1>2, <1>3

\* The build x leaves the golden of its digest, or loses it with the digest.
LEMMA BuildAccounts ==
  ASSUME TypeOK, BuildInv, NEW x \in Builders, BeginBuild(x) \/ Provision(x) \/ Later(x),
         ImagesStay, NEW d \in Recipes, Accounted(d)
  PROVE  Accounted(d)'
<1>1. \A y \in Builders : y # x => b'[y] = b[y]
  BY LaterStays, BeginsAnew DEF Ends, Goes
<1>2. \A y \in Builders : y # x /\ b[y].pc = "move" => b'[y].pc = "move" /\ Name(y)' = Name(y)
  <2>1. TAKE y \in Builders
  <2>2. HAVE y # x /\ b[y].pc = "move"
  <2>3. b[y].id \in Images /\ b[y].id <= builds /\ builds \in Nat
    BY <2>2, NumberedHasName, BoundsAssumption DEF Numbered, Publishing, TypeOK
  <2>4. name'[b[y].id] = name[b[y].id]
    <3>1. CASE Provision(x) \/ Later(x)
      BY <3>1, LaterStays
    <3>2. CASE BeginBuild(x)
      <4>1. name' = name \/ name' = [name EXCEPT ![builds + 1] = recipe]
        BY <3>2 DEF BeginBuild, history
      <4>2. b[y].id # builds + 1
        BY <2>3 DEF Images
      <4> QED
        BY <2>3, <4>1, <4>2 DEF TypeOK
    <3> QED
      BY <3>1, <3>2
  <2> QED
    BY <1>1, <2>2, <2>4 DEF Name
<1>3. CASE BeginBuild(x) \/ Provision(x)
  <2>1. b[x].pc # "move" /\ UNCHANGED <<golden, lost>>
    BY <1>3 DEF BeginBuild, Provision, images
  <2> QED
    BY <1>2, <2>1 DEF Accounted
<1>4. CASE UnlinkOldGolden(x)
  <2>1. b[x].pc # "move" /\ lost' = lost /\ name' = name
    BY <1>4 DEF UnlinkOldGolden, history
  <2>2. golden'[d] = golden[d] \/ (d = Name(x) /\ Goes(x, "move"))
    BY <1>4, StepsOfBuild DEF UnlinkOldGolden, TypeOK
  <2>3. Goes(x, "move") => b'[x].pc = "move" /\ Name(x)' = Name(x)
    BY <2>1 DEF Goes, Name
  <2> QED
    BY <1>2, <2>1, <2>2, <2>3 DEF Accounted
<1>5. CASE MoveGolden(x) /\ dir
  <2>1. b[x].id # None
    BY <1>5, NumberedHasName DEF MoveGolden, Numbered, Publishing
  <2>2. /\ golden' = [golden EXCEPT ![Name(x)] = b[x].id]
        /\ lost' = lost \ {Name(x)}
    BY <1>5 DEF MoveGolden
  <2>3. CASE d = Name(x)
    BY <2>1, <2>2, <2>3 DEF Accounted, TypeOK
  <2>4. CASE d # Name(x)
    BY <1>2, <2>2, <2>4 DEF Accounted, TypeOK
  <2> QED
    BY <2>3, <2>4
<1>6. CASE (MoveGolden(x) /\ ~dir) \/ StopPublishing(x)
  <2>1. golden' = golden /\ lost \subseteq lost'
    BY <1>6 DEF MoveGolden, StopPublishing, images
  <2>2. b[x].pc = "move" /\ d = Name(x) /\ golden[d] = None => d \in lost'
    BY <1>6 DEF MoveGolden, StopPublishing
  <2> QED
    BY <1>2, <2>1, <2>2 DEF Accounted
<1>7. CASE Later(x) /\ ~UnlinkOldGolden(x) /\ ~MoveGolden(x) /\ ~StopPublishing(x)
  <2>1. UNCHANGED <<golden, lost>> /\ b[x].pc # "move"
    BY <1>7 DEF Later, LookForOldGolden, LookForLink, UnlinkLink, MakeLink, SaveNvram,
                WriteProvenance, images
  <2> QED
    BY <1>2, <2>1 DEF Accounted
<1> QED
  BY <1>3, <1>4, <1>5, <1>6, <1>7

\* What is published in this step is there.
LEMMA NewlyPublished ==
  ASSUME TypeOK, BuildInv, NEW x \in Builders, Provision(x) \/ Later(x),
         NEW d \in Recipes, ~Published(d), Published(d)'
  PROVE  golden'[d] # None
<1>1. name' = name
  BY LaterStays
<1>2. published' # published
  BY <1>1 DEF Published
<1>3. MoveGolden(x) /\ dir
  BY <1>2 DEF Provision, Later, LookForOldGolden, UnlinkOldGolden, MoveGolden, LookForLink,
              UnlinkLink, MakeLink, SaveNvram, WriteProvenance, StopPublishing, history
<1>4. b[x].id # None
  BY <1>3, NumberedHasName DEF MoveGolden, Numbered, Publishing
<1>5. d = Name(x)
  BY <1>1, <1>3 DEF MoveGolden, Published, Name
<1> QED
  BY <1>3, <1>4, <1>5 DEF MoveGolden, TypeOK

\* Nothing else is published.
LEMMA BeginPublishesNothing ==
  ASSUME TypeOK, BuildInv, NEW x \in Builders, BeginBuild(x), NEW d \in Recipes, Published(d)'
  PROVE  Published(d)
<1>1. published' = published
  BY BeginsAnew DEF history
<1>2. builds \in Nat
  BY BoundsAssumption DEF TypeOK
<1>3. name' = name \/ name' = [name EXCEPT ![builds + 1] = recipe]
  BY DEF BeginBuild, history
<1>4. \A i \in published : i \in Images /\ i <= builds
  BY DEF TypeOK, BuildInv
<1>5. \A i \in published : name'[i] = name[i]
  <2>1. TAKE i \in published
  <2>2. i # builds + 1
    BY <1>2, <1>4 DEF Images
  <2> QED
    BY <1>3, <1>4, <2>2 DEF TypeOK
<1> QED
  BY <1>1, <1>5 DEF Published

\* A digest gets to be known where its golden has been published.
LEMMA KnownWerePublished ==
  ASSUME TypeOK, BuildInv, ImageInv, RunInv, AccountInv, Next, ImagesStay
  PROVE  /\ link' # NoLink => Published(link')
         /\ said' # NoLink => Published(said')
         /\ \A y \in Runners : r'[y].backing # NoLink => Published(r'[y].backing)
<1>1. \A d \in Recipes : golden[d] # None => Published(d)
  BY DEF ImageInv, Published
<1>2. ASSUME NEW x \in Builders, b[x].pc \in Moved
      PROVE  Published(Name(x))
  BY <1>2 DEF ImageInv, Published, Name
<1>3. link' \in {link, NoLink} \/ \E x \in Builders : MakeLink(x) /\ link' = Name(x)
  <2>1. CASE Outside
    BY <2>1, OutsideTakes
  <2>2. ASSUME NEW x \in Builders, BeginBuild(x) \/ Provision(x) \/ Later(x)
        PROVE  link' \in {link, NoLink} \/ (MakeLink(x) /\ link' = Name(x))
    BY <2>2 DEF BeginBuild, Provision, Later, LookForOldGolden, UnlinkOldGolden, MoveGolden,
                LookForLink, UnlinkLink, MakeLink, SaveNvram, WriteProvenance,
                StopPublishing, images
  <2> QED
    BY <2>1, <2>2 DEF Next, Build, Outside, Later
<1>4. link' # NoLink => Published(link')
  BY <1>2, <1>3, Sides DEF MakeLink, AccountInv
<1>5. said' # NoLink => Published(said')
  <2>1. CASE EditRecipe \/ Prune \/ \E x \in Runners : Run(x)
    BY <2>1 DEF EditRecipe, Prune, PruneList, PruneUnlink, PruneRmdir, Run, RequireGolden,
                RequireAgain, CreateOverlay, CopyRunVars, Boot, EndRun, AccountInv
  <2>2. ASSUME NEW x \in Builders, ImageBuild(x)
        PROVE  said' # NoLink => Published(said')
    BY <1>1, <2>2 DEF ImageBuild, AccountInv, TypeOK
  <2>3. ASSUME NEW x \in Builders, WriteProvenance(x)
        PROVE  Published(said')
    BY <1>2, <2>3, Sides DEF WriteProvenance
  <2>4. ASSUME NEW x \in Builders, BeginBuild(x) \/ Provision(x) \/ Later(x), ~WriteProvenance(x)
        PROVE  said' # NoLink => Published(said')
    BY <2>4 DEF BeginBuild, Provision, Later, LookForOldGolden, UnlinkOldGolden, MoveGolden,
                LookForLink, UnlinkLink, MakeLink, SaveNvram, StopPublishing, AccountInv
  <2> QED
    BY <2>1, <2>2, <2>3, <2>4 DEF Next, Build, Later
<1>6. \A y \in Runners : r'[y].backing # NoLink => Published(r'[y].backing)
  <2>1. ASSUME NEW x \in Runners, Run(x)
        PROVE  \A y \in Runners : r'[y].backing # NoLink => Published(r'[y].backing)
    BY <1>1, <2>1, StepsOfRun DEF RunEnds, IdleRun, RunGoesOn, RunBoots, AccountInv, TypeOK
  <2>2. CASE ~\E x \in Runners : Run(x)
    <3>1. r' = r
      BY <2>2 DEF Next, Build, EditRecipe, Prune, PruneList, PruneUnlink, PruneRmdir,
                  ImageBuild, BeginBuild, Provision, LookForOldGolden, UnlinkOldGolden,
                  MoveGolden, LookForLink, UnlinkLink, MakeLink, SaveNvram, WriteProvenance,
                  StopPublishing
    <3> QED
      BY <3>1 DEF AccountInv
  <2> QED
    BY <2>1, <2>2
<1> QED
  BY <1>4, <1>5, <1>6

LEMMA AccountInvNext ==
  ASSUME TypeOK, BuildInv, ImageInv, RunInv, AccountInv, Next, ImagesStay
  PROVE  AccountInv'
<1>1. ASSUME NEW d \in Recipes, Published(d)'
      PROVE  Accounted(d)'
  <2>1. CASE Outside
    <3>1. Published(d)
      BY <1>1, <2>1, OutsideTakes DEF Published, history
    <3> QED
      BY <2>1, <3>1, OutsideAccounts DEF AccountInv
  <2>2. ASSUME NEW x \in Builders, BeginBuild(x)
        PROVE  Accounted(d)'
    BY <1>1, <2>2, BeginPublishesNothing, BuildAccounts DEF AccountInv
  <2>3. ASSUME NEW x \in Builders, Provision(x) \/ Later(x)
        PROVE  Accounted(d)'
    <3>1. CASE Published(d)
      BY <2>3, <3>1, BuildAccounts DEF AccountInv
    <3>2. CASE ~Published(d)
      BY <1>1, <2>3, <3>2, NewlyPublished DEF Accounted
    <3> QED
      BY <3>1, <3>2
  <2> QED
    BY <2>1, <2>2, <2>3 DEF Next, Build, Outside, Later
<1>2. link' # NoLink => Published(link)'
  BY KnownWerePublished DEF Published, ImagesStay
<1>3. said' # NoLink => Published(said)'
  BY KnownWerePublished DEF Published, ImagesStay
<1>4. \A y \in Runners : r'[y].backing # NoLink => Published(r[y].backing)'
  BY KnownWerePublished DEF Published, ImagesStay
<1> QED
  BY <1>1, <1>2, <1>3, <1>4 DEF AccountInv

-----------------------------------------------------------------------------
(* Types *)

LEMMA TypeBuild ==
  ASSUME TypeOK, BuildInv, NEW x \in Builders, BeginBuild(x) \/ Provision(x) \/ Later(x)
  PROVE  TypeOK'
<1>1. UNCHANGED <<recipe, r, prune, edits>>
  BY DEF BeginBuild, Provision, Later, LookForOldGolden, UnlinkOldGolden, MoveGolden,
         LookForLink, UnlinkLink, MakeLink, SaveNvram, WriteProvenance, StopPublishing
<1>2. b' \in [Builders -> BuildRecord]
  BY LaterStays, BeginsAnew DEF Ends, Goes
<1>3. CASE BeginBuild(x)
  <2>1. UNCHANGED <<images, stops, said, lost, source, published, raced, edited>>
    BY <1>3 DEF BeginBuild, history
  <2>2. dir' \in BOOLEAN
    BY <1>3 DEF BeginBuild, TypeOK
  <2>3. builds' \in 0..MaxBuilds /\ name' \in [Images -> Digest]
    BY <1>3, BoundsAssumption DEF BeginBuild, TypeOK, history, Digest
  <2> QED
    BY <1>1, <1>2, <2>1, <2>2, <2>3 DEF TypeOK, images
<1>4. CASE Provision(x)
  <2>1. UNCHANGED <<dir, images, builds, name, published, edited, stops, said, lost>>
    BY <1>4 DEF Provision
  <2>2. source' \in [Images -> Digest]
    BY <1>4 DEF Provision, TypeOK, Digest
  <2>3. raced' \in BOOLEAN
    BY <1>4 DEF Provision, TypeOK
  <2> QED
    BY <1>1, <1>2, <2>1, <2>2, <2>3 DEF TypeOK, images
<1>5. CASE Later(x)
  <2>1. b[x].id \in Images /\ Name(x) \in Recipes
    BY <1>5, LaterStays, NumberedHasName
  <2>2. UNCHANGED <<builds, name, source, raced, edited>>
    BY <1>5 DEF Later, LookForOldGolden, UnlinkOldGolden, MoveGolden, LookForLink,
         UnlinkLink, MakeLink, SaveNvram, WriteProvenance, StopPublishing, history
  <2>3. dir' \in BOOLEAN
    BY <1>5 DEF Later, LookForOldGolden, UnlinkOldGolden, MoveGolden, LookForLink,
         UnlinkLink, MakeLink, SaveNvram, WriteProvenance, StopPublishing, TypeOK
  <2>4. golden' \in [Recipes -> Image]
    BY <1>5, <2>1 DEF Later, LookForOldGolden, UnlinkOldGolden, MoveGolden, LookForLink,
         UnlinkLink, MakeLink, SaveNvram, WriteProvenance, StopPublishing, TypeOK, images,
         Image
  <2>5. link' \in Digest
    BY <1>5, <2>1 DEF Later, LookForOldGolden, UnlinkOldGolden, MoveGolden, LookForLink,
         UnlinkLink, MakeLink, SaveNvram, WriteProvenance, StopPublishing, TypeOK, images,
         Digest
  <2>6. nvram' \in Image
    BY <1>5, <2>1 DEF Later, LookForOldGolden, UnlinkOldGolden, MoveGolden, LookForLink,
         UnlinkLink, MakeLink, SaveNvram, WriteProvenance, StopPublishing, TypeOK, images,
         Image
  <2>7. prov' \in Image
    BY <1>5, <2>1 DEF Later, LookForOldGolden, UnlinkOldGolden, MoveGolden, LookForLink,
         UnlinkLink, MakeLink, SaveNvram, WriteProvenance, StopPublishing, TypeOK, images,
         Image
  <2>8. published' \subseteq Images /\ lost' \subseteq Recipes
    BY <1>5, <2>1 DEF Later, LookForOldGolden, UnlinkOldGolden, MoveGolden, LookForLink,
         UnlinkLink, MakeLink, SaveNvram, WriteProvenance, StopPublishing, TypeOK, history
  <2>9. said' \in Digest
    BY <1>5, <2>1 DEF Later, LookForOldGolden, UnlinkOldGolden, MoveGolden, LookForLink,
         UnlinkLink, MakeLink, SaveNvram, WriteProvenance, StopPublishing, TypeOK, Digest
  <2>10. stops' \in 0..MaxStops
    BY <1>5, BoundsAssumption DEF Later, LookForOldGolden, UnlinkOldGolden, MoveGolden,
         LookForLink, UnlinkLink, MakeLink, SaveNvram, WriteProvenance, StopPublishing, TypeOK
  <2>11. digest' \in Digest
    BY <1>5, <2>1 DEF Later, LookForOldGolden, UnlinkOldGolden, MoveGolden, LookForLink,
         UnlinkLink, MakeLink, SaveNvram, WriteProvenance, StopPublishing, TypeOK, images,
         Digest
  <2> QED
    BY <1>1, <1>2, <2>2, <2>3, <2>4, <2>5, <2>6, <2>7, <2>8, <2>9, <2>10, <2>11 DEF TypeOK
<1> QED
  BY <1>3, <1>4, <1>5

LEMMA EntriesAreNames ==
  ASSUME TypeOK
  PROVE  Entries \in SUBSET FileNames
BY DEF Entries, FileNames

LEMMA TypePrune ==
  ASSUME TypeOK, Prune
  PROVE  prune' \in PruneRecord /\ lost' \subseteq Recipes /\ dir' \in BOOLEAN
<1>1. /\ prune \in PruneRecord /\ prune.count \in 0..MaxPrunes /\ prune.todo \subseteq FileNames
      /\ lost \subseteq Recipes /\ dir \in BOOLEAN
  BY DEF TypeOK, PruneRecord
<1>2. CASE PruneList
  <2>1. prune.count + 1 \in 0..MaxPrunes
    BY <1>1, <1>2, BoundsAssumption DEF PruneList
  <2>2. prune' = [on |-> TRUE, todo |-> Entries, count |-> prune.count + 1]
    BY <1>2 DEF PruneList
  <2>3. prune' \in PruneRecord
    BY <2>1, <2>2, EntriesAreNames DEF PruneRecord
  <2> QED
    BY <1>1, <1>2, <2>3 DEF PruneList
<1>3. CASE PruneUnlink
  <2>1. PICK e \in prune.todo :
          \/ prune' = [prune EXCEPT !.todo = @ \ {e}]
          \/ prune' = [prune EXCEPT !.on = FALSE, !.todo = {}]
    BY <1>3 DEF PruneUnlink
  <2>2. prune.todo \ {e} \in SUBSET FileNames /\ {} \in SUBSET FileNames
    BY <1>1
  <2>3. prune' \in PruneRecord
    BY <1>1, <2>1, <2>2 DEF PruneRecord
  <2>4. lost' \subseteq Recipes /\ dir' = dir
    BY <1>1, <1>3 DEF PruneUnlink
  <2> QED
    BY <1>1, <2>3, <2>4
<1>4. CASE PruneRmdir
  <2>1. prune' = [prune EXCEPT !.on = FALSE] /\ dir' = (Entries # {}) /\ lost' = lost
    BY <1>4 DEF PruneRmdir
  <2>2. prune' \in PruneRecord
    BY <1>1, <2>1 DEF PruneRecord
  <2> QED
    BY <1>1, <2>1, <2>2
<1> QED
  BY <1>2, <1>3, <1>4 DEF Prune

LEMMA TypeOutside ==
  ASSUME TypeOK, BuildInv, RunInv, Outside
  PROVE  TypeOK'
<1>1. /\ UNCHANGED <<builds, name, source, published, raced>>
      /\ b' \in [Builders -> BuildRecord]
      /\ golden' \in [Recipes -> Image]
      /\ link' \in Digest /\ nvram' \in Image /\ prov' \in Image /\ digest' \in Digest
  BY OutsideTakes DEF TypeOK, Digest, Image
<1>2. CASE EditRecipe
  <2>1. recipe' \in Recipes /\ edits' \in 0..MaxEdits
    BY <1>2, BoundsAssumption DEF EditRecipe, TypeOK
  <2>2. UNCHANGED <<dir, r, prune, stops, said, lost>>
    BY <1>2 DEF EditRecipe
  <2>3. {b[x].id : x \in {x \in Builders : b[x].pc \in Numbered}} \subseteq Images
    BY NumberedHasName
  <2>4. edited' \subseteq Images
    BY <1>2, <2>3 DEF EditRecipe, TypeOK
  <2> QED
    BY <1>1, <2>1, <2>2, <2>4 DEF TypeOK
<1>3. ASSUME NEW x \in Builders, ImageBuild(x)
      PROVE  TypeOK'
  <2>1. said' \in Digest
    BY <1>3 DEF ImageBuild, TypeOK, Digest
  <2>2. UNCHANGED <<recipe, dir, r, prune, edits, edited, stops, lost>>
    BY <1>3 DEF ImageBuild, history
  <2> QED
    BY <1>1, <2>1, <2>2 DEF TypeOK
<1>4. ASSUME NEW x \in Runners, Run(x)
      PROVE  TypeOK'
  BY <1>1, <1>4, StepsOfRun DEF TypeOK, history
<1>5. CASE Prune
  <2>1. UNCHANGED <<recipe, r, edits, edited, stops, said>>
    BY <1>5 DEF Prune, PruneList, PruneUnlink, PruneRmdir, history
  <2> QED
    BY <1>1, <1>5, <2>1, TypePrune DEF TypeOK
<1> QED
  BY <1>2, <1>3, <1>4, <1>5 DEF Outside

-----------------------------------------------------------------------------
(* What an edit of the recipe marks *)

\* The builds keep their marks, their names and the recipe in the directory.
EditStands ==
  /\ edited' = edited
  /\ recipe' = recipe
  /\ \A y \in Builders : b'[y].pc \in Numbered =>
       b[y].pc \in Numbered /\ b'[y].id = b[y].id /\ Name(y)' = Name(y)

LEMMA EditInvNext ==
  ASSUME TypeOK, BuildInv, ImageInv, EditInv, Next, ImagesStay
  PROVE  EditInv'
<1>1. prov # None => prov \in published /\ name'[prov] = name[prov]
  BY DEF ImageInv, ImagesStay
<1>2. CASE EditRecipe
  <2>1. /\ edited' = edited \cup {b[x].id : x \in {x \in Builders : b[x].pc \in Numbered}}
        /\ UNCHANGED <<b, source, name, prov, digest>>
    BY <1>2 DEF EditRecipe, images
  <2> QED
    BY <2>1 DEF EditInv
<1>3. CASE Outside /\ ~EditRecipe
  <2>1. /\ UNCHANGED <<name, source>>
        /\ prov' \in {prov, None} /\ (prov' # None => digest' = digest)
        /\ \A y \in Builders : b'[y].pc \in Numbered => b'[y] = b[y]
    BY <1>3, OutsideTakes DEF Numbered, Publishing
  <2>2. edited' = edited /\ recipe' = recipe
    BY <1>3 DEF Outside, ImageBuild, Run, RequireGolden, RequireAgain, CreateOverlay,
                CopyRunVars, Boot, EndRun, Prune, PruneList, PruneUnlink, PruneRmdir, history
  <2> QED
    BY <2>1, <2>2 DEF EditInv, Name
<1>4. ASSUME NEW x \in Builders, BeginBuild(x)
      PROVE  EditInv'
  <2>1. recipe' = recipe /\ edited' = edited /\ UNCHANGED <<source, prov, digest>>
    BY <1>4 DEF BeginBuild, images, history
  <2>2. CASE Ends(x) /\ UNCHANGED history
    BY <2>1, <2>2 DEF Ends, EditInv, Name, Numbered, Publishing, history
  <2>3. CASE ~(Ends(x) /\ UNCHANGED history)
    <3>1. /\ builds \in Nat /\ builds' = builds + 1 /\ builds' \in Images
          /\ name' = [name EXCEPT ![builds'] = recipe]
          /\ b'[x].id = builds' /\ \A y \in Builders : y # x => b'[y] = b[y]
      <4>1. builds \in Nat
        BY BoundsAssumption DEF TypeOK
      <4> QED
        BY <1>4, <2>3, <4>1, BeginsAnew
    <3>2. name'[builds'] = recipe /\ \A i \in Images : i # builds' => name'[i] = name[i]
      BY <3>1 DEF TypeOK
    <3>3. \A i \in Images : i <= builds => i # builds'
      BY <3>1 DEF Images
    <3>4. \A y \in Builders : b'[y].pc \in Numbered => b'[y].id \in edited \/ Name(y)' = recipe
      <4>1. TAKE y \in Builders
      <4>2. HAVE b'[y].pc \in Numbered
      <4>3. CASE y = x
        BY <3>1, <3>2, <4>3 DEF Name
      <4>4. CASE y # x
        <5>1. b[y].pc \in Numbered /\ b'[y] = b[y]
          BY <3>1, <4>2, <4>4
        <5>2. b[y].id \in Images /\ b[y].id <= builds
          BY <5>1, NumberedHasName
        <5> QED
          BY <3>2, <3>3, <5>1, <5>2 DEF EditInv, Name
      <4> QED
        BY <4>3, <4>4
    <3>5. \A i \in Images : source[i] # NoLink => i \in edited \/ source[i] = name'[i]
      BY <3>2, <3>3 DEF EditInv, BuildInv
    <3> QED
      BY <1>1, <2>1, <3>4, <3>5 DEF EditInv
  <2> QED
    BY <2>2, <2>3
<1>5. ASSUME NEW x \in Builders, Provision(x) \/ Later(x)
      PROVE  EditInv'
  <2>1. b[x].pc \in Numbered /\ b[x].id \in Images
        /\ (b[x].id \in edited \/ name[b[x].id] = recipe)
    BY <1>5, LaterStays, NumberedHasName DEF EditInv, Name
  <2>2. edited' = edited /\ recipe' = recipe /\ name' = name
    BY <1>5 DEF Provision, Later, LookForOldGolden, UnlinkOldGolden, MoveGolden, LookForLink,
         UnlinkLink, MakeLink, SaveNvram, WriteProvenance, StopPublishing, history
  <2>3. EditStands
    BY <1>5, <2>2, LaterStays, NumbersStay DEF EditStands, Name
  <2>4. source' = source \/ source' = [source EXCEPT ![b[x].id] = recipe]
    BY <1>5 DEF Provision, Later, LookForOldGolden, UnlinkOldGolden, MoveGolden, LookForLink,
         UnlinkLink, MakeLink, SaveNvram, WriteProvenance, StopPublishing, history
  <2>5. \A i \in Images : source'[i] # NoLink => i \in edited \/ source'[i] = name[i]
    <3>1. TAKE i \in Images
    <3>2. source'[i] = source[i] \/ (i = b[x].id /\ source'[i] = recipe)
      BY <2>4 DEF TypeOK
    <3> QED
      BY <2>1, <3>2 DEF EditInv
  <2>6. (prov' = prov /\ digest' = digest) \/ (prov' = b[x].id /\ digest' = recipe)
    BY <1>5 DEF Provision, Later, LookForOldGolden, UnlinkOldGolden, MoveGolden, LookForLink,
         UnlinkLink, MakeLink, SaveNvram, WriteProvenance, StopPublishing, images
  <2> QED
    BY <2>1, <2>2, <2>3, <2>5, <2>6 DEF EditInv, EditStands
<1> QED
  BY <1>2, <1>3, <1>4, <1>5 DEF Next, Build, Outside, Later

-----------------------------------------------------------------------------
(* The files of the guest's name *)

\* Pruning is counted when it lists the directory.
LEMMA PruneCounts ==
  ASSUME TypeOK, prune.count = 0 => ~prune.on, Prune
  PROVE  prune'.count # 0
<1>1. prune \in PruneRecord /\ prune.count \in Nat
  BY DEF TypeOK, PruneRecord
<1>2. CASE PruneList
  BY <1>1, <1>2 DEF PruneList
<1>3. CASE PruneUnlink
  <2>1. PICK e \in prune.todo :
          \/ prune' = [prune EXCEPT !.todo = @ \ {e}]
          \/ prune' = [prune EXCEPT !.on = FALSE, !.todo = {}]
    BY <1>3 DEF PruneUnlink
  <2>2. prune'.count = prune.count
    BY <1>1, <2>1 DEF PruneRecord
  <2> QED
    BY <1>3, <2>2 DEF PruneUnlink
<1>4. CASE PruneRmdir
  <2>1. prune' = [prune EXCEPT !.on = FALSE]
    BY <1>4 DEF PruneRmdir
  <2>2. prune'.count = prune.count
    BY <1>1, <2>1 DEF PruneRecord
  <2> QED
    BY <1>4, <2>2 DEF PruneRmdir
<1> QED
  BY <1>2, <1>3, <1>4 DEF Prune

\* Only a prune changes its record.
LEMMA OthersDoNotPrune ==
  ASSUME Next, ~Prune
  PROVE  prune' = prune
BY DEF Next, Build, EditRecipe, ImageBuild, BeginBuild, Provision, LookForOldGolden,
       UnlinkOldGolden, MoveGolden, LookForLink, UnlinkLink, MakeLink, SaveNvram,
       WriteProvenance, StopPublishing, Run, RequireGolden, RequireAgain, CreateOverlay,
       CopyRunVars, Boot, EndRun

\* Until the first prune the directory is there, from the first build on.
LEMMA DirectoryStays ==
  ASSUME TypeOK, prune.count = 0 => ~prune.on /\ (builds > 0 => dir), Next
  PROVE  prune'.count = 0 => ~prune'.on /\ (builds' > 0 => dir')
<1>1. SUFFICES ASSUME prune'.count = 0
               PROVE  ~prune'.on /\ (builds' > 0 => dir')
  OBVIOUS
<1>2. ~Prune
  BY <1>1, PruneCounts
<1>3. prune' = prune
  BY <1>2, OthersDoNotPrune
<1>4. dir' \/ UNCHANGED <<builds, dir>>
  BY <1>2 DEF Next, Build, EditRecipe, ImageBuild, BeginBuild, Provision, LookForOldGolden,
       UnlinkOldGolden, MoveGolden, LookForLink, UnlinkLink, MakeLink, SaveNvram,
       WriteProvenance, StopPublishing, Run, RequireGolden, RequireAgain, CreateOverlay,
       CopyRunVars, Boot, EndRun, history
<1> QED
  BY <1>1, <1>3, <1>4

\* A build that starts publishing while another does sets `raced`.
LEMMA RaceIsSeen ==
  ASSUME TypeOK, Next,
         ~raced => \A x, y \in Builders : b[x].pc \in Publishing /\ b[y].pc \in Publishing => x = y
  PROVE  /\ raced => raced'
         /\ ~raced' => \A x, y \in Builders :
              b'[x].pc \in Publishing /\ b'[y].pc \in Publishing => x = y
<1>1. CASE Outside
  BY <1>1, OutsideTakes DEF history, Publishing
<1>2. ASSUME NEW x \in Builders, BeginBuild(x)
      PROVE  /\ raced' = raced
             /\ \A y \in Builders : b'[y].pc \in Publishing => b[y].pc \in Publishing
  BY <1>2, BeginsAnew DEF Ends, history, Publishing
<1>3. ASSUME NEW x \in Builders, Later(x)
      PROVE  /\ raced' = raced
             /\ \A y \in Builders : b'[y].pc \in Publishing => b[y].pc \in Publishing
  <2>1. raced' = raced /\ b[x].pc \in Publishing
    BY <1>3 DEF Later, LookForOldGolden, UnlinkOldGolden, MoveGolden, LookForLink,
                UnlinkLink, MakeLink, SaveNvram, WriteProvenance, StopPublishing, history,
                Publishing
  <2>2. \A y \in Builders : y # x => b'[y] = b[y]
    BY <1>3, LaterStays DEF Ends, Goes
  <2> QED
    BY <2>1, <2>2
<1>4. ASSUME NEW x \in Builders, Provision(x)
      PROVE  /\ raced => raced'
             /\ ~raced' => \A z, y \in Builders :
                  b'[z].pc \in Publishing /\ b'[y].pc \in Publishing => z = y
  <2>1. \A y \in Builders : y # x => b'[y] = b[y]
    BY <1>4, LaterStays DEF Ends, Goes
  <2>2. CASE UNCHANGED raced /\ BuildRaises(x)
    BY <2>1, <2>2, BuildRaisesEnds DEF Ends, BuildRaises, Publishing
  <2>3. CASE raced' = (raced \/ \E y \in Builders \ {x} : b[y].pc \in Publishing)
    BY <2>1, <2>3
  <2> QED
    BY <1>4, <2>2, <2>3 DEF Provision
<1>5. CASE UNCHANGED raced /\ \A y \in Builders : b'[y].pc \in Publishing => b[y].pc \in Publishing
  BY <1>5
<1> QED
  BY <1>1, <1>2, <1>3, <1>4, <1>5 DEF Next, Build, Outside, Later

\* What has been stopped, pruned or raced stays so.
LEMMA QuietBefore ==
  ASSUME TypeOK, QuietInv, Next, Quiet'
  PROVE  /\ Quiet /\ ~Prune
         /\ \A x \in Builders : ~StopPublishing(x)
<1>1. ~Prune /\ prune' = prune
  BY PruneCounts, OthersDoNotPrune DEF Quiet, QuietInv
<1>2. ~raced
  BY RaceIsSeen DEF Quiet, QuietInv
<1>3. stops \in Nat /\ stops' = 0
  BY BoundsAssumption DEF TypeOK, Quiet
<1>4. \A x \in Builders : ~StopPublishing(x)
  BY <1>3 DEF StopPublishing
<1>5. stops' = stops
  BY <1>1, <1>4 DEF Next, Build, EditRecipe, ImageBuild, BeginBuild, Provision,
       LookForOldGolden, UnlinkOldGolden, MoveGolden, LookForLink, UnlinkLink, MakeLink,
       SaveNvram, WriteProvenance, Run, RequireGolden, RequireAgain, CreateOverlay,
       CopyRunVars, Boot, EndRun
<1>6. stops = 0 /\ prune.count = 0
  BY <1>1, <1>3, <1>5 DEF Quiet
<1>7. Quiet
  BY <1>2, <1>6 DEF Quiet
<1> QED
  BY <1>1, <1>4, <1>7

\* The step changes no file and takes no build into, or along, its publishing.
LEMMA QuietUnmoved ==
  ASSUME BuildInv, ImageInv, ImagesStay, \A x \in Builders : QuietPlace(x),
         (\A x \in Builders : b[x].pc \notin Publishing) /\ prov # None =>
            FilesAgree /\ golden[link] # None,
         UNCHANGED images,
         \A x \in Builders : b'[x] = b[x] \/ (b[x].pc \notin Publishing /\ b'[x].pc \notin Publishing),
         \A x \in Builders : b[x].pc \in Publishing => name'[b[x].id] = name[b[x].id]
  PROVE  /\ \A x \in Builders : QuietPlace(x)'
         /\ (\A x \in Builders : b'[x].pc \notin Publishing) /\ prov' # None =>
              FilesAgree' /\ golden'[link'] # None
<1>1. prov # None => name'[prov] = name[prov]
  BY DEF ImageInv, ImagesStay
<1>2. /\ golden' = golden /\ link' = link /\ nvram' = nvram /\ prov' = prov
  BY DEF images
<1>3. prov # None => (FilesAgree' <=> FilesAgree)
  BY <1>1, <1>2 DEF FilesAgree
<1>4. ASSUME NEW x \in Builders
      PROVE  QuietPlace(x)'
  <2>1. CASE b[x].pc \notin Publishing /\ b'[x].pc \notin Publishing
    BY <2>1, Sides DEF QuietPlace, Publishing
  <2>2. CASE b'[x] = b[x] /\ b[x].pc \in Publishing
    <3>1. Name(x)' = Name(x)
      BY <2>2 DEF Name
    <3> QED
      BY <1>2, <1>3, <2>2, <3>1 DEF QuietPlace
  <2> QED
    BY <2>1, <2>2
<1>5. ASSUME \A x \in Builders : b'[x].pc \notin Publishing, prov' # None
      PROVE  FilesAgree' /\ golden'[link'] # None
  BY <1>2, <1>3, <1>5
<1> QED
  BY <1>4, <1>5

\* One step of the build that publishes alone.
LEMMA QuietLater ==
  ASSUME TypeOK, BuildInv, ImageInv, NEW x \in Builders, Later(x), ~StopPublishing(x),
         QuietPlace(x), dir
  PROVE  /\ QuietPlace(x)'
         /\ Ends(x) => prov' # None /\ FilesAgree' /\ golden'[link'] # None
<1>1. b[x].id \in Images /\ b[x].id # None /\ Name(x) \in Recipes
  BY LaterStays, NumberedHasName
<1>2. name' = name
  BY LaterStays
<1>3. ASSUME NEW p, Goes(x, p)
      PROVE  b'[x].pc = p /\ b'[x].id = b[x].id /\ Name(x)' = Name(x)
  BY <1>2, <1>3 DEF Goes, Name
<1>4. prov # None => prov \in Images /\ name[prov] \in Recipes
  BY DEF ImageInv, BuildInv, TypeOK
<1>5. golden \in [Recipes -> Image]
  BY DEF TypeOK
<1>6. CASE LookForOldGolden(x)
  <2>1. b[x].pc = "look" /\ UNCHANGED images
    BY <1>6 DEF LookForOldGolden
  <2>2. Goes(x, IF golden[Name(x)] # None THEN "unlink" ELSE "move")
    BY <1>6, StepsOfBuild
  <2> QED
    BY <1>2, <1>3, <2>1, <2>2, Sides DEF QuietPlace, FilesAgree, Ends, images, Unmoved
<1>7. CASE UnlinkOldGolden(x)
  <2>1. b[x].pc = "unlink" /\ golden[Name(x)] # None
    BY <1>7, Sides DEF UnlinkOldGolden, QuietPlace
  <2>2. golden' = [golden EXCEPT ![Name(x)] = None] /\ UNCHANGED <<link, nvram, prov>>
    BY <1>7, <2>1 DEF UnlinkOldGolden
  <2>3. Goes(x, "move")
    BY <1>7, <2>1, StepsOfBuild
  <2> QED
    BY <1>1, <1>2, <1>3, <1>4, <1>5, <2>1, <2>2, <2>3, Sides
    DEF QuietPlace, FilesAgree, Ends, Unmoved
<1>8. CASE MoveGolden(x)
  <2>1. b[x].pc = "move" /\ golden' = [golden EXCEPT ![Name(x)] = b[x].id]
    BY <1>8 DEF MoveGolden
  <2>2. Goes(x, "linklook")
    BY <1>8, StepsOfBuild
  <2> QED
    BY <1>1, <1>2, <1>3, <1>5, <2>1, <2>2, Sides DEF QuietPlace, Ends, Unmoved
<1>9. CASE LookForLink(x)
  <2>1. b[x].pc = "linklook" /\ UNCHANGED images
    BY <1>9 DEF LookForLink
  <2>2. Goes(x, IF link # NoLink THEN "linkrm" ELSE "link")
    BY <1>9, StepsOfBuild
  <2> QED
    BY <1>2, <1>3, <2>1, <2>2, Sides DEF QuietPlace, Ends, images, Unmoved
<1>10. CASE UnlinkLink(x)
  <2>1. b[x].pc = "linkrm" /\ link # NoLink
    BY <1>10 DEF UnlinkLink, QuietPlace
  <2>2. link' = NoLink /\ UNCHANGED <<golden, nvram, prov>>
    BY <1>10, <2>1 DEF UnlinkLink
  <2>3. Goes(x, "link")
    BY <1>10, <2>1, StepsOfBuild
  <2> QED
    BY <1>2, <1>3, <2>1, <2>2, <2>3, Sides DEF QuietPlace, Ends, Unmoved
<1>11. CASE MakeLink(x)
  <2>1. b[x].pc = "link" /\ link = NoLink
    BY <1>11 DEF MakeLink, QuietPlace
  <2>2. link' = Name(x) /\ UNCHANGED <<golden, nvram, prov>>
    BY <1>11, <2>1 DEF MakeLink
  <2>3. Goes(x, "nvram")
    BY <1>11, <2>1, StepsOfBuild
  <2> QED
    BY <1>2, <1>3, <2>1, <2>2, <2>3, Sides DEF QuietPlace, Ends, Unmoved
<1>12. CASE SaveNvram(x)
  <2>1. b[x].pc = "nvram" /\ UNCHANGED <<golden, link, prov>>
    BY <1>12 DEF SaveNvram
  <2>2. nvram' = IF Iso THEN b[x].id ELSE nvram
    BY <1>12 DEF SaveNvram
  <2>3. Goes(x, "prov")
    BY <1>12, StepsOfBuild
  <2> QED
    BY <1>2, <1>3, <2>1, <2>2, <2>3, Sides DEF QuietPlace, Ends, Unmoved
<1>13. CASE WriteProvenance(x)
  <2>1. b[x].pc = "prov" /\ prov' = b[x].id /\ UNCHANGED <<golden, link, nvram>>
    BY <1>13 DEF WriteProvenance
  <2>2. Ends(x)
    BY <1>13, StepsOfBuild
  <2>3. link = Name(x) /\ (Iso => nvram = b[x].id) /\ golden[Name(x)] # None
    BY <2>1, Sides DEF QuietPlace
  <2>4. FilesAgree' /\ golden'[link'] # None
    BY <1>2, <2>1, <2>3 DEF FilesAgree, Name
  <2>5. QuietPlace(x)'
    BY <2>2, Sides DEF QuietPlace, Ends, Unmoved
  <2> QED
    BY <1>1, <2>1, <2>4, <2>5
<1> QED
  BY <1>6, <1>7, <1>8, <1>9, <1>10, <1>11, <1>12, <1>13 DEF Later

\* A build that starts publishing alone finds the files of the build before.
LEMMA QuietProvision ==
  ASSUME TypeOK, BuildInv, ImageInv, NEW x \in Builders, Provision(x), Goes(x, "look"),
         \A y \in Builders : y # x => b[y].pc \notin Publishing,
         (\A y \in Builders : b[y].pc \notin Publishing) /\ prov # None =>
            FilesAgree /\ golden[link] # None
  PROVE  \A y \in Builders : QuietPlace(y)'
<1>1. b[x].pc = "provision" /\ name' = name /\ UNCHANGED images
  BY DEF Provision
<1>2. prov # None => FilesAgree /\ golden[link] # None
  BY <1>1 DEF Publishing
<1>3. b'[x].pc = "look" /\ \A y \in Builders : y # x => b'[y].pc \notin Publishing
  BY DEF Goes
<1>4. QuietPlace(x)'
  BY <1>1, <1>2, <1>3, Sides DEF QuietPlace, FilesAgree, images, Unmoved
<1>5. \A y \in Builders : y # x => QuietPlace(y)'
  BY <1>3, Sides DEF QuietPlace, Publishing
<1> QED
  BY <1>4, <1>5

LEMMA QuietStep ==
  ASSUME TypeOK, BuildInv, ImageInv, ImagesStay, QuietInv, Next, Quiet'
  PROVE  /\ \A y \in Builders : QuietPlace(y)'
         /\ (\A y \in Builders : b'[y].pc \notin Publishing) /\ prov' # None =>
              FilesAgree' /\ golden'[link'] # None
<1> DEFINE Goal == /\ \A y \in Builders : QuietPlace(y)'
                   /\ (\A y \in Builders : b'[y].pc \notin Publishing) /\ prov' # None =>
                        FilesAgree' /\ golden'[link'] # None
<1>1. Quiet /\ ~Prune /\ \A x \in Builders : ~StopPublishing(x)
  BY QuietBefore
<1>2. /\ \A y \in Builders : QuietPlace(y)
      /\ builds > 0 => dir
      /\ \A x, y \in Builders : b[x].pc \in Publishing /\ b[y].pc \in Publishing => x = y
  BY <1>1 DEF QuietInv, Quiet
<1>3. (\A y \in Builders : b[y].pc \notin Publishing) /\ prov # None =>
        FilesAgree /\ golden[link] # None
  BY <1>1 DEF QuietInv, QuietFilesAgree, Quiet, FilesAgree
<1>4. \A y \in Builders : b[y].pc \in Publishing =>
        b[y].id \in Images /\ b[y].id <= builds /\ builds \in Nat /\ builds > 0
  <2>1. TAKE y \in Builders
  <2>2. HAVE b[y].pc \in Publishing
  <2>3. b[y].id \in Images /\ b[y].id <= builds /\ builds \in Nat
    BY <2>2, NumberedHasName, BoundsAssumption DEF Numbered, TypeOK
  <2> QED
    BY <2>3 DEF Images
<1>5. CASE Outside
  <2>1. UNCHANGED images
    BY <1>1, <1>5 DEF Outside, EditRecipe, ImageBuild, Run, RequireGolden, RequireAgain,
                      CreateOverlay, CopyRunVars, Boot, EndRun
  <2>2. /\ name' = name
        /\ \A x \in Builders : b'[x] = b[x] \/ (b[x].pc \notin Publishing /\ b'[x].pc \notin Publishing)
    BY <1>5, OutsideTakes DEF history, Publishing
  <2> QED
    BY <1>2, <1>3, <2>1, <2>2, QuietUnmoved
<1>6. ASSUME NEW x \in Builders, BeginBuild(x)
      PROVE  Goal
  <2>1. UNCHANGED images /\ b[x].pc = "host"
    BY <1>6 DEF BeginBuild
  <2>2. \A y \in Builders : b'[y] = b[y] \/ (b[y].pc \notin Publishing /\ b'[y].pc \notin Publishing)
    BY <1>6, <2>1, BeginsAnew DEF Ends, Publishing
  <2>3. name' = name \/ name' = [name EXCEPT ![builds + 1] = recipe]
    BY <1>6 DEF BeginBuild, history
  <2>4. \A y \in Builders : b[y].pc \in Publishing => name'[b[y].id] = name[b[y].id]
    <3>1. TAKE y \in Builders
    <3>2. HAVE b[y].pc \in Publishing
    <3>3. b[y].id \in Images /\ b[y].id # builds + 1
      BY <1>4, <3>2 DEF Images
    <3> QED
      BY <2>3, <3>3 DEF TypeOK
  <2> QED
    BY <1>2, <1>3, <2>1, <2>2, <2>4, QuietUnmoved
<1>7. ASSUME NEW x \in Builders, Provision(x)
      PROVE  Goal
  <2>1. b[x].pc = "provision" /\ name' = name /\ UNCHANGED images
    BY <1>7 DEF Provision
  <2>2. CASE Ends(x)
    <3>1. \A y \in Builders : b'[y] = b[y] \/ (b[y].pc \notin Publishing /\ b'[y].pc \notin Publishing)
      BY <2>1, <2>2 DEF Ends, Publishing
    <3> QED
      BY <1>2, <1>3, <2>1, <3>1, QuietUnmoved
  <2>3. CASE ~Ends(x)
    <3>1. Goes(x, "look")
      BY <1>7, <2>3, StepsOfBuild
    <3>2. raced' = (raced \/ \E y \in Builders \ {x} : b[y].pc \in Publishing)
      BY <1>7, <2>3, BuildRaisesEnds DEF Provision, BuildRaises
    <3>3. ~raced'
      BY DEF Quiet
    <3>4. \A y \in Builders : y # x => b[y].pc \notin Publishing
      BY <3>2, <3>3
    <3>5. b'[x].pc \in Publishing
      BY <3>1 DEF Goes, Publishing
    <3> QED
      BY <1>3, <1>7, <3>1, <3>4, <3>5, QuietProvision
  <2> QED
    BY <2>2, <2>3
<1>8. ASSUME NEW x \in Builders, Later(x)
      PROVE  Goal
  <2>1. b[x].pc \in Publishing
    BY <1>8 DEF Later, LookForOldGolden, UnlinkOldGolden, MoveGolden, LookForLink,
                UnlinkLink, MakeLink, SaveNvram, WriteProvenance, StopPublishing, Publishing
  <2>2. dir
    BY <1>2, <1>4, <2>1
  <2>3. /\ QuietPlace(x)'
        /\ Ends(x) => prov' # None /\ FilesAgree' /\ golden'[link'] # None
    BY <1>1, <1>2, <1>8, <2>2, QuietLater
  <2>4. \A y \in Builders : y # x => b'[y].pc \notin Publishing
    BY <1>2, <1>8, <2>1, LaterStays DEF Ends, Goes
  <2>5. \A y \in Builders : y # x => QuietPlace(y)'
    BY <2>4, Sides DEF QuietPlace, Publishing
  <2>6. Ends(x) \/ b'[x].pc \in Publishing
    BY <1>8, LaterStays DEF Goes
  <2> QED
    BY <2>3, <2>5, <2>6
<1> QED
  BY <1>5, <1>6, <1>7, <1>8 DEF Next, Build, Outside, Later

LEMMA QuietInvNext ==
  ASSUME TypeOK, BuildInv, ImageInv, ImagesStay, QuietInv, Next,
         ImageInv', EditInv', TypeOK'
  PROVE  QuietInv'
<1>1. prune'.count = 0 => ~prune'.on /\ (builds' > 0 => dir')
  BY DirectoryStays DEF QuietInv
<1>2. ~raced' => \A x, y \in Builders :
        b'[x].pc \in Publishing /\ b'[y].pc \in Publishing => x = y
  BY RaceIsSeen DEF QuietInv
<1>3. Quiet' => \A x \in Builders : QuietPlace(x)'
  BY QuietStep
<1>4. QuietFilesAgree'
  <2>1. CASE Quiet'
    <3>1. prov' # None /\ prov' \notin edited' =>
            digest' = name'[prov'] /\ source'[prov'] = name'[prov']
      BY DEF EditInv, ImageInv, TypeOK
    <3> QED
      BY <2>1, <3>1, QuietStep DEF QuietFilesAgree, FilesAgree
  <2>2. CASE ~Quiet'
    BY <2>2 DEF QuietFilesAgree, Quiet
  <2> QED
    BY <2>1, <2>2
<1> QED
  BY <1>1, <1>2, <1>3, <1>4 DEF QuietInv

-----------------------------------------------------------------------------
(* The invariant *)

LEMMA IInvInit == Init => IInv
<1> SUFFICES ASSUME Init PROVE IInv
  OBVIOUS
<1>1. /\ IdleBuild \in BuildRecord /\ IdleRun \in RunRecord
      /\ prune = [on |-> FALSE, todo |-> {}, count |-> 0] /\ prune \in PruneRecord
  BY BoundsAssumption DEF Init, IdleBuild, IdleRun, BuildRecord, RunRecord, PruneRecord,
     Image, Digest
<1>2. TypeOK
  <2>1. /\ builds \in 0..MaxBuilds /\ edits \in 0..MaxEdits /\ stops \in 0..MaxStops
        /\ nvram \in Image /\ prov \in Image
    BY BoundsAssumption DEF Init, Image
  <2>2. /\ golden \in [Recipes -> Image] /\ name \in [Images -> Digest]
        /\ source \in [Images -> Digest]
    BY DEF Init, Image, Digest
  <2>3. /\ b \in [Builders -> BuildRecord] /\ r \in [Runners -> RunRecord]
    BY <1>1 DEF Init
  <2>4. /\ recipe \in Recipes /\ link \in Digest /\ said \in Digest
        /\ digest \in Digest /\ edited \subseteq Images
    BY DEF Init, Digest
  <2>5. dir \in BOOLEAN /\ raced \in BOOLEAN
    BY DEF Init
  <2>6. published \subseteq Images /\ lost \subseteq Recipes
    BY DEF Init
  <2> QED
    BY <1>1, <2>1, <2>2, <2>3, <2>4, <2>5, <2>6 DEF TypeOK
<1>3. /\ \A x \in Builders : b[x].pc = "idle"
      /\ \A x \in Runners : r[x].pc = "idle" /\ r[x].booted = None /\ r[x].backing = NoLink
  BY DEF Init, IdleBuild, IdleRun
<1>4. BuildInv
  BY <1>3, RecipesAssumption DEF Init, BuildInv, Numbered, Publishing, Images
<1>5. ImageInv
  BY <1>3, Sides DEF Init, ImageInv, Publishing
<1>6. RunInv
  BY <1>3 DEF Init, RunInv
<1>7. AccountInv
  BY <1>3 DEF Init, AccountInv, Published
<1>8. QuietInv
  <2>1. \A x \in Builders : QuietPlace(x)
    BY <1>3, Sides DEF QuietPlace, Publishing
  <2>2. QuietFilesAgree
    BY DEF Init, QuietFilesAgree
  <2> QED
    BY <1>1, <1>3, <2>1, <2>2 DEF Init, QuietInv, Publishing
<1>9. EditInv
  BY <1>3 DEF Init, EditInv, Numbered, Publishing
<1> QED
  BY <1>2, <1>4, <1>5, <1>6, <1>7, <1>8, <1>9 DEF IInv

LEMMA IInvNext == IInv /\ Next => IInv'
<1> SUFFICES ASSUME IInv, Next PROVE IInv'
  OBVIOUS
<1>1. TypeOK /\ BuildInv /\ ImageInv /\ RunInv /\ AccountInv /\ EditInv /\ QuietInv
  BY DEF IInv
<1>2. TypeOK' /\ BuildInv' /\ ImageInv' /\ ImagesStay
  <2>1. CASE Outside
    BY <1>1, <2>1, TypeOutside, OutsideKeepsImages
  <2>2. ASSUME NEW x \in Builders, BeginBuild(x)
        PROVE  TypeOK' /\ BuildInv' /\ ImageInv' /\ ImagesStay
    BY <1>1, <2>2, TypeBuild, BuildInvBegin, ImageInvBegin
  <2>3. ASSUME NEW x \in Builders, Provision(x) \/ Later(x)
        PROVE  TypeOK' /\ BuildInv' /\ ImageInv' /\ ImagesStay
    BY <1>1, <2>3, TypeBuild, BuildInvLater, ImageInvLater
  <2> QED
    BY <2>1, <2>2, <2>3 DEF Next, Build, Outside, Later
<1>3. RunInv'
  <2>1. CASE \E x \in Runners : Run(x)
    BY <1>1, <2>1, RunInvRun
  <2>2. CASE ~\E x \in Runners : Run(x)
    <3>1. r' = r
      BY <2>2 DEF Next, Build, EditRecipe, Prune, PruneList, PruneUnlink, PruneRmdir,
                  ImageBuild, BeginBuild, Provision, LookForOldGolden, UnlinkOldGolden,
                  MoveGolden, LookForLink, UnlinkLink, MakeLink, SaveNvram, WriteProvenance,
                  StopPublishing
    <3> QED
      BY <1>1, <1>2, <3>1, RunInvStays
  <2> QED
    BY <2>1, <2>2
<1>4. AccountInv'
  BY <1>1, <1>2, AccountInvNext
<1>5. EditInv'
  BY <1>1, <1>2, EditInvNext
<1>6. QuietInv'
  BY <1>1, <1>2, <1>5, QuietInvNext
<1> QED
  BY <1>2, <1>3, <1>4, <1>5, <1>6 DEF IInv

LEMMA IInvStutter == IInv /\ UNCHANGED vars => IInv'
BY DEF IInv, vars, history, images, TypeOK, BuildInv, ImageInv, RunInv, AccountInv, EditInv,
       QuietInv, Published, Accounted, Name, Quiet, QuietPlace, FilesAgree, QuietFilesAgree

\* The invariant holds whatever builds, runs, prunes, edits and stops do, in any
\* order and number.
THEOREM Inductive == Spec => []IInv
<1>1. IInv /\ [Next]_vars => IInv'
  BY IInvNext, IInvStutter
<1> QED
  BY IInvInit, <1>1, PTL DEF Spec

\* Every variable keeps its type: a golden, the saved vars and the provenance are of
\* images that were begun under a digest (image_build.py, overlay.py, artifacts.py).
THEOREM TypeCorrect == Spec => []TypeOK
<1>1. IInv => TypeOK
  BY DEF IInv
<1> QED
  BY Inductive, <1>1, PTL

\* No golden vanishes unaccounted for: the digests the symlink, the last report
\* and the overlays name have one, or a prune or a stopped build took it, or a
\* build is between its unlink and its move.
THEOREM GoldensAreNotLost == Spec => []GoldenNotLost
<1>1. IInv => GoldenNotLost
  <2>1. SUFFICES ASSUME IInv, NEW d \in Recipes, golden[d] = None,
                        link = d \/ said = d \/ \E x \in Runners : r[x].backing = d
                 PROVE  d \in lost \/ \E x \in Builders : b[x].pc = "move" /\ Name(x) = d
    BY DEF GoldenNotLost
  <2>2. Published(d)
    BY <2>1, RecipesAssumption DEF IInv, AccountInv
  <2> QED
    BY <2>1, <2>2 DEF IInv, AccountInv, Accounted
<1> QED
  BY Inductive, <1>1, PTL

\* What a run boots was provisioned, and published under the digest it asked for.
THEOREM RunsBootProvisionedImages == Spec => []BootsProvisionedImage
<1>1. IInv => BootsProvisionedImage
  BY DEF IInv, RunInv, ImageInv, BootsProvisionedImage
<1> QED
  BY Inductive, <1>1, PTL

\* Between builds that publish one at a time, unstopped and unpruned, the symlink,
\* the saved vars and the provenance are of one build, and its golden is there.
\* The digest written with it (image_build.py:1112) and the recipe uploaded are the
\* golden's own, but for an edit of the recipe between the start of that build,
\* which fixes the name, and its end.
THEOREM FilesAgreeWhenQuiet == Spec => []QuietFilesAgree
<1>1. IInv => QuietFilesAgree
  BY DEF IInv, QuietInv
<1> QED
  BY Inductive, <1>1, PTL

-----------------------------------------------------------------------------
(* The files implement the registry *)

LEMMA InitRefines == Init => Registry!RegistryInit
<1> SUFFICES ASSUME Init PROVE Registry!RegistryInit
  OBVIOUS
<1>1. {i \in Images : source[i] # NoLink} = {}
  BY DEF Init
<1>2. [x \in Runners |-> r[x].booted] = [x \in Runners |-> None]
  BY DEF Init, IdleRun
<1> QED
  BY <1>1, <1>2 DEF Init, Registry!RegistryInit

\* The registry as the mapping reads it from the store.
RegistryStands ==
  /\ UNCHANGED <<published, golden>>
  /\ \A i \in Images : source'[i] # NoLink <=> source[i] # NoLink
  /\ \A x \in Runners : r'[x].booted = r[x].booted

LEMMA StandingIsStuttering ==
  ASSUME RegistryStands
  PROVE  UNCHANGED Registry!regVars
<1>1. {i \in Images : source'[i] # NoLink} = {i \in Images : source[i] # NoLink}
  BY DEF RegistryStands
<1>2. [x \in Runners |-> r'[x].booted] = [x \in Runners |-> r[x].booted]
  BY DEF RegistryStands
<1> QED
  BY <1>1, <1>2 DEF RegistryStands, Registry!regVars

\* A run that ends closes its image; one that boots opens what is registered.
LEMMA RunRefines ==
  ASSUME IInv, NEW x \in Runners, Run(x)
  PROVE  Registry!RegistryNext \/ RegistryStands
<1>1. /\ \A y \in Runners : y # x => r'[y] = r[y]
      /\ RunEnds(x) \/ RunGoesOn(x) \/ RunBoots(x)
      /\ UNCHANGED <<golden, published, source>>
  BY StepsOfRun DEF IInv, images, history
<1>2. CASE RunEnds(x)
  <2>1. \A y \in Runners : r'[y].booted = IF y = x THEN None ELSE r[y].booted
    BY <1>1, <1>2 DEF RunEnds, IdleRun
  <2>2. [y \in Runners |-> r'[y].booted]
          = [[y \in Runners |-> r[y].booted] EXCEPT ![x] = None]
    BY <2>1
  <2>3. Registry!Close(x)
    BY <1>1, <2>2 DEF Registry!Close
  <2> QED
    BY <2>3 DEF Registry!RegistryNext
<1>3. CASE RunGoesOn(x)
  BY <1>1, <1>3 DEF RunGoesOn, RegistryStands
<1>4. CASE RunBoots(x)
  <2>1. PICK d \in Recipes : d = r[x].backing
    BY <1>4 DEF RunBoots, IInv, RunInv
  <2>2. r[x].booted = None /\ golden[d] # None
    BY <1>4, <2>1 DEF RunBoots, IInv, RunInv
  <2>3. [y \in Runners |-> r'[y].booted]
          = [[y \in Runners |-> r[y].booted] EXCEPT ![x] = golden[d]]
    BY <1>1, <1>4, <2>1 DEF RunBoots
  <2>4. Registry!BootFrom(x, d)
    BY <1>1, <2>2, <2>3 DEF Registry!BootFrom
  <2> QED
    BY <2>4 DEF Registry!RegistryNext
<1> QED
  BY <1>1, <1>2, <1>3, <1>4

\* An unlink of rmtree removes a digest, or nothing the registry knows.
LEMMA PruneRefines ==
  ASSUME IInv, Prune
  PROVE  Registry!RegistryNext \/ RegistryStands
<1>1. UNCHANGED <<published, source, r>>
  BY DEF Prune, PruneList, PruneUnlink, PruneRmdir, history
<1>2. CASE PruneUnlink
  <2>1. PICK e \in prune.todo :
          \/ golden' = [d \in Recipes |-> IF e = GoldenEntry(d) THEN None ELSE golden[d]]
          \/ golden' = golden
    BY <1>2 DEF PruneUnlink, images
  <2>2. golden \in [Recipes -> Image]
    BY DEF IInv, TypeOK
  <2>3. ASSUME NEW d \in Recipes, e = GoldenEntry(d), golden' # golden
        PROVE  Registry!RegistryNext
    <3>1. \A f \in Recipes : e = GoldenEntry(f) <=> f = d
      BY <2>3 DEF GoldenEntry
    <3>2. golden' = [golden EXCEPT ![d] = None]
      BY <2>1, <2>2, <2>3, <3>1
    <3>3. Registry!Remove(d)
      BY <1>1, <3>2 DEF Registry!Remove
    <3> QED
      BY <3>3 DEF Registry!RegistryNext
  <2>4. CASE ~\E d \in Recipes : e = GoldenEntry(d)
    <3>1. golden' = golden
      BY <2>1, <2>2, <2>4
    <3> QED
      BY <1>1, <3>1 DEF RegistryStands
  <2>5. CASE golden' = golden
    BY <1>1, <2>5 DEF RegistryStands
  <2> QED
    BY <2>3, <2>4, <2>5
<1>3. CASE PruneList \/ PruneRmdir
  BY <1>1, <1>3 DEF PruneList, PruneRmdir, images, RegistryStands
<1> QED
  BY <1>2, <1>3 DEF Prune

\* Provisioning makes an image, the unlink of the old golden removes a digest, the
\* move publishes; the rest of a build is nothing to the registry.
LEMMA BuildRefines ==
  ASSUME IInv, NEW x \in Builders, Build(x)
  PROVE  Registry!RegistryNext \/ RegistryStands
<1>1. r' = r
  BY DEF Build, ImageBuild, BeginBuild, Provision, LookForOldGolden, UnlinkOldGolden,
         MoveGolden, LookForLink, UnlinkLink, MakeLink, SaveNvram, WriteProvenance,
         StopPublishing
<1>2. b[x].pc \in Numbered => b[x].id \in Images /\ b[x].id # None /\ Name(x) \in Recipes
  BY NumberedHasName DEF IInv
<1>3. source \in [Images -> Digest] /\ golden \in [Recipes -> Image] /\ recipe \in Recipes
  BY DEF IInv, TypeOK
<1>4. CASE Provision(x)
  <2>1. UNCHANGED <<published, golden>>
    BY <1>4 DEF Provision, images
  <2>2. CASE source' = source
    BY <1>1, <2>1, <2>2 DEF RegistryStands
  <2>3. CASE source' # source
    <3>1. PICK i \in Images : source' = [source EXCEPT ![i] = recipe]
      BY <1>2, <1>4, <2>3 DEF Provision, Numbered
    <3>2. recipe # NoLink
      BY <1>3, RecipesAssumption
    <3>3. {j \in Images : source'[j] # NoLink} = {j \in Images : source[j] # NoLink} \cup {i}
      BY <1>3, <3>1, <3>2
    <3>4. Registry!Make(i)
      BY <1>1, <2>1, <3>3 DEF Registry!Make
    <3> QED
      BY <3>4 DEF Registry!RegistryNext
  <2> QED
    BY <2>2, <2>3
<1>5. CASE UnlinkOldGolden(x)
  <2>1. UNCHANGED <<published, source>> /\ Name(x) \in Recipes
    BY <1>2, <1>5 DEF UnlinkOldGolden, history, Numbered, Publishing
  <2>2. CASE golden[Name(x)] # None
    <3>1. Registry!Remove(Name(x))
      BY <1>1, <1>5, <2>1, <2>2 DEF UnlinkOldGolden, Registry!Remove
    <3> QED
      BY <2>1, <3>1 DEF Registry!RegistryNext
  <2>3. CASE golden[Name(x)] = None
    BY <1>1, <1>5, <2>1, <2>3 DEF UnlinkOldGolden, RegistryStands
  <2> QED
    BY <2>2, <2>3
<1>6. CASE MoveGolden(x)
  <2>1. UNCHANGED source
    BY <1>6 DEF MoveGolden
  <2>2. CASE dir
    <3>1. /\ b[x].id \in Images /\ Name(x) \in Recipes
          /\ source[b[x].id] # NoLink /\ b[x].id \notin published
      BY <1>2, <1>6 DEF MoveGolden, Numbered, Publishing, IInv, ImageInv, Unmoved
    <3>2. Registry!Publish(Name(x), b[x].id)
      BY <1>1, <1>6, <2>1, <2>2, <3>1 DEF MoveGolden, Registry!Publish
    <3> QED
      BY <3>1, <3>2 DEF Registry!RegistryNext
  <2>3. CASE ~dir
    BY <1>1, <1>6, <2>1, <2>3 DEF MoveGolden, RegistryStands
  <2> QED
    BY <2>2, <2>3
<1>7. CASE ~Provision(x) /\ ~UnlinkOldGolden(x) /\ ~MoveGolden(x)
  <2>1. UNCHANGED <<published, golden, source>>
    BY <1>7 DEF Build, ImageBuild, BeginBuild, LookForOldGolden, LookForLink, UnlinkLink,
                MakeLink, SaveNvram, WriteProvenance, StopPublishing, images, history
  <2> QED
    BY <1>1, <2>1 DEF RegistryStands
<1> QED
  BY <1>4, <1>5, <1>6, <1>7

LEMMA NextRefines ==
  ASSUME IInv, [Next]_vars
  PROVE  [Registry!RegistryNext]_(Registry!regVars)
<1>1. CASE EditRecipe \/ UNCHANGED vars
  <2>1. RegistryStands
    BY <1>1 DEF EditRecipe, vars, images, history, RegistryStands
  <2> QED
    BY <2>1, StandingIsStuttering
<1>2. Next => EditRecipe \/ Registry!RegistryNext \/ RegistryStands
  BY RunRefines, PruneRefines, BuildRefines DEF Next
<1> QED
  BY <1>1, <1>2, StandingIsStuttering

\* The nine file operations of a build, among those of other builds, runs and
\* prunes, implement a registry that publishes whole images at most once.
THEOREM StoreImplementsRegistry == Spec => ImplementsRegistry
<1> QED
  BY Inductive, InitRefines, NextRefines, PTL DEF Spec, ImplementsRegistry, Registry!RegistrySpec

\* And so it keeps the registry's promise: every golden was made and published, and
\* none is under two digests.
THEOREM StoreKeepsThePromise == Spec => []Registry!RegistryInv
<1>1. IInv => Registry!RegistryInv
  <2> SUFFICES ASSUME IInv PROVE Registry!RegistryInv
    OBVIOUS
  <2>1. published \subseteq {i \in Images : source[i] # NoLink}
    BY DEF IInv, ImageInv, TypeOK
  <2>2. golden \in [Recipes -> published \cup {None}]
    BY DEF IInv, ImageInv, TypeOK
  <2>3. [x \in Runners |-> r[x].booted] \in [Runners -> published \cup {None}]
    BY DEF IInv, RunInv
  <2>4. \A d, e \in Recipes : golden[d] = golden[e] /\ golden[d] # None => d = e
    BY DEF IInv, ImageInv
  <2> QED
    BY <2>1, <2>2, <2>3, <2>4 DEF Registry!RegistryInv
<1> QED
  BY Inductive, <1>1, PTL
=============================================================================
