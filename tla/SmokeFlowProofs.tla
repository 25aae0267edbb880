-------------------------- MODULE SmokeFlowProofs --------------------------
(***************************************************************************)
(* The safety properties of SmokeFlow hold for any set of releases, any    *)
(* version updated from and any of the flows.                              *)
(*                                                                         *)
(* IInv is inductive.  An entry of the plan leaves the flow, or goes on    *)
(* with or without a record; what is behind the flow follows from the      *)
(* plan, which the prover unfolds flow by flow.                            *)
(***************************************************************************)
EXTENDS SmokeFlow, SequenceTheorems, TLAPS

-----------------------------------------------------------------------------
(* The plan *)

LEMMA PlanLengths ==
  /\ Len(Plan["session"]) = 2 /\ Len(Plan["bindings"]) = 5 /\ Len(Plan["install"]) = 9
  /\ Len(Plan["update"]) = 15 /\ Len(Plan["live"]) = 5
BY DEF Plan

LEMMA Plans ==
  ASSUME TypeOK
  PROVE  /\ DOMAIN Plan = {"session", "bindings", "install", "update", "live"}
         /\ flow \in DOMAIN Plan
         /\ Len(Plan[flow]) \in Nat \ {0}
         /\ at \in 1..(Len(Plan[flow]) + 1)
<1>1. DOMAIN Plan = {"session", "bindings", "install", "update", "live"}
  BY DEF Plan
<1>2. flow \in {"session", "bindings", "install", "update", "live"}
  BY FlowsAssumption DEF TypeOK
<1>3. Len(Plan[flow]) \in {2, 5, 9, 15}
  BY <1>2, PlanLengths
<1>4. Len(Plan[flow]) \in Nat \ {0}
  <2>1. {2, 5, 9, 15} \subseteq Nat \ {0}
    OBVIOUS
  <2> QED
    BY <1>3, <2>1, Zenon
<1>5. at \in 1..(Len(Plan[flow]) + 1)
  BY DEF TypeOK
<1> QED
  BY <1>1, <1>2, <1>4, <1>5

\* Where --install-from is when it has this or that behind it.
LEMMA PlacesOfInstall ==
  ASSUME flow = "install", at \in 1..10
  PROVE  /\ Len(Plan[flow]) = 9
         /\ Behind("resolve") <=> at > 1
         /\ Behind("install") <=> at > 3
         /\ Behind("version") <=> at > 4
         /\ Behind("launch") <=> at > 6
         /\ Here = "resolve" <=> at = 1
         /\ Here = "install" <=> at = 3
         /\ Here = "version" <=> at = 4
         /\ Here = "launch" <=> at = 6
         /\ Here = "window" <=> at = 8
         /\ Here = "about-version" <=> at = 9
         /\ Here \notin {"install-previous", "version-previous", "update", "quit",
                         "install-live", "fixtures", "runtime-deps", "launch-at", "screenshot",
                         "about-version-before", "about-version-after"}
BY DEF Plan, Behind, Here

\* Where --update-from is.
LEMMA PlacesOfUpdate ==
  ASSUME flow = "update", at \in 1..16
  PROVE  /\ Len(Plan[flow]) = 15
         /\ Behind("resolve") <=> at > 1
         /\ Behind("install-previous") <=> at > 3
         /\ Behind("update") <=> at > 9
         /\ Behind("version") <=> at > 10
         /\ Relaunched <=> at > 12
         /\ Here = "resolve" <=> at = 1
         /\ Here = "install-previous" <=> at = 3
         /\ Here = "version-previous" <=> at = 4
         /\ Here = "launch" <=> at \in {5, 12}
         /\ Here = "about-version-before" <=> at = 7
         /\ Here = "update" <=> at = 9
         /\ Here = "version" <=> at = 10
         /\ Here = "window" <=> at = 14
         /\ Here = "about-version-after" <=> at = 15
         /\ Here \notin {"install", "install-live", "fixtures", "runtime-deps", "launch-at",
                         "screenshot", "about-version"}
BY DEF Plan, Behind, Here, Relaunched

\* The same for the place n the flow comes to.
LEMMA UpdatePassed ==
  ASSUME NEW n \in 1..16
  PROVE  /\ (\E i \in 1..(n - 1) : Plan["update"][i] = "install-previous") <=> n > 3
         /\ (\E i \in 1..(n - 1) : Plan["update"][i] = "update") <=> n > 9
         /\ (\/ n <= 15 /\ Plan["update"][n] = "poll"
             \/ \E i \in 1..(n - 1) : Plan["update"][i] = "poll") <=> n > 12
BY DEF Plan

\* The other flows ask for no CLI version.
LEMMA PlacesOfOthers ==
  ASSUME TypeOK, flow \notin {"install", "update"}
  PROVE  Here # "version" /\ ~Behind("version")
<1>1. at \in 1..(Len(Plan[flow]) + 1) /\ flow \in {"session", "bindings", "live"}
  BY Plans
<1>2. CASE flow = "session"
  <2>1. at \in 1..3
    BY <1>1, <1>2, PlanLengths
  <2> QED
    BY <1>2, <2>1 DEF Plan, Here, Behind
<1>3. CASE flow = "bindings"
  <2>1. at \in 1..6
    BY <1>1, <1>3, PlanLengths
  <2> QED
    BY <1>3, <2>1 DEF Plan, Here, Behind
<1>4. CASE flow = "live"
  <2>1. at \in 1..6
    BY <1>1, <1>4, PlanLengths
  <2> QED
    BY <1>4, <2>1 DEF Plan, Here, Behind
<1> QED
  BY <1>1, <1>2, <1>3, <1>4

LEMMA Lengths ==
  ASSUME TypeOK
  PROVE  /\ flow = "install" => at \in 1..10
         /\ flow = "update" => at \in 1..16
<1>1. at \in 1..(Len(Plan[flow]) + 1)
  BY Plans
<1>2. ASSUME flow = "install" PROVE at \in 1..10
  <2>1. Len(Plan[flow]) = 9
    BY <1>2, PlanLengths
  <2> QED
    BY <1>1, <2>1
<1>3. ASSUME flow = "update" PROVE at \in 1..16
  <2>1. Len(Plan[flow]) = 15
    BY <1>3, PlanLengths
  <2> QED
    BY <1>1, <2>1
<1> QED
  BY <1>2, <1>3

-----------------------------------------------------------------------------
(* How an entry ends *)

\* An exception; or the next entry, with or without a record of this one.
Leaves == exc' \in {"listed", "other"} /\ UNCHANGED <<at, steps, reported>>
Records(status) == steps' = Append(steps, <<Here, status>>) /\ Advance
GoesOn == Advance /\ (steps' = steps \/ Records("pass") \/ Records("skip"))
Waits == UNCHANGED <<at, exc, steps, reported>>

LEMMA EntryEnds ==
  ASSUME Next
  PROVE  /\ Running /\ UNCHANGED choice
         /\ Leaves \/ GoesOn \/ Waits
<1>1. Running /\ UNCHANGED choice
  BY DEF Next, InstallLive, PrepareLive, LaunchAt, Resolve, Look, Install, VersionOracle,
         Launch, WaitWindow, PollWindow, Screenshot, About, Quit, AppExits, PublishRelease
<1>2. /\ Pass => GoesOn
      /\ Skip => GoesOn
      /\ Quietly => GoesOn
      /\ LeaveSomehow => Leaves
      /\ Leave("listed") => Leaves
      /\ Leave("other") => Leaves
  BY DEF Pass, Skip, Quietly, LeaveSomehow, Leave, GoesOn, Records, Record, Leaves
<1>3. CASE InstallLive \/ PrepareLive \/ LaunchAt \/ Resolve \/ Look
  BY <1>2, <1>3 DEF InstallLive, PrepareLive, LaunchAt, Resolve, Look
<1>4. CASE Install \/ VersionOracle \/ Launch \/ WaitWindow \/ PollWindow
  BY <1>2, <1>4 DEF Install, VersionOracle, Launch, WaitWindow, PollWindow
<1>5. CASE Screenshot \/ About \/ Quit
  BY <1>2, <1>5 DEF Screenshot, About, Quit, GrabFails
<1>6. CASE AppExits \/ PublishRelease
  BY <1>6 DEF AppExits, PublishRelease, Waits
<1> QED
  BY <1>1, <1>3, <1>4, <1>5, <1>6 DEF Next

\* A record is of the entry the flow is in.
LEMMA RecordsHere ==
  ASSUME TypeOK, NEW status, NEW s, steps' = Append(steps, <<Here, status>>)
  PROVE  StatusOf(s)' = IF Here = s THEN StatusOf(s) \cup {status} ELSE StatusOf(s)
<1>1. steps \in Seq(StepNames \X {"pass", "skip"})
  BY DEF TypeOK
<1>2. Len(steps) \in Nat /\ Len(steps') = Len(steps) + 1
  BY <1>1
<1>3. /\ \A i \in 1..Len(steps) : steps'[i] = steps[i]
      /\ steps'[Len(steps) + 1] = <<Here, status>>
  BY <1>1
<1>4. StatusOf(s)' = {steps'[i][2] : i \in {i \in 1..Len(steps') : steps'[i][1] = s}}
  BY DEF StatusOf
<1>5. ASSUME NEW v
      PROVE  v \in StatusOf(s)' <=> v \in StatusOf(s) \/ (Here = s /\ v = status)
  <2>1. v \in StatusOf(s)' <=> \E i \in 1..(Len(steps) + 1) : steps'[i][1] = s /\ v = steps'[i][2]
    BY <1>2, <1>4
  <2>2. v \in StatusOf(s) <=> \E i \in 1..Len(steps) : steps[i][1] = s /\ v = steps[i][2]
    BY DEF StatusOf
  <2> QED
    BY <1>2, <1>3, <2>1, <2>2
<1> QED
  BY <1>5

\* What is behind the flow after an entry: that entry, and what was before.
LEMMA BehindGrows ==
  ASSUME TypeOK, Next, NEW s
  PROVE  /\ Leaves \/ Waits => (Behind(s)' <=> Behind(s))
         /\ GoesOn => (Behind(s)' <=> Behind(s) \/ Here = s)
<1>1. at \in Nat \ {0} /\ flow' = flow /\ Here = Plan[flow][at]
  BY EntryEnds, Plans DEF choice, Running, Here
<1>2. Leaves \/ Waits => at' = at
  BY DEF Leaves, Waits
<1>3. GoesOn => at' = at + 1
  BY DEF GoesOn, Advance
<1>4. Leaves \/ Waits => (Behind(s)' <=> Behind(s))
  BY <1>1, <1>2 DEF Behind
<1>5. ASSUME GoesOn PROVE Behind(s)' <=> Behind(s) \/ Here = s
  <2>1. Behind(s)' <=> \E i \in 1..at : Plan[flow][i] = s
    BY <1>1, <1>3, <1>5 DEF Behind
  <2>2. 1..at = 1..(at - 1) \cup {at}
    BY <1>1
  <2> QED
    BY <1>1, <2>1, <2>2 DEF Behind
<1> QED
  BY <1>4, <1>5

LEMMA HereIsStep ==
  ASSUME TypeOK, Running
  PROVE  Here \in StepNames /\ at \in 1..Len(Plan[flow])
<1>1. at \in 1..Len(Plan[flow]) /\ Here = Plan[flow][at] /\ flow \in DOMAIN Plan
  <2>1. at \in 1..(Len(Plan[flow]) + 1) /\ Len(Plan[flow]) \in Nat /\ flow \in DOMAIN Plan
    BY Plans
  <2>2. Here # "returned"
    BY DEF Running
  <2> QED
    BY <2>1, <2>2 DEF Here
<1>2. Here \in {Plan[flow][i] : i \in 1..Len(Plan[flow])}
  BY <1>1
<1> QED
  BY <1>1, <1>2 DEF StepNames

-----------------------------------------------------------------------------
(* The flow's record *)

LEMMA StepsInvNext ==
  ASSUME TypeOK, StepsInv, Next
  PROVE  /\ StepsInv'
         /\ at' \in 1..(Len(Plan[flow]) + 1)
         /\ steps' \in Seq(StepNames \X {"pass", "skip"})
         /\ reported' \in {<<>>, steps'}
         /\ exc' \in {"none", "listed", "other"}
<1>1. /\ Running /\ UNCHANGED choice
      /\ Leaves \/ GoesOn \/ Waits
  BY EntryEnds
<1>2. /\ at \in 1..Len(Plan[flow]) /\ Len(Plan[flow]) \in Nat /\ Here \in StepNames
      /\ reported = <<>>
  BY <1>1, HereIsStep, Plans DEF StepsInv
<1>3. steps \in Seq(StepNames \X {"pass", "skip"}) /\ exc \in {"none", "listed", "other"}
  BY DEF TypeOK
<1>4. CASE Leaves \/ Waits
  <2>1. UNCHANGED <<at, steps, reported, flow, archive>> /\ exc' \in {"none", "listed", "other"}
    BY <1>1, <1>3, <1>4 DEF Leaves, Waits, choice
  <2>2. StepsInv'
    BY <2>1 DEF StepsInv, Behind
  <2> QED
    BY <1>2, <1>3, <2>1, <2>2
<1>5. CASE GoesOn
  <2>1. /\ at' = at + 1 /\ exc' = exc /\ UNCHANGED <<flow, archive>>
        /\ reported' = IF at = Len(Plan[flow]) THEN steps' ELSE reported
    BY <1>1, <1>5 DEF GoesOn, Advance, choice
  <2>2. /\ at' \in 1..(Len(Plan[flow]) + 1)
        /\ reported' \in {<<>>, steps'}
        /\ at' <= Len(Plan[flow]) => reported' = <<>>
    BY <1>2, <2>1
  <2>3. CASE steps' = steps
    <3>1. ASSUME NEW i \in 1..Len(steps'), NEW s, s = steps'[i][1]
          PROVE  Behind(s)'
      BY <1>5, <2>3, <3>1, BehindGrows DEF StepsInv
    <3> QED
      BY <1>3, <2>1, <2>2, <2>3, <3>1 DEF StepsInv, Behind
  <2>4. ASSUME NEW status \in {"pass", "skip"}, Records(status)
        PROVE  /\ steps' \in Seq(StepNames \X {"pass", "skip"})
               /\ \A i \in 1..Len(steps') : Behind(steps[i][1])'
    <3>1. steps' = Append(steps, <<Here, status>>)
      BY <2>4 DEF Records
    <3>2. steps' \in Seq(StepNames \X {"pass", "skip"})
      BY <1>2, <1>3, <3>1
    <3>3. Len(steps) \in Nat /\ Len(steps') = Len(steps) + 1
          /\ (\A i \in 1..Len(steps) : steps'[i] = steps[i])
          /\ steps'[Len(steps) + 1] = <<Here, status>>
      BY <1>3, <3>1
    <3>4. ASSUME NEW i \in 1..Len(steps'), NEW s, s = steps'[i][1]
          PROVE  Behind(s)'
      <4>1. CASE i = Len(steps) + 1
        BY <1>5, <3>3, <3>4, <4>1, BehindGrows
      <4>2. CASE i # Len(steps) + 1
        <5>1. i \in 1..Len(steps) /\ s = steps[i][1]
          BY <3>3, <3>4, <4>2
        <5> QED
          BY <1>5, <5>1, BehindGrows DEF StepsInv
      <4> QED
        BY <4>1, <4>2
    <3>5. \A i \in 1..Len(steps') : Behind(steps[i][1])'
      BY <3>4 DEF Behind
    <3> QED
      BY <3>2, <3>5
  <2>5. CASE Records("pass") \/ Records("skip")
    BY <1>3, <2>1, <2>2, <2>4, <2>5 DEF StepsInv
  <2> QED
    BY <1>5, <2>3, <2>5, <1>3, <2>1, <2>2 DEF GoesOn
<1> QED
  BY <1>1, <1>4, <1>5

-----------------------------------------------------------------------------
(* Pictures *)

PictureRecord == [shows: Version, taken: BOOLEAN]

\* A screenshot shows the screen, or what the remote file held already.
LEMMA Grabs ==
  ASSUME TypeOK, NEW f \in Pictures, Grab(f)
  PROVE  /\ pics' \in [Pictures -> PictureRecord] /\ remote' \in PictureRecord
         /\ silent' \in BOOLEAN
         /\ \A g \in Pictures : g # f => pics'[g] = pics[g]
         /\ pics'[f].taken
         /\ pics'[f].shows \in {app, remote.shows}
         /\ remote'.shows \in {app, remote.shows}
         /\ silent => silent'
         /\ ~silent' => pics'[f].shows = app
<1> DEFINE screen == [shows |-> app, taken |-> TRUE]
<1>1. /\ pics \in [Pictures -> PictureRecord] /\ remote \in PictureRecord
      /\ app \in Version /\ silent \in BOOLEAN
  BY DEF TypeOK, PictureRecord
<1>2. screen \in PictureRecord /\ screen.shows = app /\ screen.taken
  BY <1>1 DEF PictureRecord
<1>3. \/ pics' = [pics EXCEPT ![f] = screen] /\ remote' \in {remote, screen} /\ silent' = silent
      \/ remote.taken /\ pics' = [pics EXCEPT ![f] = remote] /\ remote' = remote /\ silent' = TRUE
  BY DEF Grab
<1> HIDE DEF screen
<1>4. CASE pics' = [pics EXCEPT ![f] = screen] /\ remote' \in {remote, screen} /\ silent' = silent
  BY <1>1, <1>2, <1>4
<1>5. CASE remote.taken /\ pics' = [pics EXCEPT ![f] = remote] /\ remote' = remote /\ silent' = TRUE
  BY <1>1, <1>5
<1> QED
  BY <1>3, <1>4, <1>5

\* Which picture an entry can take.
Shoots(f) ==
  \/ f = "screenshot" /\ Here \in {"screenshot", "window"}
  \/ f = "about" /\ Here = "about-version"
  \/ f = "before" /\ Here = "about-version-before"
  \/ f = "after" /\ Here = "about-version-after"

LEMMA ShotsStep ==
  ASSUME TypeOK, Next
  PROVE  \/ UNCHANGED shots
         \/ \E f \in Pictures : Grab(f) /\ Shoots(f) /\ UNCHANGED guest
<1>1. CASE Screenshot
  BY <1>1 DEF Screenshot, GrabFails, Pictures, Shoots
<1>2. CASE About
  <2>1. UNCHANGED shots \/ Grab(AboutPicture)
    BY <1>2 DEF About, GrabFails
  <2>2. AboutPicture \in Pictures /\ Shoots(AboutPicture)
    BY <1>2 DEF About, AboutPicture, Pictures, Shoots
  <2> QED
    BY <1>2, <2>1, <2>2 DEF About
<1>3. CASE ~Screenshot /\ ~About
  BY <1>3 DEF Next, InstallLive, PrepareLive, LaunchAt, Resolve, Look, Install, VersionOracle,
         Launch, WaitWindow, PollWindow, Quit, AppExits, PublishRelease, shots
<1> QED
  BY <1>1, <1>2, <1>3

-----------------------------------------------------------------------------
(* Types *)

LEMMA TypeNext ==
  ASSUME TypeOK, StepsInv, Next
  PROVE  TypeOK'
<1>1. /\ flow' = flow /\ archive' = archive
      /\ at' \in 1..(Len(Plan[flow]) + 1)
      /\ steps' \in Seq(StepNames \X {"pass", "skip"})
      /\ reported' \in {<<>>, steps'}
      /\ exc' \in {"none", "listed", "other"}
  BY StepsInvNext, EntryEnds DEF choice
<1>2. /\ Releases \subseteq Version /\ From \in Version /\ Nothing \in Version
      /\ release \in Version /\ intended \in Version /\ bin \in Version /\ app \in Version
  BY DEF Version, TypeOK
<1>3. intended' \in Version /\ release' \in Version
  BY <1>2 DEF Next, InstallLive, PrepareLive, LaunchAt, Resolve, Look, Install, VersionOracle,
     Launch, WaitWindow, PollWindow, Screenshot, About, Quit, AppExits, PublishRelease
<1>4. bin' \in Version
  BY <1>2 DEF Next, InstallLive, PrepareLive, LaunchAt, Resolve, Look, Install, VersionOracle,
     Launch, WaitWindow, PollWindow, Screenshot, About, Quit, AppExits, PublishRelease, guest,
     Installed
<1>5. app' \in Version
  BY <1>2 DEF Next, InstallLive, PrepareLive, LaunchAt, Resolve, Look, Install, VersionOracle,
     Launch, WaitWindow, PollWindow, Screenshot, About, Quit, AppExits, PublishRelease, guest
<1>6. /\ pics' \in [Pictures -> PictureRecord] /\ remote' \in PictureRecord
      /\ silent' \in BOOLEAN
  BY ShotsStep, Grabs DEF shots, TypeOK, PictureRecord
<1>7. windowError' \in BOOLEAN /\ outlived' \in BOOLEAN
  BY DEF Next, InstallLive, PrepareLive, LaunchAt, Resolve, Look, Install, VersionOracle,
     Launch, WaitWindow, PollWindow, Screenshot, About, Quit, AppExits, PublishRelease, TypeOK
<1>8. flow \in Flows /\ archive \in BOOLEAN
  BY DEF TypeOK
<1> QED
  BY <1>1, <1>3, <1>4, <1>5, <1>6, <1>7, <1>8 DEF TypeOK, PictureRecord, Version, StepNames

-----------------------------------------------------------------------------
(* What an entry changes if the flow stays on its plan *)

LEMMA StaysOnPlan ==
  ASSUME TypeOK, Next, exc' = "none"
  PROVE  /\ exc = "none"
         /\ (GoesOn /\ at' = at + 1) \/ (Waits /\ at' = at)
<1>1. exc = "none" /\ (Leaves \/ GoesOn \/ Waits)
  BY EntryEnds DEF Running
<1>2. ~Leaves
  BY DEF Leaves
<1> QED
  BY <1>1, <1>2 DEF GoesOn, Advance, Waits

LEMMA StatusBefore ==
  ASSUME StepsInv, NEW s, ~Behind(s)
  PROVE  StatusOf(s) = {}
BY DEF StepsInv, StatusOf

LEMMA StatusStays ==
  ASSUME TypeOK, Next, NEW s, Here # s
  PROVE  StatusOf(s)' = StatusOf(s)
<1>1. CASE steps' = steps
  BY <1>1 DEF StatusOf
<1>2. CASE Records("pass") \/ Records("skip")
  BY <1>2, RecordsHere DEF Records
<1> QED
  BY <1>1, <1>2, EntryEnds DEF GoesOn, Leaves, Waits

\* The binary is replaced by the entries that install, with what they install.
LEMMA BinStep ==
  ASSUME TypeOK, Next, exc' = "none"
  PROVE  /\ Here \notin {"install", "install-previous", "update", "install-live"} => bin' = bin
         /\ Waits => bin' = bin
         /\ GoesOn /\ Here \in {"install", "install-previous", "update"} => bin' \in Installed
<1>1. at' # at => ~Waits
  BY DEF Waits
<1>2. at \in Nat /\ (GoesOn => at' = at + 1)
  BY Plans DEF GoesOn, Advance
<1>3. LeaveSomehow => exc' # "none"
  BY DEF LeaveSomehow, Leave
<1>4. Pass => at' = at + 1
  BY DEF Pass, Advance
<1>5. Here \notin {"install", "install-previous", "update", "install-live"} => bin' = bin
  BY DEF Next, InstallLive, PrepareLive, LaunchAt, Resolve, Look, Install, VersionOracle,
     Launch, WaitWindow, PollWindow, Screenshot, About, Quit, AppExits, PublishRelease, guest
<1>6. ASSUME Waits PROVE bin' = bin
  BY <1>1, <1>2, <1>3, <1>4, <1>6 DEF Next, InstallLive, PrepareLive, LaunchAt, Resolve, Look,
     Install, VersionOracle, Launch, WaitWindow, PollWindow, Screenshot, About, Quit, AppExits,
     PublishRelease, guest
<1>7. ASSUME GoesOn, Here \in {"install", "install-previous", "update"} PROVE bin' \in Installed
  <2>1. ~AppExits /\ ~PublishRelease
    BY <1>2, <1>7 DEF AppExits, PublishRelease
  <2>2. Install
    BY <1>7, <2>1 DEF Next, InstallLive, PrepareLive, LaunchAt, Resolve, Look, Looks,
       VersionOracle, Launch, WaitWindow, PollWindow, Screenshot, About, Quit
  <2> QED
    BY <1>3, <2>2 DEF Install
<1> QED
  BY <1>5, <1>6, <1>7

\* The Strata that runs goes at any time; it comes at a launch.
LEMMA AppStep ==
  ASSUME TypeOK, Next
  PROVE  /\ \/ app' \in {app, Nothing}
            \/ Here = "launch" /\ app' = bin /\ app = Nothing /\ ~Waits
            \/ Here = "launch-at"
         /\ outlived => outlived'
         /\ Here = "launch" /\ GoesOn => outlived' = (outlived \/ app # Nothing)
<1>1. at \in Nat /\ (GoesOn => at' = at + 1) /\ (Waits => at' = at /\ exc' = exc)
  BY Plans DEF GoesOn, Advance, Waits
<1>2. Running => exc = "none"
  BY DEF Running
<1>3. /\ LeaveSomehow => exc' # "none"
      /\ Leave("other") => exc' # "none" /\ at' = at
      /\ Quietly => at' = at + 1
  BY DEF LeaveSomehow, Leave, Quietly, Advance
<1>4. \/ app' \in {app, Nothing}
      \/ Here = "launch" /\ app' = bin /\ app = Nothing /\ ~Waits
      \/ Here = "launch-at"
  BY <1>1, <1>2, <1>3 DEF Next, InstallLive, PrepareLive, LaunchAt, Resolve, Look, Install, VersionOracle,
     Launch, WaitWindow, PollWindow, Screenshot, About, Quit, AppExits, PublishRelease, guest
<1>5. ASSUME Here = "launch", GoesOn PROVE outlived' = (outlived \/ app # Nothing)
  <2>1. ~AppExits /\ ~PublishRelease
    BY <1>1, <1>5 DEF AppExits, PublishRelease
  <2>2. Launch
    BY <1>5, <2>1 DEF Next, InstallLive, PrepareLive, LaunchAt, Resolve, Look, Looks, Install,
       VersionOracle, WaitWindow, PollWindow, Screenshot, About, Quit
  <2> QED
    BY <1>1, <1>2, <1>3, <1>5, <2>2 DEF Launch, GoesOn, Advance
<1>6. outlived => outlived'
  BY DEF Next, InstallLive, PrepareLive, LaunchAt, Resolve, Look, Install, VersionOracle,
     Launch, WaitWindow, PollWindow, Screenshot, About, Quit, AppExits, PublishRelease
<1> QED
  BY <1>4, <1>5, <1>6

\* The wanted version is resolved once, and never to the one updated from.
LEMMA IntendedStep ==
  ASSUME TypeOK, StepsInv, Next
  PROVE  /\ Here # "resolve" => intended' = intended
         /\ flow = "update" /\ intended # From => intended' # From
<1>1. Here # "resolve" => intended' = intended
  BY DEF Next, InstallLive, PrepareLive, LaunchAt, Resolve, Look, Install, VersionOracle,
     Launch, WaitWindow, PollWindow, Screenshot, About, Quit, AppExits, PublishRelease
<1>2. CASE Resolve
  BY <1>2 DEF Resolve, StepsInv
<1>3. CASE ~Resolve
  BY <1>3 DEF Next, InstallLive, PrepareLive, LaunchAt, Look, Install, VersionOracle,
     Launch, WaitWindow, PollWindow, Screenshot, About, Quit, AppExits, PublishRelease
<1> QED
  BY <1>1, <1>2, <1>3

LEMMA ResolveStep ==
  ASSUME TypeOK, Next, Here = "resolve", GoesOn, ~archive
  PROVE  intended' = release
<1>1. at \in Nat /\ at' = at + 1
  BY Plans DEF GoesOn, Advance
<1>2. Resolve
  BY <1>1 DEF Next, InstallLive, PrepareLive, LaunchAt, Look, Looks, Install, VersionOracle,
     Launch, WaitWindow, PollWindow, Screenshot, About, Quit, AppExits, PublishRelease
<1> QED
  BY <1>1, <1>2 DEF Resolve, Leave

\* GitHub's latest release only moves on, and not during an entry's step.
LEMMA ReleaseStep ==
  ASSUME TypeOK, Next
  PROVE  /\ release \in Nat /\ intended \in Nat
         /\ release' \in Nat /\ release' >= release
         /\ GoesOn => release' = release
<1>1. Version \subseteq Nat
  BY VersionsAssumption DEF Version, Nothing
<1>2. release \in Nat /\ intended \in Nat
  BY <1>1 DEF TypeOK
<1>3. at \in Nat /\ (GoesOn => at' = at + 1)
  BY Plans DEF GoesOn, Advance
<1>4. CASE PublishRelease
  <2>1. release' \in Releases /\ release' > release /\ at' = at
    BY <1>4 DEF PublishRelease
  <2>2. release' \in Nat
    BY <2>1, VersionsAssumption
  <2> QED
    BY <1>2, <1>3, <2>1, <2>2
<1>5. CASE ~PublishRelease
  <2>1. release' = release
    BY <1>5 DEF Next, InstallLive, PrepareLive, LaunchAt, Resolve, Look, Install,
       VersionOracle, Launch, WaitWindow, PollWindow, Screenshot, About, Quit, AppExits
  <2> QED
    BY <1>2, <2>1
<1> QED
  BY <1>4, <1>5

-----------------------------------------------------------------------------
(* The invariant's parts *)

\* The version oracle passes only what is in ~/.local/bin, and nothing is
\* installed after it.
LEMMA VersionInvNext ==
  ASSUME TypeOK, StepsInv, VersionInv, Next
  PROVE  VersionInv'
<1> SUFFICES ASSUME exc' = "none", StatusOf("version")' = {"pass"}
             PROVE  bin' = intended'
  BY DEF VersionInv
<1>1. /\ exc = "none" /\ Running /\ flow' = flow
      /\ (GoesOn /\ at' = at + 1) \/ (Waits /\ at' = at)
  BY StaysOnPlan, EntryEnds DEF choice
<1>2. StatusOf("version") = {"pass"} => bin = intended
  BY <1>1 DEF VersionInv
<1>3. CASE Here = "version"
  <2>1. /\ flow \in {"install", "update"} /\ ~Behind("version")
        /\ Here \notin {"resolve", "install", "install-previous", "update", "install-live"}
    BY <1>3, Lengths, PlacesOfInstall, PlacesOfUpdate, PlacesOfOthers
  <2>2. StatusOf("version") = {}
    BY <2>1, StatusBefore
  <2>3. bin' = bin /\ intended' = intended
    BY <2>1, BinStep, IntendedStep
  <2>4. CASE Waits
    <3>1. StatusOf("version")' = StatusOf("version")
      BY <2>4 DEF Waits, StatusOf
    <3> QED
      BY <2>2, <3>1
  <2>5. CASE GoesOn /\ at' = at + 1
    <3>1. at \in Nat
      BY Plans
    <3>2. VersionOracle
      BY <1>3, <2>5, <3>1 DEF Next, InstallLive, PrepareLive, LaunchAt, Resolve, Look, Looks,
         Install, Launch, WaitWindow, PollWindow, Screenshot, About, Quit, AppExits,
         PublishRelease
    <3>3. (bin = Wanted /\ Pass) \/ Skip
      BY <3>2, <2>5, <3>1 DEF VersionOracle, Leave
    <3>4. Wanted = intended
      BY <1>3 DEF Wanted
    <3>5. flow # "live"
      BY <2>1
    <3>6. /\ Pass => steps' = Append(steps, <<Here, "pass">>)
          /\ Skip => steps' = Append(steps, <<Here, "skip">>)
      BY <3>5 DEF Pass, Skip, Record
    <3>7. CASE bin = Wanted /\ Pass
      <4>1. StatusOf("version")' = {"pass"}
        BY <1>3, <2>2, <3>6, <3>7, RecordsHere
      <4> QED
        BY <2>3, <3>4, <3>7, <4>1
    <3>8. CASE Skip
      <4>1. StatusOf("version")' = {"skip"}
        BY <1>3, <2>2, <3>6, <3>8, RecordsHere
      <4> QED
        BY <4>1
    <3> QED
      BY <3>3, <3>7, <3>8
  <2> QED
    BY <1>1, <2>4, <2>5
<1>4. CASE Here # "version"
  <2>1. StatusOf("version")' = StatusOf("version")
    BY <1>4, StatusStays
  <2>2. Behind("version")
    BY <2>1, StatusBefore
  <2>3. Here \notin {"resolve", "install", "install-previous", "update", "install-live"}
    BY <2>2, Lengths, PlacesOfInstall, PlacesOfUpdate, PlacesOfOthers
  <2> QED
    BY <1>2, <2>1, <2>3, BinStep, IntendedStep
<1> QED
  BY <1>3, <1>4

LEMMA ReleaseInvNext ==
  ASSUME TypeOK, StepsInv, ReleaseInv, Next
  PROVE  ReleaseInv'
<1> SUFFICES ASSUME exc' = "none", ~archive, flow \in {"install", "update"}
             PROVE  /\ Behind("resolve")' => intended' <= release'
                    /\ Fetched' /\ release' = intended' => bin' = intended'
  BY EntryEnds DEF ReleaseInv, Fetched, choice
<1>1. /\ exc = "none" /\ Running /\ flow' = flow
      /\ (GoesOn /\ at' = at + 1) \/ (Waits /\ at' = at)
  BY StaysOnPlan, EntryEnds DEF choice
<1>2. /\ Behind("resolve") => intended <= release
      /\ Fetched /\ release = intended => bin = intended
  BY <1>1 DEF ReleaseInv
<1>3. /\ release \in Nat /\ intended \in Nat
      /\ release' \in Nat /\ release' >= release
      /\ GoesOn => release' = release
  BY ReleaseStep
<1>4. /\ Here = "resolve" => ~Behind("resolve") /\ ~Fetched
      /\ Fetched => Behind("resolve") /\ Here \notin {"resolve", "install", "install-previous",
                                                     "update", "install-live"}
      /\ Here \in {"install", "update"} => Behind("resolve")
  BY Lengths, PlacesOfInstall, PlacesOfUpdate DEF Fetched
<1>5. CASE Here = "resolve"
  <2>1. ~Fetched'
    BY <1>1, <1>4, <1>5, BehindGrows DEF Fetched
  <2>2. CASE Waits
    BY <1>1, <1>4, <1>5, <2>1, <2>2, BehindGrows
  <2>3. CASE GoesOn
    BY <1>3, <1>5, <2>1, <2>3, ResolveStep
  <2> QED
    BY <1>1, <2>2, <2>3
<1>6. CASE Here # "resolve"
  <2>1. intended' = intended /\ (Behind("resolve")' <=> Behind("resolve"))
    BY <1>1, <1>6, BehindGrows, IntendedStep
  <2>2. Behind("resolve")' => intended' <= release'
    BY <1>2, <1>3, <2>1
  <2>3. CASE Fetched
    <3>1. bin' = bin
      BY <1>4, <2>3, BinStep
    <3>2. release' = intended' => release = intended
      BY <1>2, <1>3, <1>4, <2>1, <2>3
    <3> QED
      BY <1>2, <2>1, <2>2, <2>3, <3>1, <3>2
  <2>4. CASE ~Fetched /\ Fetched'
    <3>1. GoesOn /\ Here \in {"install", "update"}
      BY <1>1, <2>4, BehindGrows DEF Fetched
    <3>2. bin' = release
      BY <3>1, BinStep DEF Installed
    <3> QED
      BY <1>3, <2>2, <3>1, <3>2
  <2> QED
    BY <2>2, <2>3, <2>4
<1> QED
  BY <1>5, <1>6

LEMMA InstallInvNext ==
  ASSUME TypeOK, StepsInv, InstallInv, Next
  PROVE  InstallInv'
<1> SUFFICES ASSUME flow = "install", exc' = "none"
             PROVE  /\ ~Behind("launch")' =>
                          app' = Nothing /\ remote'.shows = Nothing
                          /\ \A f \in Pictures : pics'[f].shows = Nothing
                    /\ app' \in New' /\ remote'.shows \in New'
                    /\ \A f \in Pictures : pics'[f].shows \in New'
  BY EntryEnds DEF InstallInv, choice
<1>1. /\ exc = "none" /\ Running
      /\ (GoesOn /\ at' = at + 1) \/ (Waits /\ at' = at)
      /\ at \in 1..9
  BY StaysOnPlan, EntryEnds, HereIsStep, PlanLengths
<1>2. /\ ~Behind("launch") => /\ app = Nothing /\ remote.shows = Nothing
                              /\ \A f \in Pictures : pics[f].shows = Nothing
      /\ app \in New /\ remote.shows \in New
      /\ \A f \in Pictures : pics[f].shows \in New
  BY <1>1 DEF InstallInv
<1>3. /\ Behind("launch") <=> at > 6
      /\ Here = "install" <=> at = 3
      /\ Here = "launch" <=> at = 6
      /\ Here \in {"window", "about-version"} => at > 6
      /\ Here \notin {"install-previous", "update", "install-live", "launch-at", "screenshot",
                      "about-version-before", "about-version-after"}
  BY <1>1, PlacesOfInstall
<1>4. Behind("launch") => Behind("launch")'
  BY <1>1, BehindGrows
<1>5. bin' = bin \/ (~Behind("launch") /\ Here # "launch")
  BY <1>1, <1>3, BinStep
<1>6. \/ app' \in {app, Nothing}
      \/ app' = bin /\ bin' = bin /\ Behind("launch")'
  BY <1>1, <1>3, <1>5, AppStep, BehindGrows
<1>7. ~Behind("launch")' => app' = Nothing
  BY <1>2, <1>4, <1>6
<1>8. app' \in New'
  BY <1>2, <1>5, <1>6 DEF New
<1>9. CASE UNCHANGED shots
  BY <1>2, <1>4, <1>5, <1>7, <1>8, <1>9 DEF shots, New
<1>10. ASSUME NEW f \in Pictures, Grab(f), Shoots(f), UNCHANGED guest
      PROVE  /\ Behind("launch")
             /\ remote'.shows \in New'
             /\ \A g \in Pictures : pics'[g].shows \in New'
  <2>1. bin' = bin
    BY <1>10 DEF guest
  <2>2. Behind("launch")
    BY <1>3, <1>10 DEF Shoots
  <2> QED
    BY <1>2, <1>10, <2>1, <2>2, Grabs DEF New
<1> QED
  BY <1>4, <1>7, <1>8, <1>9, <1>10, ShotsStep

\* The page taken before the update is taken while the previous version is all
\* there is to see.
LEMMA BeforeIsPreviousNext ==
  ASSUME TypeOK, StepsInv, UpdateInv, Next
  PROVE  BeforeIsPrevious'
<1> SUFFICES ASSUME flow = "update"
             PROVE  pics'["before"].shows \in {Nothing, From} /\ intended' # From
  BY EntryEnds DEF BeforeIsPrevious, choice
<1>1. pics["before"].shows \in {Nothing, From} /\ intended # From
  BY DEF UpdateInv, BeforeIsPrevious
<1>2. exc = "none"
  BY EntryEnds DEF Running
<1>3. "before" \in Pictures
  BY DEF Pictures
<1>4. CASE UNCHANGED shots
  BY <1>1, <1>4, IntendedStep DEF shots
<1>5. ASSUME NEW f \in Pictures, Grab(f), Shoots(f)
      PROVE  pics'["before"].shows \in {Nothing, From}
  <2>1. CASE f # "before"
    BY <1>1, <1>3, <1>5, <2>1, Grabs
  <2>2. CASE f = "before"
    <3>1. Here = "about-version-before"
      BY <1>5, <2>2 DEF Shoots
    <3>2. ~Relaunched
      BY <3>1, Lengths, PlacesOfUpdate
    <3>3. app \in Old /\ remote.shows \in Old
      BY <1>2, <3>2 DEF UpdateInv
    <3> QED
      BY <1>5, <2>2, <3>3, Grabs DEF Old
  <2> QED
    BY <2>1, <2>2
<1> QED
  BY <1>1, <1>4, <1>5, IntendedStep, ShotsStep

LEMMA UpdateInvNext ==
  ASSUME TypeOK, StepsInv, UpdateInv, Next
  PROVE  UpdateInv'
<1> DEFINE Shown(f) == \/ pics[f].shows = Nothing
                       \/ Behind("update") /\ pics[f].shows = bin
                       \/ (outlived \/ silent) /\ pics[f].shows = From
<1> SUFFICES ASSUME flow = "update", exc' = "none"
             PROVE  /\ Behind("install-previous")' /\ ~Behind("update")' => bin' = From
                    /\ ~Relaunched' => app' \in Old /\ remote'.shows \in Old
                    /\ app' \in New' \/ (app' = From /\ (Relaunched' => outlived'))
                    /\ remote'.shows \in Old \cup New'
                    /\ \A f \in Later : Shown(f)'
  BY EntryEnds, BeforeIsPreviousNext DEF UpdateInv, Old, choice
<1>1. /\ exc = "none" /\ Running
      /\ (GoesOn /\ at' = at + 1) \/ (Waits /\ at' = at)
      /\ at \in 1..15 /\ at' \in 1..16
  BY StaysOnPlan, EntryEnds, HereIsStep, PlanLengths
<1>2. /\ Behind("install-previous") /\ ~Behind("update") => bin = From
      /\ ~Relaunched => app \in Old /\ remote.shows \in Old
      /\ app \in New \/ (app = From /\ (Relaunched => outlived))
      /\ remote.shows \in Old \cup New
      /\ \A f \in Later : Shown(f)
  BY <1>1 DEF UpdateInv
<1>3. /\ Behind("install-previous") <=> at > 3
      /\ Behind("update") <=> at > 9
      /\ Relaunched <=> at > 12
      /\ Here = "install-previous" <=> at = 3
      /\ Here = "update" <=> at = 9
      /\ Here = "launch" <=> at \in {5, 12}
      /\ Here = "window" <=> at = 14
      /\ Here = "about-version-before" <=> at = 7
      /\ Here = "about-version-after" <=> at = 15
      /\ Here \notin {"install", "install-live", "launch-at", "screenshot", "about-version"}
  BY <1>1, PlacesOfUpdate
<1>4. /\ Behind("install-previous")' <=> at' > 3
      /\ Behind("update")' <=> at' > 9
      /\ Relaunched' <=> at' > 12
  <2>1. flow' = "update"
    BY EntryEnds DEF choice
  <2> DEFINE Passed(s) == \E i \in 1..(at' - 1) : Plan["update"][i] = s
  <2>2. /\ Behind("install-previous")' <=> Passed("install-previous")
        /\ Behind("update")' <=> Passed("update")
        /\ Relaunched' <=> (at' <= 15 /\ Plan["update"][at'] = "poll") \/ Passed("poll")
    BY <2>1, PlanLengths DEF Behind, Relaunched, Here
  <2>3. at' \in 1..16
    BY <1>1
  <2> QED
    BY <2>2, <2>3, UpdatePassed
<1>5. /\ at \in {3, 9} \/ bin' = bin
      /\ Waits => bin' = bin
      /\ GoesOn /\ at = 3 => bin' = From
  BY <1>1, <1>3, BinStep DEF Installed
<1>6. /\ \/ app' \in {app, Nothing}
         \/ at \in {5, 12} /\ app' = bin /\ ~Waits
      /\ outlived => outlived'
      /\ at = 12 /\ GoesOn => outlived' = (outlived \/ app # Nothing)
  BY <1>3, AppStep
<1>7. Behind("install-previous")' /\ ~Behind("update")' => bin' = From
  BY <1>1, <1>2, <1>3, <1>4, <1>5
<1>8. ~Relaunched' => app' \in Old
  <2>1. ~Relaunched' => ~Relaunched /\ (at = 12 => Waits)
    BY <1>1, <1>3, <1>4
  <2>2. at = 5 => bin = From
    BY <1>2, <1>3
  <2> QED
    BY <1>2, <1>6, <2>1, <2>2 DEF Old
<1>9. app' \in New' \/ (app' = From /\ (Relaunched' => outlived'))
  <2>1. CASE at \in {3, 9}
    BY <1>1, <1>4, <1>8, <2>1 DEF Old, New
  <2>2. CASE at \notin {3, 9} /\ app' = bin
    BY <1>5, <2>2 DEF New
  <2>3. CASE at \notin {3, 9} /\ app' = Nothing
    BY <2>3 DEF New
  <2>4. CASE at \notin {3, 9} /\ app' = app /\ app \in New
    BY <1>5, <2>4 DEF New
  <2>5. CASE at \notin {3, 9} /\ app' = app /\ app = From /\ (Relaunched => outlived)
    <3>1. From # Nothing
      BY VersionsAssumption DEF Nothing
    <3>2. CASE Relaunched \/ ~Relaunched'
      BY <1>6, <2>5, <3>2
    <3>3. CASE ~Relaunched /\ Relaunched'
      <4>1. at = 12 /\ GoesOn
        BY <1>1, <1>3, <1>4, <3>3
      <4> QED
        BY <1>6, <2>5, <3>1, <4>1
    <3> QED
      BY <3>2, <3>3
  <2> QED
    BY <1>2, <1>6, <2>1, <2>2, <2>3, <2>4, <2>5
<1>10. /\ ~Relaunched' => remote'.shows \in Old
       /\ remote'.shows \in Old \cup New'
       /\ \A f \in Later : Shown(f)'
  <2>1. CASE UNCHANGED shots
    <3>1. remote' = remote /\ pics' = pics /\ silent' = silent
      BY <2>1 DEF shots
    <3>2. ~Relaunched' => ~Relaunched
      BY <1>1, <1>3, <1>4
    <3>3. remote'.shows \in Old \cup New'
      <4>1. CASE bin' = bin
        BY <1>2, <3>1, <4>1 DEF New
      <4>2. CASE at \in {3, 9}
        BY <1>2, <1>3, <3>1, <4>2
      <4> QED
        BY <1>5, <4>1, <4>2
    <3>4. ASSUME NEW f \in Later PROVE Shown(f)'
      <4>1. Behind("update") => Behind("update")' /\ bin' = bin
        BY <1>1, <1>3, <1>4, <1>5
      <4> QED
        BY <1>2, <1>6, <3>1, <4>1
    <3> QED
      BY <1>2, <3>1, <3>2, <3>3, <3>4
  <2>2. ASSUME NEW g \in Pictures, Grab(g), Shoots(g), UNCHANGED guest
        PROVE  /\ ~Relaunched' => remote'.shows \in Old
               /\ remote'.shows \in Old \cup New'
               /\ \A f \in Later : Shown(f)'
    <3>1. /\ \A f \in Pictures : f # g => pics'[f] = pics[f]
          /\ remote'.shows \in {app, remote.shows}
          /\ pics'[g].shows \in {app, remote.shows}
          /\ silent => silent'
          /\ ~silent' => pics'[g].shows = app
      BY <2>2, Grabs
    <3>2. bin' = bin
      BY <2>2 DEF guest
    <3>3. g \in Later => Behind("update") /\ Relaunched
      BY <1>3, <2>2 DEF Shoots, Later
    <3>4. /\ ~Relaunched' => ~Relaunched
          /\ Behind("update") => Behind("update")'
      BY <1>1, <1>3, <1>4
    <3>5. app \in Old \cup New
      BY <1>2 DEF Old
    <3>6. remote'.shows \in Old \cup New'
      BY <1>2, <3>1, <3>2, <3>5 DEF New
    <3>7. ASSUME NEW f \in Later PROVE Shown(f)'
      <4>1. f \in Pictures
        BY DEF Later, Pictures
      <4>2. CASE f # g
        BY <1>2, <1>6, <3>1, <3>2, <3>4, <4>1, <4>2
      <4>3. CASE f = g /\ pics'[g].shows = app
        BY <1>2, <1>6, <3>2, <3>3, <3>4, <4>3 DEF New
      <4>4. CASE f = g /\ silent' /\ pics'[g].shows = remote.shows
        BY <1>2, <3>2, <3>3, <3>4, <4>4 DEF Old, New
      <4> QED
        BY <3>1, <4>2, <4>3, <4>4
    <3> QED
      BY <1>2, <3>1, <3>4, <3>6, <3>7
  <2> QED
    BY <2>1, <2>2, ShotsStep
<1> QED
  BY <1>7, <1>8, <1>9, <1>10

-----------------------------------------------------------------------------
LEMMA IInvInit == Init => IInv
<1> SUFFICES ASSUME Init PROVE IInv
  OBVIOUS
<1>1. /\ flow \in Flows /\ archive \in BOOLEAN /\ (archive => flow \in {"install", "live"})
      /\ at = 1 /\ exc = "none" /\ steps = <<>> /\ reported = <<>>
      /\ intended = 0 /\ windowError = FALSE /\ release \in Releases
      /\ bin = 0 /\ app = 0 /\ pics = [f \in Pictures |-> NoPicture] /\ remote = NoPicture
      /\ outlived = FALSE /\ silent = FALSE
  BY DEF Init, Nothing
<1>2. From # 0 /\ 0 \in Version /\ release \in Version
  BY <1>1, VersionsAssumption DEF Version, Nothing
<1>3. NoPicture \in [shows: Version, taken: BOOLEAN] /\ NoPicture.shows = 0 /\ NoPicture.taken = FALSE
  BY <1>2 DEF NoPicture, Nothing
<1> HIDE DEF NoPicture
<1>4. /\ pics \in [Pictures -> [shows: Version, taken: BOOLEAN]]
      /\ \A f \in Pictures : pics[f].shows = 0 /\ pics[f].taken = FALSE
  BY <1>1, <1>3
<1>5. flow \in {"session", "bindings", "install", "update", "live"}
  BY <1>1, FlowsAssumption
<1>6. Len(Plan[flow]) \in Nat
  BY <1>5, PlanLengths
<1>7. steps \in Seq(StepNames \X {"pass", "skip"}) /\ Len(steps) = 0
  BY <1>1
<1>8. TypeOK
  <2>1. at \in 1..(Len(Plan[flow]) + 1)
    BY <1>1, <1>6
  <2>2. steps \in Seq(StepNames \X {"pass", "skip"}) /\ reported \in {<<>>, steps}
    BY <1>1, <1>7
  <2>3. /\ windowError \in BOOLEAN /\ outlived \in BOOLEAN /\ silent \in BOOLEAN
        /\ exc \in {"none", "listed", "other"}
    BY <1>1
  <2>4. intended \in Version /\ bin \in Version /\ app \in Version
    BY <1>1, <1>2
  <2> QED
    BY <1>1, <1>2, <1>3, <1>4, <2>1, <2>2, <2>3, <2>4, Zenon DEF TypeOK
<1>9. \A s : ~Behind(s) /\ StatusOf(s) = {}
  BY <1>1, <1>7 DEF Behind, StatusOf
<1>10. StepsInv
  BY <1>1, <1>7 DEF StepsInv
<1>11. VersionInv
  BY <1>9 DEF VersionInv
<1>12. {"about", "before", "screenshot", "after"} \subseteq Pictures
  BY DEF Pictures
<1>13. ReleaseInv /\ InstallInv
  BY <1>1, <1>3, <1>4, <1>9, <1>12 DEF ReleaseInv, Fetched, InstallInv, New, Nothing
<1>14. UpdateInv
  BY <1>1, <1>2, <1>3, <1>4, <1>9, <1>12
     DEF UpdateInv, BeforeIsPrevious, Later, Old, New, Nothing
<1> QED
  BY <1>8, <1>10, <1>11, <1>13, <1>14 DEF IInv

LEMMA IInvNext == IInv /\ [Next]_vars => IInv'
<1> SUFFICES ASSUME IInv, [Next]_vars PROVE IInv'
  OBVIOUS
<1>1. CASE Next
  BY <1>1, TypeNext, StepsInvNext, VersionInvNext, ReleaseInvNext,
     InstallInvNext, UpdateInvNext DEF IInv
<1>2. CASE UNCHANGED vars
  <2>1. UNCHANGED <<flow, archive, at, exc, steps, reported, intended, windowError, release,
                    bin, app, pics, remote, outlived, silent>>
    BY <1>2 DEF vars
  <2>2. TypeOK' /\ StepsInv'
    BY <2>1 DEF IInv, TypeOK, StepsInv, Behind
  <2>3. VersionInv' /\ ReleaseInv'
    BY <2>1 DEF IInv, VersionInv, ReleaseInv, Fetched, Behind, StatusOf
  <2>4. InstallInv'
    BY <2>1 DEF IInv, InstallInv, Behind, New
  <2>5. UpdateInv'
    BY <2>1 DEF IInv, UpdateInv, BeforeIsPrevious, Relaunched, Here, Behind, Old, New
  <2> QED
    BY <2>2, <2>3, <2>4, <2>5 DEF IInv
<1> QED
  BY <1>1, <1>2

\* What is known at each place of a step flow (tests_spec.py), whatever its steps
\* do and whichever exception ends it.
THEOREM Inductive == Spec => []IInv
BY IInvInit, IInvNext, PTL DEF Spec

\* A flow keeps to the order of its function, and what run-test gets has an entry
\* only for steps of that function.
THEOREM TypeCorrect == Spec => []TypeOK
<1>1. IInv => TypeOK
  BY DEF IInv
<1> QED
  BY <1>1, Inductive, PTL

\* A flow that returned has everything behind it.
LEMMA ReturnedIsOver ==
  ASSUME TypeOK, Returned
  PROVE  exc = "none" /\ (flow \in {"install", "update"} => Fetched)
<1>1. exc = "none" /\ Here = "returned"
  BY DEF Returned
<1>2. ASSUME flow = "install" PROVE Fetched
  <2>1. at \in 1..10 /\ Len(Plan["install"]) = 9
    BY <1>2, Lengths, PlanLengths
  <2>2. at = 10
    BY <1>1, <1>2, <2>1 DEF Here, Plan
  <2> QED
    BY <1>2, <2>1, <2>2, PlacesOfInstall DEF Fetched
<1>3. ASSUME flow = "update" PROVE Fetched
  <2>1. at \in 1..16 /\ Len(Plan["update"]) = 15
    BY <1>3, Lengths, PlanLengths
  <2>2. at = 16
    BY <1>1, <1>3, <2>1 DEF Here, Plan
  <2> QED
    BY <1>3, <2>1, <2>2, PlacesOfUpdate DEF Fetched
<1> QED
  BY <1>1, <1>2, <1>3

\* If the intended version was installed, the pictures of a flow are of it.
LEMMA InstalledIsPictured ==
  ASSUME IInv, exc = "none", flow \in {"install", "update"}, bin = intended, NEW f \in Later
  PROVE  Genuine(f)
<1>1. f \in Pictures
  BY DEF Later, Pictures
<1>2. CASE flow = "install"
  BY <1>1, <1>2 DEF IInv, InstallInv, New, Genuine
<1>3. CASE flow = "update"
  BY <1>3 DEF IInv, UpdateInv, Genuine
<1> QED
  BY <1>2, <1>3

\* The pictures beside a passing result.json whose CLI step found the intended
\* version are of that version, of an empty desktop, or, where the previous
\* Strata outlived its SIGTERM or a tool wrote nothing, of the previous one (steps
\* of tests_spec.py).
THEOREM PicturesOfTheIntended == Spec => []PicturesShowIntended
<1>1. IInv => PicturesShowIntended
  <2> SUFFICES ASSUME IInv, Returned, StatusOf("version") = {"pass"}, NEW f \in Later
               PROVE  Genuine(f)
    BY DEF PicturesShowIntended
  <2>1. TypeOK /\ exc = "none"
    BY ReturnedIsOver DEF IInv
  <2>2. bin = intended
    BY <2>1 DEF IInv, VersionInv
  <2>3. flow \in {"install", "update"}
    BY <2>1, PlacesOfOthers, StatusBefore DEF IInv
  <2> QED
    BY <2>1, <2>2, <2>3, InstalledIsPictured
<1> QED
  BY <1>1, Inductive, PTL

\* Where the CLI step was skipped nothing compares versions: the pictures are
\* still of the version resolved as long as no release appeared after it
\* (resolve_intended_version, run_version_oracle, run_about_version_step).
THEOREM PicturesOfTheLatest == Spec => []PicturesShowLatest
<1>1. IInv => PicturesShowLatest
  <2> SUFFICES ASSUME IInv, Returned, flow \in {"install", "update"}, ~archive,
                      release = intended, NEW f \in Later
               PROVE  Genuine(f)
    BY DEF PicturesShowLatest
  <2>1. exc = "none" /\ Fetched
    BY ReturnedIsOver DEF IInv
  <2>2. bin = intended
    BY <2>1 DEF IInv, ReleaseInv
  <2> QED
    BY <2>1, <2>2, InstalledIsPictured
<1> QED
  BY <1>1, Inductive, PTL

\* The page pictured before an update is the previous version's, never that of
\* the version it updates to (--update-from).
THEOREM BeforeShowsPrevious == Spec => []BeforeIsPrevious
<1>1. IInv => BeforeIsPrevious
  BY DEF IInv, UpdateInv, BeforeIsPrevious
<1> QED
  BY <1>1, Inductive, PTL

=============================================================================
