------------------------------ MODULE SmokeFlow ------------------------------
(***************************************************************************)
(* The step flows of tests_spec.py that `run-test` chooses from, beside    *)
(* the guest they drive: session only, --omarchy-bindings, --install-from  *)
(* and --update-from; and the flow of `vm-live`, which installs a Strata   *)
(* and opens it on sample files.  A flow is a fixed plan; every entry of   *)
(* the plan is a few ssh and scp calls that pass, fail with an exception   *)
(* the command lists, or run into subprocess.TimeoutExpired, which it does *)
(* not list.                                                               *)
(*                                                                         *)
(* A picture is abstracted to the version of Strata on the screen.  The    *)
(* polling loops are one step each: they pass or time out.                 *)
(*                                                                         *)
(* External: the guest.  ~/.local/bin/strata is whatever was installed     *)
(* last; Strata runs as one instance, so launching it again only raises    *)
(* the one that runs; it may exit at any time; a screenshot tool may exit  *)
(* 0 and write nothing.  GitHub publishes releases while the flow runs,    *)
(* and install.sh fetches the latest.                                      *)
(***************************************************************************)
EXTENDS Naturals, Sequences

CONSTANTS
  Flows,        \* the flows considered
  From,         \* the VERSION of --update-from, of --from-tag
  Releases      \* versions GitHub's latest release can have

ASSUME FlowsAssumption ==
  Flows \subseteq {"session", "bindings", "install", "update", "live"}
ASSUME VersionsAssumption == From \in Nat \ {0} /\ Releases \subseteq Nat \ {0}

VARIABLES
  flow,
  archive,   \* --install-from local-archive, --from-local
  at,        \* the entry of the plan the flow is in
  exc,       \* how the flow was left: "none", "listed", "other"
  steps,     \* the local list `steps`: name and status
  reported,  \* what result.json will hold as "steps"
  intended,  \* the version resolved at the start
  windowError, \* the local `window_error` is set
  release,   \* GitHub's latest release
  bin,       \* the version of ~/.local/bin/strata
  app,       \* the version of the Strata that runs
  pics,      \* pics[f]: what the picture f shows
  remote,    \* what GUEST_SCREENSHOT_REMOTE shows, the one file all tools write
  outlived,  \* history: the previous Strata still ran when the updated one was
             \* launched
  silent     \* history: a tool exited 0 without writing that file

vars == <<flow, archive, at, exc, steps, reported, intended, windowError,
          release, bin, app, pics, remote, outlived, silent>>

choice == <<flow, archive>>
guest == <<bin, app>>
shots == <<pics, remote, silent>>

Nothing == 0
Pictures == {"screenshot", "about", "before", "after"}
NoPicture == [shows |-> Nothing, taken |-> FALSE]

-----------------------------------------------------------------------------
\* The entries of each flow, in the order its function runs them.
Plan == [
  session  |-> <<"session", "screenshot">>,
  bindings |-> <<"session", "stage", "omarchy-detect", "omarchy-bindings",
                 "screenshot">>,
  install  |-> <<"resolve", "session", "install", "version", "desktop-entry",
                 "launch", "poll", "window", "about-version">>,
  update   |-> <<"resolve", "session", "install-previous", "version-previous",
                 "launch", "wait-window", "about-version-before", "quit",
                 "update", "version", "desktop-entry", "launch", "poll",
                 "window", "about-version-after">>,
  live     |-> <<"session", "install-live", "fixtures", "runtime-deps",
                 "launch-at">>]

Here == IF at <= Len(Plan[flow]) THEN Plan[flow][at] ELSE "returned"

Running == exc = "none" /\ Here # "returned"

\* Mutant: the steps are handed over before the last one is recorded.
AdvanceEarly == /\ at' = at + 1
                /\ reported' = IF at = Len(Plan[flow]) THEN steps ELSE reported
                /\ UNCHANGED exc

\* The entry is over; the last one returns the steps to run_run_test.
Advance == /\ at' = at + 1
           /\ reported' = IF at = Len(Plan[flow]) THEN steps' ELSE reported
           /\ UNCHANGED exc

\* An exception leaves the flow, and the list `steps` with it.
Leave(e) == exc' = e /\ UNCHANGED <<at, steps, reported>>

LeaveSomehow == \E e \in {"listed", "other"} : Leave(e)

Record(status) == steps' = Append(steps, <<Here, status>>)

Pass == (IF flow = "live" THEN UNCHANGED steps ELSE Record("pass")) /\ Advance
Skip == Record("skip") /\ Advance
Quietly == UNCHANGED steps /\ Advance

StatusOf(s) == {steps[i][2] : i \in {i \in 1..Len(steps) : steps[i][1] = s}}

Init ==
  /\ flow \in Flows
  /\ archive \in BOOLEAN /\ (archive => flow \in {"install", "live"})
  /\ at = 1
  /\ exc = "none"
  /\ steps = <<>> /\ reported = <<>>
  /\ intended = Nothing
  /\ windowError = FALSE
  /\ release \in Releases
  /\ bin = Nothing /\ app = Nothing
  /\ pics = [f \in Pictures |-> NoPicture]
  /\ remote = NoPicture
  /\ outlived = FALSE /\ silent = FALSE

-----------------------------------------------------------------------------
\* Mutant: --update-from the latest release is not refused.
ResolveAny ==
  /\ Running /\ Here = "resolve"
  /\ intended' \in IF archive THEN Releases ELSE {release}
  /\ Quietly
  /\ UNCHANGED <<choice, windowError, release, guest, shots, outlived>>

\* resolve_intended_version: what the archive's name says, or GitHub's latest.
\* --update-from a version that is the latest fails closed.
Resolve ==
  /\ Running /\ Here = "resolve"
  /\ \/ /\ flow = "update" => release # From
        /\ intended' \in IF archive THEN Releases ELSE {release}
        /\ Quietly
     \/ Leave("listed") /\ UNCHANGED intended
  /\ UNCHANGED <<choice, windowError, release, guest, shots, outlived>>

\* Entries that only look at the guest: run_session_step, stage_guest_install_sh,
\* the Omarchy oracles, the desktop entry probe.
Looks == {"session", "stage", "omarchy-detect", "omarchy-bindings",
          "desktop-entry"}

Look ==
  /\ Running /\ Here \in Looks
  /\ \/ IF Here = "stage" THEN Quietly ELSE Pass
     \/ LeaveSomehow
  /\ UNCHANGED <<choice, intended, windowError, release, guest, shots, outlived>>

\* What may get into ~/.local/bin: the release that was asked for (its digest
\* is checked), what the host's archive really holds, or GitHub's latest.
Installed == IF Here = "install-previous" THEN {From}
             ELSE IF archive THEN Releases ELSE {release}

\* Mutant: a download that fails keeps the binary that is there.
InstallKeeps ==
  /\ Running /\ Here \in {"install", "install-previous", "update"}
  /\ \/ bin' \in Installed \cup {bin} /\ Pass
     \/ UNCHANGED bin /\ LeaveSomehow
  /\ UNCHANGED <<choice, intended, windowError, release, app, shots, outlived>>

\* smoke-install.sh, smoke-update.sh.  The latest phase first moves the
\* previous binary aside; a failure may come before or after the install.
Install ==
  /\ Running /\ Here \in {"install", "install-previous", "update"}
  /\ \/ bin' \in Installed /\ Pass
     \/ /\ bin' \in Installed \cup {bin, IF Here = "update" THEN Nothing ELSE bin}
        /\ LeaveSomehow
  /\ UNCHANGED <<choice, intended, windowError, release, app, shots, outlived>>

\* vm-live installs the release of its tag, whose version the helper reports
\* back, or whatever archive or binary of the host it was given.
InstallLive ==
  LET given == IF archive THEN Releases ELSE {From}
  IN /\ Running /\ Here = "install-live"
     /\ \/ bin' \in given /\ Pass
        \/ bin' \in given \cup {bin} /\ LeaveSomehow
     /\ UNCHANGED <<choice, intended, windowError, release, app, shots, outlived>>

\* The sample files and the GTK packages.
PrepareLive ==
  /\ Running /\ Here \in {"fixtures", "runtime-deps"}
  /\ Pass \/ LeaveSomehow
  /\ UNCHANGED <<choice, intended, windowError, release, guest, shots, outlived>>

\* launch_strata_at_command: the compositor's dispatcher, or nohup behind it.
LaunchAt ==
  /\ Running /\ Here = "launch-at"
  /\ \/ app' \in {bin, Nothing} /\ Pass
     \/ LeaveSomehow /\ UNCHANGED app
  /\ UNCHANGED <<choice, intended, windowError, release, bin, shots, outlived>>

\* The version an oracle asks for.
Wanted == IF Here = "version-previous" THEN From ELSE intended

\* Mutant: the version is compared with the latest release of now.
VersionOracleLatest ==
  /\ Running /\ Here \in {"version", "version-previous"}
  /\ \/ bin = (IF Here = "version-previous" THEN From ELSE release) /\ Pass
     \/ Skip
     \/ Leave("listed")
  /\ UNCHANGED <<choice, intended, windowError, release, guest, shots, outlived>>

\* run_version_oracle: a CLI version must be the wanted one and exit 0, or the
\* flow fails; a timeout, another output or a failed ssh skips.
VersionOracle ==
  /\ Running /\ Here \in {"version", "version-previous"}
  /\ \/ bin = Wanted /\ Pass
     \/ Skip
     \/ Leave("listed")
  /\ UNCHANGED <<choice, intended, windowError, release, guest, shots, outlived>>

\* launch_strata: the launcher is backgrounded and its failure is not seen.
Launch ==
  /\ Running /\ Here = "launch"
  /\ \/ /\ app' \in IF app = Nothing THEN {bin, Nothing} ELSE {app}
        /\ outlived' = (outlived \/ app # Nothing)
        /\ Quietly
     \/ LeaveSomehow /\ UNCHANGED <<app, outlived>>
  /\ UNCHANGED <<choice, intended, windowError, release, bin, shots>>

\* wait_strata_window of the previous version: nothing catches its timeout.
WaitWindow ==
  /\ Running /\ Here = "wait-window"
  /\ \/ app # Nothing /\ Quietly
     \/ LeaveSomehow
  /\ UNCHANGED <<choice, intended, windowError, release, guest, shots, outlived>>

\* The window oracle.  TimeoutError and SessionSmokeError are kept for later;
\* an ssh call that runs into its own timeout leaves at once.
PollWindow ==
  /\ Running /\ Here = "poll"
  /\ \/ app # Nothing /\ windowError' = FALSE /\ Quietly
     \/ windowError' = TRUE /\ Quietly
     \/ Leave("other") /\ UNCHANGED windowError
  /\ UNCHANGED <<choice, intended, release, guest, shots, outlived>>

\* capture_guest_screenshot into picture f: grim or gnome-screenshot by way of
\* the remote file, which no one removes first, or the VNC framebuffer.  The
\* probe for the tool and grim itself may time out uncaught.
Grab(f) ==
  LET screen == [shows |-> app, taken |-> TRUE]
  IN \/ /\ pics' = [pics EXCEPT ![f] = screen]
        /\ remote' \in {remote, screen}
        /\ UNCHANGED silent
     \/ /\ remote.taken
        /\ pics' = [pics EXCEPT ![f] = remote]
        /\ silent' = TRUE
        /\ UNCHANGED remote

GrabFails == LeaveSomehow /\ UNCHANGED shots

Screenshot ==
  /\ Running /\ Here \in {"screenshot", "window"}
  /\ \/ /\ Grab("screenshot")
        /\ IF windowError THEN Leave("listed") ELSE Pass
     \/ GrabFails
  /\ UNCHANGED <<choice, intended, windowError, release, guest, outlived>>

\* run_about_version_step: skipped when the CLI version passed (only
\* --install-from says so) or when no input path worked.
AboutPicture ==
  CASE Here = "about-version" -> "about"
    [] Here = "about-version-before" -> "before"
    [] OTHER -> "after"

About ==
  /\ Running
  /\ Here \in {"about-version", "about-version-before", "about-version-after"}
  /\ IF Here = "about-version" /\ StatusOf("version") = {"pass"}
     THEN Skip /\ UNCHANGED shots
     ELSE \/ Grab(AboutPicture) /\ Pass
          \/ Skip /\ UNCHANGED shots
          \/ GrabFails
  /\ UNCHANGED <<choice, intended, windowError, release, guest, outlived>>

\* quit_strata sends SIGTERM and waits for nothing; pkill's own status is
\* swallowed in the guest, and that of the ssh call is not looked at.  Strata is
\* gone, or goes later (AppExits), or stays.
Quit ==
  /\ Running /\ Here = "quit"
  /\ app' \in {app, Nothing}
  /\ Quietly \/ Leave("other")
  /\ UNCHANGED <<choice, intended, windowError, release, bin, shots, outlived>>

\* Strata crashes or is closed.
AppExits ==
  /\ Running /\ app # Nothing
  /\ app' = Nothing
  /\ UNCHANGED <<choice, at, exc, steps, reported, intended, windowError, release,
                 bin, shots, outlived>>

\* A new release appears.
PublishRelease ==
  /\ Running
  /\ \E v \in Releases : v > release /\ release' = v
  /\ UNCHANGED <<choice, at, exc, steps, reported, intended, windowError, guest,
                 shots, outlived>>

Next ==
  \/ InstallLive \/ PrepareLive \/ LaunchAt
  \/ Resolve \/ Look \/ Install \/ VersionOracle \/ Launch \/ WaitWindow
  \/ PollWindow \/ Screenshot \/ About \/ Quit
  \/ AppExits \/ PublishRelease

Spec == Init /\ [][Next]_vars

-----------------------------------------------------------------------------
Version == Releases \cup {From, Nothing}
StepNames == UNION {{Plan[f][i] : i \in 1..Len(Plan[f])} : f \in DOMAIN Plan}

TypeOK ==
  /\ flow \in Flows /\ archive \in BOOLEAN
  /\ at \in 1..(Len(Plan[flow]) + 1)
  /\ exc \in {"none", "listed", "other"}
  /\ steps \in Seq(StepNames \X {"pass", "skip"})
  /\ reported \in {<<>>, steps}
  /\ intended \in Version /\ release \in Version
  /\ windowError \in BOOLEAN
  /\ bin \in Version /\ app \in Version
  /\ pics \in [Pictures -> [shows: Version, taken: BOOLEAN]]
  /\ remote \in [shows: Version, taken: BOOLEAN]
  /\ outlived \in BOOLEAN /\ silent \in BOOLEAN

Returned == exc = "none" /\ Here = "returned"

\* What a picture is of in a run that did what it says: the version resolved at
\* the start, or a desktop Strata has left.  In an update it may be of the
\* previous version in two ways: that Strata outlived its SIGTERM, for which
\* nobody waits, and was raised by the launch (tests_spec.py:1424); or the tool
\* wrote nothing and its earlier file was copied (tests_spec.py:1132).
Genuine(f) ==
  \/ pics[f].shows \in {Nothing, intended}
  \/ flow = "update" /\ (outlived \/ silent) /\ pics[f].shows = From

\* The pictures of what was installed.
Later == {"screenshot", "about", "after"}

\* Where the CLI gave the intended version, a run that passes shows no other: no
\* release that appears meanwhile and no archive with a wrong name gets through.
PicturesShowIntended ==
  Returned /\ StatusOf("version") = {"pass"} => \A f \in Later : Genuine(f)

\* Where the CLI gave none nothing compares the installed version with the one
\* resolved (run_version_oracle skips, tests_spec.py:1588).  Even so a run that
\* passes shows no other, as long as GitHub's latest release stayed the same.
PicturesShowLatest ==
  Returned /\ flow \in {"install", "update"} /\ ~archive /\ release = intended
    => \A f \in Later : Genuine(f)

\* --update-from shows two versions: the page taken before the update is never
\* of the version it updates to.
BeforeIsPrevious ==
  flow = "update" => pics["before"].shows \in {Nothing, From} /\ intended # From

\* "A screenshot is taken whether or not the window appeared; the step then
\* fails if the oracle timed out" (docs/architecture.md): no exception leaves the
\* flow from the oracle itself.
OracleFailureIsPictured ==
  exc # "none" /\ Here = "poll" => pics["screenshot"].taken

-----------------------------------------------------------------------------
(* The inductive invariant behind the safety properties. *)

\* The flow has got past the entry s of its plan.
Behind(s) == \E i \in 1..(at - 1) : Plan[flow][i] = s

Old == {Nothing, From}
New == {Nothing, bin}

\* The flow is past the update's launch.
Relaunched == Here = "poll" \/ Behind("poll")

\* Only what is behind was recorded, and nothing is handed over before the end.
StepsInv ==
  /\ archive => flow \in {"install", "live"}
  /\ at <= Len(Plan[flow]) => reported = <<>>
  /\ \A i \in 1..Len(steps) : Behind(steps[i][1])

\* A CLI version that passed is that of the binary, from then on.
VersionInv ==
  exc = "none" /\ StatusOf("version") = {"pass"} => bin = intended

\* What the flow is about is installed.
Fetched == \/ flow = "install" /\ Behind("install")
           \/ flow = "update" /\ Behind("update")

\* Releases only move on, so if the latest is the one resolved it was that all
\* along, and what was installed.
ReleaseInv ==
  exc = "none" /\ ~archive =>
    /\ flow \in {"install", "update"} /\ Behind("resolve") => intended <= release
    /\ Fetched /\ release = intended => bin = intended

\* --install-from: nothing is on the screen before the launch, then at most what
\* was installed.
InstallInv ==
  flow = "install" /\ exc = "none" =>
    /\ ~Behind("launch") => app = Nothing /\ remote.shows = Nothing
                             /\ \A f \in Pictures : pics[f].shows = Nothing
    /\ app \in New /\ remote.shows \in New
    /\ \A f \in Pictures : pics[f].shows \in New

\* --update-from: the previous version up to the update's launch, then what was
\* installed, or still the previous version if that is there to be raised.
UpdateInv ==
  flow = "update" =>
    /\ BeforeIsPrevious
    /\ exc = "none" =>
         /\ Behind("install-previous") /\ ~Behind("update") => bin = From
         /\ ~Relaunched => app \in Old /\ remote.shows \in Old
         /\ app \in New \/ (app = From /\ (Relaunched => outlived))
         /\ remote.shows \in Old \cup New
         /\ \A f \in Later :
              \/ pics[f].shows = Nothing
              \/ Behind("update") /\ pics[f].shows = bin
              \/ (outlived \/ silent) /\ pics[f].shows = From

IInv == TypeOK /\ StepsInv /\ VersionInv /\ ReleaseInv /\ InstallInv /\ UpdateInv
=============================================================================
