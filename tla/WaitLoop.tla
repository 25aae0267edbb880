------------------------------ MODULE WaitLoop ------------------------------
(***************************************************************************)
(* The waits for a booting guest: the three of image_build.py, which are   *)
(* wait_ssh (until tester can log in), wait_qga (until qemu-ga answers)    *)
(* and wait_iso_autoinstall (until the installed system says its version), *)
(* and the three of spike.py, which are its own _wait_ssh,                 *)
(* _reboot_and_wait (until the rebooted guest lets tester in) and          *)
(* _wait_wayland (until the desktop session is there, found by session.py).*)
(* They are one loop: test the deadline, count the attempt, look whether   *)
(* QEMU is still there, probe, sleep.  The reboot runs it twice, the first *)
(* time until ssh stops answering.                                         *)
(*                                                                         *)
(* Time is counted in ticks.  A probe takes 0..MaxProbe ticks (its         *)
(* subprocess timeout), a sleep Sleep..MaxNap (time.sleep may oversleep).  *)
(*                                                                         *)
(* External: the guest boots ("down": nothing answers), may run a live ISO *)
(* that refuses tester ("live"), and comes up ("ready").  What ssh prints  *)
(* is one of four answers: "ok"; "reject" (permission denied, connection   *)
(* closed or reset: ssh_auth_rejected); "silent" (refused, timed out, no   *)
(* banner: ssh_not_listening); "other", which is neither.  A guest that    *)
(* was asked to reboot is "old" while its sshd still answers, and that     *)
(* sshd is taken not to answer again once it has stopped.  For the         *)
(* Wayland wait "live" is a seat with a greeter or a session that is       *)
(* opening, and "x11" a desktop that came up without Wayland.              *)
(***************************************************************************)
EXTENDS Naturals, Sequences

CONSTANTS
  Kinds,      \* the waits considered
  Timeout,    \* the budget
  Sleep,      \* SSH_WAIT_SLEEP_S
  MaxNap,     \* bound on how long time.sleep(Sleep) takes
  MaxProbe,   \* bound on how long one probe takes
  Grace,      \* the least the second half of _reboot_and_wait is given
  RejectMax   \* SSH_AUTH_REJECT_MAX

ASSUME KindsAssumption == 
  Kinds \subseteq {"ssh", "qga", "iso", "spike", "reboot", "wayland"}
ASSUME TimesAssumption ==
  /\ Timeout \in Nat /\ MaxProbe \in Nat /\ RejectMax \in Nat \ {0}
  /\ Grace \in Nat \ {0}
  /\ Sleep \in Nat \ {0} /\ MaxNap \in Nat /\ Sleep <= MaxNap

VARIABLES
  kind,      \* which wait this is
  pc,        \* "test", "probe", "version", "nap", "done"
  stage,     \* "drop": a reboot whose ssh still answers; "back": any other wait
  deadline,  \* of the stage
  now,       \* ticks since the wait began
  spent,     \* ticks the current probe or sleep has taken
  attempts, rejects,
  sshReady,  \* the local `ssh_ready` of wait_iso_autoinstall
  outcome,   \* how the wait ended
  picked,    \* the session the Wayland wait returned
  guest,     \* "old", "down", "live", "x11", "ready", "gone"
  seen,      \* the guest as the current probe found it
  changedAt, \* history: when the guest became ready or QEMU exited
  silentAt,  \* history: when the last "silent" answer came
  streak     \* history: "reject" answers in a row

vars == <<kind, pc, stage, deadline, now, spent, attempts, rejects, sshReady,
          outcome, picked, guest, seen, changedAt, silentAt, streak>>

phase == <<kind, stage, deadline>>

env == <<guest, changedAt>>
answers == <<rejects, sshReady, silentAt, streak>>

Never == Timeout + Grace + 3 * (MaxProbe + MaxNap)

\* Mutant: the attempt limit without its + 1.
LimitRoundedDown == Timeout \div Sleep

\* _default_max_attempts: max(1, int(timeout // SSH_WAIT_SLEEP_S) + 1)
Limit == Timeout \div Sleep + 1

SpikeKinds == {"spike", "reboot", "wayland"}

Init ==
  /\ kind \in Kinds
  /\ pc = "test"
  /\ stage = IF kind = "reboot" THEN "drop" ELSE "back"
  /\ deadline = Timeout
  /\ now = 0 /\ spent = 0
  /\ attempts = 0 /\ rejects = 0
  /\ sshReady = FALSE
  /\ outcome = "none" /\ picked = "none"
  /\ guest = IF kind = "reboot" THEN "old" ELSE "down"
  /\ seen = guest
  /\ changedAt = Never
  /\ silentAt = 0 /\ streak = 0

-----------------------------------------------------------------------------
End(o) == outcome' = o /\ pc' = "done"

StartProbe(p) == pc' = p /\ spent' = 0 /\ seen' = guest

StartNap == pc' = "nap" /\ spent' = 0

\* Mutant: the loop does not look whether QEMU is still there.
TestIgnoresExit ==
  /\ pc = "test" /\ kind \notin SpikeKinds
  /\ IF now >= deadline
     THEN End("deadline") /\ UNCHANGED <<attempts, spent, seen>>
     ELSE /\ attempts' = attempts + 1
          /\ StartProbe(IF sshReady THEN "version" ELSE "probe")
          /\ UNCHANGED outcome
  /\ UNCHANGED <<phase, now, picked, env, answers>>

\* The head of the loop body.
Test ==
  /\ pc = "test" /\ kind \notin SpikeKinds
  /\ IF now >= deadline
     THEN End("deadline") /\ UNCHANGED <<attempts, spent, seen>>
     ELSE /\ attempts' = attempts + 1
          /\ IF attempts + 1 > Limit
             THEN End("limit") /\ UNCHANGED <<spent, seen>>
             ELSE IF guest = "gone"
                  THEN End("exited") /\ UNCHANGED <<spent, seen>>
                  ELSE /\ StartProbe(IF sshReady THEN "version" ELSE "probe")
                       /\ UNCHANGED outcome
  /\ UNCHANGED <<phase, now, picked, env, answers>>

\* The spike's loops count no attempts, and the Wayland wait does not look at
\* QEMU either.
SpikeTest ==
  /\ pc = "test" /\ stage = "back" /\ kind \in SpikeKinds
  /\ \/ now >= deadline /\ End("deadline") /\ UNCHANGED <<spent, seen>>
     \/ /\ now < deadline /\ guest = "gone" /\ kind # "wayland"
        /\ End("exited")
        /\ UNCHANGED <<spent, seen>>
     \/ /\ now < deadline /\ (guest = "gone" => kind = "wayland")
        /\ StartProbe("probe")
        /\ UNCHANGED outcome
  /\ UNCHANGED <<phase, now, attempts, picked, env, answers>>

\* The second half of _reboot_and_wait begins, with what is left of the time
\* and at least Grace.
ComeBack ==
  /\ stage' = "back"
  /\ deadline' = IF deadline < now + Grace THEN now + Grace ELSE deadline
  /\ pc' = "test"

\* The head of its first loop: ssh that never drops ends it, too.
DropTest ==
  /\ pc = "test" /\ stage = "drop"
  /\ \/ now >= deadline /\ ComeBack /\ UNCHANGED <<outcome, spent, seen>>
     \/ /\ now < deadline /\ guest = "gone"
        /\ End("exited")
        /\ UNCHANGED <<stage, deadline, spent, seen>>
     \/ /\ now < deadline /\ guest # "gone"
        /\ StartProbe("probe")
        /\ UNCHANGED <<stage, deadline, outcome>>
  /\ UNCHANGED <<kind, now, attempts, picked, env, answers>>

\* What a guest answers to `ssh true` or guest-ping.  qemu-ga only answers or
\* does not; a guest that answers logins is up.
Answers(g) ==
  CASE g \in {"ready", "old"} -> {"ok"}
    [] g = "live"  -> IF kind = "qga" THEN {"ok", "silent"}
                      ELSE {"reject", "silent", "other"}
    [] OTHER       -> IF kind = "qga" THEN {"silent"}
                      ELSE {"silent", "reject", "other"}

\* A login that works: wait_ssh and wait_qga return, wait_iso_autoinstall goes
\* on to the version in the same iteration.
Accepted ==
  /\ IF kind = "iso"
     THEN /\ sshReady' = TRUE
          /\ StartProbe("version")
          /\ UNCHANGED outcome
     ELSE /\ End("ready")
          /\ UNCHANGED <<sshReady, spent, seen>>
  /\ UNCHANGED <<rejects, silentAt, streak>>

\* wait_ssh counts rejections and gives up at RejectMax; the other waits do
\* not count.
Rejected ==
  /\ streak' = streak + 1
  /\ rejects' = IF kind = "ssh" THEN rejects + 1 ELSE rejects
  /\ IF kind = "ssh" /\ rejects + 1 >= RejectMax
     THEN End("rejected") /\ UNCHANGED spent
     ELSE StartNap /\ UNCHANGED outcome
  /\ UNCHANGED <<sshReady, silentAt, seen>>

\* Mutant: a silent sshd leaves the count as it is.
SilentKeepsCount ==
  /\ streak' = 0
  /\ silentAt' = now
  /\ StartNap
  /\ UNCHANGED <<rejects, sshReady, outcome, seen>>

\* Mutant: a silent sshd takes one rejection back.
SilentForgives ==
  /\ rejects' = rejects - 1
  /\ streak' = 0
  /\ silentAt' = now
  /\ StartNap
  /\ UNCHANGED <<sshReady, outcome, seen>>

\* Nothing listens yet: the count starts over.
Silent ==
  /\ rejects' = 0
  /\ streak' = 0
  /\ silentAt' = now
  /\ StartNap
  /\ UNCHANGED <<sshReady, outcome, seen>>

\* Neither: the count stands.
Unclassified ==
  /\ streak' = 0
  /\ StartNap
  /\ UNCHANGED <<rejects, sshReady, silentAt, outcome, seen>>

\* Mutant: a probe without a timeout.
ProbeWaits ==
  /\ pc = "probe" /\ kind \notin SpikeKinds
  /\ "ready" \in {seen, guest}
  /\ Accepted
  /\ UNCHANGED <<phase, now, attempts, picked, env>>

\* `ssh true` or guest-ping comes back; it met the guest as it was at the
\* start or as it is by now.
ProbeReturns ==
  /\ pc = "probe" /\ kind \notin SpikeKinds
  /\ \E a \in Answers(seen) \cup Answers(guest) :
       \/ a = "ok" /\ Accepted
       \/ a = "reject" /\ Rejected
       \/ a = "silent" /\ Silent
       \/ a = "other" /\ Unclassified
  /\ UNCHANGED <<phase, now, attempts, picked, env>>

\* `omarchy version` over ssh comes back.
VersionReturns ==
  /\ pc = "version"
  /\ \/ /\ "ready" \in {seen, guest}
        /\ End("ready")
        /\ UNCHANGED spent
     \/ /\ {seen, guest} # {"ready"}
        /\ StartNap
        /\ UNCHANGED outcome
  /\ UNCHANGED <<phase, now, attempts, picked, env, answers, seen>>

\* The spike's _wait_ssh: a login returns, anything else sleeps.
SpikeProbeReturns ==
  /\ pc = "probe" /\ stage = "back" /\ kind \in {"spike", "reboot"}
  /\ \E a \in Answers(seen) \cup Answers(guest) :
       \/ a = "ok" /\ End("ready") /\ UNCHANGED spent
       \/ a # "ok" /\ StartNap /\ UNCHANGED outcome
  /\ UNCHANGED <<phase, now, attempts, picked, env, answers, seen>>

\* Mutant: a probe that succeeds is taken for the drop.
DropProbeSwapped ==
  /\ pc = "probe" /\ stage = "drop"
  /\ \E a \in Answers(seen) \cup Answers(guest) :
       \/ a = "ok" /\ ComeBack /\ UNCHANGED spent
       \/ a # "ok" /\ StartNap /\ UNCHANGED <<stage, deadline>>
  /\ UNCHANGED <<kind, now, attempts, outcome, picked, env, answers, seen>>

\* The reboot's first loop: a probe that fails is the drop.
DropProbeReturns ==
  /\ pc = "probe" /\ stage = "drop"
  /\ \E a \in Answers(seen) \cup Answers(guest) :
       \/ a = "ok" /\ StartNap /\ UNCHANGED <<stage, deadline>>
       \/ a # "ok" /\ ComeBack /\ UNCHANGED spent
  /\ UNCHANGED <<kind, now, attempts, outcome, picked, env, answers, seen>>

-----------------------------------------------------------------------------
\* The sessions of the seat, as loginctl shows them: whose, Type, Class and
\* State, each on seat0 but the ssh session the probe itself runs in.
Session(id, user, type, class, state) ==
  [id |-> id, user |-> user, type |-> type, class |-> class, state |-> state]

Ssh     == Session("ssh", "tester", "tty", "user", "active")
Greeter == Session("greeter", "gdm", "wayland", "greeter", "active")
Idle    == Session("idle", "tester", "wayland", "user", "opening or closing")
Desktop == Session("desktop", "tester", "wayland", "user", "active")
X11     == Session("x11", "tester", "x11", "user", "active")

\* What list-sessions can print, row by row, for each state of the guest.  A
\* desktop may come up beside one that is still closing, in either order.
Tables(g) ==
  CASE g = "ready" -> {<<Ssh, Desktop>>, <<Desktop, Ssh>>,
                       <<Greeter, Desktop, Ssh>>,
                       <<Idle, Desktop, Ssh>>, <<Desktop, Idle, Ssh>>}
    [] g = "x11"   -> {<<Ssh, X11>>, <<X11, Ssh>>}
    [] g = "live"  -> {<<Ssh, Greeter>>, <<Greeter, Idle, Ssh>>, <<Ssh, Idle>>}
    [] OTHER       -> {<<Ssh>>}

\* Mutant: the State of a session is not looked at.
GraphicalOrIdle(row) ==
  row.type = "wayland" /\ row.class = "user" /\ row.id # "ssh"

\* select_wayland_session, row by row: Type, Class, State, Seat, and never the
\* session of the probe's own ssh.
Graphical(row) ==
  /\ row.type = "wayland" /\ row.class = "user" /\ row.state = "active"
  /\ row.id # "ssh"

\* An X11 session of tester's anywhere in the table refuses; else the first
\* graphical row is chosen, if there is one.
Select(table) ==
  LET mine == {i \in DOMAIN table : table[i].user = "tester"}
      good == {i \in mine : Graphical(table[i])}
  IN IF \E i \in mine : table[i].type = "x11" THEN "x11"
     ELSE IF good = {} THEN "none"
     ELSE table[CHOOSE i \in good : \A j \in good : i <= j].id

\* choose_wayland_display finds no socket yet: the session came up since the
\* probe began.
SocketMayLack == seen # "ready"

\* One probe of the Wayland wait: a SessionError that names x11 is raised,
\* any other is retried, and a session whose Wayland socket is not there yet
\* is a SessionError too.  Several ssh commands make up the probe; one of them
\* that fails or runs into its timeout, with QEMU there or not, raises at once.
WaylandProbeReturns ==
  /\ pc = "probe" /\ kind = "wayland"
  /\ \/ End("broken") /\ UNCHANGED <<spent, picked>>
     \/ \E g \in {seen, guest} \ {"gone"} : \E table \in Tables(g) :
          LET sid == Select(table)
          IN \/ /\ sid = "x11"
                /\ End("refused")
                /\ UNCHANGED <<spent, picked>>
             \/ /\ sid \notin {"x11", "none"}
                /\ End("ready")
                /\ picked' = sid
                /\ UNCHANGED spent
             \/ /\ sid = "none" \/ (sid # "x11" /\ SocketMayLack)
                /\ StartNap
                /\ UNCHANGED <<outcome, picked>>
  /\ UNCHANGED <<phase, now, attempts, env, answers, seen>>

NapEnds ==
  /\ pc = "nap"
  /\ spent >= Sleep
  /\ pc' = "test"
  /\ UNCHANGED <<phase, now, spent, attempts, answers, outcome, picked, env,
                 seen>>

\* Time passes during a probe or a sleep.
Tick ==
  /\ \/ pc \in {"probe", "version"} /\ spent < MaxProbe
     \/ pc = "nap" /\ spent < MaxNap
  /\ now' = now + 1
  /\ spent' = spent + 1
  /\ UNCHANGED <<phase, pc, attempts, answers, outcome, picked, env, seen>>

\* The guest comes up, by way of a live system or not, or QEMU exits; the
\* rebooted one goes down first.
GuestMoves ==
  /\ pc # "done"
  /\ \/ guest = "down" /\ guest' = "live" /\ UNCHANGED changedAt
     \/ guest = "live" /\ guest' = "down" /\ UNCHANGED changedAt
     \/ guest = "old" /\ guest' = "down" /\ UNCHANGED changedAt
     \/ /\ guest \in {"down", "live"}
        /\ guest' \in {"ready"} \cup IF kind = "wayland" THEN {"x11"} ELSE {}
        /\ changedAt' = now
     \/ guest # "gone" /\ guest' = "gone" /\ changedAt' = now
  /\ UNCHANGED <<phase, pc, now, spent, attempts, answers, outcome, picked, seen>>

Loop == \/ Test \/ SpikeTest \/ DropTest
        \/ ProbeReturns \/ VersionReturns
        \/ SpikeProbeReturns \/ DropProbeReturns \/ WaylandProbeReturns
        \/ NapEnds

Next == Loop \/ Tick \/ GuestMoves

Spec == Init /\ [][Next]_vars

\* Time passes, probes return (each has a subprocess timeout), sleeps end.
FairSpec == Spec /\ WF_vars(Tick) /\ WF_vars(Loop)

-----------------------------------------------------------------------------
TypeOK ==
  /\ kind \in Kinds
  /\ pc \in {"test", "probe", "version", "nap", "done"}
  /\ now \in Nat /\ spent \in Nat /\ attempts \in Nat /\ rejects \in Nat
  /\ sshReady \in BOOLEAN
  /\ stage \in {"drop", "back"} /\ deadline \in Nat
  /\ outcome \in {"none", "ready", "rejected", "refused", "broken", "exited",
                  "limit", "deadline"}
  /\ picked \in {"none", "idle", "greeter", "desktop"}
  /\ {guest, seen} \subseteq {"old", "down", "live", "x11", "ready", "gone"}
  /\ changedAt \in Nat /\ silentAt \in Nat /\ streak \in Nat

\* The attempt limit is a backstop: with real sleeps the deadline always
\* comes first, so no guest loses part of its budget to it.
DeadlineBeforeLimit == outcome # "limit"

\* A guest that comes up, or a QEMU that exits, is noticed: a wait runs into
\* its deadline only if that happened too late for one more probe.
ProbeTime == IF kind = "iso" THEN 2 * MaxProbe ELSE MaxProbe

NoticedInTime ==
  outcome = "deadline" => changedAt + ProbeTime + MaxNap >= deadline

\* wait_ssh gives up on rejections only after they have lasted RejectMax - 1
\* sleeps since sshd was last silent.
AbortTakesTime ==
  outcome = "rejected" => now >= silentAt + (RejectMax - 1) * Sleep

\* _reboot_and_wait returns on the rebooted guest, unless the old one answered
\* ssh for the whole timeout: then it may return before the reboot, and the
\* session looked for next is the old boot's (spike.py:579).
RebootIsReal ==
  kind = "reboot" /\ outcome = "ready" =>
    "ready" \in {seen, guest} \/ now >= Timeout

\* The session the environment of every later command is taken from is the
\* active desktop: not the greeter's, not one that is opening or closing, in
\* whatever order loginctl lists them (session.py:91).
PickedDesktop ==
  kind = "wayland" /\ outcome = "ready" => picked = "desktop"

\* Each wait ends, whatever the guest does.
WaitEnds == <>(pc = "done")

\* "30 consecutive pubkey rejections abort" (docs/architecture.md:272;
\* image_build.py:65 says "Consecutive pubkey rejects").
AbortIsConsecutive == outcome = "rejected" => streak >= RejectMax

-----------------------------------------------------------------------------
(* The inductive invariant behind the safety properties. *)

\* Which wait is where.
PlaceInv ==
  /\ (pc = "done") = (outcome # "none")
  /\ pc = "version" \/ sshReady => kind = "iso"
  /\ stage = "drop" => kind = "reboot" /\ deadline = Timeout
  /\ kind \notin SpikeKinds => deadline = Timeout
  /\ guest = "x11" => kind = "wayland"
  /\ kind = "wayland" => guest # "old"
  /\ pc \in {"probe", "version"} => spent <= MaxProbe
  /\ pc = "nap" => spent <= MaxNap

\* Each attempt but the last has slept, so that many sleeps have passed.
AttemptInv ==
  /\ outcome # "limit"
  /\ kind \notin SpikeKinds =>
       /\ pc = "test" => attempts * Sleep <= now
       /\ pc \in {"probe", "version"} => attempts * Sleep <= now + Sleep
       /\ pc = "nap" => attempts * Sleep + spent <= now + Sleep

\* Each rejection but the last has been slept on since sshd was silent.
RejectInv ==
  /\ silentAt <= now
  /\ kind # "ssh" => rejects = 0
  /\ rejects > 0 =>
       /\ pc \in {"test", "probe"} => silentAt + rejects * Sleep <= now
       /\ pc = "nap" => silentAt + rejects * Sleep + spent <= now + Sleep
  /\ AbortTakesTime

\* The old boot is seen as long as it is there, and the wait is in its second
\* half only when it has gone or the time was up.
RebootInv ==
  /\ guest = "old" => seen = "old"
  /\ kind = "reboot" /\ stage = "back" => guest # "old" \/ now >= Timeout
  /\ kind = "reboot" /\ stage = "back" /\ pc = "probe"
       => seen # "old" \/ now >= Timeout
  /\ RebootIsReal

\* The guest has come to where the wait should end.
Settled == guest \in {"ready", "x11", "gone"}

\* The first half of a reboot is left soon after the timeout.
DropInv ==
  /\ deadline <= Never
  /\ stage = "drop" =>
       /\ pc = "test" => now <= Timeout + MaxProbe + MaxNap
       /\ pc = "probe" => now <= Timeout + spent
       /\ pc = "nap" => now <= Timeout + MaxProbe + spent

\* A settled guest was seen by the current probe, which will end the wait, or
\* settled since that probe or the one before the sleep began.
SettledInv ==
  /\ pc = "probe" => seen = guest \/ changedAt + spent >= now
  /\ pc = "version" => \/ seen = "ready" /\ guest = "ready"
                       \/ changedAt + MaxProbe + spent >= now
  /\ pc = "nap" /\ stage = "back" => changedAt + ProbeTime + spent >= now
  /\ pc = "test" /\ stage = "back" => \/ changedAt + ProbeTime + MaxNap >= now
                                      \/ now < deadline

NoticeInv ==
  /\ ~Settled => changedAt = Never
  /\ pc = "probe" /\ kind # "wayland" => seen # "gone"
  /\ Settled => SettledInv
  /\ NoticedInTime

IInv == /\ TypeOK /\ PlaceInv /\ AttemptInv /\ RejectInv /\ RebootInv
        /\ DropInv /\ NoticeInv /\ PickedDesktop
=============================================================================
