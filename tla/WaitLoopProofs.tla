--------------------------- MODULE WaitLoopProofs ---------------------------
(***************************************************************************)
(* The safety properties of WaitLoop hold for every budget, sleep, probe   *)
(* time, grace and number of rejections that TimesAssumption allows.       *)
(*                                                                         *)
(* IInv is inductive.  Each conjunct of it is preserved by every step,     *)
(* which is one lemma per conjunct.                                        *)
(***************************************************************************)
EXTENDS WaitLoop, TLAPS

USE DEF SpikeKinds

-----------------------------------------------------------------------------
(* Arithmetic *)

\* One more sleep.
LEMMA OneMore ==
  ASSUME NEW n \in Nat
  PROVE  /\ n * Sleep \in Nat
         /\ (n + 1) * Sleep = n * Sleep + Sleep
  BY TimesAssumption

\* Limit sleeps outlast the budget.
LEMMA LimitOutlasts ==
  ASSUME NEW n \in Nat, n >= Limit
  PROVE  n * Sleep > Timeout
<1> DEFINE q == Timeout \div Sleep
<1>1. q \in Nat /\ Timeout < (q + 1) * Sleep
  BY TimesAssumption
<1>2. n >= q + 1
  BY DEF Limit
<1>3. n * Sleep >= (q + 1) * Sleep
  BY <1>1, <1>2, TimesAssumption
<1> QED BY <1>1, <1>3, OneMore, TimesAssumption

\* RejectMax is reached by the rejection after the last but one.
LEMMA RejectTime ==
  ASSUME NEW n \in Nat, n + 1 >= RejectMax
  PROVE  n * Sleep >= (RejectMax - 1) * Sleep
  BY TimesAssumption

LEMMA NeverIsLate == Never \in Nat /\ Never >= Timeout
  BY TimesAssumption DEF Never

-----------------------------------------------------------------------------
(* What a guest answers, and which session is chosen *)

LEMMA UpAnswersOk == ASSUME NEW g \in {"ready", "old"} PROVE Answers(g) = {"ok"}
  BY DEF Answers

LEMMA OnlyUpAnswersOk ==
  ASSUME NEW g, kind # "qga", "ok" \in Answers(g)
  PROVE  g \in {"ready", "old"}
  BY DEF Answers

\* Tables list rows, and a ready guest's has the desktop in it.
LEMMA TableRows ==
  ASSUME NEW g, NEW table \in Tables(g)
  PROVE  /\ DOMAIN table \subseteq 1..3
         /\ g = "ready" => /\ \A i \in DOMAIN table :
                                table[i] \in {Ssh, Greeter, Idle, Desktop}
                           /\ \E i \in DOMAIN table : table[i] = Desktop
         /\ g = "x11" => \E i \in DOMAIN table : table[i] = X11
         /\ g \notin {"ready", "x11"} =>
              \A i \in DOMAIN table : table[i] \in {Ssh, Greeter, Idle}
<1>1. CASE g = "ready"
  <2>1. \/ table = <<Ssh, Desktop>> \/ table = <<Desktop, Ssh>>
        \/ table = <<Greeter, Desktop, Ssh>>
        \/ table = <<Idle, Desktop, Ssh>> \/ table = <<Desktop, Idle, Ssh>>
    BY <1>1 DEF Tables
  <2> QED BY <1>1, <2>1
<1>2. CASE g = "x11"
  <2>1. table = <<Ssh, X11>> \/ table = <<X11, Ssh>>
    BY <1>2 DEF Tables
  <2> QED BY <1>2, <2>1
<1>3. CASE g = "live"
  <2>1. \/ table = <<Ssh, Greeter>> \/ table = <<Greeter, Idle, Ssh>>
        \/ table = <<Ssh, Idle>>
    BY <1>3 DEF Tables
  <2> QED BY <1>3, <2>1
<1>4. CASE g \notin {"ready", "x11", "live"}
  <2>1. table = <<Ssh>>
    BY <1>4 DEF Tables
  <2> QED BY <1>4, <2>1
<1> QED BY <1>1, <1>2, <1>3, <1>4

\* What the rows say.
LEMMA RowFacts ==
  /\ \A row \in {Ssh, Greeter, Idle, Desktop} :
       /\ row.type # "x11"
       /\ row.user = "tester" /\ Graphical(row) => row = Desktop
  /\ \A row \in {Ssh, Greeter, Idle} : ~(row.user = "tester" /\ Graphical(row))
  /\ Desktop.user = "tester" /\ Graphical(Desktop) /\ Desktop.id = "desktop"
  /\ X11.user = "tester" /\ X11.type = "x11"
  BY DEF Session, Ssh, Greeter, Idle, Desktop, X11, Graphical

\* Of the sessions of a ready guest the desktop is chosen.
LEMMA ReadyIsDesktop ==
  ASSUME NEW table \in Tables("ready")
  PROVE  Select(table) = "desktop"
<1> DEFINE mine == {i \in DOMAIN table : table[i].user = "tester"}
           good == {i \in mine : Graphical(table[i])}
           first == CHOOSE i \in good : \A j \in good : i <= j
<1>1. /\ DOMAIN table \subseteq 1..3
      /\ \A i \in DOMAIN table : table[i] \in {Ssh, Greeter, Idle, Desktop}
      /\ \E i \in DOMAIN table : table[i] = Desktop
  BY TableRows
<1>2. \A i \in mine : table[i].type # "x11"
  BY <1>1, RowFacts
<1>3. good # {} /\ good \subseteq 1..3
  BY <1>1, RowFacts
<1>4. \E i \in good : \A j \in good : i <= j
  <2> HIDE DEF good
  <2>1. \A j \in good : j \in {1, 2, 3}
    BY <1>3
  <2>2. 1 \in good \/ 2 \in good \/ 3 \in good
    BY <1>3, <2>1
  <2> QED BY <2>1, <2>2
<1>5. first \in good
  <2> HIDE DEF good
  <2> QED BY <1>4
<1>6. table[first] = Desktop
  BY <1>1, <1>5, RowFacts
<1>7. Select(table) = table[first].id
  BY <1>2, <1>3 DEF Select
<1> QED BY <1>6, <1>7, RowFacts

LEMMA X11IsRefused ==
  ASSUME NEW table \in Tables("x11")
  PROVE  Select(table) = "x11"
  BY TableRows, RowFacts DEF Select

\* Any other guest has nothing to choose.
LEMMA ElseIsNone ==
  ASSUME NEW g, g \notin {"ready", "x11"}, NEW table \in Tables(g)
  PROVE  Select(table) = "none"
<1>1. \A i \in DOMAIN table : table[i] \in {Ssh, Greeter, Idle}
  BY TableRows
<1>2. \A i \in DOMAIN table : table[i].user = "tester" =>
        table[i].type # "x11" /\ ~Graphical(table[i])
  BY <1>1, RowFacts
<1> QED BY <1>2 DEF Select

-----------------------------------------------------------------------------
(* One lemma per conjunct of the invariant *)

\* What a probe of a session found is what Select can return.
LEMMA SelectType ==
  ASSUME NEW g, NEW table \in Tables(g)
  PROVE  /\ Select(table) \in {"none", "x11", "desktop"}
         /\ Select(table) = "desktop" => g = "ready"
         /\ g = "ready" => Select(table) = "desktop"
         /\ g = "x11" => Select(table) = "x11"
<1>1. CASE g = "ready"
  BY <1>1, ReadyIsDesktop
<1>2. CASE g = "x11"
  BY <1>2, X11IsRefused
<1>3. CASE g \notin {"ready", "x11"}
  BY <1>3, ElseIsNone
<1> QED BY <1>1, <1>2, <1>3

LEMMA TypeStep == ASSUME TypeOK, Next PROVE TypeOK'
<1> USE TimesAssumption DEF TypeOK, End, StartNap, phase, env, answers
<1>1. CASE Test
  BY <1>1 DEF Test, StartProbe
<1>2. CASE SpikeTest
  BY <1>2 DEF SpikeTest, StartProbe
<1>3. CASE DropTest
  BY <1>3 DEF DropTest, StartProbe, ComeBack
<1>4. CASE ProbeReturns
  <2>1. CASE Accepted
    <3>1. CASE kind = "iso"
      BY <1>4, <2>1, <3>1 DEF ProbeReturns, Accepted, StartProbe
    <3>2. CASE kind # "iso"
      BY <1>4, <2>1, <3>2 DEF ProbeReturns, Accepted
    <3> QED BY <3>1, <3>2
  <2>2. CASE Rejected
    BY <1>4, <2>2 DEF ProbeReturns, Rejected
  <2>3. CASE Silent \/ Unclassified
    BY <1>4, <2>3 DEF ProbeReturns, Silent, Unclassified
  <2> QED BY <1>4, <2>1, <2>2, <2>3 DEF ProbeReturns
<1>5. CASE VersionReturns
  BY <1>5 DEF VersionReturns
<1>6. CASE SpikeProbeReturns
  BY <1>6 DEF SpikeProbeReturns
<1>7. CASE DropProbeReturns
  BY <1>7 DEF DropProbeReturns, ComeBack
<1>8. CASE WaylandProbeReturns
  BY <1>8, SelectType DEF WaylandProbeReturns
<1>9. CASE NapEnds
  BY <1>9 DEF NapEnds
<1>10. CASE Tick
  BY <1>10 DEF Tick
<1>11. CASE GuestMoves
  BY <1>11 DEF GuestMoves
<1> QED BY <1>1, <1>2, <1>3, <1>4, <1>5, <1>6, <1>7, <1>8, <1>9, <1>10, <1>11
        DEF Next, Loop

LEMMA PlaceStep == ASSUME IInv, Next PROVE PlaceInv'
<1> USE TimesAssumption
    DEF IInv, TypeOK, PlaceInv, End, StartNap, phase, env, answers
<1>1. CASE Test
  BY <1>1 DEF Test, StartProbe
<1>2. CASE SpikeTest
  BY <1>2 DEF SpikeTest, StartProbe
<1>3. CASE DropTest
  BY <1>3 DEF DropTest, StartProbe, ComeBack
<1>4. CASE ProbeReturns
  BY <1>4 DEF ProbeReturns, Accepted, Rejected, Silent, Unclassified, StartProbe
<1>5. CASE VersionReturns
  BY <1>5 DEF VersionReturns
<1>6. CASE SpikeProbeReturns
  BY <1>6 DEF SpikeProbeReturns
<1>7. CASE DropProbeReturns
  BY <1>7 DEF DropProbeReturns, ComeBack
<1>8. CASE WaylandProbeReturns
  BY <1>8, SelectType DEF WaylandProbeReturns
<1>9. CASE NapEnds
  BY <1>9 DEF NapEnds
<1>10. CASE Tick
  BY <1>10 DEF Tick
<1>11. CASE GuestMoves
  BY <1>11 DEF GuestMoves
<1> QED BY <1>1, <1>2, <1>3, <1>4, <1>5, <1>6, <1>7, <1>8, <1>9, <1>10, <1>11
        DEF Next, Loop

\* Attempts and sleeps: only the head of the loop counts an attempt, and only
\* the end of a sleep leads to it.
LEMMA AttemptStep == ASSUME IInv, Next PROVE AttemptInv'
<1>1. TypeOK /\ PlaceInv /\ AttemptInv /\ Sleep \in Nat \ {0}
  BY TimesAssumption DEF IInv
<1>2. attempts \in Nat /\ attempts * Sleep \in Nat /\ now \in Nat /\ spent \in Nat
  BY <1>1, OneMore DEF TypeOK
<1>3. CASE Test
  <2>1. CASE now >= deadline
    BY <1>1, <1>2, <1>3, <2>1 DEF Test, End, AttemptInv, phase
  <2>2. CASE now < deadline
    <3>1. attempts * Sleep <= now /\ deadline = Timeout
      BY <1>1, <1>3 DEF Test, AttemptInv, PlaceInv
    <3>2. attempts < Limit
      BY <1>2, <2>2, <3>1, LimitOutlasts, TimesAssumption DEF Limit
    <3>3. /\ kind' = kind /\ now' = now
          /\ attempts' = attempts + 1
          /\ pc' \in {"probe", "version", "done"} /\ outcome' # "limit"
      BY <1>1, <1>2, <1>3, <2>2, <3>2, TimesAssumption
      DEF Test, End, StartProbe, phase, PlaceInv, TypeOK, Limit
    <3>4. (attempts + 1) * Sleep = attempts * Sleep + Sleep
      BY <1>2, OneMore
    <3> QED BY <1>1, <1>2, <3>1, <3>3, <3>4 DEF AttemptInv
  <2> QED BY <1>1, <1>2, <1>3, <2>1, <2>2 DEF TypeOK
<1>4. CASE SpikeTest \/ DropTest \/ SpikeProbeReturns \/ DropProbeReturns
             \/ WaylandProbeReturns
  <2>1. kind \in SpikeKinds /\ kind' = kind
    BY <1>1, <1>4 DEF SpikeTest, DropTest, SpikeProbeReturns, DropProbeReturns,
       WaylandProbeReturns, PlaceInv, phase
  <2>2. outcome' # "limit"
    BY <1>1, <1>4 DEF SpikeTest, DropTest, SpikeProbeReturns, DropProbeReturns,
       WaylandProbeReturns, ComeBack, End, AttemptInv
  <2> QED BY <2>1, <2>2 DEF AttemptInv
<1>5. CASE ProbeReturns \/ VersionReturns
  <2>1. /\ UNCHANGED <<kind, attempts, now>>
        /\ pc \in {"probe", "version"} /\ pc' \in {"version", "nap", "done"}
        /\ pc' = "nap" => spent' = 0
        /\ outcome' \in {outcome, "ready", "rejected"}
    <3>1. CASE ProbeReturns
      BY <3>1 DEF ProbeReturns, Accepted, Rejected, Silent, Unclassified,
                  StartProbe, StartNap, End, phase
    <3>2. CASE VersionReturns
      BY <3>2 DEF VersionReturns, StartNap, End, phase
    <3> QED BY <1>5, <3>1, <3>2
  <2> QED BY <1>1, <1>2, <2>1 DEF AttemptInv
<1>6. CASE NapEnds
  BY <1>1, <1>2, <1>6 DEF NapEnds, AttemptInv, phase
<1>7. CASE Tick
  BY <1>1, <1>2, <1>7 DEF Tick, AttemptInv, phase
<1>8. CASE GuestMoves
  BY <1>1, <1>2, <1>8 DEF GuestMoves, AttemptInv, phase
<1> QED BY <1>3, <1>4, <1>5, <1>6, <1>7, <1>8 DEF Next, Loop

\* Rejections and sleeps: a rejection is counted at the end of a probe, and a
\* silent one puts the count and the clock of AbortTakesTime back.
LEMMA RejectStep == ASSUME IInv, Next PROVE RejectInv'
<1>1. TypeOK /\ PlaceInv /\ RejectInv /\ TypeOK' /\ PlaceInv'
  BY TypeStep, PlaceStep DEF IInv
<1>2. /\ rejects \in Nat /\ rejects * Sleep \in Nat /\ now \in Nat /\ spent \in Nat
      /\ silentAt \in Nat /\ Sleep \in Nat \ {0} /\ MaxProbe \in Nat
  BY <1>1, OneMore, TimesAssumption DEF TypeOK
<1>3. CASE \/ Test \/ SpikeTest \/ DropTest \/ VersionReturns
           \/ SpikeProbeReturns \/ DropProbeReturns \/ WaylandProbeReturns
  <2>1. /\ UNCHANGED <<kind, now, rejects, silentAt>>
        /\ kind = "ssh" => pc = "test" /\ pc' \in {"probe", "done"}
        /\ outcome' # "rejected"
    <3>1. CASE Test
      BY <1>1, <3>1
      DEF Test, StartProbe, End, phase, answers, PlaceInv, TypeOK
    <3>2. CASE SpikeTest \/ DropTest
      BY <1>1, <3>2
      DEF SpikeTest, DropTest, ComeBack, StartProbe, End, phase, answers, PlaceInv
    <3>3. CASE VersionReturns \/ SpikeProbeReturns \/ DropProbeReturns
      BY <1>1, <3>3 DEF VersionReturns, SpikeProbeReturns, DropProbeReturns,
         ComeBack, StartNap, End, phase, answers, PlaceInv
    <3>4. CASE WaylandProbeReturns
      BY <1>1, <3>4 DEF WaylandProbeReturns, StartNap, End, phase, answers, PlaceInv
    <3> QED BY <1>3, <3>1, <3>2, <3>3, <3>4
  <2> QED BY <1>1, <1>2, <2>1 DEF RejectInv, AbortTakesTime
<1>4. CASE ProbeReturns
  <2>1. /\ pc = "probe" /\ outcome = "none"
        /\ UNCHANGED <<kind, now>>
    BY <1>1, <1>4 DEF ProbeReturns, phase, PlaceInv
  <2>2. CASE Accepted
    <3>1. /\ UNCHANGED <<rejects, silentAt>>
          /\ pc' \in {"version", "done"} /\ outcome' # "rejected"
      BY <2>1, <2>2 DEF Accepted, StartProbe, End
    <3> QED BY <1>1, <1>2, <2>1, <3>1 DEF RejectInv, AbortTakesTime
  <2>3. CASE Rejected /\ kind # "ssh"
    BY <1>1, <1>2, <2>1, <2>3
    DEF RejectInv, AbortTakesTime, Rejected, StartNap, End
  <2>4. CASE Rejected /\ kind = "ssh"
    <3>1. /\ rejects' = rejects + 1 /\ silentAt' = silentAt
          /\ silentAt + rejects * Sleep <= now
      <4>1. rejects = 0 => rejects * Sleep = 0
        BY <1>2
      <4> QED BY <1>1, <1>2, <2>1, <2>4, <4>1 DEF RejectInv, Rejected
    <3>2. (rejects + 1) * Sleep = rejects * Sleep + Sleep
      BY <1>2, OneMore
    <3>3. CASE rejects + 1 >= RejectMax
      <4>1. rejects * Sleep >= (RejectMax - 1) * Sleep
        BY <1>2, <3>3, RejectTime
      <4>2. (RejectMax - 1) * Sleep \in Nat
        BY <1>2, OneMore, TimesAssumption
      <4>3. pc' = "done"
        BY <2>4, <3>3 DEF Rejected, End
      <4> QED BY <1>1, <1>2, <2>1, <2>4, <3>1, <4>1, <4>2, <4>3
              DEF RejectInv, AbortTakesTime
    <3>4. CASE ~(rejects + 1 >= RejectMax)
      BY <1>1, <1>2, <2>1, <2>4, <3>1, <3>2, <3>4
      DEF RejectInv, AbortTakesTime, Rejected, StartNap
    <3> QED BY <3>3, <3>4
  <2>5. CASE Silent
    BY <1>1, <1>2, <2>1, <2>5 DEF RejectInv, AbortTakesTime, Silent, StartNap
  <2>6. CASE Unclassified
    BY <1>1, <1>2, <2>1, <2>6 DEF RejectInv, AbortTakesTime, Unclassified, StartNap
  <2> QED BY <1>4, <2>2, <2>3, <2>4, <2>5, <2>6 DEF ProbeReturns
<1>5. CASE NapEnds
  BY <1>1, <1>2, <1>5 DEF NapEnds, RejectInv, AbortTakesTime, answers, phase
<1>6. CASE Tick
  <2>1. outcome' = "none"
    BY <1>1, <1>6 DEF Tick, PlaceInv
  <2> QED BY <1>1, <1>2, <1>6, <2>1 DEF Tick, RejectInv, AbortTakesTime, answers, phase
<1>7. CASE GuestMoves
  BY <1>1, <1>2, <1>7 DEF GuestMoves, RejectInv, AbortTakesTime, answers, phase
<1> QED BY <1>3, <1>4, <1>5, <1>6, <1>7 DEF Next, Loop

\* Only a probe of the desktop picks a session.
LEMMA PickedStep == ASSUME IInv, Next PROVE PickedDesktop'
<1>1. TypeOK /\ PlaceInv /\ PickedDesktop
  BY DEF IInv
<1>2. CASE WaylandProbeReturns
  BY <1>1, <1>2, SelectType
  DEF WaylandProbeReturns, PickedDesktop, End, StartNap, phase
<1>3. CASE \/ kind' = kind /\ picked' = picked /\ outcome' = outcome
           \/ kind' = kind /\ (kind # "wayland" \/ outcome' # "ready")
  BY <1>1, <1>3 DEF PickedDesktop
<1>4. CASE Test \/ ProbeReturns \/ VersionReturns
  BY <1>1, <1>3, <1>4 DEF Test, ProbeReturns, VersionReturns, phase, PlaceInv
<1>5. CASE SpikeTest \/ DropTest
  BY <1>1, <1>3, <1>5 DEF SpikeTest, DropTest, End, phase, PlaceInv
<1>6. CASE SpikeProbeReturns \/ DropProbeReturns
  BY <1>1, <1>3, <1>6 DEF SpikeProbeReturns, DropProbeReturns, phase, PlaceInv
<1>7. CASE NapEnds \/ Tick \/ GuestMoves
  BY <1>3, <1>7 DEF NapEnds, Tick, GuestMoves, phase
<1> QED BY <1>2, <1>4, <1>5, <1>6, <1>7 DEF Next, Loop

\* The second half of a reboot begins when its time is up or the old boot has
\* failed to answer; a login then is one of the new boot.
LEMMA RebootStep == ASSUME IInv, Next PROVE RebootInv'
<1>1. TypeOK /\ PlaceInv /\ RebootInv
  BY DEF IInv
<1> USE TimesAssumption DEF RebootInv, RebootIsReal, phase, env
<1>2. CASE Test
  BY <1>1, <1>2 DEF Test, StartProbe, End, PlaceInv
<1>3. CASE SpikeTest
  BY <1>1, <1>3 DEF SpikeTest, StartProbe, End, PlaceInv
<1>4. CASE DropTest
  BY <1>1, <1>4 DEF DropTest, StartProbe, ComeBack, End, PlaceInv, TypeOK
<1>5. CASE ProbeReturns
  BY <1>1, <1>5 DEF ProbeReturns, Accepted, Rejected, Silent, Unclassified,
                    StartProbe, PlaceInv
<1>6. CASE VersionReturns
  BY <1>1, <1>6 DEF VersionReturns, PlaceInv
<1>7. CASE SpikeProbeReturns
  <2>1. /\ UNCHANGED <<kind, stage, now, guest, seen>>
        /\ pc' \in {"nap", "done"} /\ stage = "back" /\ pc = "probe"
    BY <1>7 DEF SpikeProbeReturns, End, StartNap
  <2>2. kind = "reboot" /\ outcome' = "ready" =>
          {seen, guest} \cap {"ready", "old"} # {}
    BY <1>1, <1>7, OnlyUpAnswersOk
    DEF SpikeProbeReturns, End, StartNap, PlaceInv
  <2> QED BY <1>1, <2>1, <2>2
<1>8. CASE DropProbeReturns
  <2>1. /\ UNCHANGED <<kind, now, guest, seen, outcome>>
        /\ pc = "probe" /\ pc' # "probe"
    BY <1>8 DEF DropProbeReturns, ComeBack, StartNap
  <2>2. stage' # stage => guest # "old"
    BY <1>1, <1>8, UpAnswersOk DEF DropProbeReturns, ComeBack, StartNap
  <2>3. outcome = "none" /\ stage = "drop" /\ stage' \in {"drop", "back"}
    BY <1>1, <1>8 DEF DropProbeReturns, ComeBack, PlaceInv
  <2> QED BY <1>1, <2>1, <2>2, <2>3
<1>9. CASE WaylandProbeReturns
  BY <1>1, <1>9 DEF WaylandProbeReturns, PlaceInv
<1>10. CASE NapEnds
  BY <1>1, <1>10 DEF NapEnds
<1>11. CASE Tick
  BY <1>1, <1>11 DEF Tick, TypeOK
<1>12. CASE GuestMoves
  BY <1>1, <1>12 DEF GuestMoves, PlaceInv
<1> QED BY <1>2, <1>3, <1>4, <1>5, <1>6, <1>7, <1>8, <1>9, <1>10, <1>11, <1>12
        DEF Next, Loop

\* The first half of a reboot does not outlast its timeout by more than a probe
\* and a sleep, so that the second half's deadline is bounded, too.
LEMMA DropStep == ASSUME IInv, Next PROVE DropInv'
<1>1. TypeOK /\ PlaceInv /\ DropInv /\ TypeOK' /\ PlaceInv'
  BY TypeStep, PlaceStep DEF IInv
<1>2. MaxProbe \in Nat /\ MaxNap \in Nat /\ Never \in Nat /\ Timeout \in Nat
      /\ Grace \in Nat \ {0} /\ now \in Nat /\ spent \in Nat /\ deadline \in Nat
  BY <1>1, NeverIsLate, TimesAssumption DEF TypeOK
<1> USE DEF DropInv
<1>3. CASE DropTest
  <2>1. CASE ComeBack
    BY <1>1, <1>2, <1>3, <2>1 DEF DropTest, ComeBack, Never
  <2>2. CASE ~ComeBack
    <3>1. UNCHANGED <<stage, deadline, now>> /\ pc' \in {"probe", "done"}
          /\ (pc' = "probe" => now < deadline /\ spent' = 0)
      BY <1>3, <2>2 DEF DropTest, StartProbe, End
    <3>2. deadline = Timeout
      BY <1>1, <1>3 DEF DropTest, PlaceInv
    <3> QED BY <1>1, <1>2, <3>1, <3>2
  <2> QED BY <2>1, <2>2
<1>4. CASE DropProbeReturns
  <2>1. spent <= MaxProbe /\ now <= Timeout + spent /\ deadline = Timeout
    BY <1>1, <1>4 DEF DropProbeReturns, PlaceInv
  <2>2. CASE ComeBack
    BY <1>1, <1>2, <1>4, <2>1, <2>2 DEF DropProbeReturns, ComeBack, Never
  <2>3. CASE ~ComeBack
    <3>1. UNCHANGED <<stage, deadline, now>> /\ pc' = "nap" /\ spent' = 0
      BY <1>4, <2>3 DEF DropProbeReturns, StartNap
    <3> QED BY <1>1, <1>2, <2>1, <3>1
  <2> QED BY <2>2, <2>3
<1>5. CASE /\ UNCHANGED <<stage, deadline>>
           /\ stage = "back" \/ kind # "reboot" \/ UNCHANGED <<pc, now, spent>>
  BY <1>1, <1>5 DEF PlaceInv
<1>6. CASE Test \/ SpikeTest
  BY <1>1, <1>5, <1>6 DEF Test, SpikeTest, phase
<1>7. CASE ProbeReturns \/ VersionReturns
  BY <1>1, <1>5, <1>7 DEF ProbeReturns, VersionReturns, phase, PlaceInv
<1>8. CASE SpikeProbeReturns \/ WaylandProbeReturns
  BY <1>1, <1>5, <1>8 DEF SpikeProbeReturns, WaylandProbeReturns, phase, PlaceInv
<1>9. CASE NapEnds
  <2>1. UNCHANGED <<stage, deadline, now>> /\ pc = "nap" /\ pc' = "test"
    BY <1>9 DEF NapEnds, phase
  <2>2. spent <= MaxNap
    BY <1>1, <2>1 DEF PlaceInv
  <2> QED BY <1>1, <1>2, <2>1, <2>2
<1>10. CASE Tick
  <2>1. /\ UNCHANGED <<stage, deadline, pc>> /\ pc # "test"
        /\ now' = now + 1 /\ spent' = spent + 1
    BY <1>10 DEF Tick, phase
  <2> QED BY <1>1, <1>2, <2>1
<1>11. CASE GuestMoves
  BY <1>1, <1>5, <1>11 DEF GuestMoves, phase
<1> QED BY <1>3, <1>4, <1>6, <1>7, <1>8, <1>9, <1>10, <1>11 DEF Next, Loop

\* A probe of a settled guest that it saw from its start does not end in a
\* sleep; after one that did not see it the change is recent.
LEMMA SettledNap ==
  ASSUME IInv, Settled, pc' = "nap", stage = "back", kind' = kind,
         ProbeReturns \/ VersionReturns \/ SpikeProbeReturns \/ WaylandProbeReturns
  PROVE  changedAt + ProbeTime >= now
<1>1. /\ TypeOK /\ PlaceInv /\ NoticeInv /\ RebootInv /\ SettledInv
      /\ changedAt \in Nat /\ spent \in Nat /\ now \in Nat /\ MaxProbe \in Nat
  BY TimesAssumption DEF IInv, NoticeInv, TypeOK
<1>2. CASE ProbeReturns
  <2>1. \E a \in Answers(seen) \cup Answers(guest) : a # "ok"
    BY <1>2 DEF ProbeReturns, Accepted, End, StartProbe
  <2>2. seen # guest
    BY <1>1, <1>2, <2>1, UpAnswersOk
    DEF ProbeReturns, Settled, NoticeInv, PlaceInv
  <2> QED BY <1>1, <1>2, <2>2 DEF ProbeReturns, SettledInv, PlaceInv, ProbeTime
<1>3. CASE VersionReturns
  <2>1. pc = "version" /\ {seen, guest} # {"ready"}
    BY <1>3 DEF VersionReturns, End
  <2> QED BY <1>1, <2>1 DEF SettledInv, PlaceInv, ProbeTime
<1>4. CASE SpikeProbeReturns
  <2>1. pc = "probe" /\ kind # "wayland"
    BY <1>4 DEF SpikeProbeReturns
  <2>2. \E a \in Answers(seen) \cup Answers(guest) : a # "ok"
    BY <1>4 DEF SpikeProbeReturns, End
  <2>3. seen # guest
    BY <1>1, <2>1, <2>2, UpAnswersOk DEF Settled, NoticeInv, PlaceInv
  <2> QED BY <1>1, <2>1, <2>3 DEF SettledInv, PlaceInv, ProbeTime
<1>5. CASE WaylandProbeReturns
  <2>1. pc = "probe"
    BY <1>5 DEF WaylandProbeReturns
  <2>2. seen # guest
    <3>1. PICK g \in {seen, guest} \ {"gone"} : \E table \in Tables(g) :
            LET sid == Select(table)
            IN  sid = "none" \/ (sid # "x11" /\ SocketMayLack)
      BY <1>5 DEF WaylandProbeReturns, End
    <3>2. PICK table \in Tables(g) :
            Select(table) = "none" \/ (Select(table) # "x11" /\ SocketMayLack)
      BY <3>1
    <3>3. g \notin {"ready", "x11"} \/ (g = "ready" /\ seen # "ready")
      BY <3>2, SelectType DEF SocketMayLack
    <3> QED BY <3>1, <3>3 DEF Settled
  <2> QED BY <1>1, <2>1, <2>2 DEF SettledInv, PlaceInv, ProbeTime
<1> QED BY <1>2, <1>3, <1>4, <1>5

\* The head of a loop ends a wait at its deadline, or starts a probe that sees
\* the guest as it is.
LEMMA NoticeTest ==
  ASSUME IInv, Test \/ SpikeTest
  PROVE  NoticeInv'
<1>1. /\ TypeOK /\ PlaceInv /\ DropInv /\ NoticeInv
      /\ changedAt \in Nat /\ now \in Nat /\ deadline \in Nat /\ MaxNap \in Nat
      /\ ProbeTime \in Nat /\ Never \in Nat
  BY TimesAssumption, NeverIsLate DEF IInv, TypeOK, ProbeTime
<1>2. /\ UNCHANGED <<kind, stage, deadline, now, guest, changedAt>>
      /\ pc = "test" /\ stage = "back" /\ outcome = "none"
      /\ pc' \in {"done", "probe", "version"}
      /\ pc' \in {"probe", "version"} => seen' = guest
      /\ pc' \in {"probe", "version"} /\ kind # "wayland" => guest # "gone"
      /\ pc' = "version" => kind = "iso"
      /\ outcome' = "deadline" => now >= deadline
  <2>1. CASE Test
    BY <1>1, <2>1 DEF Test, StartProbe, End, phase, env, PlaceInv, TypeOK
  <2>2. CASE SpikeTest
    BY <1>1, <2>2 DEF SpikeTest, StartProbe, End, phase, env, PlaceInv
  <2> QED BY <2>1, <2>2
<1>3. pc' = "version" /\ Settled => seen' = "ready" /\ guest = "ready"
  BY <1>1, <1>2 DEF Settled, PlaceInv
<1>4. Settled' = Settled /\ ProbeTime' = ProbeTime
  BY <1>2 DEF Settled, ProbeTime
<1>5. Settled => SettledInv'
  BY <1>1, <1>2, <1>3 DEF SettledInv
<1>6. changedAt + ProbeTime + MaxNap >= now \/ now < deadline \/ changedAt = Never
  BY <1>1, <1>2 DEF NoticeInv, SettledInv
<1>7. NoticedInTime'
  BY <1>1, <1>2, <1>4, <1>6 DEF NoticedInTime, DropInv
<1> QED BY <1>1, <1>2, <1>4, <1>5, <1>7 DEF NoticeInv

\* A probe ends the wait with an outcome, or it leads to a sleep; that of
\* wait_iso_autoinstall may lead to another probe.
LEMMA NoticeProbe ==
  ASSUME IInv,
         ProbeReturns \/ VersionReturns \/ SpikeProbeReturns \/ WaylandProbeReturns
  PROVE  NoticeInv'
<1>1. /\ TypeOK /\ PlaceInv /\ NoticeInv
      /\ changedAt \in Nat /\ now \in Nat /\ spent \in Nat /\ MaxProbe \in Nat
      /\ ProbeTime \in Nat
  BY TimesAssumption DEF IInv, TypeOK, ProbeTime
<1>2. /\ UNCHANGED <<kind, stage, deadline, now, guest, changedAt>>
      /\ stage = "back" /\ pc' \in {"done", "version", "nap"}
      /\ outcome' # "deadline"
      /\ pc' = "nap" => spent' = 0
      /\ pc' = "version" => /\ kind = "iso" /\ pc = "probe"
                            /\ seen' = guest /\ spent' = 0 /\ ProbeReturns
  <2>1. CASE ProbeReturns
    BY <1>1, <2>1 DEF ProbeReturns, Accepted, Rejected, Silent, Unclassified,
       StartProbe, StartNap, End, phase, env, PlaceInv, TypeOK
  <2>2. CASE VersionReturns
    BY <1>1, <2>2 DEF VersionReturns, StartNap, End, phase, env, PlaceInv, TypeOK
  <2>3. CASE SpikeProbeReturns
    BY <1>1, <2>3 DEF SpikeProbeReturns, StartNap, End, phase, env, PlaceInv
  <2>4. CASE WaylandProbeReturns
    BY <1>1, <2>4 DEF WaylandProbeReturns, StartNap, End, phase, env, PlaceInv, TypeOK
  <2> QED BY <2>1, <2>2, <2>3, <2>4
<1>3. Settled' = Settled /\ ProbeTime' = ProbeTime
  BY <1>2 DEF Settled, ProbeTime
<1>4. pc' = "nap" /\ Settled => changedAt + ProbeTime >= now
  BY <1>2, SettledNap
<1>5. pc' = "version" /\ Settled =>
        (seen' = "ready" /\ guest = "ready") \/ changedAt + MaxProbe >= now
  BY <1>1, <1>2 DEF Settled, NoticeInv, SettledInv, PlaceInv
<1>6. Settled => SettledInv'
  BY <1>1, <1>2, <1>3, <1>4, <1>5 DEF SettledInv
<1> QED BY <1>1, <1>2, <1>3, <1>6 DEF NoticeInv, NoticedInTime

\* The first half of a reboot.
LEMMA NoticeDrop ==
  ASSUME IInv, DropTest \/ DropProbeReturns
  PROVE  NoticeInv'
<1>1. /\ TypeOK /\ PlaceInv /\ NoticeInv
      /\ now \in Nat /\ deadline \in Nat /\ Grace \in Nat \ {0}
  BY TimesAssumption DEF IInv, TypeOK
<1>2. /\ UNCHANGED <<kind, now, guest, changedAt>> /\ kind = "reboot"
      /\ outcome' # "deadline"
      /\ \/ pc' = "test" /\ now < deadline'
         \/ pc' = "nap" /\ stage' = "drop"
         \/ pc' = "probe" /\ seen' = guest /\ guest # "gone"
         \/ pc' = "done"
  <2>1. CASE DropTest
    BY <1>1, <2>1 DEF DropTest, ComeBack, StartProbe, End, env, PlaceInv
  <2>2. CASE DropProbeReturns
    BY <1>1, <2>2 DEF DropProbeReturns, ComeBack, StartNap, env, PlaceInv
  <2> QED BY <2>1, <2>2
<1> QED BY <1>1, <1>2 DEF NoticeInv, NoticedInTime, Settled, SettledInv

\* Sleeping, time, and the guest.
LEMMA NoticeRest ==
  ASSUME IInv, NapEnds \/ Tick \/ GuestMoves
  PROVE  NoticeInv'
<1>1. /\ TypeOK /\ PlaceInv /\ NoticeInv
      /\ changedAt \in Nat /\ now \in Nat /\ spent \in Nat /\ MaxProbe \in Nat
      /\ ProbeTime \in Nat /\ MaxNap \in Nat
  BY TimesAssumption DEF IInv, TypeOK, ProbeTime
<1>2. kind' = kind /\ stage' = stage /\ outcome' = outcome /\ deadline' = deadline
      /\ seen' = seen /\ ProbeTime' = ProbeTime
  BY DEF NapEnds, Tick, GuestMoves, phase, ProbeTime
<1>3. CASE NapEnds
  <2>1. /\ UNCHANGED <<now, guest, changedAt>> /\ pc = "nap" /\ pc' = "test"
        /\ spent <= MaxNap
    BY <1>1, <1>3 DEF NapEnds, env, PlaceInv
  <2> QED BY <1>1, <1>2, <2>1 DEF NoticeInv, NoticedInTime, Settled, SettledInv
<1>4. CASE Tick
  <2>1. /\ UNCHANGED <<pc, guest, changedAt>> /\ pc # "test"
        /\ now' = now + 1 /\ spent' = spent + 1
    BY <1>1, <1>4 DEF Tick, env
  <2> QED BY <1>1, <1>2, <2>1 DEF NoticeInv, NoticedInTime, Settled, SettledInv
<1>5. CASE GuestMoves
  <2>1. /\ UNCHANGED <<pc, now, spent>> /\ outcome = "none"
        /\ \/ ~Settled /\ ~Settled' /\ changedAt' = changedAt
           \/ Settled' /\ changedAt' = now
    BY <1>1, <1>5 DEF GuestMoves, PlaceInv, Settled, TypeOK
  <2>2. Settled' => SettledInv'
    BY <1>1, <1>2, <2>1 DEF SettledInv
  <2> QED BY <1>1, <1>2, <2>1, <2>2 DEF NoticeInv, NoticedInTime
<1> QED BY <1>3, <1>4, <1>5

\* When a guest settled, and what the wait has done since.
LEMMA NoticeStep == ASSUME IInv, Next PROVE NoticeInv'
  BY NoticeTest, NoticeProbe, NoticeDrop, NoticeRest DEF Next, Loop

-----------------------------------------------------------------------------
LEMMA InitIInv == ASSUME Init PROVE IInv
<1> USE TimesAssumption, KindsAssumption, NeverIsLate DEF Init
<1>1. TypeOK
  BY DEF TypeOK
<1>2. PlaceInv
  BY DEF PlaceInv
<1>3. AttemptInv
  BY DEF AttemptInv
<1>4. RejectInv /\ PickedDesktop
  BY DEF RejectInv, AbortTakesTime, PickedDesktop
<1>5. RebootInv
  BY DEF RebootInv, RebootIsReal
<1>6. DropInv /\ NoticeInv
  BY DEF DropInv, NoticeInv, NoticedInTime, Settled, SettledInv
<1> QED BY <1>1, <1>2, <1>3, <1>4, <1>5, <1>6 DEF IInv

LEMMA StutterIInv == ASSUME IInv, UNCHANGED vars PROVE IInv'
  BY DEF vars, IInv, TypeOK, PlaceInv, AttemptInv, RejectInv, AbortTakesTime,
         RebootInv, RebootIsReal, DropInv, NoticeInv, NoticedInTime, Settled,
         SettledInv, ProbeTime, PickedDesktop

\* IInv is an inductive invariant of the six waits (image_build.py, spike.py),
\* whatever the guest does and however long each probe and sleep takes.
THEOREM Inductive == Spec => []IInv
<1>1. ASSUME IInv, [Next]_vars PROVE IInv'
  BY <1>1, StutterIInv, TypeStep, PlaceStep, AttemptStep, RejectStep, RebootStep,
     DropStep, NoticeStep, PickedStep DEF IInv
<1> QED BY <1>1, InitIInv, PTL DEF Spec

\* Type correctness.
THEOREM TypeCorrect == Spec => []TypeOK
<1>1. IInv => TypeOK
  BY DEF IInv
<1> QED BY <1>1, Inductive, PTL

\* The attempt limit of image_build.py:312 never ends a wait: whatever the
\* budget and the sleep, the deadline comes first.
THEOREM DeadlineBeforeLimitHolds == Spec => []DeadlineBeforeLimit
<1>1. IInv => DeadlineBeforeLimit
  BY DEF IInv, AttemptInv, DeadlineBeforeLimit
<1> QED BY <1>1, Inductive, PTL

\* A guest that comes up, or a QEMU that exits, longer than one probe and one
\* sleep before the deadline is noticed (image_build.py:332, spike.py:320).
THEOREM NoticedInTimeHolds == Spec => []NoticedInTime
<1>1. IInv => NoticedInTime
  BY DEF IInv, NoticeInv
<1> QED BY <1>1, Inductive, PTL

\* wait_ssh aborts on rejections (image_build.py:361) no sooner than
\* RejectMax - 1 sleeps after sshd was last silent.
THEOREM AbortTakesTimeHolds == Spec => []AbortTakesTime
<1>1. IInv => AbortTakesTime
  BY DEF IInv, RejectInv
<1> QED BY <1>1, Inductive, PTL

\* _reboot_and_wait returns on the new boot, or its first half used up the
\* whole timeout (spike.py:579).
THEOREM RebootIsRealHolds == Spec => []RebootIsReal
<1>1. IInv => RebootIsReal
  BY DEF IInv, RebootInv
<1> QED BY <1>1, Inductive, PTL

\* The Wayland wait returns the active desktop's session (session.py:91).
THEOREM PickedDesktopHolds == Spec => []PickedDesktop
<1>1. IInv => PickedDesktop
  BY DEF IInv
<1> QED BY <1>1, Inductive, PTL
=============================================================================
