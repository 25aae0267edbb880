-------------------------- MODULE RunCommandProofs --------------------------
(***************************************************************************)
(* The safety properties of RunCommand hold for every set of commands,     *)
(* every number of spawn attempts and every number of SIGINTs.             *)
(*                                                                         *)
(* IInv is inductive.  Each of its conjuncts is preserved by every step,   *)
(* which is one lemma per conjunct; the steps are taken in groups that     *)
(* disturb a conjunct in the same way.                                     *)
(***************************************************************************)
EXTENDS RunCommand, TLAPS

USE DEF Early, TryBlock, FinallyBlock, Unspawned, WithMachine, Raised, Alive,
        Failures, Reporters, Fate, Untouched

\* The command is somewhere it can be, with a QEMU, an exception and a status
\* that can be.
LEMMA PlaceTypeStep == ASSUME IInv, Next PROVE PlaceType'
<1>1. PlaceType
  BY DEF IInv, TypeOK
<1> USE <1>1 DEF PlaceType, Places, Goto, Raise, Return
<1>2. CASE \/ Validate \/ RequireGolden \/ CheckHost
         \/ PrepareOverlay \/ SpikeImage \/ DownloadEnds \/ SpikePrepare
  BY <1>2 DEF Validate, RequireGolden, CheckHost, PrepareOverlay, SpikeImage, DownloadEnds, SpikePrepare
<1>3. CASE SpawnAttempt \/ SettlePoll \/ WaitSsh
  BY <1>3 DEF SpawnAttempt, SettlePoll, WaitSsh
<1>4. CASE RunSteps \/ SpikeSteps \/ ScpHangs \/ ScpFails
  BY <1>4 DEF RunSteps, SpikeSteps, ScpHangs, ScpFails, report
<1>5. CASE WriteResult \/ PrintSummary \/ WaitForQemu
  BY <1>5 DEF WriteResult, PrintSummary, WaitForQemu
<1>6. CASE HandleException
  BY <1>6 DEF HandleException
<1>7. CASE EnterFinally \/ QgaShutdown \/ SshPoweroff \/ AcpiPowerButton
  BY <1>7 DEF EnterFinally, QgaShutdown, SshPoweroff, AcpiPowerButton,
              GuestMayObey
<1>8. CASE KillRung \/ CascadeRaises \/ Reap \/ FinishRunDir
  BY <1>8 DEF KillRung, CascadeRaises, Reap, FinishRunDir, DeleteFiles, Killed
<1>9. CASE Interrupt
  BY <1>9 DEF Interrupt
<1>10. CASE GuestHangs \/ QemuExits
  BY <1>10 DEF GuestHangs, QemuExits
<1> QED
  BY <1>2, <1>3, <1>4, <1>5, <1>6, <1>7, <1>8, <1>9, <1>10 DEF Next, Program

\* SpawnAttempt finds an attempt left, Interrupt records a place.
LEMMA CountTypeStep == ASSUME IInv, Next PROVE CountType'
<1>1. CountType /\ pc \in Places
  BY DEF IInv, TypeOK, PlaceType
<1>2. CASE SpawnAttempt
  <2>1. tries \in Nat /\ tries < MaxPortRetries
    BY <1>1, <1>2 DEF SpawnAttempt, IInv, PlaceInv, CountType
  <2>2. tries + 1 \in 0..MaxPortRetries
    BY <2>1, RetriesAssumption
  <2>3. tries' \in {tries, tries + 1} /\ UNCHANGED <<cmd, cut>>
    BY <1>2 DEF SpawnAttempt, control
  <2> QED BY <1>1, <2>2, <2>3 DEF CountType
<1>3. CASE Interrupt
  <2>1. cut' = cut \cup {pc} /\ UNCHANGED <<cmd, tries>>
    BY <1>3 DEF Interrupt, control
  <2> QED BY <1>1, <2>1 DEF CountType
<1>4. CASE UNCHANGED <<cmd, tries, cut>>
  BY <1>1, <1>4 DEF CountType
<1> QED
  BY <1>2, <1>3, <1>4
     DEF Next, Program, control, Validate, RequireGolden, CheckHost,
         PrepareOverlay, SpikeImage, DownloadEnds, SpikePrepare, SettlePoll, WaitSsh, RunSteps,
         SpikeSteps, ScpHangs, ScpFails, WriteResult, PrintSummary, WaitForQemu,
         HandleException, EnterFinally, QgaShutdown, SshPoweroff,
         AcpiPowerButton, KillRung, CascadeRaises, Reap, FinishRunDir,
         GuestHangs, QemuExits

LEMMA FlagTypeStep == ASSUME IInv, Next PROVE FlagType'
<1> USE DEF IInv, TypeOK, FlagType, control, report, files, Goto, Raise, Return
<1>1. CASE \/ Validate \/ RequireGolden \/ CheckHost
         \/ PrepareOverlay \/ SpikeImage \/ DownloadEnds \/ SpikePrepare
  BY <1>1 DEF Validate, RequireGolden, CheckHost, PrepareOverlay, SpikeImage, DownloadEnds, SpikePrepare
<1>2. CASE SpawnAttempt \/ SettlePoll
  BY <1>2 DEF SpawnAttempt, SettlePoll
<1>3. CASE WaitSsh \/ RunSteps \/ SpikeSteps \/ ScpHangs \/ ScpFails
  BY <1>3 DEF WaitSsh, RunSteps, SpikeSteps, ScpHangs, ScpFails
<1>4. CASE WriteResult \/ PrintSummary \/ WaitForQemu \/ HandleException
  BY <1>4 DEF WriteResult, PrintSummary, WaitForQemu, HandleException
<1>5. CASE EnterFinally \/ QgaShutdown \/ SshPoweroff \/ AcpiPowerButton
  BY <1>5 DEF EnterFinally, QgaShutdown, SshPoweroff, AcpiPowerButton
<1>6. CASE KillRung \/ CascadeRaises \/ Reap
  BY <1>6 DEF KillRung, CascadeRaises, Reap
<1>7. CASE FinishRunDir
  BY <1>7 DEF FinishRunDir, DeleteFiles
<1>8. CASE Interrupt \/ GuestHangs \/ QemuExits
  BY <1>8 DEF Interrupt, DeleteFiles, GuestHangs, QemuExits
<1> QED
  BY <1>1, <1>2, <1>3, <1>4, <1>5, <1>6, <1>7, <1>8 DEF Next, Program

\* The dict that HandleException writes is one, with the exception in it.
LEMMA ErrorReport ==
  ASSUME IInv, HandleException
  PROVE  /\ result' \in Dict /\ recorded' = recorded
         /\ file' \in File
         /\ cmd \in Reporters /\ rc' # "traceback" =>
              file'.state = "whole" /\ file'.body.error = exc
<1> DEFINE body == [result EXCEPT !.error = exc,
                                  !.commands = (exc = "listed" /\ recorded)]
<1>1. exc \in Raised /\ result \in Dict /\ file \in File
  BY DEF HandleException, IInv, CutInv, TypeOK, PlaceType, ReportType
<1>2. body \in Dict /\ body.error = exc
  BY <1>1 DEF Dict
<1>3. result' \in {body, result} /\ recorded' = recorded
  BY DEF HandleException, report
<1>4. \/ file' = [state |-> "whole", body |-> body]
      \/ file' = [file EXCEPT !.state = "torn"] /\ rc' = "traceback"
      \/ file' = file /\ cmd \notin Reporters
  BY Zenon DEF HandleException, report
<1> HIDE DEF body
<1> QED
  BY <1>1, <1>2, <1>3, <1>4 DEF File

LEMMA ReportTypeStep == ASSUME IInv, Next PROVE ReportType'
<1> USE DEF IInv, TypeOK, ReportType, control, report, files
<1>1. CASE RunSteps \/ SpikeSteps
  <2>1. recorded' \in BOOLEAN /\ file' = file
    BY <1>1 DEF RunSteps, SpikeSteps
  <2>2. result' \in Dict
    BY <1>1 DEF RunSteps, SpikeSteps, Dict
  <2> QED BY <2>1, <2>2
<1>2. CASE ScpHangs \/ ScpFails
  BY <1>2 DEF ScpHangs, ScpFails
<1>3. CASE WriteResult
  BY <1>3 DEF WriteResult, File
<1>4. CASE HandleException
  BY <1>4, ErrorReport
<1>5. CASE UNCHANGED report
  BY <1>5
<1> QED
  BY <1>1, <1>2, <1>3, <1>4, <1>5
     DEF Next, Program, Validate, RequireGolden, CheckHost, PrepareOverlay, SpikeImage, DownloadEnds,
         SpikePrepare, SpawnAttempt, SettlePoll, WaitSsh, PrintSummary,
         WaitForQemu, EnterFinally, QgaShutdown, SshPoweroff, AcpiPowerButton,
         KillRung, CascadeRaises, Reap, FinishRunDir, Interrupt, GuestHangs,
         QemuExits

-----------------------------------------------------------------------------
\* Where QEMU and `machine` can be: SettlePoll binds a live process before
\* anything else can raise, and Reap leaves none that lives.
LEMMA PlaceInvStep == ASSUME IInv, Next PROVE PlaceInv'
<1> USE RetriesAssumption
    DEF IInv, TypeOK, CountType, PlaceInv, control, report, files, Goto, Raise,
        Return
<1>1. CASE Validate \/ RequireGolden \/ CheckHost
  BY <1>1 DEF Validate, RequireGolden, CheckHost
<1>2. CASE PrepareOverlay \/ SpikeImage \/ DownloadEnds \/ SpikePrepare \/ SpawnAttempt
  BY <1>2 DEF PrepareOverlay, SpikeImage, DownloadEnds, SpikePrepare, SpawnAttempt
<1>3. CASE SettlePoll
  BY <1>3 DEF SettlePoll
<1>4. CASE WaitSsh \/ RunSteps \/ SpikeSteps \/ ScpHangs \/ ScpFails
  BY <1>4 DEF WaitSsh, RunSteps, SpikeSteps, ScpHangs, ScpFails
<1>5. CASE WriteResult \/ PrintSummary \/ WaitForQemu \/ HandleException
  BY <1>5 DEF WriteResult, PrintSummary, WaitForQemu, HandleException
<1>6. CASE EnterFinally \/ QgaShutdown \/ SshPoweroff \/ AcpiPowerButton
  BY <1>6 DEF EnterFinally, QgaShutdown, SshPoweroff, AcpiPowerButton,
              GuestMayObey
<1>7. CASE KillRung \/ CascadeRaises \/ Reap \/ FinishRunDir
  BY <1>7 DEF KillRung, CascadeRaises, Reap, FinishRunDir, DeleteFiles, Killed
<1>8. CASE Interrupt
  BY <1>8 DEF Interrupt, CutInv
<1>9. CASE GuestHangs \/ QemuExits
  BY <1>9 DEF GuestHangs, QemuExits
<1> QED
  BY <1>1, <1>2, <1>3, <1>4, <1>5, <1>6, <1>7, <1>8, <1>9 DEF Next, Program

LEMMA CutInvStep == ASSUME IInv, Next PROVE CutInv'
<1> USE DEF IInv, CutInv, control, report, files, Goto, Raise, Return
<1>1. CASE Validate \/ RequireGolden \/ CheckHost
  BY <1>1 DEF Validate, RequireGolden, CheckHost
<1>2. CASE PrepareOverlay \/ SpikeImage \/ DownloadEnds \/ SpikePrepare \/ SpawnAttempt \/ SettlePoll
  BY <1>2 DEF PrepareOverlay, SpikeImage, DownloadEnds, SpikePrepare, SpawnAttempt, SettlePoll
<1>3. CASE WaitSsh \/ ScpHangs \/ ScpFails
  BY <1>3 DEF WaitSsh, ScpHangs, ScpFails
<1>4. CASE WriteResult \/ PrintSummary \/ WaitForQemu
  BY <1>4 DEF WriteResult, PrintSummary, WaitForQemu
<1>5. CASE HandleException
  BY <1>5 DEF HandleException
<1>6. CASE RunSteps
  BY <1>6 DEF RunSteps
<1>7. CASE SpikeSteps
  BY <1>7 DEF SpikeSteps
<1>8. CASE EnterFinally \/ QgaShutdown \/ SshPoweroff \/ AcpiPowerButton
  BY <1>8 DEF EnterFinally, QgaShutdown, SshPoweroff, AcpiPowerButton
<1>9. CASE KillRung \/ CascadeRaises \/ Reap \/ FinishRunDir
  BY <1>9 DEF KillRung, CascadeRaises, Reap, FinishRunDir, DeleteFiles
<1>10. CASE Interrupt
  BY <1>10 DEF Interrupt
<1>11. CASE GuestHangs \/ QemuExits
  BY <1>11 DEF GuestHangs, QemuExits
<1> QED
  BY <1>1, <1>2, <1>3, <1>4, <1>5, <1>6, <1>7, <1>8, <1>9, <1>10, <1>11
     DEF Next, Program

-----------------------------------------------------------------------------
\* What is written and deleted: only HandleException and PrintSummary set a
\* status, and nothing but FinishRunDir deletes.
LEMMA ReportInvStep == ASSUME IInv, Next PROVE ReportInv'
<1> USE DEF IInv, control, report, files, Goto, Raise, Return
<1>1. CASE Validate \/ RequireGolden
  BY <1>1 DEF Validate, RequireGolden, CutInv, ReportInv
<1>2. CASE CheckHost
  BY <1>2 DEF CheckHost, TypeOK, PlaceType, FlagType, CutInv, ReportInv
<1>3. CASE PrepareOverlay \/ SpikeImage \/ DownloadEnds \/ SpikePrepare
  BY <1>3 DEF PrepareOverlay, SpikeImage, DownloadEnds, SpikePrepare, CutInv, ReportInv
<1>4. CASE SpawnAttempt \/ SettlePoll \/ WaitSsh
  BY <1>4 DEF SpawnAttempt, SettlePoll, WaitSsh, CutInv, ReportInv
<1>5. CASE RunSteps \/ SpikeSteps
  BY <1>5 DEF RunSteps, SpikeSteps, TypeOK, ReportType, Dict, CutInv, ReportInv
<1>6. CASE ScpHangs \/ ScpFails
  BY <1>6 DEF ScpHangs, ScpFails, CutInv, ReportInv
<1>7. CASE WriteResult
  BY <1>7 DEF WriteResult, CutInv, ReportInv
<1>8. CASE PrintSummary \/ WaitForQemu
  BY <1>8 DEF PrintSummary, WaitForQemu, CutInv, ReportInv
<1>9. CASE HandleException
  <2>1. /\ pc' = "cleanup" /\ failed' = TRUE
        /\ UNCHANGED <<cmd, exc, runDir, disks>>
    BY <1>9 DEF HandleException
  <2>2. rc' = "traceback" \/ rc' = IF exc = "interrupt" THEN "130" ELSE "1"
    BY <1>9 DEF HandleException
  <2>3. cmd \in Reporters /\ rc' # "traceback" =>
          file'.state = "whole" /\ file'.body.error = exc
    BY <1>9, ErrorReport
  <2>4. runDir = "there" /\ disks \in Untouched /\ exc # "none"
    BY <1>9 DEF HandleException, CutInv, ReportInv
  <2> QED
    BY <2>1, <2>2, <2>3, <2>4 DEF ReportInv
<1>10. CASE EnterFinally \/ QgaShutdown \/ SshPoweroff \/ AcpiPowerButton
  BY <1>10 DEF EnterFinally, QgaShutdown, SshPoweroff, AcpiPowerButton,
               ReportInv
<1>11. CASE KillRung \/ CascadeRaises \/ Reap
  BY <1>11 DEF KillRung, CascadeRaises, Reap, ReportInv
<1>12. CASE FinishRunDir
  BY <1>12 DEF FinishRunDir, DeleteFiles, ReportInv
<1>13. CASE Interrupt
  BY <1>13 DEF Interrupt, DeleteFiles, CutInv, ReportInv
<1>14. CASE GuestHangs \/ QemuExits
  BY <1>14 DEF GuestHangs, QemuExits, ReportInv
<1> QED
  BY <1>1, <1>2, <1>3, <1>4, <1>5, <1>6, <1>7, <1>8, <1>9, <1>10, <1>11, <1>12,
     <1>13, <1>14 DEF Next, Program

\* The properties of an exit: a step that is not an exit makes them true
\* trivially, and after the exit only QEMU and its guest take steps.
ToExit == Validate \/ RequireGolden \/ CheckHost \/ FinishRunDir \/ Interrupt

LEMMA StepsOfExit ==
  ASSUME IInv, Next
  PROVE  \/ pc' # "exit"
         \/ pc # "exit" /\ ToExit
         \/ pc = "exit" /\ (GuestHangs \/ QemuExits)
<1> USE DEF Goto, Raise
<1>1. CASE Validate \/ RequireGolden \/ CheckHost \/ FinishRunDir \/ Interrupt
  BY <1>1 DEF ToExit, Validate, RequireGolden, CheckHost, FinishRunDir,
              Interrupt
<1>2. CASE PrepareOverlay \/ SpikeImage \/ DownloadEnds \/ SpikePrepare \/ SpawnAttempt \/ SettlePoll
  BY <1>2 DEF PrepareOverlay, SpikeImage, DownloadEnds, SpikePrepare, SpawnAttempt, SettlePoll
<1>3. CASE WaitSsh \/ RunSteps \/ SpikeSteps \/ ScpHangs \/ ScpFails
  BY <1>3 DEF WaitSsh, RunSteps, SpikeSteps, ScpHangs, ScpFails
<1>4. CASE WriteResult \/ PrintSummary \/ WaitForQemu \/ HandleException
  BY <1>4 DEF WriteResult, PrintSummary, WaitForQemu, HandleException
<1>5. CASE EnterFinally \/ QgaShutdown \/ SshPoweroff \/ AcpiPowerButton
  BY <1>5 DEF EnterFinally, QgaShutdown, SshPoweroff, AcpiPowerButton
<1>6. CASE KillRung \/ CascadeRaises \/ Reap
  BY <1>6 DEF KillRung, CascadeRaises, Reap
<1>7. CASE GuestHangs \/ QemuExits
  BY <1>7 DEF GuestHangs, QemuExits
<1> QED
  BY <1>1, <1>2, <1>3, <1>4, <1>5, <1>6, <1>7 DEF Next, Program

LEMMA NoOrphanStep == ASSUME IInv, Next PROVE NoOrphan'
<1> USE DEF IInv, NoOrphan, PlaceInv, control, report, files, Goto, Return
<1>1. CASE pc' # "exit"
  BY <1>1
<1>2. CASE Validate \/ RequireGolden \/ CheckHost
  BY <1>2 DEF Validate, RequireGolden, CheckHost
<1>3. CASE FinishRunDir
  <2>1. pc = "finish" /\ UNCHANGED <<qemu, machine, cut>>
    BY <1>3 DEF FinishRunDir
  <2> QED BY <2>1
<1>4. CASE Interrupt /\ pc' = "exit"
  <2>1. pc \in Early \cup FinallyBlock /\ cut' = cut \cup {pc}
    BY <1>4 DEF Interrupt, Raise
  <2>2. qemu' = qemu \/ qemu' = "quitting"
    BY <1>4 DEF Interrupt
  <2> QED BY <2>1, <2>2
<1>5. CASE pc = "exit" /\ (GuestHangs \/ QemuExits)
  BY <1>5 DEF GuestHangs, QemuExits
<1> QED
  BY <1>1, <1>2, <1>3, <1>4, <1>5, StepsOfExit DEF ToExit

LEMMA ExitTellsTheRunStep == ASSUME IInv, Next PROVE ExitTellsTheRun'
<1> USE DEF IInv, control, report, files, Goto, Return
<1>1. CASE pc' # "exit"
  BY <1>1 DEF ExitTellsTheRun
<1>2. CASE Validate \/ RequireGolden \/ CheckHost
  BY <1>2 DEF Validate, RequireGolden, CheckHost, ReportInv, ExitTellsTheRun
<1>3. CASE Interrupt /\ pc' = "exit"
  <2>1. rc' = "traceback"
    BY <1>3 DEF Interrupt, Raise
  <2> QED BY <2>1 DEF ExitTellsTheRun
<1>4. CASE FinishRunDir
  <2>1. /\ pc = "finish"
        /\ UNCHANGED <<cmd, keep, rc, file, exc, failed>>
    BY <1>4 DEF FinishRunDir
  <2>2. rc = "0" /\ cmd \in Reporters =>
          /\ file.state = "whole" /\ file.body.ok /\ file.body.error = "none"
          /\ ~failed /\ disks = "there"
    BY <2>1 DEF ReportInv
  <2>3. rc = "0" /\ cmd \in Reporters =>
          IF keep THEN disks' = "there" ELSE disks' \in {"gone", "stuck"}
    BY <1>4, <2>2 DEF FinishRunDir, DeleteFiles
  <2>4. rc \in Failures => disks' \in Untouched
    BY <1>4, <2>1 DEF FinishRunDir, ReportInv
  <2>5. rc \in Failures /\ cmd \in Reporters =>
          /\ file.state = "whole" /\ file.body.error # "none"
          /\ (file.body.error = "interrupt") = (rc = "130")
    BY <2>1 DEF ReportInv
  <2> QED BY <2>1, <2>2, <2>3, <2>4, <2>5 DEF ExitTellsTheRun
<1>5. CASE pc = "exit" /\ (GuestHangs \/ QemuExits)
  <2>1. UNCHANGED <<pc, cmd, keep, rc, file, runDir, disks>>
    BY <1>5 DEF GuestHangs, QemuExits
  <2> QED BY <2>1 DEF ExitTellsTheRun
<1> QED
  BY <1>1, <1>2, <1>3, <1>4, <1>5, StepsOfExit DEF ToExit

\* A directory is deleted in the last step alone: of a command that passed, or
\* of one that lost `failed` to a SIGINT in its handler.
LEMMA InteractiveRunDirStep == ASSUME IInv, Next PROVE InteractiveRunDir'
<1> USE DEF IInv, control, report, files, Goto, Return
<1>1. CASE pc' # "exit"
  BY <1>1 DEF InteractiveRunDir
<1>2. CASE Validate \/ RequireGolden \/ CheckHost
  BY <1>2 DEF Validate, RequireGolden, CheckHost, ReportInv,
              InteractiveRunDir
<1>3. CASE Interrupt /\ pc' = "exit"
  <2>1. /\ rc' = "traceback"
        /\ cut' = cut \cup {pc}
        /\ pc \in Early \cup FinallyBlock
        /\ UNCHANGED <<cmd, keep>>
    BY <1>3 DEF Interrupt, Raise
  <2>2. keep \/ pc # "finish" => UNCHANGED files
    BY <1>3 DEF Interrupt
  <2>3. {runDir, disks} \subseteq Untouched
    BY <2>1 DEF ReportInv
  <2> QED BY <2>1, <2>2, <2>3 DEF InteractiveRunDir
<1>4. CASE FinishRunDir
  <2>1. /\ pc = "finish"
        /\ UNCHANGED <<cmd, keep, rc, cut>>
    BY <1>4 DEF FinishRunDir
  <2>2. runDir = "there" /\ disks \in Untouched
    BY <2>1 DEF ReportInv
  <2>3. rc # "0" /\ "except" \notin cut => failed
    BY <2>1 DEF ReportInv, CutInv
  <2>4. keep \/ (rc # "0" /\ "except" \notin cut) =>
          {runDir', disks'} \subseteq Untouched
    BY <1>4, <2>2, <2>3 DEF FinishRunDir
  <2>5. rc = "0" /\ keep => runDir' = "there"
    BY <1>4, <2>2 DEF FinishRunDir
  <2>6. rc = "0" /\ ~keep /\ cmd # "run-test" => runDir' \in {"gone", "stuck"}
    BY <1>4, <2>1 DEF FinishRunDir, DeleteFiles, ReportInv
  <2> QED BY <2>1, <2>4, <2>5, <2>6 DEF InteractiveRunDir
<1>5. CASE pc = "exit" /\ (GuestHangs \/ QemuExits)
  <2>1. UNCHANGED <<pc, cmd, keep, rc, runDir, disks, cut>>
    BY <1>5 DEF GuestHangs, QemuExits
  <2> QED BY <2>1 DEF InteractiveRunDir
<1> QED
  BY <1>1, <1>2, <1>3, <1>4, <1>5, StepsOfExit DEF ToExit

-----------------------------------------------------------------------------
LEMMA InitIInv == ASSUME Init PROVE IInv
<1>1. TypeOK
  <2>1. PlaceType /\ CountType
    BY RetriesAssumption DEF Init, PlaceType, CountType, Places
  <2>2. FlagType
    BY DEF Init, FlagType
  <2>3. EmptyDict \in Dict
    BY DEF EmptyDict, Dict
  <2>4. ReportType
    BY <2>3 DEF Init, ReportType, File
  <2> QED BY <2>1, <2>2, <2>4 DEF TypeOK
<1>2. PlaceInv /\ CutInv
  BY RetriesAssumption DEF Init, PlaceInv, CutInv
<1>3. ReportInv
  BY DEF Init, ReportInv, EmptyDict
<1>4. NoOrphan /\ ExitTellsTheRun /\ InteractiveRunDir
  BY DEF Init, NoOrphan, ExitTellsTheRun, InteractiveRunDir
<1> QED
  BY <1>1, <1>2, <1>3, <1>4 DEF IInv

LEMMA StutterIInv == ASSUME IInv, UNCHANGED vars PROVE IInv'
<1> USE DEF vars
<1>1. TypeOK'
  BY DEF IInv, TypeOK, PlaceType, CountType, FlagType, ReportType
<1>2. PlaceInv' /\ CutInv'
  BY DEF IInv, PlaceInv, CutInv
<1>3. ReportInv'
  BY DEF IInv, ReportInv
<1>4. NoOrphan' /\ ExitTellsTheRun' /\ InteractiveRunDir'
  BY DEF IInv, NoOrphan, ExitTellsTheRun, InteractiveRunDir
<1> QED
  BY <1>1, <1>2, <1>3, <1>4 DEF IInv

\* IInv is an inductive invariant of the command.
THEOREM Inductive == Spec => []IInv
<1>1. Init => IInv
  BY InitIInv
<1>2. IInv /\ [Next]_vars => IInv'
  BY PlaceTypeStep, CountTypeStep, FlagTypeStep, ReportTypeStep, PlaceInvStep, CutInvStep,
     ReportInvStep, NoOrphanStep, ExitTellsTheRunStep, InteractiveRunDirStep,
     StutterIInv DEF IInv, TypeOK
<1> QED
  BY <1>1, <1>2, PTL DEF Spec

\* Every variable keeps to its type, the spawn attempts to their bound.
THEOREM TypeCorrect == Spec => []TypeOK
<1>1. IInv => TypeOK
  BY DEF IInv
<1> QED
  BY <1>1, Inductive, PTL

\* No command leaves a running QEMU behind, but for a SIGINT in the settle time
\* or in the finally block.
THEOREM NoOrphanHolds == Spec => []NoOrphan
<1>1. IInv => NoOrphan
  BY DEF IInv
<1> QED
  BY <1>1, Inductive, PTL

\* The exit status, result.json and the disks of a run-test or a spike
\* agree.
THEOREM ExitTellsTheRunHolds == Spec => []ExitTellsTheRun
<1>1. IInv => ExitTellsTheRun
  BY DEF IInv
<1> QED
  BY <1>1, Inductive, PTL

\* The run directory of a vm-run, a vm-live or a spike survives, untouched, every
\* run that ended in a failure, in an interrupt or in a traceback and every run
\* with --keep, and is deleted after a pass without it, unless the filesystem
\* refuses.  The exceptions are a SIGINT in the handler and one in the deletion.
THEOREM InteractiveRunDirHolds == Spec => []InteractiveRunDir
<1>1. IInv => InteractiveRunDir
  BY DEF IInv
<1> QED
  BY <1>1, Inductive, PTL

\* The throwaway disks go only when their QEMU is dead or dying, but for one
\* SIGINT in the settle time and another in the handler of the first.
THEOREM DisksOutliveQemuHolds == Spec => DisksOutliveQemu
<1> DEFINE Deletes == disks = "there" /\ disks' # "there" =>
                        qemu \notin Alive \/ {"settle", "except"} \subseteq cut
<1>1. ASSUME IInv, Next PROVE Deletes
  <2>1. CASE FinishRunDir
    BY <1>1, <2>1 DEF FinishRunDir, IInv, PlaceInv, CutInv, ReportInv, files
  <2>2. CASE disks' = disks
    BY <2>2
  <2>3. CASE pc \in Unspawned
    BY <1>1, <2>3 DEF IInv, PlaceInv
  <2>4. CASE Interrupt
    BY <1>1, <2>4 DEF Interrupt, IInv, PlaceInv, CutInv, ReportInv, files
  <2> QED
    BY <1>1, <2>1, <2>2, <2>3, <2>4
       DEF IInv, PlaceInv, files, Next, Program, Validate, RequireGolden,
           CheckHost, PrepareOverlay, SpikeImage, DownloadEnds, SpikePrepare,
           SpawnAttempt, SettlePoll,
           WaitSsh, RunSteps, SpikeSteps, ScpHangs, ScpFails, WriteResult,
           PrintSummary, WaitForQemu, HandleException, EnterFinally,
           QgaShutdown, SshPoweroff, AcpiPowerButton, KillRung, CascadeRaises,
           Reap, GuestHangs, QemuExits
<1>2. ASSUME IInv, [Next]_vars PROVE [Deletes]_vars
  BY <1>1, <1>2
<1> QED
  BY <1>2, Inductive, PTL DEF Spec, DisksOutliveQemu
=============================================================================
