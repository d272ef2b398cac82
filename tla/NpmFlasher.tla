----------------------------- MODULE NpmFlasher ----------------------------
(***************************************************************************)
(* The npm DAP.js application (npm-dapjs-app/src/main.js): the same busy   *)
(* tasks as the page, another plan.  It erases through the CTRL-AP, which  *)
(* resets the chip, programs with its own RAM stub, verifies only when the *)
(* toggle says so at that moment, and has automation hooks that do not     *)
(* look at the busy flag.                                                  *)
(***************************************************************************)
EXTENDS FlashTarget

NpmImage == [f \in HexFiles |-> NpmParse(f)]
NpmProgram == [f \in HexFiles |-> NpmBlocks(NpmImage[f].parts, BlockWords)]
NpmReadsBack(file) == \A i \in DOMAIN NpmImage[file].parts : Holds(chip, NpmImage[file].parts[i])
NpmKinds == {"request", "authorized", "flash", "recover", "disconnect"}

NpmFileChange(f) ==
    /\ Open("npm") /\ task = Idle
    /\ task' = [Idle EXCEPT !.kind = "file", !.at = "reading", !.file = f]
    /\ UNCHANGED <<world, chip, pageState, badge, before, faults>>

NpmReadImage ==
    /\ At("npm", "reading")
    /\ image' = IF NpmImage[task.file].ok THEN task.file ELSE NoFile
    /\ badge' = Shown(IF NpmImage[task.file].ok THEN "image" ELSE "image error", NoFile, FALSE, "")
    /\ task' = Idle
    /\ UNCHANGED <<world, chip, session, option, parting, before, faults>>

\* The automation hook replaces the image whatever the application is doing.
NpmLoadHexText(f) ==
    /\ Open("npm") /\ NpmImage[f].ok /\ image # f
    /\ image' = f
    /\ task' = IF task = Idle THEN Idle ELSE [task EXCEPT !.shared = TRUE]
    /\ UNCHANGED <<world, chip, session, option, parting, badge, before, faults>>

\* The verify toggle stays enabled while the application is busy.
NpmToggleVerify ==
    /\ Open("npm")
    /\ option' = ~option
    /\ UNCHANGED <<world, chip, session, image, task, parting, badge, before, faults>>

\* A button or an automation hook; flashing without an image only says so.
NpmBegin(kind) ==
    /\ Open("npm") /\ task = Idle
    /\ kind = "flash" => image # NoFile
    /\ task' = [Idle EXCEPT !.kind = kind, !.proc = session,
                  !.at = IF kind = "disconnect" THEN "release"
                         ELSE IF kind \in {"flash", "recover"} THEN "ensure"
                         ELSE "choose"]
    /\ badge' = IF kind = "disconnect" THEN badge ELSE Working
    /\ UNCHANGED <<world, chip, pageState, before, faults>>

\* The image flashed is the one in hand when the probe is.
NpmGo == IF task.kind = "flash" THEN [task EXCEPT !.at = "access", !.file = image]
         ELSE To("massErase")

NpmEnsureConnectedProbe ==
    /\ At("npm", "ensure")
    /\ task' = IF session # 0 THEN NpmGo ELSE To("choose")
    /\ UNCHANGED <<world, chip, pageState, badge, before, faults>>

NpmChooseProbe ==
    /\ At("npm", "choose") /\ usb.in
    /\ task' = [task EXCEPT !.proc = usb.object,
                            !.at = IF session = usb.object THEN "connect" ELSE "release"]
    /\ UNCHANGED <<world, chip, pageState, badge, before, faults>>

NpmReleaseProbe ==
    /\ At("npm", "release")
    /\ \/ chip' = (IF usb.in /\ session = usb.object THEN AfterReset(chip) ELSE chip) /\ UNCHANGED faults
       \/ faults < MaxFaults /\ faults' = faults + 1 /\ UNCHANGED chip
    /\ session' = 0
    /\ IF task.kind = "disconnect"
       THEN task' = Idle /\ badge' = Shown("ready", NoFile, FALSE, "")
       ELSE task' = To("connect") /\ UNCHANGED badge
    /\ UNCHANGED <<world, image, option, parting, before>>

\* A connection that was asked for reads the access state before it is shown.
NpmConnectDevice ==
    /\ At("npm", "connect")
    /\ session = task.proc \/ Answers(task)
    /\ session' = task.proc
    /\ task' = IF task.kind \in {"flash", "recover"} THEN NpmGo ELSE To("look")
    /\ UNCHANGED <<world, chip, image, option, parting, badge, before, faults>>

\* state.processor is read again: the unplug handler may have cleared it.
NpmReadAccessState ==
    /\ At("npm", "look") /\ session # 0 /\ Answers(task)
    /\ task' = Idle
    /\ badge' = Shown("ready", NoFile, FALSE, "")
    /\ UNCHANGED <<world, chip, pageState, before, faults>>

NpmEnsureFlashAccess == ~chip.locked /\ Step("npm", "access", chip, To("halt"))

\* The first halt precedes the erase, the second one the stub.
NpmResetAndHalt ==
    \/ Step("npm", "halt", [AfterReset(chip) EXCEPT !.core = "halted"], To("massErase"))
    \/ Step("npm", "halt2", [AfterReset(chip) EXCEPT !.core = "halted"], To("stub"))

\* Recovery ends here; a flash goes on with a chip that is blank and running.
NpmMassEraseAndReconnect ==
    /\ At("npm", "massErase") /\ Answers(task)
    /\ chip' = AfterMassErase(chip)
    /\ IF task.kind = "recover"
       THEN task' = Idle /\ badge' = Shown("recovered", NoFile, FALSE, "")
       ELSE task' = To("halt2") /\ UNCHANGED badge
    /\ UNCHANGED <<world, pageState, before, faults>>

NpmInitFlashStub ==
    Step("npm", "stub", [chip EXCEPT !.algo = "program"],
         With("program", NpmProgram[task.file]))

\* The stub runs only on a halted core that it was loaded into.
NpmProgramFlashBlock ==
    /\ At("npm", "program") /\ Accepts(chip, "ProgramPage") /\ chip.core = "halted"
    /\ Present(chip.mem, Head(task.left))
    /\ Step("npm", "program", Written(chip, Head(task.left)), Onward(To("uninit")))

\* The stub's shutdown is tried in any case, and its failure is only logged.
NpmUninitFlashStub ==
    /\ At("npm", "uninit")
    /\ \/ Answers(task) /\ chip' = [chip EXCEPT !.algo = "loaded"] /\ UNCHANGED faults
       \/ Thrown(task)
    /\ IF task.left = <<>>
       THEN EndFailed(IF Answers(task) THEN "transfer" ELSE "gone")
       ELSE task' = To("verify") /\ UNCHANGED <<world, pageState, badge, before>>

\* The toggle is read here; readback compares the whole image.
NpmVerifyImage ==
    /\ At("npm", "verify")
    /\ IF option
       THEN Answers(task) /\ NpmReadsBack(task.file)
       ELSE TRUE
    /\ task' = [To("reset") EXCEPT !.checked = option]
    /\ UNCHANGED <<world, chip, pageState, badge, before, faults>>

\* Success is shown under the name of the image in hand.
NpmSoftResetAndRun ==
    /\ At("npm", "reset") /\ Answers(task)
    /\ chip' = AfterReset(chip)
    /\ task' = Idle
    /\ badge' = Shown("complete", image, task.checked, IF task.shared THEN "shared" ELSE "")
    /\ UNCHANGED <<world, pageState, before, faults>>

NpmFinds(why) ==
    CASE why = "cancelled" -> task.at = "choose"
      [] why = "gone" -> task.at = "look" /\ session = 0
      [] why = "locked" -> task.at = "access" /\ Answers(task) /\ chip.locked
      [] why = "mismatch" -> /\ task.at = "verify" /\ option /\ Answers(task)
                             /\ ~NpmReadsBack(task.file)
      [] OTHER -> FALSE

\* A block that fails still goes through the stub's shutdown; every other error ends the task.
NpmFails ==
    /\ Open("npm") /\ task.at \notin {"idle", "reading", "release", "ensure", "uninit"}
    /\ \/ /\ task.at \notin {"choose", "program"} /\ (task.at = "verify" => option)
          /\ Thrown(task) /\ EndFailed(IF Answers(task) THEN "transfer" ELSE "gone")
       \/ \E why \in {"cancelled", "gone", "locked", "mismatch"} :
             NpmFinds(why) /\ EndFailed(why) /\ UNCHANGED <<chip, faults>>
       \/ /\ task.at = "program"
          /\ Thrown(task)
          /\ task' = With("uninit", <<>>)
          /\ UNCHANGED <<world, pageState, badge, before>>

NpmUnplugged ==
    /\ Open("npm") /\ parting
    /\ parting' = FALSE /\ session' = 0
    /\ UNCHANGED <<world, chip, image, option, task, badge, before, faults>>

NpmStep ==
    \/ NpmReadImage \/ NpmEnsureConnectedProbe \/ NpmChooseProbe \/ NpmReleaseProbe
    \/ NpmConnectDevice \/ NpmReadAccessState \/ NpmEnsureFlashAccess \/ NpmResetAndHalt
    \/ NpmMassEraseAndReconnect \/ NpmInitFlashStub \/ NpmProgramFlashBlock \/ NpmUninitFlashStub
    \/ NpmVerifyImage \/ NpmSoftResetAndRun \/ NpmFails \/ NpmUnplugged

NpmNext ==
    \/ \E f \in disk : NpmFileChange(f) \/ NpmLoadHexText(f)
    \/ NpmToggleVerify
    \/ \E kind \in NpmKinds : NpmBegin(kind)
    \/ NpmStep
    \/ Misprogram("npm", Onward(To("uninit")))
=============================================================================
