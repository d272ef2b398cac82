---------------------------- MODULE PageFlasher ----------------------------
(***************************************************************************)
(* The WebUSB flashing page (static/webusb-firmware.js): one busy task at  *)
(* a time over one probe session, the download and the calls of the flash  *)
(* algorithm, verification, recovery, and the unplug handler, which does   *)
(* not wait for the task.                                                  *)
(***************************************************************************)
EXTENDS FlashTarget

PageImage == [f \in HexFiles |-> PageParse(f)]
PageKinds == {"request", "authorized", "flash", "recover", "disconnect"}
PageFirst(kind) == IF kind = "flash" THEN "access" ELSE "massErase"

\* While the page is busy nothing reads the file the input shows.
PageChangeFile(f) ==
    /\ Open("page") /\ task = Idle
    /\ task' = [Idle EXCEPT !.kind = "file", !.at = "reading", !.file = f]
    /\ UNCHANGED <<world, chip, pageState, badge, before, faults>>

PageReadImage ==
    /\ At("page", "reading")
    /\ image' = IF PageImage[task.file].ok THEN task.file ELSE NoFile
    /\ badge' = Shown(IF PageImage[task.file].ok THEN "image" ELSE "image error", NoFile, FALSE, "")
    /\ task' = Idle
    /\ UNCHANGED <<world, chip, session, option, parting, before, faults>>

\* A button the page enables: the busy task begins.  A session in hand is used as it is.
PageBegin(kind) ==
    /\ Open("page") /\ task = Idle
    /\ kind = "flash" => image # NoFile
    /\ kind = "disconnect" => session # 0
    /\ task' = [Idle EXCEPT !.kind = kind, !.proc = session,
                  !.file = IF kind = "flash" THEN image ELSE NoFile,
                  !.at = IF kind = "disconnect" THEN "release"
                         ELSE IF kind \in {"flash", "recover"} /\ session # 0 THEN PageFirst(kind)
                         ELSE "choose"]
    /\ badge' = IF kind = "disconnect" THEN badge ELSE Working
    /\ UNCHANGED <<world, chip, pageState, before, faults>>

\* An authorized probe, or the one picked in the chooser.
PageChooseProbe ==
    /\ At("page", "choose") /\ usb.in
    /\ task' = [task EXCEPT !.proc = usb.object,
                            !.at = IF session = usb.object THEN "connect" ELSE "release"]
    /\ UNCHANGED <<world, chip, pageState, badge, before, faults>>

\* Resets the target when it still answers; the session is forgotten in any case.
PageReleaseProbe ==
    /\ At("page", "release")
    /\ \/ chip' = (IF usb.in /\ session = usb.object THEN AfterReset(chip) ELSE chip) /\ UNCHANGED faults
       \/ faults < MaxFaults /\ faults' = faults + 1 /\ UNCHANGED chip
    /\ session' = 0
    /\ IF task.kind = "disconnect"
       THEN task' = Idle /\ badge' = Shown("ready", NoFile, FALSE, "")
       ELSE task' = To("connect") /\ UNCHANGED badge
    /\ UNCHANGED <<world, image, option, parting, before>>

PageConnectDevice ==
    /\ At("page", "connect")
    /\ session = task.proc \/ Answers(task)
    /\ session' = task.proc
    /\ IF task.kind \in {"flash", "recover"}
       THEN task' = To(PageFirst(task.kind)) /\ UNCHANGED badge
       ELSE task' = Idle /\ badge' = Shown("ready", NoFile, FALSE, "")
    /\ UNCHANGED <<world, chip, image, option, parting, before, faults>>

PageEnsureFlashAccess == ~chip.locked /\ Step("page", "access", chip, To("halt"))

PageResetAndHalt ==
    Step("page", "halt", [AfterReset(chip) EXCEPT !.core = "halted"], To("load"))

\* Mutant: the erase function is not ended.
PageErase_NotCleaned == <<"Init(erase)", "EraseAll", "Init(program)">>

\* The calls before programming, and the one after it.
PageErase == <<"Init(erase)", "EraseAll", "UnInit(erase)", "Init(program)">>
PageCleanup == <<"UnInit(program)">>

PageLoadAlgorithm ==
    Step("page", "load", [chip EXCEPT !.algo = "loaded"], With("call", PageErase))

PageCallFlashFunction ==
    LET entry  == Head(task.left)
        chunks == PageImage[task.file].parts
    IN  /\ At("page", "call") /\ Accepts(chip, entry)
        /\ Step("page", "call", AfterCall(chip, entry),
                Onward(With(IF entry = "UnInit(program)" THEN "verify" ELSE "program", chunks)))

PageProgramChunk ==
    /\ At("page", "program") /\ Accepts(chip, "ProgramPage")
    /\ Present(chip.mem, Head(task.left))
    /\ Step("page", "program", Written(chip, Head(task.left)), Onward(With("call", PageCleanup)))

PageVerifyChunk ==
    /\ At("page", "verify") /\ Holds(chip, Head(task.left))
    /\ Step("page", "verify", chip, Onward([To("reset") EXCEPT !.checked = TRUE]))

\* Success is shown under the name of the image in hand.
PageSoftResetAndRun ==
    /\ At("page", "reset") /\ Answers(task)
    /\ chip' = AfterReset(chip)
    /\ task' = Idle
    /\ badge' = Shown("complete", image, task.checked, "")
    /\ UNCHANGED <<world, pageState, before, faults>>

PageRecoverTarget ==
    /\ At("page", "massErase") /\ Answers(task)
    /\ chip' = AfterMassErase(chip)
    /\ task' = Idle
    /\ badge' = Shown("recovered", NoFile, FALSE, "")
    /\ UNCHANGED <<world, pageState, before, faults>>

\* What the code itself finds wrong while every transfer answers.
PageFinds(why) ==
    CASE why = "cancelled" -> task.at = "choose"
      [] why = "locked" -> task.at = "access" /\ Answers(task) /\ chip.locked
      [] why = "refused" -> \/ task.at = "call" /\ Answers(task) /\ ~Accepts(chip, Head(task.left))
                            \/ /\ task.at = "program" /\ Answers(task)
                               /\ ~Accepts(chip, "ProgramPage") \/ ~Present(chip.mem, Head(task.left))
      [] why = "mismatch" -> task.at = "verify" /\ Answers(task) /\ ~Holds(chip, Head(task.left))

\* onFlash, onRecover and the connecting handlers catch what their task throws.
PageFails ==
    /\ Open("page") /\ task.at \notin {"idle", "reading", "release"}
    /\ \/ /\ task.at # "choose" /\ Thrown(task)
          /\ EndFailed(IF Answers(task) THEN "transfer" ELSE "gone")
       \/ \E why \in {"cancelled", "locked", "refused", "mismatch"} :
             PageFinds(why) /\ EndFailed(why) /\ UNCHANGED <<chip, faults>>

\* The unplug handler's releaseProbe: its transfers fail, and it forgets whatever session there is.
PageUnplugged ==
    /\ Open("page") /\ parting
    /\ parting' = FALSE /\ session' = 0
    /\ UNCHANGED <<world, chip, image, option, task, badge, before, faults>>

PageStep ==
    \/ PageReadImage \/ PageChooseProbe \/ PageReleaseProbe \/ PageConnectDevice
    \/ PageEnsureFlashAccess \/ PageResetAndHalt \/ PageLoadAlgorithm \/ PageCallFlashFunction
    \/ PageProgramChunk \/ PageVerifyChunk \/ PageSoftResetAndRun \/ PageRecoverTarget
    \/ PageFails \/ PageUnplugged

PageNext ==
    \/ \E f \in disk : PageChangeFile(f)
    \/ \E kind \in PageKinds : PageBegin(kind)
    \/ PageStep
    \/ Misprogram("page", Onward(With("call", PageCleanup)))
=============================================================================
