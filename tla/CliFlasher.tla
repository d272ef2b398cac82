----------------------------- MODULE CliFlasher ----------------------------
(***************************************************************************)
(* The command-line flasher (flasher/flash_nrf54_cli.mjs): a run parses    *)
(* the file, connects, erases only with --erase-all, writes the file's own *)
(* bytes through the RRAM controller, verifies and resets.                 *)
(***************************************************************************)
EXTENDS FlashTarget

CliImage == [f \in HexFiles |-> CliParse(f)]
CliPieces == [f \in HexFiles |->
    LET segments == CliImage[f].parts
    IN  FlattenSeq([i \in DOMAIN segments |-> Pieces(segments[i])])]

\* A file without data has nothing to program or to verify.
CliPieceByPiece(step, then) ==
    IF CliPieces[task.file] = <<>> THEN then ELSE With(step, CliPieces[task.file])

CliRun(f, eraseAll) ==
    /\ Open("cli") /\ task = Idle
    /\ option' = eraseAll
    /\ task' = [Idle EXCEPT !.kind = "run", !.at = "start", !.file = f]
    /\ badge' = Working /\ before' = chip.mem
    /\ UNCHANGED <<world, chip, session, image, parting, faults>>

\* The file is parsed before any device is asked for.
CliRequestDevice ==
    /\ At("cli", "start") /\ CliImage[task.file].ok /\ usb.in
    /\ task' = [task EXCEPT !.proc = usb.object, !.at = IF option THEN "massErase" ELSE "halt"]
    /\ UNCHANGED <<world, chip, pageState, badge, before, faults>>

CliEraseAll == Step("cli", "massErase", AfterMassErase(chip), To("halt"))

\* Memory is out of reach behind the protection.
CliHalt == ~chip.locked /\ Step("cli", "halt", [chip EXCEPT !.core = "halted"], To("config"))

CliConfigureWrite ==
    Step("cli", "config", [chip EXCEPT !.mode = "write"], CliPieceByPiece("program", To("readonly")))

CliWriteRramChunk ==
    /\ At("cli", "program") /\ chip.mode = "write" /\ Present(chip.mem, Head(task.left))
    /\ Step("cli", "program", Written(chip, Head(task.left)), Onward(To("readonly")))

CliRestoreReadOnly ==
    Step("cli", "readonly", [chip EXCEPT !.mode = "read"],
         CliPieceByPiece("verify", [To("reset") EXCEPT !.checked = TRUE]))

CliVerifyChunk ==
    /\ At("cli", "verify") /\ Holds(chip, Head(task.left))
    /\ Step("cli", "verify", chip, Onward([To("reset") EXCEPT !.checked = TRUE]))

CliReset ==
    /\ At("cli", "reset") /\ Answers(task)
    /\ chip' = AfterReset(chip)
    /\ task' = Idle
    /\ badge' = Shown("complete", task.file, task.checked, "")
    /\ UNCHANGED <<world, pageState, before, faults>>

CliFinds(why) ==
    CASE why = "rejected" -> task.at = "start" /\ ~CliImage[task.file].ok
      [] why = "gone" -> task.at = "start" /\ ~usb.in
      [] why = "locked" -> task.at = "halt" /\ Answers(task) /\ chip.locked
      [] why = "refused" -> /\ task.at = "program" /\ Answers(task)
                            /\ chip.mode # "write" \/ ~Present(chip.mem, Head(task.left))
      [] why = "mismatch" -> task.at = "verify" /\ Answers(task) /\ ~Holds(chip, Head(task.left))

\* The process ends with exit code 1; the probe is disconnected, the chip left as it is.
CliFails ==
    /\ Open("cli") /\ task # Idle
    /\ \/ task.at # "start" /\ Thrown(task) /\ EndFailed(IF Answers(task) THEN "transfer" ELSE "gone")
       \/ \E why \in {"rejected", "gone", "locked", "refused", "mismatch"} :
             CliFinds(why) /\ EndFailed(why) /\ UNCHANGED <<chip, faults>>

CliStep ==
    \/ CliRequestDevice \/ CliEraseAll \/ CliHalt \/ CliConfigureWrite \/ CliWriteRramChunk
    \/ CliRestoreReadOnly \/ CliVerifyChunk \/ CliReset \/ CliFails

CliNext ==
    \/ \E f \in disk, eraseAll \in BOOLEAN : CliRun(f, eraseAll)
    \/ CliStep
    \/ Misprogram("cli", Onward(To("readonly")))
=============================================================================
