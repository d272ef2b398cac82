--------------------------- MODULE ConsoleFlasher --------------------------
(***************************************************************************)
(* The Flash dialog of the dashboard (static/app.js).  It writes a file's  *)
(* own bytes, like the command line, and repeats a segment once after a    *)
(* short CMSIS-DAP answer.  Its buttons follow flashBusy, which a preset   *)
(* that is being fetched shares with the operations: when the answer       *)
(* arrives during an operation the buttons come back, and a second         *)
(* operation can begin on the same flashDap.                               *)
(*                                                                         *)
(* The fields of console are flashDevice, flashDap (is there one?), the    *)
(* device's opened, flashBusy, ui (the buttons as last drawn),             *)
(* flashPresetFile, whether the preset list shows a choice, the preset     *)
(* that is being fetched, and the second operation.  image is the file of  *)
(* the file input.  An operation is shared once another one, or the        *)
(* Disconnect button, has worked on its probe.                             *)
(***************************************************************************)
EXTENDS FlashTarget

ConsoleImage == [f \in HexFiles |-> ConsoleParse(f)]

Marked(piece, segment, again) ==
    [address |-> piece.address, data |-> piece.data, segment |-> segment, again |-> again]

\* The pieces of all segments; a segment is repeated once at most.
ConsolePieces == [f \in HexFiles |->
    LET segments == ConsoleImage[f].parts
    IN  FlattenSeq([i \in DOMAIN segments |->
            [k \in DOMAIN Pieces(segments[i]) |-> Marked(Pieces(segments[i])[k], i, FALSE)]])]

From(segment, file) ==
    LET pieces == ConsolePieces[file]
        first  == Min({i \in DOMAIN pieces : pieces[i].segment = segment})
        Repeated(piece) == Marked(piece, piece.segment, piece.segment = segment)
    IN  [i \in 1 .. Len(pieces) - first + 1 |-> Repeated(pieces[first + i - 1])]

Ops == {1, 2}
Op(o) == IF o = 1 THEN task ELSE console.other
Put(o, op, c) ==
    /\ task' = IF o = 1 THEN op ELSE task
    /\ console' = IF o = 1 THEN c ELSE [c EXCEPT !.other = op]
Alone == task = Idle /\ console.other = Idle
Sharing(op) == IF op = Idle THEN Idle ELSE [op EXCEPT !.shared = TRUE]
desk == <<tool, disk, usb>>

Moves(o, step, next) ==
    /\ Open("console") /\ Op(o).at = step
    /\ Put(o, next, console)
    /\ UNCHANGED <<desk, pageState, badge, before>>

\* A step whose transfers all answer.
Transfers(o, step, newChip, next) ==
    /\ Answers(Op(o))
    /\ chip' = newChip
    /\ Moves(o, step, next)
    /\ UNCHANGED faults

Go(o, step) == [Op(o) EXCEPT !.at = step]
First(o) == IF Op(o).kind = "flash" THEN "halt" ELSE "massErase"
GoWith(o, step, items) == [Op(o) EXCEPT !.at = step, !.left = items]
Next1(o, then) == IF Len(Op(o).left) > 1 THEN [Op(o) EXCEPT !.left = Tail(@)] ELSE then
PieceByPiece(o, step, then) ==
    LET pieces == ConsolePieces[Op(o).file] IN IF pieces = <<>> THEN then ELSE GoWith(o, step, pieces)

(* ------------------------------ the dialog ----------------------------- *)

\* flashBusy is false again and the buttons are drawn.
Enabled(c) == [c EXCEPT !.busy = FALSE, !.ui = TRUE]
Disabled(c) == [c EXCEPT !.busy = TRUE, !.ui = FALSE]
Clicked == [console EXCEPT !.clicks = @ + 1]
ConsoleFile == IF image # NoFile THEN image ELSE console.preset

ConsoleFileChange(f) ==
    /\ Open("console") /\ console.ui /\ console.clicks < MaxClicks
    /\ image' = f
    /\ console' = [Clicked EXCEPT !.preset = NoFile, !.picked = FALSE, !.ui = ~console.busy]
    /\ badge' = Shown("ready", NoFile, FALSE, "")
    /\ UNCHANGED <<desk, chip, session, option, task, parting, before, faults>>

\* The preset list or the provision box, and, whatever the dialog is doing, the
\* choice of another device while a preset is chosen and the box is ticked.
ConsoleLoadPreset(f) ==
    /\ Open("console") /\ console.load = NoFile
    /\ console.ui \/ console.picked
    /\ console.clicks < MaxClicks
    /\ console' = [Disabled(Clicked) EXCEPT !.load = f, !.picked = TRUE]
    /\ badge' = Shown("ready", NoFile, FALSE, "")
    /\ UNCHANGED <<desk, chip, pageState, task, before, faults>>

\* The answer replaces the file input's choice; a failure clears the preset, and
\* the list too when the list asked for it.
ConsolePresetAnswers ==
    /\ Open("console") /\ console.load # NoFile
    /\ \/ /\ console' = [Enabled(console) EXCEPT !.load = NoFile, !.preset = console.load]
          /\ image' = NoFile
       \/ /\ \E kept \in BOOLEAN :
                console' = [Enabled(console) EXCEPT !.load = NoFile, !.preset = NoFile, !.picked = kept]
          /\ UNCHANGED image
    /\ badge' = Shown("ready", NoFile, FALSE, "")
    /\ UNCHANGED <<desk, chip, session, option, task, parting, before, faults>>

ConsoleConnect ==
    /\ Open("console") /\ console.ui /\ console.device = 0 /\ usb.in /\ console.clicks < MaxClicks
    /\ console' = [Clicked EXCEPT !.device = usb.object, !.ui = ~console.busy]
    /\ badge' = Shown("ready", NoFile, FALSE, "")
    /\ UNCHANGED <<desk, chip, pageState, task, before, faults>>

Closed(c, device) == [c EXCEPT !.dap = FALSE, !.opened = FALSE, !.device = device, !.ui = ~c.busy]

ConsoleDisconnect ==
    /\ Open("console") /\ console.ui /\ (console.device # 0 \/ console.dap)
    /\ console.clicks < MaxClicks
    /\ task' = Sharing(task)
    /\ console' = [Closed(Clicked, 0) EXCEPT !.other = Sharing(@)]
    /\ badge' = Shown("ready", NoFile, FALSE, "")
    /\ UNCHANGED <<desk, chip, pageState, before, faults>>

\* The listener of the USB disconnect event: if the device in hand is the one that
\* left, it closes the session under any operation.
ConsoleUnplugged ==
    /\ Open("console") /\ parting
    /\ parting' = FALSE
    /\ IF console.device # 0 /\ (console.device = usb.object => ~usb.in)
       THEN console' = Closed(console, 0) /\ badge' = Shown("ready", NoFile, FALSE, "")
       ELSE UNCHANGED <<console, badge>>
    /\ UNCHANGED <<desk, chip, session, image, option, task, before, faults>>

(* ---------------------------- the operations --------------------------- *)

\* Flash, or Erase and Recover, which are the same function.
ConsoleBegin(o, kind) ==
    /\ Open("console") /\ console.ui
    /\ Op(o) = Idle /\ (o = 2 => task # Idle)
    /\ console.clicks < MaxClicks
    /\ kind = "flash" => ConsoleFile # NoFile
    /\ LET op == [Idle EXCEPT !.kind = kind, !.at = IF kind = "flash" THEN "file" ELSE "choose",
                              !.file = IF kind = "flash" THEN ConsoleFile ELSE NoFile,
                              !.shared = ~Alone]
       IN  /\ task' = IF o = 1 THEN op ELSE Sharing(task)
           /\ console' = [Disabled(Clicked) EXCEPT !.other = IF o = 2 THEN op ELSE Sharing(@)]
    /\ badge' = Working
    /\ before' = IF Alone THEN chip.mem ELSE Factory
    /\ UNCHANGED <<desk, chip, pageState, faults>>

ConsoleReadFile(o) ==
    /\ Op(o).at = "file" /\ ConsoleImage[Op(o).file].ok
    /\ Moves(o, "file", Go(o, "choose"))
    /\ UNCHANGED <<chip, faults>>

\* getFlashDap: the device in hand or the one picked; an open session is used as it
\* is, a new one is in flashDap before it is connected.
ConsoleGetFlashDap(o) ==
    /\ Open("console") /\ Op(o).at = "choose"
    /\ console.device # 0 \/ usb.in
    /\ LET device == IF console.device # 0 THEN console.device ELSE usb.object
           next   == IF ~console.dap THEN "connect" ELSE First(o)
       IN  Put(o, [Go(o, next) EXCEPT !.proc = device],
               [console EXCEPT !.device = device, !.dap = TRUE])
    /\ UNCHANGED <<desk, chip, pageState, badge, before, faults>>

ConsoleConnectDap(o) ==
    /\ Open("console") /\ Op(o).at \in {"connect", "reconnect"}
    /\ usb.in /\ Op(o).proc = usb.object
    /\ Put(o, Go(o, IF Op(o).at = "connect" THEN First(o) ELSE "rehalt"),
           [console EXCEPT !.opened = TRUE])
    /\ UNCHANGED <<desk, chip, pageState, badge, before, faults>>

ConsoleEraseAll(o) ==
    /\ Open("console") /\ Op(o).at = "massErase" /\ Answers(Op(o))
    /\ chip' = AfterMassErase(chip)
    /\ Put(o, GoWith(o, "close", <<>>), [console EXCEPT !.busy = FALSE])
    /\ badge' = Shown("recovered", NoFile, FALSE, "")
    /\ UNCHANGED <<desk, pageState, before, faults>>

ConsoleHalt(o) ==
    ~chip.locked /\ Transfers(o, "halt", [chip EXCEPT !.core = "halted"], Go(o, "config"))

ConsoleConfigureWrite(o) ==
    Transfers(o, "config", [chip EXCEPT !.mode = "write"],
              PieceByPiece(o, "program", Go(o, "readonly")))

ConsoleWriteChunk(o) ==
    /\ Op(o).at = "program" /\ chip.mode = "write" /\ Present(chip.mem, Head(Op(o).left))
    /\ Transfers(o, "program", Written(chip, Head(Op(o).left)), Next1(o, Go(o, "readonly")))

ConsoleMisprogram(o) ==
    /\ Op(o).at = "program" /\ Answers(Op(o)) /\ chip.mode = "write"
    /\ Present(chip.mem, Head(Op(o).left))
    /\ faults < MaxFaults /\ faults' = faults + 1
    /\ chip' \in Missed(Head(Op(o).left))
    /\ Moves(o, "program", Next1(o, Go(o, "readonly")))

ConsoleRestoreReadOnly(o) ==
    Transfers(o, "readonly", [chip EXCEPT !.mode = "read"],
              PieceByPiece(o, "verify", [Go(o, "reset") EXCEPT !.checked = TRUE]))

ConsoleVerifyChunk(o) ==
    /\ Op(o).at = "verify" /\ Holds(chip, Head(Op(o).left))
    /\ Transfers(o, "verify", chip, Next1(o, [Go(o, "reset") EXCEPT !.checked = TRUE]))

\* A short answer while a segment is programmed or verified: the session is closed
\* and a new one connected, without a chooser, and the segment begins again.
ConsoleShortAnswer(o) ==
    LET op == Op(o)
    IN  /\ Open("console") /\ op.at \in {"program", "verify"} /\ ~Head(op.left).again
        /\ Answers(op) /\ Thrown(op)
        /\ Put(o, [op EXCEPT !.at = "reconnect", !.left = From(Head(op.left).segment, op.file),
                             !.checked = (op.at = "verify"), !.proc = console.device],
               [console EXCEPT !.dap = console.device # 0, !.opened = FALSE, !.ui = ~console.busy])
        /\ UNCHANGED <<desk, pageState, badge, before>>

\* The controller is left in write mode for the rest of a verification, too.
ConsoleRehalt(o) ==
    /\ ~chip.locked
    /\ Transfers(o, "rehalt", [chip EXCEPT !.core = "halted", !.mode = "write"],
                 [Go(o, IF Op(o).checked THEN "verify" ELSE "program") EXCEPT !.checked = FALSE])

ConsoleReset(o) ==
    /\ Open("console") /\ Op(o).at = "reset" /\ Answers(Op(o))
    /\ chip' = AfterReset(chip)
    /\ Put(o, GoWith(o, "close", <<>>), [console EXCEPT !.busy = FALSE])
    /\ badge' = Shown("complete", Op(o).file, Op(o).checked, IF Op(o).shared THEN "shared" ELSE "")
    /\ UNCHANGED <<desk, pageState, before, faults>>

ConsoleFinds(o, why) ==
    LET op == Op(o)
    IN  CASE why = "rejected" -> op.at = "file" /\ ~ConsoleImage[op.file].ok
          [] why = "cancelled" -> op.at = "choose" /\ console.device = 0
          [] why = "gone" -> op.at \in {"connect", "reconnect"} /\ ~(usb.in /\ op.proc = usb.object)
          [] why = "locked" -> op.at \in {"halt", "rehalt"} /\ Answers(op) /\ chip.locked
          [] why = "refused" -> /\ op.at = "program" /\ Answers(op)
                                /\ chip.mode # "write" \/ ~Present(chip.mem, Head(op.left))
          [] why = "mismatch" -> op.at = "verify" /\ Answers(op) /\ ~Holds(chip, Head(op.left))

\* The finally block: flashBusy first, then the session is closed, and only then
\* does the handler show the error.
ConsoleFails(o) ==
    LET Ends(why) == Put(o, GoWith(o, "close", <<why>>), [console EXCEPT !.busy = FALSE])
    IN  /\ Open("console")
        /\ \/ /\ Op(o).at \notin {"idle", "file", "choose", "connect", "reconnect", "close"}
              /\ Thrown(Op(o)) /\ Ends(IF Answers(Op(o)) THEN "transfer" ELSE "gone")
           \/ \E why \in {"rejected", "cancelled", "gone", "locked", "refused", "mismatch"} :
                 ConsoleFinds(o, why) /\ Ends(why) /\ UNCHANGED <<chip, faults>>
        /\ UNCHANGED <<desk, pageState, badge, before>>

ConsoleClose(o) ==
    /\ Open("console") /\ Op(o).at = "close"
    /\ Put(o, Idle, Closed(console, console.device))
    /\ badge' = IF Op(o).left = <<>> THEN badge
                ELSE Shown("failed", Op(o).file, FALSE,
                           IF Op(o).shared THEN "shared" ELSE Head(Op(o).left))
    /\ UNCHANGED <<desk, chip, pageState, before, faults>>

ConsoleStep(o) ==
    \/ ConsoleReadFile(o) \/ ConsoleGetFlashDap(o) \/ ConsoleConnectDap(o)
    \/ ConsoleEraseAll(o) \/ ConsoleHalt(o) \/ ConsoleConfigureWrite(o) \/ ConsoleWriteChunk(o)
    \/ ConsoleMisprogram(o) \/ ConsoleRestoreReadOnly(o) \/ ConsoleVerifyChunk(o)
    \/ ConsoleShortAnswer(o) \/ ConsoleRehalt(o) \/ ConsoleReset(o) \/ ConsoleFails(o)
    \/ ConsoleClose(o)

\* The user has done enough and nothing is going on.
ConsoleRests ==
    /\ Open("console") /\ console.clicks = MaxClicks /\ Alone /\ console.load = NoFile
    /\ UNCHANGED flashVars

ConsoleNext ==
    \/ \E f \in disk : ConsoleFileChange(f) \/ ConsoleLoadPreset(f)
    \/ ConsolePresetAnswers
    \/ ConsoleConnect
    \/ ConsoleDisconnect
    \/ ConsoleUnplugged
    \/ ConsoleRests
    \/ \E o \in Ops, kind \in {"flash", "recover"} : ConsoleBegin(o, kind)
    \/ \E o \in Ops : ConsoleStep(o)
=============================================================================
