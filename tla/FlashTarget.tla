---------------------------- MODULE FlashTarget -----------------------------
(***************************************************************************)
(* The board, its probe and the state the flashing tools share: the chip's *)
(* memory and debug state, the USB device object the probe is plugged in   *)
(* as, and the one task a tool runs at a time.  The chip, its flash        *)
(* algorithm and USB are outside the repository; they are modelled as the  *)
(* tools use them: a transfer answers or throws, an erase or a write that  *)
(* throws may have done part of its work, and a write may go wrong without *)
(* an error.                                                               *)
(***************************************************************************)
EXTENDS HexImage

CONSTANTS
    Shelf,      \* sets of HEX files a user may have at hand
    Factory,    \* what the chip holds at first: [addresses -> bytes]
    MaxFaults,  \* bound on transfers that throw and writes that go wrong
    MaxPlugs,   \* bound on the times the probe is plugged in
    MaxClicks   \* bound on what the user does in the console

ASSUME BoundsAreNat == {MaxFaults, MaxPlugs, MaxClicks} \subseteq Nat /\ MaxPlugs > 0

ASSUME FilesAreRecords == UNION Shelf \subseteq Seq(HexRecord)

\* The memory is whole words of bytes.
ASSUME MemoryIsWords ==
    /\ DOMAIN Factory \subseteq Nat /\ Factory \in [DOMAIN Factory -> Bytes]
    /\ \A a \in DOMAIN Factory : WordOf(a) .. WordOf(a) + 3 \subseteq DOMAIN Factory

\* Factory may be a part of the chip, but no file reaches flash that the chip has and Factory lacks.
ASSUME FlashIsThere ==
    \A f \in UNION Shelf : \A a \in DOMAIN Meaning(f) :
        Flashable(WordOf(a)) => a \in DOMAIN Factory

VARIABLES
    tool,     \* which tool is open: "page", "npm", "cli" or "console"
    disk,     \* the HEX files at hand
    chip,     \* memory, core, RRAM write mode, flash algorithm, access protection
    usb,      \* the USB device object of the probe, and whether it is plugged in
    session,  \* the device object the tool is connected to, 0 for none
    image,    \* the file state.image was parsed from
    option,   \* npm: verifyAfterFlash; cli: --erase-all
    task,     \* what the tool is doing
    parting,  \* the unplug handler's releaseProbe has not ended
    badge,    \* what the tool shows of its last task
    console,  \* the console's own variables: see ConsoleFlasher
    before,   \* history: the memory when the last run that does not erase began
    faults    \* faults so far

flashVars == <<tool, disk, chip, usb, session, image, option, task, parting, badge, console,
               before, faults>>
world == <<tool, disk, usb, console>>
pageState == <<session, image, option, parting>>

HexFiles == UNION Shelf
NoFile == <<>>
Idle == [kind |-> "none", at |-> "idle", left |-> <<>>, file |-> NoFile, proc |-> 0,
         checked |-> FALSE, shared |-> FALSE]
NoConsole == [device |-> 0, dap |-> FALSE, opened |-> FALSE, busy |-> FALSE, ui |-> TRUE,
              preset |-> NoFile, picked |-> FALSE, load |-> NoFile, other |-> Idle,
              clicks |-> 0]
Shown(text, file, checked, why) == [text |-> text, file |-> file, checked |-> checked, why |-> why]
Working == Shown("working", NoFile, FALSE, "")
Blank == [a \in DOMAIN Factory |-> 255]

\* The page remembers a probe or not; a bundled image may have been loaded already.
ConsoleInit ==
    IF tool # "console" THEN {NoConsole}
    ELSE {[NoConsole EXCEPT !.device = device, !.preset = f, !.picked = (f # NoFile)] :
              device \in {0, 1}, f \in disk \cup {NoFile}}

FlashInit ==
    /\ tool \in {"page", "npm", "cli", "console"}
    /\ disk \in Shelf
    /\ \E locked \in BOOLEAN :
          chip = [mem |-> Factory, core |-> "runs", mode |-> "read", algo |-> "none", locked |-> locked]
    /\ usb = [object |-> 1, in |-> TRUE]
    /\ session = 0 /\ image = NoFile /\ option = FALSE
    /\ task = Idle /\ parting = FALSE
    /\ badge = Shown("ready", NoFile, FALSE, "")
    /\ console \in ConsoleInit
    /\ before = Factory /\ faults = 0

(* ------------------------------ the chip ------------------------------- *)

\* A reset takes the core out of halt and the RRAM controller out of write mode.
AfterReset(c) == [c EXCEPT !.core = "runs", !.mode = "read", !.algo = "none"]
\* The CTRL-AP erase blanks the chip and lifts its protection.
AfterMassErase(c) == [AfterReset(c) EXCEPT !.mem = Blank, !.locked = FALSE]
Written(c, part) == [c EXCEPT !.mem = WriteBytes(@, part.address, part.data)]
Holds(c, part) ==
    Present(c.mem, part) /\ ReadBytes(c.mem, part.address, Len(part.data)) = part.data

\* The downloaded algorithm answers an entry with a non-zero code out of turn.
Accepts(c, entry) ==
    \/ entry \in {"Init(erase)", "Init(program)"} /\ c.algo = "loaded"
    \/ entry \in {"EraseAll", "UnInit(erase)"} /\ c.algo = "erase"
    \/ entry \in {"ProgramPage", "UnInit(program)"} /\ c.algo = "program"

AfterCall(c, entry) ==
    CASE entry = "Init(erase)" -> [c EXCEPT !.algo = "erase"]
      [] entry = "Init(program)" -> [c EXCEPT !.algo = "program"]
      [] entry = "EraseAll" -> [c EXCEPT !.mem = Blank]
      [] OTHER -> [c EXCEPT !.algo = "loaded"]

(* --------------------------- tasks and steps --------------------------- *)

Open(t) == tool = t
At(t, step) == tool = t /\ task.at = step
\* The transfers of a task reach the probe.
Answers(op) == usb.in /\ op.proc = usb.object /\ (tool = "console" => console.opened)

\* A step whose transfers all answer.
Step(t, step, newChip, next) ==
    /\ At(t, step) /\ Answers(task)
    /\ chip' = newChip
    /\ task' = next
    /\ UNCHANGED <<world, pageState, badge, before, faults>>

To(step) == [task EXCEPT !.at = step]
With(step, items) == [task EXCEPT !.at = step, !.left = items]

\* One item done: the next one, or what follows the last.
Onward(then) == IF Len(task.left) > 1 THEN [task EXCEPT !.left = Tail(@)] ELSE then

\* The states a throwing step may leave the chip in.
HalfDone(op) ==
    IF ~Answers(op) THEN {chip}
    ELSE CASE op.at = "halt" -> {chip, [chip EXCEPT !.core = "halted"]}
           [] op.at = "massErase" -> {chip, AfterMassErase(chip)}
           [] op.at = "call" /\ Head(op.left) = "EraseAll" -> {chip, [chip EXCEPT !.mem = Blank]}
           [] op.at = "program" ->
                {chip} \cup
                {Written(chip, [Head(op.left) EXCEPT !.data = SubSeq(@, 1, 4 * n)]) :
                    n \in {k \in 0 .. Len(Head(op.left).data) \div 4 : Present(chip.mem, Head(op.left))}}
           [] op.at = "reset" -> {chip, AfterReset(chip)}
           [] OTHER -> {chip}

\* A transfer of the step throws: the probe is gone, or one of the bounded faults.
Thrown(op) ==
    /\ chip' \in HalfDone(op)
    /\ IF Answers(op) THEN faults < MaxFaults /\ faults' = faults + 1 ELSE faults' = faults

\* Mutant: busy is not reset.
EndFailed_StaysBusy(why) ==
    /\ task' = [task EXCEPT !.at = "idle"]
    /\ badge' = Shown("failed", task.file, FALSE, why)
    /\ UNCHANGED <<world, pageState, before>>

\* The task ends with an exception that its handler shows.
EndFailed(why) ==
    /\ task' = Idle
    /\ badge' = Shown("failed", task.file, FALSE, why)
    /\ UNCHANGED <<world, pageState, before>>

\* A word of the part being programmed does not take, and nothing says so.
Missed(part) ==
    {[chip EXCEPT !.mem = Override(Written(chip, part).mem, [a \in w .. w + 3 |-> chip.mem[a]])] :
        w \in {WordOf(a) : a \in Span(part.address, part.data)}}

Misprogram(t, next) ==
    /\ At(t, "program") /\ Answers(task) /\ faults < MaxFaults
    /\ Present(chip.mem, Head(task.left))
    /\ chip' \in Missed(Head(task.left))
    /\ faults' = faults + 1
    /\ task' = next
    /\ UNCHANGED <<world, pageState, badge, before>>

(* ------------------------------- the USB ------------------------------- *)

\* The device object is gone for good; a tool in a browser hears the event.
Unplug ==
    /\ usb.in
    /\ usb' = [usb EXCEPT !.in = FALSE]
    /\ IF tool \in {"page", "npm"} /\ session = usb.object
       THEN parting' = TRUE /\ badge' = Shown("removed", NoFile, FALSE, "")
       ELSE /\ parting' = (parting \/ (tool = "console" /\ console.device = usb.object))
            /\ UNCHANGED badge
    /\ UNCHANGED <<tool, disk, chip, session, image, option, task, console, before, faults>>

Plug ==
    /\ ~usb.in /\ usb.object < MaxPlugs
    /\ usb' = [object |-> usb.object + 1, in |-> TRUE]
    /\ UNCHANGED <<tool, disk, chip, pageState, task, badge, console, before, faults>>
=============================================================================
