-------------------------- MODULE FlashToolsProofs --------------------------
(***************************************************************************)
(* What the four flashing tools promise, for every shelf of files, every   *)
(* memory, any number of faults and plugs.                                 *)
(*                                                                         *)
(* The invariant FlashGood has a case for each tool: its types, what each  *)
(* step of its task knows of the chip (PageTask, NpmTask, CliTask,         *)
(* ConsoleOp), and that what is on show is true (BadgeInv).  What a step   *)
(* knows is where a job stands: before a part is programmed the memory has *)
(* what was written already and lacks only what is left (Writing), before  *)
(* the reset all of it is there (Flashed).  The success is shown with the  *)
(* reset, so it is as true as that.                                        *)
(*                                                                         *)
(* Two operations of the dialog that share a session promise nothing of    *)
(* the bytes (ConsoleOwn is claimed only of one that is not shared); both  *)
(* are known to be shared from the moment the second begins.  They still   *)
(* write only what their files name, and only on an open chip.             *)
(*                                                                         *)
(* One lemma per action, <Action>Keeps: it keeps the invariant and changes *)
(* no memory that the work under way may not change (MemoryAllowed).       *)
(***************************************************************************)
EXTENDS FlashImageProofs


(* -------------------------------- types ---------------------------------- *)

\* Kinds and steps of operations, entries of the flash algorithm, reasons of a failure.
Names ==
    {"none", "file", "request", "authorized", "flash", "recover", "disconnect", "run",
     "idle", "reading", "choose", "release", "connect", "ensure", "look", "access", "halt", "halt2", "load",
     "stub", "call", "program", "uninit", "verify", "reset", "massErase", "start", "config", "readonly",
     "reconnect", "rehalt", "close",
     "Init(erase)", "EraseAll", "UnInit(erase)", "Init(program)", "UnInit(program)",
     "transfer", "gone", "cancelled", "locked", "refused", "mismatch", "rejected"}
Lefts == Parts \cup Seq(Names)
ChipSet == [mem : Memory, core : {"runs", "halted"}, mode : {"read", "write"},
            algo : {"none", "loaded", "erase", "program"}, locked : BOOLEAN]
OpSet(d, n) == [kind : Names, at : Names, left : Lefts, file : d \cup {NoFile}, proc : 0 .. n,
                checked : BOOLEAN, shared : BOOLEAN]
OpOK(op, d, n) == op \in OpSet(d, n) /\ ((op = Idle) <=> (op.at = "idle"))
ConsoleSet(d, n) ==
    [device : 0 .. n, dap : BOOLEAN, opened : BOOLEAN, busy : BOOLEAN, ui : BOOLEAN,
     preset : d \cup {NoFile}, picked : BOOLEAN, load : d \cup {NoFile}, other : OpSet(d, n), clicks : Nat]

TypeInv ==
    /\ tool \in {"page", "npm", "cli", "console"} /\ disk \in Shelf
    /\ chip \in ChipSet
    /\ usb \in [object : 1 .. MaxPlugs, in : BOOLEAN]
    /\ session \in 0 .. usb.object /\ image \in disk \cup {NoFile}
    /\ option \in BOOLEAN /\ parting \in BOOLEAN
    /\ OpOK(task, disk, usb.object)
    /\ console \in ConsoleSet(disk, usb.object) /\ OpOK(console.other, disk, usb.object)
    /\ badge.file \in disk \cup {NoFile} /\ badge.checked \in BOOLEAN
    /\ before \in Memory /\ faults \in 0 .. MaxFaults

(* -------------------- what each tool knows at each step ------------------ *)

\* The calls still to come of the page's erase, and what they find.
PageCalls(op, c, f) ==
    \/ op.left = PageErase /\ c.algo = "loaded"
    \/ op.left = Tail(PageErase) /\ c.algo = "erase"
    \/ op.left = Tail(Tail(PageErase)) /\ c.algo = "erase" /\ c.mem = Blank
    \/ op.left = Tail(Tail(Tail(PageErase))) /\ c.algo = "loaded" /\ c.mem = Blank
    \/ op.left = PageCleanup /\ c.algo = "program" /\ Wrote(Want(op.file), Blank, Sure, <<>>, c.mem, f)

PageTask(op, c, img, f) ==
    /\ op.kind = "flash" => op.file = img /\ img \in HexFiles /\ PageImage[img].ok
    /\ op.at \in {"access", "halt", "load", "call", "program", "verify", "reset"} => op.kind = "flash"
    /\ op.at = "massErase" => op.kind = "recover"
    /\ op.at \in {"halt", "load", "call", "program", "verify", "reset"} => ~c.locked
    /\ op.at = "call" => PageCalls(op, c, f)
    /\ op.at = "program" => c.algo = "program" /\ Writing(Want(op.file), Blank, Sure, op.left, c.mem, f)
    /\ op.at = "verify" => Verifying(Want(op.file), Blank, Sure, op.left, c.mem, f)
    /\ op.at = "reset" => Flashed(Want(op.file), Blank, c.mem)

NpmTask(op, c, img, f, u) ==
    /\ op.at # "call"
    /\ op.kind = "flash" => img \in HexFiles /\ NpmImage[img].ok
    /\ op.at \in {"access", "halt", "halt2", "stub", "program", "uninit", "verify", "reset"} => op.kind = "flash"
    /\ op.at \in {"ensure", "massErase"} => op.kind \in {"flash", "recover"}
    /\ op.kind = "flash" /\ op.at \notin {"ensure", "choose", "release", "connect"} =>
          op.file \in HexFiles /\ NpmImage[op.file].ok /\ (~op.shared => op.file = img)
    /\ op.at \in {"halt", "halt2", "stub", "program", "uninit", "verify", "reset"} => ~c.locked
    /\ op.at \in {"halt2", "stub"} => c.mem = Blank
    /\ op.at = "program" => Writing(Want(op.file), Blank, Sure, op.left, c.mem, f)
    /\ op.at = "uninit" =>
          IF op.left = <<>> THEN f > 0 \/ ~(u.in /\ op.proc = u.object)
          ELSE Wrote(Want(op.file), Blank, Sure, <<>>, c.mem, f)
    /\ op.at = "verify" => Wrote(Want(op.file), Blank, Sure, <<>>, c.mem, f)
    /\ op.at = "reset" => /\ Clean(Want(op.file), Blank, c.mem)
                          /\ op.checked \/ f = 0 => Right(Want(op.file), c.mem, <<>>)

Base(opt, bef) == IF opt THEN Blank ELSE bef

CliTask(op, c, opt, bef, f) ==
    /\ op.at # "call"
    /\ op.at # "idle" => op.kind = "run" /\ op.file \in HexFiles
    /\ op.at \notin {"idle", "start"} => CliImage[op.file].ok
    /\ op.at = "massErase" => opt
    /\ op.at = "start" => c.mem = bef
    /\ op.at \in {"halt", "config"} => c.mem = Base(opt, bef)
    /\ op.at \in {"config", "program", "readonly", "verify", "reset"} => ~c.locked
    /\ op.at = "program" => /\ c.mode = "write"
                            /\ Writing(Meaning(op.file), Base(opt, bef), Steady(op.file), op.left, c.mem, f)
    /\ op.at = "readonly" => Wrote(Meaning(op.file), Base(opt, bef), Steady(op.file), <<>>, c.mem, f)
    /\ op.at = "verify" =>
          Verifying(Meaning(op.file), Base(opt, bef), Steady(op.file), op.left, c.mem, f)
    /\ op.at = "reset" => Flashed(Meaning(op.file), Base(opt, bef), c.mem)

Explained(why, file, f) ==
    \/ f > 0
    \/ why \in {"gone", "cancelled", "locked", "rejected", "shared"}
    \/ file \in HexFiles /\ why = "refused" /\ ~(DOMAIN Meaning(file) \subseteq DOMAIN Factory)
    \/ file \in HexFiles /\ why = "mismatch" /\ Contradicts(file)

\* An operation of the console that has its probe to itself.
ConsoleOwn(op, c, bef, f) ==
    /\ op.kind = "flash" /\ op.at \in {"file", "choose", "connect", "halt", "config"} => c.mem = bef
    /\ op.at = "program" => /\ c.mode = "write"
                            /\ Writing(Meaning(op.file), bef, Steady(op.file), op.left, c.mem, f)
    /\ op.at = "readonly" => Wrote(Meaning(op.file), bef, Steady(op.file), <<>>, c.mem, f)
    /\ op.at = "verify" => Verifying(Meaning(op.file), bef, Steady(op.file), op.left, c.mem, f)
    /\ op.at \in {"reconnect", "rehalt"} =>
          /\ Clean(Meaning(op.file), bef, c.mem) /\ f > 0
          /\ op.checked => Right(Meaning(op.file), c.mem, op.left)
    /\ op.at = "reset" => Flashed(Meaning(op.file), bef, c.mem)
    /\ op.at = "close" /\ op.left # <<>> => Explained(Head(op.left), op.file, f)

ConsoleOp(op, c, bef, f) ==
    /\ op.at \notin {"call", "reading", "release"}
    /\ op.at # "idle" => op.kind \in {"flash", "recover"}
    /\ op.at \in {"file", "halt", "config", "program", "readonly", "verify", "reconnect", "rehalt", "reset"} =>
          op.kind = "flash"
    /\ op.at = "massErase" => op.kind = "recover"
    /\ op.kind = "flash" => op.file \in HexFiles
    /\ op.kind = "flash" /\ op.at \notin {"file", "close"} => ConsoleImage[op.file].ok
    /\ op.at \in {"config", "program", "readonly", "verify", "reconnect", "rehalt", "reset"} => ~c.locked
    /\ op.at \in {"program", "verify", "reconnect", "rehalt"} =>
          \E j \in 1 .. Len(ConsolePieces[op.file]) : Rest(op.left, ConsolePieces[op.file], j)
    /\ ~op.shared => ConsoleOwn(op, c, bef, f)

\* Success is on show: no task has touched the chip since.
Quiet(op) == op.at \in {"idle", "reading", "close"} \/ (op.at = "release" /\ op.kind = "disconnect")

PageInv == PageTask(task, chip, image, faults) /\ (image # NoFile => PageImage[image].ok)
NpmInv == NpmTask(task, chip, image, faults, usb) /\ (image # NoFile => NpmImage[image].ok)
CliInv == CliTask(task, chip, option, before, faults)
ConsoleInv ==
    /\ ~option
    /\ ConsoleOp(task, chip, before, faults) /\ ConsoleOp(console.other, chip, before, faults)
    /\ task # Idle /\ console.other # Idle => task.shared /\ console.other.shared

BadgeInv ==
    /\ CompleteMeansFlashed /\ FailureIsExplained
    /\ badge.text = "complete" /\ badge.why # "shared" => Quiet(task) /\ Quiet(console.other)

(* ------------------------------ what is shown ---------------------------- *)

\* A badge that claims nothing is true.
LEMMA BadgeOther ==
  ASSUME badge'.text # "complete", badge'.text # "failed"
  PROVE  BadgeInv'
BY DEF BadgeInv, CompleteMeansFlashed, FailureIsExplained

\* What is shown stays true: nothing was going on and nothing changes, or a task was working.
LEMMA BadgeSame ==
  ASSUME BadgeInv, badge' = badge, tool' = tool, faults \in Nat, faults' \in Nat, faults' >= faults,
         Quiet(task) /\ Quiet(console.other) =>
            /\ chip' = chip /\ before' = before /\ faults' = faults /\ (ErasesFirst' <=> ErasesFirst)
            /\ Quiet(task') /\ Quiet(console'.other)
  PROVE  BadgeInv'
<1> DEFINE calm == Quiet(task) /\ Quiet(console.other)
           shown == badge.text = "complete" /\ badge.why # "shared"
<1>1. FailureIsExplained'
  BY DEF BadgeInv, FailureIsExplained
<1>2. shown => calm
  BY DEF BadgeInv
<1>3. CASE ~shown
  BY <1>1, <1>3 DEF BadgeInv, CompleteMeansFlashed
<1>4. CASE shown
  <2>1. chip' = chip /\ before' = before /\ faults' = faults /\ (ErasesFirst' <=> ErasesFirst)
        /\ Quiet(task') /\ Quiet(console'.other)
    BY <1>2, <1>4
  <2>2. CompleteMeansFlashed'
    BY <2>1 DEF BadgeInv, CompleteMeansFlashed
  <2> QED
    BY <1>1, <2>1, <2>2 DEF BadgeInv
<1> QED
  BY <1>3, <1>4

\* A failure may be shown when there was a fault or the reason explains it.
LEMMA BadgeFailed ==
  ASSUME NEW f, NEW c, NEW w, badge' = Shown("failed", f, c, w), tool' = tool,
         \/ faults' > 0
         \/ w \in {"gone", "cancelled", "locked", "rejected", "shared"}
         \/ tool \in {"cli", "console"} /\ Explained(w, f, faults')
  PROVE  BadgeInv'
<1>1. badge'.text = "failed" /\ badge'.file = f /\ badge'.why = w
  BY DEF Shown
<1>2. f \in HexFiles => MeaningOf[f] = Meaning(f)
  BY DEF MeaningOf
<1>3. FailureIsExplained'
  BY <1>1, <1>2 DEF FailureIsExplained, Explained
<1> QED
  BY <1>1, <1>3 DEF BadgeInv, CompleteMeansFlashed

\* A success may be shown when the memory is what the file means over what was there.
LEMMA BadgeComplete ==
  ASSUME NEW f, NEW c, NEW w, badge' = Shown("complete", f, c, w), tool' = tool,
         chip \in ChipSet, chip' = AfterReset(chip), Quiet(task'), Quiet(console'.other),
         w # "shared" /\ (c \/ (tool = "npm" /\ faults' = 0)) =>
             f \in HexFiles /\ chip.mem = Override(IF ErasesFirst' THEN Blank ELSE before', Meaning(f))
  PROVE  BadgeInv'
<1>1. badge'.text = "complete" /\ badge'.file = f /\ badge'.why = w /\ (badge'.checked <=> c)
  BY DEF Shown
<1>2. f \in HexFiles => MeaningOf[f] = Meaning(f)
  BY DEF MeaningOf
<1>3. chip'.mem = chip.mem /\ chip'.core = "runs" /\ chip'.mode = "read" /\ chip'.algo = "none"
  BY DEF AfterReset, ChipSet
<1>4. CompleteMeansFlashed'
  BY <1>1, <1>2, <1>3 DEF CompleteMeansFlashed
<1>5. FailureIsExplained'
  BY <1>1 DEF FailureIsExplained
<1> QED
  BY <1>4, <1>5 DEF BadgeInv

(* ---------------------------- what may change ---------------------------- *)

MemoryAllowed ==
    chip'.mem # chip.mem =>
        LET working == {op \in {task, console.other} : op.kind \in {"flash", "recover", "run"}}
        IN  /\ working # {}
            /\ chip.locked => ~chip'.locked
            /\ ~ErasesFirst /\ (\A op \in working : op.kind # "recover") =>
                 \A a \in DOMAIN Factory : chip'.mem[a] # chip.mem[a] =>
                    \E op \in working : a \in DOMAIN MeaningOf[op.file]

\* A step that leaves the memory alone does what it may.
LEMMA NothingChanged == chip'.mem = chip.mem => MemoryAllowed
BY DEF MemoryAllowed

\* A step of an operation may change the memory of an open chip: all of it after an erase, else what the file names.
LEMMA OpMayChange ==
  ASSUME NEW op \in {task, console.other}, op.kind \in {"flash", "recover", "run"},
         chip'.mem # chip.mem => (chip.locked => ~chip'.locked),
         \/ ErasesFirst \/ op.kind = "recover"
         \/ /\ op.file \in HexFiles
            /\ \A a \in DOMAIN Factory : chip'.mem[a] # chip.mem[a] => a \in DOMAIN Meaning(op.file)
  PROVE  MemoryAllowed
<1>1. op.file \in HexFiles => MeaningOf[op.file] = Meaning(op.file)
  BY DEF MeaningOf
<1> QED
  BY <1>1 DEF MemoryAllowed

(* ---------------------------- what a step writes ------------------------- *)

\* The memory a chip holds is one.
LEMMA ChipFields ==
  ASSUME NEW c \in ChipSet
  PROVE  c.mem \in Memory /\ c.core \in {"runs", "halted"} /\ c.mode \in {"read", "write"}
         /\ c.algo \in {"none", "loaded", "erase", "program"} /\ c.locked \in BOOLEAN
BY DEF ChipSet

\* The chips that come of a chip by one assignment.
LEMMA ChipStates ==
  ASSUME NEW c \in ChipSet
  PROVE  /\ \A x \in {"runs", "halted"} : /\ [c EXCEPT !.core = x] \in ChipSet
                                          /\ [c EXCEPT !.core = x].mem = c.mem
                                          /\ [c EXCEPT !.core = x].locked = c.locked
                                          /\ [c EXCEPT !.core = x].mode = c.mode
         /\ \A m \in Memory : /\ [c EXCEPT !.mem = m] \in ChipSet /\ [c EXCEPT !.mem = m].mem = m
                              /\ [c EXCEPT !.mem = m].locked = c.locked
                              /\ [c EXCEPT !.mem = m].mode = c.mode /\ [c EXCEPT !.mem = m].algo = c.algo
         /\ \A x \in {"read", "write"} : /\ [c EXCEPT !.mode = x] \in ChipSet
                                         /\ [c EXCEPT !.mode = x].mem = c.mem
                                         /\ [c EXCEPT !.mode = x].mode = x
                                         /\ [c EXCEPT !.mode = x].locked = c.locked
         /\ \A x \in {"none", "loaded", "erase", "program"} :
               /\ [c EXCEPT !.algo = x] \in ChipSet /\ [c EXCEPT !.algo = x].mem = c.mem
               /\ [c EXCEPT !.algo = x].algo = x
               /\ [c EXCEPT !.algo = x].locked = c.locked
BY DEF ChipSet

\* A reset changes no byte.
LEMMA AfterResetFacts ==
  ASSUME NEW c \in ChipSet
  PROVE  AfterReset(c) \in ChipSet /\ AfterReset(c).mem = c.mem /\ AfterReset(c).locked = c.locked
BY DEF AfterReset, ChipSet

\* A mass erase blanks the memory and lifts the protection.
LEMMA AfterMassEraseFacts ==
  ASSUME NEW c \in ChipSet
  PROVE  AfterMassErase(c) \in ChipSet /\ AfterMassErase(c).mem = Blank /\ AfterMassErase(c).locked = FALSE
BY BlankIsAMemory DEF AfterMassErase, AfterReset, ChipSet

\* A part that is written.
LEMMA WrittenFacts ==
  ASSUME NEW c \in ChipSet, NEW p, p.address \in Nat, p.data \in Seq(Bytes)
  PROVE  /\ Written(c, p) \in ChipSet /\ WrittenOver(c.mem, p, Written(c, p).mem)
         /\ Written(c, p).locked = c.locked /\ Written(c, p).mode = c.mode /\ Written(c, p).algo = c.algo
<1> DEFINE new == WriteBytes(c.mem, p.address, p.data)
<1>1. c.mem \in Memory
  BY ChipFields
<1>2. WrittenOver(c.mem, p, new)
  BY <1>1, WriteFacts
<1>3. new \in Memory
  BY <1>2 DEF WrittenOver
<1>4. Written(c, p) = [c EXCEPT !.mem = new]
  BY DEF Written
<1> HIDE DEF new
<1> QED
  BY <1>2, <1>3, <1>4 DEF ChipSet

\* A write that the chip did wrong touches no byte outside its part.
LEMMA MissedFacts ==
  ASSUME chip \in ChipSet, NEW p, p.address \in Nat, p.data \in Seq(Bytes), NEW d \in Missed(p)
  PROVE  /\ d \in ChipSet /\ PartlyWritten(chip.mem, p, d.mem)
         /\ d.locked = chip.locked /\ d.mode = chip.mode /\ d.algo = chip.algo
<1>1. PICK w : d = [chip EXCEPT !.mem = Override(Written(chip, p).mem, [a \in w .. w + 3 |-> chip.mem[a]])]
  BY DEF Missed
<1> DEFINE m == Written(chip, p).mem
           old == [a \in w .. w + 3 |-> chip.mem[a]]
           new == Override(m, old)
<1>2. WrittenOver(chip.mem, p, m) /\ chip.mem \in Memory
  BY WrittenFacts, ChipFields
<1>3. m \in Memory /\ \A a \in DOMAIN Factory : m[a] = chip.mem[a] \/ (a \in PartSpan(p) /\ m[a] = PartByte(p, a))
  BY <1>2 DEF WrittenOver
<1>4. \A a \in DOMAIN old : old[a] = chip.mem[a]
  OBVIOUS
<1> HIDE DEF m, old
<1>5. DOMAIN new = DOMAIN Factory /\ new = [a \in DOMAIN new |-> new[a]]
      /\ \A a \in DOMAIN Factory : new[a] = chip.mem[a] \/ new[a] = m[a]
  BY <1>3, <1>4 DEF Override, Memory
<1>6. d = [chip EXCEPT !.mem = new]
  BY <1>1 DEF m, old
<1> HIDE DEF new
<1>7. \A a \in DOMAIN Factory : new[a] \in Bytes
  BY <1>2, <1>3, <1>5 DEF Memory
<1>8. new \in Memory
  BY <1>5, <1>7 DEF Memory
<1>9. PartlyWritten(chip.mem, p, new)
  BY <1>3, <1>5, <1>8 DEF PartlyWritten
<1> QED
  BY <1>6, <1>8, <1>9, ChipStates

\* A write may do nothing.
LEMMA SamePartly ==
  ASSUME NEW mem \in Memory, NEW p
  PROVE  PartlyWritten(mem, p, mem)
BY DEF PartlyWritten

\* What a step that throws may have done.
HalfDoneEffect(op) ==
    /\ chip' \in ChipSet /\ (chip'.locked => chip.locked)
    /\ faults' \in 0 .. MaxFaults /\ faults' >= faults
    /\ IF Answers(op) THEN faults' > 0 ELSE faults' = faults
    /\ chip'.mem # chip.mem => Answers(op) /\ op.at \in {"massErase", "call", "program"}
    /\ chip'.mem # chip.mem /\ op.at = "massErase" => ~chip'.locked
    /\ op.at = "program" => PartlyWritten(chip.mem, Head(op.left), chip'.mem)

\* What an operation leaves when a transfer throws: at most a part of the piece it was writing.
LEMMA ThrownFacts ==
  ASSUME NEW op, chip \in ChipSet, faults \in 0 .. MaxFaults, Thrown(op),
         op.at = "program" => op.left \in Parts /\ op.left # <<>>
  PROVE  HalfDoneEffect(op)
<1>1. chip.mem \in Memory /\ Blank \in Memory /\ MaxFaults \in Nat
  BY ChipFields, BlankIsAMemory, BoundsAreNat
<1>2. faults' \in 0 .. MaxFaults /\ faults' >= faults /\ (IF Answers(op) THEN faults' > 0 ELSE faults' = faults)
  BY <1>1 DEF Thrown
<1>3. \A p : PartlyWritten(chip.mem, p, chip.mem)
  BY <1>1, SamePartly
<1>4. chip' \in HalfDone(op)
  BY DEF Thrown
<1>5. CASE chip' = chip
  BY <1>2, <1>3, <1>5 DEF HalfDoneEffect
<1>6. CASE Answers(op) /\ op.at = "halt"
  <2>1. chip' \in {chip, [chip EXCEPT !.core = "halted"]}
    BY <1>4, <1>6 DEF HalfDone
  <2>2. chip' \in ChipSet /\ chip'.mem = chip.mem /\ chip'.locked = chip.locked
    BY <2>1 DEF ChipSet
  <2> QED
    BY <1>2, <1>6, <2>2 DEF HalfDoneEffect
<1>7. CASE Answers(op) /\ op.at = "massErase"
  <2>1. chip' \in {chip, AfterMassErase(chip)}
    BY <1>4, <1>7 DEF HalfDone
  <2>2. chip' \in ChipSet /\ (chip' = chip \/ chip'.locked = FALSE)
    BY <1>1, <2>1 DEF AfterMassErase, AfterReset, ChipSet
  <2> QED
    BY <1>2, <1>7, <2>2 DEF HalfDoneEffect
<1>8. CASE Answers(op) /\ op.at = "call"
  <2>1. chip' \in {chip, [chip EXCEPT !.mem = Blank]}
    BY <1>4, <1>8 DEF HalfDone
  <2>2. chip' \in ChipSet /\ chip'.locked = chip.locked
    BY <1>1, <2>1 DEF ChipSet
  <2> QED
    BY <1>2, <1>8, <2>2 DEF HalfDoneEffect
<1>9. CASE Answers(op) /\ op.at = "reset"
  <2>1. chip' \in {chip, AfterReset(chip)}
    BY <1>4, <1>9 DEF HalfDone
  <2>2. chip' \in ChipSet /\ chip'.mem = chip.mem /\ chip'.locked = chip.locked
    BY <2>1 DEF AfterReset, ChipSet
  <2> QED
    BY <1>2, <1>9, <2>2 DEF HalfDoneEffect
<1>10. CASE Answers(op) /\ op.at = "program" /\ chip' # chip
  <2> DEFINE p == Head(op.left)
             len == Len(p.data)
             ok == {k \in 0 .. len \div 4 : Present(chip.mem, p)}
  <2>1. chip' \in {Written(chip, [p EXCEPT !.data = SubSeq(@, 1, 4 * n)]) : n \in ok}
    BY <1>4, <1>10 DEF HalfDone
  <2>2. PICK n \in 0 .. len \div 4 : chip' = Written(chip, [p EXCEPT !.data = SubSeq(@, 1, 4 * n)])
    BY <2>1
  <2> DEFINE q == [p EXCEPT !.data = SubSeq(@, 1, 4 * n)]
  <2>3. p \in Part \cup CPart /\ p.address \in Nat /\ p.data \in Seq(Bytes)
    BY <1>10, PartsLeft
  <2>4. q.address = p.address /\ q.data = SubSeq(p.data, 1, 4 * n)
    BY <2>3 DEF Part, CPart
  <2>5. chip' = [chip EXCEPT !.mem = WriteBytes(chip.mem, q.address, q.data)]
    BY <2>2 DEF Written
  <2> HIDE DEF p, q
  <2>6. PartlyWritten(chip.mem, p, WriteBytes(chip.mem, q.address, q.data))
    BY <1>1, <2>3, <2>4, ShorterIsPartly
  <2> DEFINE new == WriteBytes(chip.mem, q.address, q.data)
  <2>7. new \in Memory
    BY <2>6 DEF PartlyWritten
  <2> HIDE DEF new
  <2>8. chip' \in ChipSet /\ chip'.mem = new /\ chip'.locked = chip.locked
    BY <2>5, <2>7, ChipStates DEF new
  <2> QED
    BY <1>2, <1>10, <2>6, <2>8 DEF HalfDoneEffect, p, new
<1>11. chip' = chip \/ (Answers(op) /\ op.at \in {"halt", "massErase", "call", "program", "reset"})
  <2>1. ~Answers(op) => chip' \in {chip}
    BY <1>4 DEF HalfDone
  <2>2. Answers(op) /\ op.at \notin {"halt", "massErase", "call", "program", "reset"} => chip' \in {chip}
    BY <1>4 DEF HalfDone
  <2> QED
    BY <2>1, <2>2
<1> QED
  BY <1>5, <1>6, <1>7, <1>8, <1>9, <1>10, <1>11

(* ------------------------------- operations ------------------------------ *)

\* What an operation is made of.
LEMMA OpFields ==
  ASSUME NEW op, NEW d, NEW n, OpOK(op, d, n)
  PROVE  /\ op \in OpSet(d, n) /\ op.kind \in Names /\ op.at \in Names /\ op.left \in Lefts
         /\ op.file \in d \cup {NoFile} /\ op.proc \in 0 .. n /\ op.checked \in BOOLEAN /\ op.shared \in BOOLEAN
         /\ op = Idle <=> op.at = "idle"
BY DEF OpOK, OpSet

\* No operation.
LEMMA IdleIsOK ==
  ASSUME NEW d, NEW n \in Nat
  PROVE  OpOK(Idle, d, n) /\ Idle.at = "idle" /\ Idle.kind = "none" /\ Idle.file = NoFile /\ Idle.proc = 0
         /\ Idle.left = <<>> /\ Idle.shared = FALSE /\ Idle.checked = FALSE
<1>1. Idle \in OpSet(d, n)
  <2>1. <<>> \in Lefts
    BY DEF Lefts
  <2>2. 0 \in 0 .. n /\ NoFile \in d \cup {NoFile} /\ "none" \in Names /\ "idle" \in Names
    BY DEF Names
  <2> QED
    BY <2>1, <2>2 DEF Idle, OpSet
<1> QED
  BY <1>1 DEF Idle, OpOK

\* An operation that is under way.
LEMMA OpIsOK ==
  ASSUME NEW op, NEW d, NEW n, op \in OpSet(d, n), op.at # "idle"
  PROVE  OpOK(op, d, n)
BY DEF OpOK, Idle

\* The operations that come of an operation.
LEMMA OpGoesOn ==
  ASSUME NEW op, NEW d, NEW n, op \in OpSet(d, n), NEW s \in Names, s # "idle"
  PROVE  /\ OpOK([op EXCEPT !.at = s], d, n)
         /\ \A l \in Lefts : OpOK([op EXCEPT !.at = s, !.left = l], d, n)
         /\ \A p \in 0 .. n : OpOK([op EXCEPT !.proc = p, !.at = s], d, n)
         /\ \A f \in d \cup {NoFile} : OpOK([op EXCEPT !.at = s, !.file = f], d, n)
         /\ \A c \in BOOLEAN : OpOK([[op EXCEPT !.at = s] EXCEPT !.checked = c], d, n)
<1>1. ASSUME NEW new \in OpSet(d, n), new.at = s PROVE OpOK(new, d, n)
  BY <1>1, OpIsOK
<1>2. [op EXCEPT !.at = s] \in OpSet(d, n) /\ [op EXCEPT !.at = s].at = s
  BY DEF OpSet
<1>3. \A l \in Lefts : [op EXCEPT !.at = s, !.left = l] \in OpSet(d, n) /\ [op EXCEPT !.at = s, !.left = l].at = s
  BY DEF OpSet
<1>4. \A p \in 0 .. n : [op EXCEPT !.proc = p, !.at = s] \in OpSet(d, n) /\ [op EXCEPT !.proc = p, !.at = s].at = s
  BY DEF OpSet
<1>5. \A f \in d \cup {NoFile} : /\ [op EXCEPT !.at = s, !.file = f] \in OpSet(d, n)
                                 /\ [op EXCEPT !.at = s, !.file = f].at = s
  BY DEF OpSet
<1>6. \A c \in BOOLEAN : /\ [[op EXCEPT !.at = s] EXCEPT !.checked = c] \in OpSet(d, n)
                         /\ [[op EXCEPT !.at = s] EXCEPT !.checked = c].at = s
  BY DEF OpSet
<1> QED
  BY <1>1, <1>2, <1>3, <1>4, <1>5, <1>6

\* The same with the fields of the new operation.
Moved(op, s) == [op EXCEPT !.at = s]
MovedWith(op, s, l) == [op EXCEPT !.at = s, !.left = l]
MovedChecked(op, s, c) == [[op EXCEPT !.at = s] EXCEPT !.checked = c]

\* An operation that goes to step s.
LEMMA OpTo ==
  ASSUME NEW op, NEW d, NEW n, op \in OpSet(d, n), NEW s \in Names, s # "idle",
         NEW new, new = Moved(op, s)
  PROVE  /\ OpOK(new, d, n) /\ new.kind = op.kind /\ new.at = s /\ new.left = op.left /\ new.file = op.file
         /\ new.proc = op.proc /\ new.checked = op.checked /\ new.shared = op.shared
<1>1. new \in OpSet(d, n) /\ new.at = s
  BY DEF OpSet, Moved, MovedWith
<1>2. OpOK(new, d, n)
  BY <1>1, OpIsOK
<1> QED
  BY <1>1, <1>2 DEF OpSet, Moved, MovedWith

\* An operation that goes to step s with the pieces or calls l.
LEMMA OpWith ==
  ASSUME NEW op, NEW d, NEW n, op \in OpSet(d, n), NEW s \in Names, s # "idle", NEW l \in Lefts,
         NEW new, new = MovedWith(op, s, l)
  PROVE  /\ OpOK(new, d, n) /\ new.kind = op.kind /\ new.at = s /\ new.left = l /\ new.file = op.file
         /\ new.proc = op.proc /\ new.checked = op.checked /\ new.shared = op.shared
<1>1. new \in OpSet(d, n) /\ new.at = s
  BY DEF OpSet, Moved, MovedWith
<1>2. OpOK(new, d, n)
  BY <1>1, OpIsOK
<1> QED
  BY <1>1, <1>2 DEF OpSet, Moved, MovedWith

\* An operation that has done the first of its pieces.
LEMMA OpRest ==
  ASSUME NEW op, NEW d, NEW n, op \in OpSet(d, n), op.at # "idle", Tail(op.left) \in Lefts,
         NEW new, new = [op EXCEPT !.left = Tail(@)]
  PROVE  /\ OpOK(new, d, n) /\ new.kind = op.kind /\ new.at = op.at /\ new.left = Tail(op.left)
         /\ new.file = op.file
         /\ new.proc = op.proc /\ new.checked = op.checked /\ new.shared = op.shared
<1> DEFINE l == Tail(op.left)
<1>1. new = [op EXCEPT !.left = l]
  OBVIOUS
<1> HIDE DEF l
<1>2. new \in OpSet(d, n) /\ new.at = op.at
  BY <1>1 DEF OpSet, l
<1>3. OpOK(new, d, n)
  BY <1>2, OpIsOK
<1> QED
  BY <1>1, <1>3 DEF OpSet, l

\* An operation that goes to step s and notes whether it read back.
LEMMA OpChecked ==
  ASSUME NEW op, NEW d, NEW n, op \in OpSet(d, n), NEW s \in Names, s # "idle", NEW c \in BOOLEAN,
         NEW new, new = MovedChecked(op, s, c)
  PROVE  /\ OpOK(new, d, n) /\ new.kind = op.kind /\ new.at = s /\ new.left = op.left /\ new.file = op.file
         /\ new.proc = op.proc /\ new.checked = c /\ new.shared = op.shared
<1>1. new \in OpSet(d, n) /\ new.at = s
  BY DEF OpSet, MovedChecked
<1>2. OpOK(new, d, n)
  BY <1>1, OpIsOK
<1> QED
  BY <1>1, <1>2 DEF OpSet, MovedChecked

\* An operation that stays at its step.
LEMMA OpStays ==
  ASSUME NEW op, NEW d, NEW n, op \in OpSet(d, n), op.at # "idle"
  PROVE  /\ \A l \in Lefts : OpOK([op EXCEPT !.left = l], d, n)
         /\ OpOK([op EXCEPT !.shared = TRUE], d, n)
<1>1. \A l \in Lefts : [op EXCEPT !.left = l] \in OpSet(d, n) /\ [op EXCEPT !.left = l].at = op.at
  BY DEF OpSet
<1>2. [op EXCEPT !.shared = TRUE] \in OpSet(d, n) /\ [op EXCEPT !.shared = TRUE].at = op.at
  BY DEF OpSet
<1> QED
  BY <1>1, <1>2, OpIsOK

\* The sessions only grow, and an operation keeps its own.
LEMMA OpAges ==
  ASSUME NEW op, NEW d, NEW n \in Nat, NEW m \in Nat, m >= n, OpOK(op, d, n)
  PROVE  OpOK(op, d, m)
<1>1. 0 .. n \subseteq 0 .. m
  OBVIOUS
<1> QED
  BY <1>1 DEF OpOK, OpSet

\* An operation that begins.
LEMMA OpBegins ==
  ASSUME NEW d, NEW n \in Nat, NEW k \in Names, NEW s \in Names, s # "idle", NEW f \in d \cup {NoFile},
         NEW p \in 0 .. n
  PROVE  /\ OpOK([Idle EXCEPT !.kind = k, !.at = s, !.file = f], d, n)
         /\ OpOK([Idle EXCEPT !.kind = k, !.proc = p, !.file = f, !.at = s], d, n)
         /\ OpOK([Idle EXCEPT !.kind = k, !.proc = p, !.at = s], d, n)
         /\ \A h \in BOOLEAN : OpOK([Idle EXCEPT !.kind = k, !.at = s, !.file = f, !.shared = h], d, n)
<1>0. Idle \in OpSet(d, n)
  BY IdleIsOK, OpFields
<1>1. [Idle EXCEPT !.kind = k, !.at = s, !.file = f] \in OpSet(d, n)
  BY <1>0 DEF OpSet
<1>2. [Idle EXCEPT !.kind = k, !.proc = p, !.file = f, !.at = s] \in OpSet(d, n)
  BY <1>0 DEF OpSet
<1>3. [Idle EXCEPT !.kind = k, !.proc = p, !.at = s] \in OpSet(d, n)
  BY <1>0 DEF OpSet
<1>4. \A h \in BOOLEAN : [Idle EXCEPT !.kind = k, !.at = s, !.file = f, !.shared = h] \in OpSet(d, n)
  BY <1>0 DEF OpSet
<1> QED
  BY <1>1, <1>2, <1>3, <1>4, OpIsOK DEF Idle

\* The types are kept when the new values have theirs.
LEMMA TypesStep ==
  ASSUME TypeInv, UNCHANGED world, chip' \in ChipSet, session' \in 0 .. usb.object,
         image' \in disk \cup {NoFile}, option' \in BOOLEAN, parting' \in BOOLEAN,
         OpOK(task', disk, usb.object), badge'.file \in disk \cup {NoFile}, badge'.checked \in BOOLEAN,
         before' \in Memory, faults' \in 0 .. MaxFaults
  PROVE  TypeInv'
BY DEF TypeInv, world

(* ------------------------------- the page -------------------------------- *)

\* What the types give.
LEMMA TypesKnown ==
  ASSUME TypeInv
  PROVE  /\ chip \in ChipSet /\ chip.mem \in Memory /\ chip.locked \in BOOLEAN
         /\ usb.object \in Nat /\ usb.object \in 0 .. usb.object /\ usb.object > 0
         /\ 0 \in 0 .. usb.object
         /\ session \in 0 .. usb.object /\ image \in disk \cup {NoFile}
         /\ option \in BOOLEAN /\ parting \in BOOLEAN
         /\ OpOK(task, disk, usb.object) /\ task \in OpSet(disk, usb.object)
         /\ OpOK(Idle, disk, usb.object) /\ NoFile \in disk \cup {NoFile}
         /\ badge.file \in disk \cup {NoFile} /\ badge.checked \in BOOLEAN
         /\ before \in Memory /\ faults \in 0 .. MaxFaults /\ faults \in Nat
         /\ MaxFaults \in Nat /\ disk \subseteq HexFiles
<1>1. usb.object \in 1 .. MaxPlugs /\ MaxPlugs \in Nat /\ MaxFaults \in Nat
  BY BoundsAreNat DEF TypeInv
<1>2. usb.object \in Nat /\ usb.object \in 0 .. usb.object /\ usb.object > 0 /\ 0 \in 0 .. usb.object
  BY <1>1
<1>3. chip \in ChipSet /\ chip.mem \in Memory /\ chip.locked \in BOOLEAN
  BY ChipFields DEF TypeInv
<1>4. OpOK(task, disk, usb.object) /\ task \in OpSet(disk, usb.object) /\ OpOK(Idle, disk, usb.object)
  BY <1>2, IdleIsOK DEF TypeInv, OpOK
<1>5. faults \in 0 .. MaxFaults /\ faults \in Nat
  BY <1>1 DEF TypeInv
<1>6. disk \subseteq HexFiles
  BY DEF TypeInv, HexFiles
<1> QED
  BY <1>1, <1>2, <1>3, <1>4, <1>5, <1>6 DEF TypeInv

\* The tools with one operation have no second one.
LEMMA AloneIsIdle == NoConsole.other = Idle /\ Quiet(Idle) /\ (console = NoConsole => console.other = Idle)
<1>1. NoConsole.other = Idle
  BY DEF NoConsole
<1>2. Quiet(Idle)
  BY DEF Quiet, Idle
<1> QED
  BY <1>1, <1>2

PageGood == tool = "page" /\ TypeInv /\ BadgeInv /\ PageInv /\ console = NoConsole
PageKept == PageGood' /\ MemoryAllowed

\* A step of a task that goes on.
LEMMA PageGoesOn ==
  ASSUME PageGood, UNCHANGED <<world, image, option, parting, badge, before>>, ~Quiet(task),
         chip' \in ChipSet, session' \in 0 .. usb.object, OpOK(task', disk, usb.object),
         faults' \in 0 .. MaxFaults, faults' >= faults, PageTask(task', chip', image, faults'), MemoryAllowed
  PROVE  PageKept
<1>1. TypeInv /\ BadgeInv /\ tool = "page" /\ console = NoConsole /\ (image # NoFile => PageImage[image].ok)
  BY DEF PageGood, PageInv
<1>2. image' \in disk \cup {NoFile} /\ option' \in BOOLEAN /\ parting' \in BOOLEAN /\ before' \in Memory
      /\ badge'.file \in disk \cup {NoFile} /\ badge'.checked \in BOOLEAN /\ faults \in Nat /\ MaxFaults \in Nat
  BY <1>1, TypesKnown
<1>3. TypeInv'
  BY <1>1, <1>2, TypesStep
<1>4. BadgeInv'
  BY <1>1, <1>2, BadgeSame DEF world
<1>5. PageInv'
  BY <1>1 DEF PageInv
<1> QED
  BY <1>1, <1>3, <1>4, <1>5 DEF PageGood, PageKept, world

\* A step that ends a task.
LEMMA PageEnds ==
  ASSUME PageGood, UNCHANGED <<world, image, option, parting, before>>, task' = Idle,
         chip' \in ChipSet, session' \in 0 .. usb.object,
         faults' \in 0 .. MaxFaults, badge'.file \in disk \cup {NoFile}, badge'.checked \in BOOLEAN,
         BadgeInv', MemoryAllowed
  PROVE  PageKept
<1>1. TypeInv /\ tool = "page" /\ console = NoConsole /\ (image # NoFile => PageImage[image].ok)
  BY DEF PageGood, PageInv
<1>2. image' \in disk \cup {NoFile} /\ option' \in BOOLEAN /\ parting' \in BOOLEAN /\ before' \in Memory
      /\ OpOK(task', disk, usb.object)
  BY <1>1, TypesKnown
<1>3. TypeInv'
  BY <1>1, <1>2, TypesStep
<1>4. PageTask(Idle, chip', image, faults')
  BY DEF PageTask, Idle
<1>5. PageInv'
  BY <1>1, <1>4 DEF PageInv
<1> QED
  BY <1>1, <1>3, <1>5 DEF PageGood, PageKept, world

\* What holds while the page is open.
LEMMA PageKnown ==
  ASSUME PageGood
  PROVE  /\ TypeInv /\ BadgeInv /\ tool = "page" /\ console = NoConsole /\ console.other = Idle
         /\ PageTask(task, chip, image, faults) /\ (image # NoFile => PageImage[image].ok)
         /\ Quiet(console.other) /\ ErasesFirst
BY AloneIsIdle DEF PageGood, PageInv, ErasesFirst

LEMMA PageChangeFileKeeps ==
  ASSUME PageGood, NEW f \in disk, PageChangeFile(f)
  PROVE  PageKept
<1> USE DEF PageChangeFile
<1> DEFINE op == [Idle EXCEPT !.kind = "file", !.at = "reading", !.file = f]
<1>1. OpOK(op, disk, usb.object)
  <2>1. "file" \in Names /\ "reading" \in Names /\ f \in disk \cup {NoFile}
    BY DEF Names
  <2> QED
    BY <2>1, PageKnown, TypesKnown, OpBegins
<1>2. TypeInv'
  BY <1>1, PageKnown, TypesKnown, TypesStep DEF pageState
<1>3. PageTask(op, chip, image, faults) /\ Quiet(op)
  BY DEF PageTask, Idle, Quiet
<1>4. ErasesFirst' <=> ErasesFirst
  BY DEF ErasesFirst, world, pageState
<1>5. BadgeInv'
  BY <1>3, <1>4, PageKnown, TypesKnown, BadgeSame DEF world
<1>6. MemoryAllowed
  BY NothingChanged
<1> QED
  BY <1>2, <1>3, <1>5, <1>6, PageKnown DEF PageGood, PageKept, PageInv, world, pageState

LEMMA PageReadImageKeeps ==
  ASSUME PageGood, PageReadImage
  PROVE  PageKept
<1> USE DEF PageReadImage
<1>1. task.file \in disk \cup {NoFile}
  BY PageKnown, TypesKnown, OpFields
<1>2. image' \in disk \cup {NoFile} /\ (image' # NoFile => PageImage[image'].ok)
  BY <1>1
<1>3. badge'.text \in {"image", "image error"} /\ badge'.file = NoFile /\ badge'.checked = FALSE
  BY DEF Shown
<1>4. BadgeInv'
  BY <1>3, BadgeOther
<1>5. TypeInv'
  BY <1>2, <1>3, PageKnown, TypesKnown, TypesStep
<1>6. PageTask(Idle, chip, image', faults)
  BY DEF PageTask, Idle
<1>7. MemoryAllowed
  BY NothingChanged
<1> QED
  BY <1>2, <1>4, <1>5, <1>6, <1>7, PageKnown DEF PageGood, PageKept, PageInv, world

LEMMA PageBeginKeeps ==
  ASSUME PageGood, NEW kind \in PageKinds, PageBegin(kind)
  PROVE  PageKept
<1> USE DEF PageBegin
<1> DEFINE file == IF kind = "flash" THEN image ELSE NoFile
           step == IF kind = "disconnect" THEN "release"
                   ELSE IF kind \in {"flash", "recover"} /\ session # 0 THEN PageFirst(kind) ELSE "choose"
           op == [Idle EXCEPT !.kind = kind, !.proc = session, !.file = file, !.at = step]
<1>0. task' = op /\ (kind = "flash" => image # NoFile)
      /\ (badge' = badge \/ badge' = Working) /\ (kind # "disconnect" => badge' = Working)
  OBVIOUS
<1>1. step \in {"release", "access", "massErase", "choose"} /\ kind \in Names
  BY DEF PageFirst, PageKinds, Names
<1>2. step \in Names /\ step # "idle" /\ file \in disk \cup {NoFile}
  BY <1>1, PageKnown, TypesKnown DEF Names
<1>3. /\ step = "access" => kind = "flash"
      /\ step = "massErase" => kind = "recover"
      /\ step = "release" => kind = "disconnect"
  BY DEF PageFirst
<1>4. kind = "flash" => file = image /\ image \in HexFiles /\ PageImage[image].ok
  BY <1>0, PageKnown, TypesKnown
<1> HIDE DEF file, step
<1>5. OpOK(op, disk, usb.object)
  BY <1>1, <1>2, PageKnown, TypesKnown, OpBegins
<1>6. op.kind = kind /\ op.at = step /\ op.file = file /\ op.left = <<>>
  BY DEF Idle
<1> HIDE DEF op
<1>7. PageTask(op, chip, image, faults)
  BY <1>1, <1>3, <1>4, <1>6 DEF PageTask
<1>8. TypeInv'
  BY <1>0, <1>5, PageKnown, TypesKnown, TypesStep DEF Working, Shown, pageState
<1>9. BadgeInv'
  <2>1. CASE kind = "disconnect"
    <3>1. Quiet(op) /\ badge' = badge
      BY <1>0, <1>6, <2>1 DEF step, Quiet
    <3>2. ErasesFirst' <=> ErasesFirst
      BY DEF ErasesFirst, world, pageState
    <3>3. chip' = chip /\ before' = before /\ faults' = faults /\ tool' = tool /\ console' = console
      BY DEF world
    <3>4. Quiet(task') /\ Quiet(console'.other)
      BY <1>0, <3>1, <3>3, PageKnown
    <3> HIDE DEF PageBegin
    <3> QED
      BY <3>1, <3>2, <3>3, <3>4, PageKnown, TypesKnown, BadgeSame
  <2>2. CASE kind # "disconnect"
    BY <1>0, <2>2, BadgeOther DEF Working, Shown
  <2> QED
    BY <2>1, <2>2
<1>10. MemoryAllowed
  BY NothingChanged
<1> QED
  BY <1>0, <1>7, <1>8, <1>9, <1>10, PageKnown DEF PageGood, PageKept, PageInv, world, pageState

\* Before the probe is there the page knows only the file.
LEMMA PageTaskEarly ==
  ASSUME NEW op, NEW c, NEW img, NEW f, PageTask(op, c, img, f), NEW new, NEW d, NEW g,
         new.kind = op.kind, new.file = op.file, new.at \in {"choose", "release", "connect"}
  PROVE  PageTask(new, d, img, g)
BY DEF PageTask

LEMMA PageChooseProbeKeeps ==
  ASSUME PageGood, PageChooseProbe
  PROVE  PageKept
<1> USE DEF PageChooseProbe, At
<1> DEFINE step == IF session = usb.object THEN "connect" ELSE "release"
           op == [task EXCEPT !.proc = usb.object, !.at = step]
<1>1. task' = op /\ step \in {"connect", "release"} /\ step \in Names /\ step # "idle" /\ task \in OpSet(disk, usb.object)
  BY PageKnown, TypesKnown DEF Names
<1> HIDE DEF step
<1>2. OpOK(op, disk, usb.object)
  BY <1>1, PageKnown, TypesKnown, OpGoesOn
<1>3. op.kind = task.kind /\ op.file = task.file /\ op.at = step
  BY <1>1 DEF OpSet
<1> HIDE DEF op
<1>4. PageTask(op, chip, image, faults)
  BY <1>1, <1>3, PageKnown, PageTaskEarly
<1>5. ~Quiet(task)
  BY DEF Quiet
<1>6. MemoryAllowed
  BY NothingChanged
<1> QED
  BY <1>1, <1>2, <1>4, <1>5, <1>6, PageKnown, TypesKnown, PageGoesOn DEF pageState

LEMMA PageReleaseProbeKeeps ==
  ASSUME PageGood, PageReleaseProbe
  PROVE  PageKept
<1> USE DEF PageReleaseProbe, At
<1>1. chip' \in {chip, AfterReset(chip)} /\ session' = 0 /\ UNCHANGED <<world, image, option, parting, before>>
      /\ task.at = "release"
  OBVIOUS
<1>2. chip' \in ChipSet /\ chip'.mem = chip.mem
  <2>1. chip \in ChipSet
    BY PageKnown, TypesKnown
  <2> QED
    BY <1>1, <2>1, AfterResetFacts
<1>3. faults' \in 0 .. MaxFaults /\ faults' >= faults
  <2>1. faults \in 0 .. MaxFaults /\ MaxFaults \in Nat /\ faults \in Nat
    BY PageKnown, TypesKnown
  <2>2. faults' = faults \/ (faults < MaxFaults /\ faults' = faults + 1)
    OBVIOUS
  <2> HIDE DEF PageReleaseProbe
  <2> QED
    BY <2>1, <2>2
<1>4. MemoryAllowed
  BY <1>2, NothingChanged
<1>5. CASE task.kind = "disconnect"
  <2>1. task' = Idle /\ badge' = Shown("ready", NoFile, FALSE, "")
    BY <1>5
  <2>2. badge'.text = "ready" /\ badge'.file = NoFile /\ badge'.checked = FALSE
    BY <2>1 DEF Shown
  <2>3. BadgeInv'
    BY <2>2, BadgeOther
  <2> HIDE DEF PageReleaseProbe
  <2> QED
    BY <1>1, <1>2, <1>3, <1>4, <2>1, <2>2, <2>3, PageKnown, TypesKnown, PageEnds
<1>6. CASE task.kind # "disconnect"
  <2> DEFINE op == To("connect")
  <2>1. task' = op /\ badge' = badge /\ task \in OpSet(disk, usb.object) /\ "connect" \in Names
    BY <1>6, PageKnown, TypesKnown DEF Names
  <2>2. OpOK(op, disk, usb.object)
    BY <2>1, OpGoesOn DEF To
  <2>3. op.kind = task.kind /\ op.file = task.file /\ op.at = "connect"
    BY <2>1 DEF OpSet, To
  <2> HIDE DEF op
  <2>4. PageTask(op, chip', image, faults')
    BY <2>3, PageKnown, PageTaskEarly
  <2>5. ~Quiet(task)
    BY <1>1, <1>6 DEF Quiet
  <2> HIDE DEF PageReleaseProbe
  <2> QED
    BY <1>1, <1>2, <1>3, <1>4, <2>1, <2>2, <2>4, <2>5, PageKnown, TypesKnown, PageGoesOn
<1> QED
  BY <1>5, <1>6

LEMMA PageConnectDeviceKeeps ==
  ASSUME PageGood, PageConnectDevice
  PROVE  PageKept
<1> USE DEF PageConnectDevice, At
<1>1. chip' = chip /\ session' = task.proc /\ faults' = faults /\ UNCHANGED <<world, image, option, parting, before>>
      /\ task.at = "connect"
  OBVIOUS
<1>2. chip' \in ChipSet /\ session' \in 0 .. usb.object /\ faults' \in 0 .. MaxFaults /\ faults' >= faults
  <2>1. chip \in ChipSet /\ OpOK(task, disk, usb.object) /\ faults \in 0 .. MaxFaults /\ faults \in Nat
    BY PageKnown, TypesKnown
  <2>2. task.proc \in 0 .. usb.object
    BY <2>1, OpFields
  <2> HIDE DEF PageConnectDevice
  <2> QED
    BY <1>1, <2>1, <2>2
<1>3. MemoryAllowed
  BY <1>1, NothingChanged
<1>4. CASE task.kind \notin {"flash", "recover"}
  <2>1. task' = Idle /\ badge' = Shown("ready", NoFile, FALSE, "")
    BY <1>4
  <2>2. badge'.text = "ready" /\ badge'.file = NoFile /\ badge'.checked = FALSE
    BY <2>1 DEF Shown
  <2>3. BadgeInv'
    BY <2>2, BadgeOther
  <2> HIDE DEF PageConnectDevice
  <2> QED
    BY <1>1, <1>2, <1>3, <2>1, <2>2, <2>3, PageKnown, TypesKnown, PageEnds
<1>5. CASE task.kind \in {"flash", "recover"}
  <2> DEFINE step == PageFirst(task.kind)
             op == To(step)
  <2>1. task' = op /\ badge' = badge /\ task \in OpSet(disk, usb.object)
    BY <1>5, PageKnown, TypesKnown
  <2>2. step \in Names /\ step # "idle"
        /\ step = IF task.kind = "flash" THEN "access" ELSE "massErase"
    BY DEF Names, PageFirst
  <2> HIDE DEF step
  <2>3. OpOK(op, disk, usb.object)
    BY <2>1, <2>2, OpGoesOn DEF To
  <2>4. op.kind = task.kind /\ op.file = task.file /\ op.at = step
    BY <2>1 DEF OpSet, To
  <2> HIDE DEF op
  <2>5. PageTask(op, chip', image, faults')
    BY <1>5, <2>2, <2>4, PageKnown DEF PageTask
  <2>6. ~Quiet(task)
    BY <1>1 DEF Quiet
  <2> HIDE DEF PageConnectDevice
  <2> QED
    BY <1>1, <1>2, <1>3, <2>1, <2>3, <2>5, <2>6, PageKnown, TypesKnown, PageGoesOn
<1> QED
  BY <1>4, <1>5

\* A step whose transfers answer, with what it does to the chip and to the task.
LEMMA PageStepGoesOn ==
  ASSUME PageGood, NEW s, NEW c, NEW op, s \notin {"idle", "reading", "close", "release"}, Step("page", s, c, op),
         c \in ChipSet, OpOK(op, disk, usb.object), PageTask(op, c, image, faults), MemoryAllowed
  PROVE  PageKept
<1>1. chip' = c /\ task' = op /\ UNCHANGED <<world, image, option, parting, badge, before>> /\ session' = session
      /\ faults' = faults
  BY DEF Step, pageState
<1>2. ~Quiet(task)
  BY DEF Step, At, Quiet
<1> QED
  BY <1>1, <1>2, PageKnown, TypesKnown, PageGoesOn

LEMMA PageEnsureFlashAccessKeeps ==
  ASSUME PageGood, PageEnsureFlashAccess
  PROVE  PageKept
<1> DEFINE op == To("halt")
<1>1. Step("page", "access", chip, op) /\ ~chip.locked /\ task.at = "access" /\ chip' = chip
  BY DEF PageEnsureFlashAccess, Step, At
<1>2. task \in OpSet(disk, usb.object) /\ "halt" \in Names /\ chip \in ChipSet
  BY PageKnown, TypesKnown DEF Names
<1>3. OpOK(op, disk, usb.object)
  BY <1>2, OpGoesOn DEF To
<1>4. op.kind = task.kind /\ op.file = task.file /\ op.at = "halt"
  BY <1>2 DEF OpSet, To
<1> HIDE DEF op
<1>5. PageTask(op, chip, image, faults)
  BY <1>1, <1>4, PageKnown DEF PageTask
<1>6. MemoryAllowed
  BY <1>1, NothingChanged
<1> QED
  BY <1>1, <1>2, <1>3, <1>5, <1>6, PageStepGoesOn

LEMMA PageResetAndHaltKeeps ==
  ASSUME PageGood, PageResetAndHalt
  PROVE  PageKept
<1> DEFINE op == To("load")
           c == [AfterReset(chip) EXCEPT !.core = "halted"]
<1>1. Step("page", "halt", c, op) /\ task.at = "halt" /\ chip' = c
  BY DEF PageResetAndHalt, Step, At
<1>2. task \in OpSet(disk, usb.object) /\ "load" \in Names /\ chip \in ChipSet
  BY PageKnown, TypesKnown DEF Names
<1>3. OpOK(op, disk, usb.object)
  BY <1>2, OpGoesOn DEF To
<1>4. op.kind = task.kind /\ op.file = task.file /\ op.at = "load"
  BY <1>2 DEF OpSet, To
<1>5. c \in ChipSet /\ c.mem = chip.mem /\ c.locked = chip.locked
  BY <1>2 DEF AfterReset, ChipSet
<1> HIDE DEF op, c
<1>6. PageTask(op, c, image, faults)
  BY <1>1, <1>4, <1>5, PageKnown DEF PageTask
<1>7. MemoryAllowed
  BY <1>1, <1>5, NothingChanged
<1> QED
  BY <1>1, <1>3, <1>5, <1>6, <1>7, PageStepGoesOn

LEMMA PageLoadAlgorithmKeeps ==
  ASSUME PageGood, PageLoadAlgorithm
  PROVE  PageKept
<1> DEFINE op == With("call", PageErase)
           c == [chip EXCEPT !.algo = "loaded"]
<1>1. Step("page", "load", c, op) /\ task.at = "load" /\ chip' = c
  BY DEF PageLoadAlgorithm, Step, At
<1>2. task \in OpSet(disk, usb.object) /\ "call" \in Names /\ chip \in ChipSet
  BY PageKnown, TypesKnown DEF Names
<1>3. PageErase \in Lefts
  BY DEF PageErase, Lefts, Names
<1>4. OpOK(op, disk, usb.object)
  BY <1>2, <1>3, OpGoesOn DEF With
<1>5. op.kind = task.kind /\ op.file = task.file /\ op.at = "call" /\ op.left = PageErase
  BY <1>2 DEF OpSet, With
<1>6. c \in ChipSet /\ c.mem = chip.mem /\ c.locked = chip.locked /\ c.algo = "loaded"
  BY <1>2 DEF ChipSet
<1> HIDE DEF op, c
<1>7. PageTask(op, c, image, faults)
  BY <1>1, <1>5, <1>6, PageKnown DEF PageTask, PageCalls
<1>8. MemoryAllowed
  BY <1>1, <1>6, NothingChanged
<1> QED
  BY <1>1, <1>4, <1>6, <1>7, <1>8, PageStepGoesOn

\* What the page knows while it flashes.
LEMMA PageFlashing ==
  ASSUME PageGood, task.at \in {"access", "halt", "load", "call", "program", "verify", "reset"}
  PROVE  /\ task.kind = "flash" /\ task.file = image /\ image \in HexFiles /\ PageImage[image].ok
         /\ Job(Want(task.file), PageImage[task.file].parts)
         /\ PageImage[task.file].parts \in Lefts /\ task \in OpSet(disk, usb.object)
<1>1. task.kind = "flash" /\ task.file = image /\ image \in HexFiles /\ PageImage[image].ok
  BY PageKnown DEF PageTask
<1>2. Job(Want(task.file), PageImage[task.file].parts)
  BY <1>1, PageJob
<1> QED
  BY <1>1, <1>2, PageKnown, TypesKnown DEF Job, Todo, Lefts

\* The calls of an erase one by one.
LEMMA CallsOfErase ==
  /\ PageErase \in Lefts /\ Tail(PageErase) \in Lefts /\ Tail(Tail(PageErase)) \in Lefts
  /\ Tail(Tail(Tail(PageErase))) \in Lefts
  /\ Head(PageErase) = "Init(erase)" /\ Len(PageErase) > 1
  /\ Head(Tail(PageErase)) = "EraseAll" /\ Len(Tail(PageErase)) > 1
  /\ Head(Tail(Tail(PageErase))) = "UnInit(erase)" /\ Len(Tail(Tail(PageErase))) > 1
  /\ Head(Tail(Tail(Tail(PageErase)))) = "Init(program)" /\ ~(Len(Tail(Tail(Tail(PageErase)))) > 1)
  /\ PageCleanup \in Lefts /\ Head(PageCleanup) = "UnInit(program)" /\ ~(Len(PageCleanup) > 1)
<1> DEFINE a == PageErase
           b == Tail(a)
           c == Tail(b)
           d == Tail(c)
<1>1. a \in Seq(Names) /\ Len(a) = 4 /\ a[1] = "Init(erase)" /\ a[2] = "EraseAll" /\ a[3] = "UnInit(erase)"
      /\ a[4] = "Init(program)" /\ a # <<>>
  BY DEF PageErase, Names
<1> HIDE DEF a
<1>9. Seq(Names) \subseteq Lefts
  BY DEF Lefts
<1>2. b \in Seq(Names) /\ Len(b) = 3 /\ b[1] = a[2] /\ b[2] = a[3] /\ b[3] = a[4] /\ b # <<>> /\ Head(a) = a[1]
  <2>1. /\ Tail(a) \in Seq(Names) /\ (Len(a) > 1 <=> Tail(a) # <<>>)
        /\ Head(a) = a[1] /\ Len(Tail(a)) = Len(a) - 1
        /\ \A i \in 1 .. Len(a) - 1 : Tail(a)[i] = a[i + 1]
    BY <1>1, HeadAndTail
  <2>2. 1 \in 1 .. Len(a) - 1 /\ 2 \in 1 .. Len(a) - 1 /\ 3 \in 1 .. Len(a) - 1
    BY <1>1
  <2>3. Tail(a)[1] = a[2] /\ Tail(a)[2] = a[3] /\ Tail(a)[3] = a[4]
    BY <2>1, <2>2
  <2>4. Len(Tail(a)) = 3 /\ Tail(a) # <<>>
    BY <1>1, <2>1
  <2> QED
    BY <2>1, <2>3, <2>4
<1> HIDE DEF b
<1>3. c \in Seq(Names) /\ Len(c) = 2 /\ c[1] = b[2] /\ c[2] = b[3] /\ c # <<>> /\ Head(b) = b[1]
  <2>1. /\ Tail(b) \in Seq(Names) /\ (Len(b) > 1 <=> Tail(b) # <<>>)
        /\ Head(b) = b[1] /\ Len(Tail(b)) = Len(b) - 1
        /\ \A i \in 1 .. Len(b) - 1 : Tail(b)[i] = b[i + 1]
    BY <1>2, HeadAndTail
  <2>2. 1 \in 1 .. Len(b) - 1 /\ 2 \in 1 .. Len(b) - 1
    BY <1>2
  <2> QED
    BY <1>2, <2>1, <2>2
<1> HIDE DEF c
<1>4. d \in Seq(Names) /\ Len(d) = 1 /\ d[1] = c[2] /\ d # <<>> /\ Head(c) = c[1] /\ Head(d) = d[1]
  <2>1. /\ Tail(c) \in Seq(Names) /\ (Len(c) > 1 <=> Tail(c) # <<>>)
        /\ Head(c) = c[1] /\ Len(Tail(c)) = Len(c) - 1
        /\ \A i \in 1 .. Len(c) - 1 : Tail(c)[i] = c[i + 1]
    BY <1>3, HeadAndTail
  <2>2. 1 \in 1 .. Len(c) - 1
    BY <1>3
  <2>3. d \in Seq(Names) /\ Len(d) = 1 /\ d[1] = c[2] /\ d # <<>>
    BY <1>3, <2>1, <2>2
  <2> HIDE DEF d
  <2>4. Head(d) = d[1]
    BY <2>3, HeadAndTail
  <2> QED
    BY <2>1, <2>3, <2>4
<1> HIDE DEF d
<1>5. PageCleanup \in Seq(Names) /\ Len(PageCleanup) = 1 /\ Head(PageCleanup) = "UnInit(program)"
  BY DEF PageCleanup, Names
<1> QED
  <2>1. a \in Lefts /\ b \in Lefts /\ c \in Lefts /\ d \in Lefts /\ PageCleanup \in Lefts
    BY <1>1, <1>2, <1>3, <1>4, <1>5, <1>9
  <2>2. /\ Head(a) = "Init(erase)" /\ Len(a) > 1 /\ Head(b) = "EraseAll" /\ Len(b) > 1
        /\ Head(c) = "UnInit(erase)" /\ Len(c) > 1 /\ Head(d) = "Init(program)" /\ ~(Len(d) > 1)
        /\ Head(PageCleanup) = "UnInit(program)" /\ ~(Len(PageCleanup) > 1)
    <3>1. /\ Head(a) = "Init(erase)" /\ Len(a) > 1 /\ Head(b) = "EraseAll" /\ Len(b) > 1
      BY <1>1, <1>2, <1>3
    <3>2. Head(c) = "UnInit(erase)" /\ Len(c) > 1
      BY <1>1, <1>2, <1>3, <1>4
    <3>3. Head(d) = "Init(program)" /\ ~(Len(d) > 1)
      BY <1>1, <1>2, <1>3, <1>4
    <3> QED
      BY <1>5, <3>1, <3>2, <3>3
  <2> QED
    BY <2>1, <2>2 DEF a, b, c, d

\* What one call finds and leaves.
LEMMA PageCallDoes ==
  ASSUME PageGood, task.at = "call"
  PROVE  /\ Accepts(chip, Head(task.left)) /\ AfterCall(chip, Head(task.left)) \in ChipSet
         /\ AfterCall(chip, Head(task.left)).locked = chip.locked
         /\ \/ /\ Len(task.left) > 1 /\ Tail(task.left) \in Lefts
               /\ \A op : op.left = Tail(task.left) /\ op.file = task.file =>
                      PageCalls(op, AfterCall(chip, Head(task.left)), faults)
            \/ /\ ~(Len(task.left) > 1) /\ Head(task.left) # "UnInit(program)"
               /\ AfterCall(chip, Head(task.left)).algo = "program"
               /\ AfterCall(chip, Head(task.left)).mem = Blank
            \/ /\ ~(Len(task.left) > 1) /\ Head(task.left) = "UnInit(program)"
               /\ Wrote(Want(task.file), Blank, Sure, <<>>, AfterCall(chip, Head(task.left)).mem, faults)
<1> DEFINE a == PageErase
           b == Tail(a)
           c == Tail(b)
           d == Tail(c)
           l == task.left
           e == Head(l)
           new == AfterCall(chip, e)
<1>0. chip \in ChipSet /\ Blank \in Memory
  BY PageKnown, TypesKnown, BlankIsAMemory
<1>1. /\ b \in Lefts /\ c \in Lefts /\ d \in Lefts
      /\ Head(a) = "Init(erase)" /\ Len(a) > 1 /\ Head(b) = "EraseAll" /\ Len(b) > 1
      /\ Head(c) = "UnInit(erase)" /\ Len(c) > 1 /\ Head(d) = "Init(program)" /\ ~(Len(d) > 1)
      /\ Head(PageCleanup) = "UnInit(program)" /\ ~(Len(PageCleanup) > 1)
  BY CallsOfErase
<1>2. PageCalls(task, chip, faults)
  BY PageKnown DEF PageTask
<1>3. \/ l = a /\ chip.algo = "loaded"
      \/ l = b /\ chip.algo = "erase"
      \/ l = c /\ chip.algo = "erase" /\ chip.mem = Blank
      \/ l = d /\ chip.algo = "loaded" /\ chip.mem = Blank
      \/ l = PageCleanup /\ chip.algo = "program" /\ Wrote(Want(task.file), Blank, Sure, <<>>, chip.mem, faults)
  BY <1>2 DEF PageCalls
<1> DEFINE Then(x) == \A op : op.left = x /\ op.file = task.file => PageCalls(op, new, faults)
<1>4. CASE l = a /\ chip.algo = "loaded"
  <2>1. e = "Init(erase)" /\ new = [chip EXCEPT !.algo = "erase"]
    BY <1>1, <1>4 DEF AfterCall
  <2>2. new \in ChipSet /\ new.locked = chip.locked /\ new.algo = "erase"
    BY <1>0, <2>1 DEF ChipSet
  <2>3. Accepts(chip, e)
    BY <1>4, <2>1 DEF Accepts
  <2> HIDE DEF new
  <2>4. Then(b)
    BY <2>2 DEF PageCalls
  <2> QED
    BY <1>1, <1>4, <2>2, <2>3, <2>4 DEF new
<1>5. CASE l = b /\ chip.algo = "erase"
  <2>1. e = "EraseAll" /\ new = [chip EXCEPT !.mem = Blank]
    BY <1>1, <1>5 DEF AfterCall
  <2>2. new \in ChipSet /\ new.locked = chip.locked /\ new.algo = "erase" /\ new.mem = Blank
    BY <1>0, <1>5, <2>1 DEF ChipSet
  <2>3. Accepts(chip, e)
    BY <1>5, <2>1 DEF Accepts
  <2> HIDE DEF new
  <2>4. Then(c)
    BY <2>2 DEF PageCalls
  <2> QED
    BY <1>1, <1>5, <2>2, <2>3, <2>4 DEF new
<1>6. CASE l = c /\ chip.algo = "erase" /\ chip.mem = Blank
  <2>1. e = "UnInit(erase)" /\ new = [chip EXCEPT !.algo = "loaded"]
    BY <1>1, <1>6 DEF AfterCall
  <2>2. new \in ChipSet /\ new.locked = chip.locked /\ new.algo = "loaded" /\ new.mem = Blank
    BY <1>0, <1>6, <2>1 DEF ChipSet
  <2>3. Accepts(chip, e)
    BY <1>6, <2>1 DEF Accepts
  <2> HIDE DEF new
  <2>4. Then(d)
    BY <2>2 DEF PageCalls
  <2> QED
    BY <1>1, <1>6, <2>2, <2>3, <2>4 DEF new
<1>7. CASE l = d /\ chip.algo = "loaded" /\ chip.mem = Blank
  <2>1. e = "Init(program)" /\ new = [chip EXCEPT !.algo = "program"]
    BY <1>1, <1>7 DEF AfterCall
  <2>2. new \in ChipSet /\ new.locked = chip.locked /\ new.algo = "program" /\ new.mem = Blank
    BY <1>0, <1>7, <2>1 DEF ChipSet
  <2>3. Accepts(chip, e)
    BY <1>7, <2>1 DEF Accepts
  <2> HIDE DEF new
  <2> QED
    BY <1>1, <1>7, <2>1, <2>2, <2>3 DEF new
<1>8. CASE l = PageCleanup /\ chip.algo = "program" /\ Wrote(Want(task.file), Blank, Sure, <<>>, chip.mem, faults)
  <2>1. e = "UnInit(program)" /\ new = [chip EXCEPT !.algo = "loaded"]
    BY <1>1, <1>8 DEF AfterCall
  <2>2. new \in ChipSet /\ new.locked = chip.locked /\ new.mem = chip.mem
    BY <1>0, <2>1 DEF ChipSet
  <2>3. Accepts(chip, e)
    BY <1>8, <2>1 DEF Accepts
  <2> HIDE DEF new
  <2> QED
    BY <1>1, <1>8, <2>1, <2>2, <2>3 DEF new
<1> QED
  BY <1>3, <1>4, <1>5, <1>6, <1>7, <1>8

\* A flash erases first; its chip is not protected when it changes.
LEMMA PageMayChange ==
  ASSUME PageGood, task.kind \in {"flash", "recover"}, ~chip.locked \/ ~chip'.locked
  PROVE  MemoryAllowed
<1>1. task \in {task, console.other} /\ task.kind \in {"flash", "recover", "run"} /\ ErasesFirst
  BY PageKnown
<1> QED
  BY <1>1, OpMayChange

LEMMA PageCallFlashFunctionKeeps ==
  ASSUME PageGood, PageCallFlashFunction
  PROVE  PageKept
<1> DEFINE entry == Head(task.left)
           chunks == PageImage[task.file].parts
           last == With(IF entry = "UnInit(program)" THEN "verify" ELSE "program", chunks)
           op == Onward(last)
           c == AfterCall(chip, entry)
           want == Want(task.file)
<1>1. Step("page", "call", c, op) /\ task.at = "call" /\ chip' = c
  BY DEF PageCallFlashFunction, Step, At
<1>2. /\ c \in ChipSet /\ c.locked = chip.locked
      /\ \/ /\ Len(task.left) > 1 /\ Tail(task.left) \in Lefts
            /\ \A x : x.left = Tail(task.left) /\ x.file = task.file => PageCalls(x, c, faults)
         \/ /\ ~(Len(task.left) > 1) /\ entry # "UnInit(program)" /\ c.algo = "program" /\ c.mem = Blank
         \/ /\ ~(Len(task.left) > 1) /\ entry = "UnInit(program)"
            /\ Wrote(want, Blank, Sure, <<>>, c.mem, faults)
  BY <1>1, PageCallDoes
<1>3. /\ task.kind = "flash" /\ task.file = image /\ image \in HexFiles /\ PageImage[image].ok
      /\ Job(want, chunks) /\ chunks \in Lefts /\ task \in OpSet(disk, usb.object)
  BY <1>1, PageFlashing
<1>4. ~chip.locked
  BY <1>1, PageKnown DEF PageTask
<1>5. MemoryAllowed
  BY <1>3, <1>4, PageMayChange
<1> HIDE DEF c, entry, chunks, want
<1>6. CASE Len(task.left) > 1
  <2>1. op = [task EXCEPT !.left = Tail(@)]
    BY <1>6 DEF Onward
  <2> HIDE DEF op
  <2>2. Tail(task.left) \in Lefts
    BY <1>2, <1>6
  <2>3. OpOK(op, disk, usb.object) /\ op.kind = task.kind /\ op.file = task.file /\ op.at = "call"
        /\ op.left = Tail(task.left)
    BY <1>1, <1>3, <2>1, <2>2, OpRest
  <2>4. PageTask(op, c, image, faults)
    BY <1>2, <1>3, <1>4, <1>6, <2>3 DEF PageTask
  <2> QED
    BY <1>1, <1>2, <1>5, <2>3, <2>4, PageStepGoesOn
<1>7. CASE ~(Len(task.left) > 1) /\ entry # "UnInit(program)"
  <2>1. op = With("program", chunks) /\ "program" \in Names
    BY <1>7 DEF Onward, Names
  <2>2. op = MovedWith(task, "program", chunks)
    BY <2>1 DEF With, MovedWith
  <2> HIDE DEF op
  <2>3. /\ OpOK(op, disk, usb.object) /\ op.kind = task.kind /\ op.file = task.file
        /\ op.at = "program" /\ op.left = chunks
    BY <1>3, <2>1, <2>2, OpWith
  <2>4. c.algo = "program" /\ c.mem = Blank
    BY <1>2, <1>7
  <2>5. Clean(want, Blank, c.mem)
    BY <2>4 DEF Clean
  <2>6. Writing(want, Blank, Sure, chunks, c.mem, faults)
    BY <1>3, <2>5, StartWriting DEF Job
  <2>7. PageTask(op, c, image, faults)
    BY <1>2, <1>3, <1>4, <2>3, <2>4, <2>6 DEF PageTask, want
  <2> QED
    BY <1>1, <1>2, <1>5, <2>3, <2>7, PageStepGoesOn
<1>8. CASE ~(Len(task.left) > 1) /\ entry = "UnInit(program)"
  <2>1. op = With("verify", chunks) /\ "verify" \in Names
    BY <1>8 DEF Onward, Names
  <2>2. op = MovedWith(task, "verify", chunks)
    BY <2>1 DEF With, MovedWith
  <2> HIDE DEF op
  <2>3. /\ OpOK(op, disk, usb.object) /\ op.kind = task.kind /\ op.file = task.file
        /\ op.at = "verify" /\ op.left = chunks
    BY <1>3, <2>1, <2>2, OpWith
  <2>4. Wrote(want, Blank, Sure, <<>>, c.mem, faults)
    BY <1>2, <1>8
  <2>5. Verifying(want, Blank, Sure, chunks, c.mem, faults)
    BY <1>3, <2>4, StartVerifying DEF Job
  <2>6. PageTask(op, c, image, faults)
    BY <1>2, <1>3, <1>4, <2>3, <2>5 DEF PageTask, want
  <2> QED
    BY <1>1, <1>2, <1>5, <2>3, <2>6, PageStepGoesOn
<1> QED
  BY <1>6, <1>7, <1>8

\* The next part of a job, its place in the memory, and the rest.
LEMMA NextPart ==
  ASSUME NEW want, NEW sure, NEW left, Todo(want, sure, left)
  PROVE  /\ left \in Parts /\ left # <<>> /\ Tail(left) \in Lefts
         /\ Head(left).address \in Nat /\ Head(left).data \in Seq(Bytes)
         /\ PartSpan(Head(left)) \subseteq DOMAIN want
         /\ ~(Len(left) > 1) => Tail(left) = <<>>
<1>1. left \in Parts /\ left # <<>> /\ Fits(want, sure, Head(left))
  BY TodoLeft DEF Todo
<1>2. /\ Tail(left) \in Parts /\ Head(left).address \in Nat /\ Head(left).data \in Seq(Bytes)
      /\ ~(Len(left) > 1) => Tail(left) = <<>>
  BY <1>1, PartsLeft
<1> QED
  BY <1>1, <1>2 DEF Fits, Lefts

\* What the page knows when it programs a chunk.
LEMMA PageProgramming ==
  ASSUME PageGood, task.at = "program"
  PROVE  /\ task.kind = "flash" /\ task.file = image /\ image \in HexFiles /\ PageImage[image].ok
         /\ task \in OpSet(disk, usb.object) /\ ~chip.locked /\ chip.algo = "program" /\ chip \in ChipSet
         /\ chip.mem \in Memory
         /\ Writing(Want(task.file), Blank, Sure, task.left, chip.mem, faults)
         /\ task.left \in Parts /\ task.left # <<>> /\ Tail(task.left) \in Lefts
         /\ Head(task.left).address \in Nat /\ Head(task.left).data \in Seq(Bytes)
         /\ PartSpan(Head(task.left)) \subseteq DOMAIN Factory
         /\ ~(Len(task.left) > 1) => Tail(task.left) = <<>>
<1> DEFINE want == Want(task.file)
           left == task.left
<1>1. /\ task.kind = "flash" /\ task.file = image /\ image \in HexFiles /\ PageImage[image].ok
      /\ Job(want, PageImage[task.file].parts) /\ task \in OpSet(disk, usb.object)
  BY PageFlashing
<1>2. chip.algo = "program" /\ Writing(want, Blank, Sure, left, chip.mem, faults) /\ ~chip.locked
  BY PageKnown DEF PageTask
<1>3. chip \in ChipSet /\ chip.mem \in Memory
  BY PageKnown, TypesKnown
<1> HIDE DEF want, left
<1>4. Todo(want, Sure, left)
  BY <1>2 DEF Writing
<1>5. /\ left \in Parts /\ left # <<>> /\ Tail(left) \in Lefts
      /\ Head(left).address \in Nat /\ Head(left).data \in Seq(Bytes)
      /\ PartSpan(Head(left)) \subseteq DOMAIN want
      /\ ~(Len(left) > 1) => Tail(left) = <<>>
  BY <1>4, NextPart
<1>6. DOMAIN want \subseteq DOMAIN Factory
  BY <1>1 DEF Job
<1> QED
  BY <1>1, <1>2, <1>3, <1>5, <1>6 DEF want, left

\* A chunk went into the memory, well or badly.
LEMMA PageChunkDone ==
  ASSUME PageGood, task.at = "program", NEW new \in ChipSet, NEW g, g \in 0 .. MaxFaults, g >= faults,
         new.locked = chip.locked, new.algo = chip.algo,
         \/ WrittenOver(chip.mem, Head(task.left), new.mem) /\ g = faults
         \/ PartlyWritten(chip.mem, Head(task.left), new.mem) /\ g # 0,
         UNCHANGED <<world, pageState, badge, before>>, chip' = new, faults' = g,
         task' = Onward(With("call", PageCleanup))
  PROVE  PageKept
<1> DEFINE want == Want(task.file)
           op == Onward(With("call", PageCleanup))
           p == Head(task.left)
           t == Tail(task.left)
<1>1. /\ task.kind = "flash" /\ task.file = image /\ image \in HexFiles /\ PageImage[image].ok
      /\ task \in OpSet(disk, usb.object) /\ ~chip.locked /\ chip.algo = "program" /\ chip \in ChipSet
      /\ chip.mem \in Memory
      /\ Writing(want, Blank, Sure, task.left, chip.mem, faults)
      /\ t \in Lefts
      /\ PartSpan(p) \subseteq DOMAIN Factory
      /\ ~(Len(task.left) > 1) => t = <<>>
  BY PageProgramming
<1> HIDE DEF want, p
<1>2. /\ Wrote(want, Blank, Sure, t, new.mem, g)
      /\ Len(task.left) > 1 => Writing(want, Blank, Sure, t, new.mem, g)
  <2>1. CASE WrittenOver(chip.mem, p, new.mem) /\ g = faults
    BY <1>1, <2>1, PartWritten DEF p
  <2>2. CASE PartlyWritten(chip.mem, p, new.mem) /\ g # 0
    BY <1>1, <2>2, PartMissed DEF p
  <2> QED
    BY <2>1, <2>2 DEF p
<1> HIDE DEF t
<1>3. MemoryAllowed
  BY <1>1, PageMayChange
<1>4. ~Quiet(task)
  BY DEF Quiet
<1>5. UNCHANGED <<world, image, option, parting, badge, before>> /\ session' \in 0 .. usb.object
  BY PageKnown, TypesKnown DEF pageState
<1>6. OpOK(op, disk, usb.object) /\ PageTask(op, new, image, g)
  <2>1. CASE Len(task.left) > 1
    <3>1. op = [task EXCEPT !.left = Tail(@)]
      BY <2>1 DEF Onward
    <3> HIDE DEF op
    <3>2. OpOK(op, disk, usb.object) /\ op.kind = task.kind /\ op.file = task.file /\ op.at = "program"
          /\ op.left = t
      BY <1>1, <3>1, OpRest DEF t
    <3> QED
      BY <1>1, <1>2, <2>1, <3>2 DEF PageTask, want
  <2>2. CASE ~(Len(task.left) > 1)
    <3>1. op = MovedWith(task, "call", PageCleanup)
      BY <2>2 DEF Onward, With, MovedWith
    <3>2. PageCleanup \in Lefts /\ "call" \in Names
      BY CallsOfErase DEF Names
    <3> HIDE DEF op
    <3>3. OpOK(op, disk, usb.object) /\ op.kind = task.kind /\ op.file = task.file /\ op.at = "call"
          /\ op.left = PageCleanup
      BY <1>1, <3>1, <3>2, OpWith
    <3>4. PageCalls(op, new, g)
      BY <1>1, <1>2, <2>2, <3>3 DEF PageCalls, want
    <3> QED
      BY <1>1, <3>3, <3>4 DEF PageTask
  <2> QED
    BY <2>1, <2>2
<1> HIDE DEF op
<1>7. task' = op
  BY DEF op
<1> QED
  BY <1>3, <1>4, <1>5, <1>6, <1>7, PageGoesOn

LEMMA PageProgramChunkKeeps ==
  ASSUME PageGood, PageProgramChunk
  PROVE  PageKept
<1> DEFINE p == Head(task.left)
           c == Written(chip, p)
<1>1. /\ task.at = "program" /\ chip' = c /\ faults' = faults
      /\ UNCHANGED <<world, pageState, badge, before>>
      /\ task' = Onward(With("call", PageCleanup))
  BY DEF PageProgramChunk, Step, At
<1>2. chip \in ChipSet /\ p.address \in Nat /\ p.data \in Seq(Bytes)
  BY <1>1, PageProgramming
<1>3. c \in ChipSet /\ WrittenOver(chip.mem, p, c.mem) /\ c.locked = chip.locked /\ c.algo = chip.algo
  BY <1>2, WrittenFacts
<1>4. faults \in 0 .. MaxFaults /\ faults \in Nat /\ faults >= faults
  BY PageKnown, TypesKnown
<1> HIDE DEF c
<1> QED
  BY <1>1, <1>3, <1>4, PageChunkDone

LEMMA PageMisprogramKeeps ==
  ASSUME PageGood, Misprogram("page", Onward(With("call", PageCleanup)))
  PROVE  PageKept
<1> DEFINE p == Head(task.left)
           c == chip'
<1>1. /\ task.at = "program" /\ c \in Missed(p) /\ faults < MaxFaults /\ faults' = faults + 1
      /\ UNCHANGED <<world, pageState, badge, before>>
      /\ task' = Onward(With("call", PageCleanup))
  BY DEF Misprogram, At
<1>2. chip \in ChipSet /\ p.address \in Nat /\ p.data \in Seq(Bytes)
  BY <1>1, PageProgramming
<1> HIDE DEF p
<1>3. c \in ChipSet /\ PartlyWritten(chip.mem, p, c.mem) /\ c.locked = chip.locked /\ c.algo = chip.algo
  BY <1>1, <1>2, MissedFacts
<1>4. faults \in Nat /\ MaxFaults \in Nat
  BY PageKnown, TypesKnown
<1>5. faults + 1 \in 0 .. MaxFaults /\ faults + 1 >= faults /\ faults + 1 # 0
  BY <1>1, <1>4
<1> QED
  BY <1>1, <1>3, <1>5, PageChunkDone DEF p

LEMMA PageVerifyChunkKeeps ==
  ASSUME PageGood, PageVerifyChunk
  PROVE  PageKept
<1> DEFINE want == Want(task.file)
           last == [To("reset") EXCEPT !.checked = TRUE]
           op == Onward(last)
           t == Tail(task.left)
<1>1. Step("page", "verify", chip, op) /\ task.at = "verify" /\ chip' = chip /\ Holds(chip, Head(task.left))
  BY DEF PageVerifyChunk, Step, At
<1>2. /\ task.kind = "flash" /\ task.file = image /\ image \in HexFiles /\ PageImage[image].ok
      /\ task \in OpSet(disk, usb.object)
  BY <1>1, PageFlashing
<1>3. Verifying(want, Blank, Sure, task.left, chip.mem, faults) /\ ~chip.locked
  BY <1>1, PageKnown DEF PageTask
<1>4. chip \in ChipSet /\ chip.mem \in Memory
  BY PageKnown, TypesKnown
<1> HIDE DEF want
<1>5. /\ Len(task.left) > 1 => Verifying(want, Blank, Sure, t, chip.mem, faults)
      /\ ~(Len(task.left) > 1) => Flashed(want, Blank, chip.mem)
  BY <1>1, <1>3, <1>4, PartVerified
<1>6. t \in Lefts
  BY <1>3, NextPart DEF Verifying
<1> HIDE DEF t
<1>7. OpOK(op, disk, usb.object) /\ PageTask(op, chip, image, faults)
  <2>1. CASE Len(task.left) > 1
    <3>1. op = [task EXCEPT !.left = Tail(@)]
      BY <2>1 DEF Onward
    <3> HIDE DEF op
    <3>2. OpOK(op, disk, usb.object) /\ op.kind = task.kind /\ op.file = task.file /\ op.at = "verify"
          /\ op.left = t
      BY <1>1, <1>2, <1>6, <3>1, OpRest DEF t
    <3> QED
      BY <1>2, <1>3, <1>5, <2>1, <3>2 DEF PageTask, want
  <2>2. CASE ~(Len(task.left) > 1)
    <3> DEFINE yes == TRUE
    <3>1. op = MovedChecked(task, "reset", yes)
      BY <2>2 DEF Onward, To, MovedChecked
    <3>2. yes \in BOOLEAN /\ "reset" \in Names
      BY DEF Names
    <3> HIDE DEF op, yes
    <3>3. OpOK(op, disk, usb.object) /\ op.kind = task.kind /\ op.file = task.file /\ op.at = "reset"
      BY <1>2, <3>1, <3>2, OpChecked
    <3> QED
      BY <1>2, <1>3, <1>5, <2>2, <3>3 DEF PageTask, want
  <2> QED
    BY <2>1, <2>2
<1>8. MemoryAllowed
  BY <1>1, NothingChanged
<1> HIDE DEF op
<1> QED
  BY <1>1, <1>4, <1>7, <1>8, PageStepGoesOn

LEMMA PageSoftResetAndRunKeeps ==
  ASSUME PageGood, PageSoftResetAndRun
  PROVE  PageKept
<1>1. /\ task.at = "reset" /\ chip' = AfterReset(chip) /\ task' = Idle
      /\ badge' = Shown("complete", image, task.checked, "")
      /\ UNCHANGED <<world, pageState, before, faults>>
  BY DEF PageSoftResetAndRun, At
<1>2. task.kind = "flash" /\ task.file = image /\ image \in HexFiles /\ Flashed(Want(image), Blank, chip.mem)
  BY <1>1, PageKnown, PageFlashing DEF PageTask
<1>3. chip \in ChipSet /\ chip.mem \in Memory /\ task \in OpSet(disk, usb.object) /\ image \in disk \cup {NoFile}
      /\ session \in 0 .. usb.object /\ faults \in 0 .. MaxFaults /\ NoFile \in disk \cup {NoFile}
  BY PageKnown, TypesKnown
<1>4. chip.mem = Override(Blank, Meaning(image))
  <2>1. image \in Seq(HexRecord)
    BY <1>2, FilesAreRecords DEF HexFiles
  <2>2. chip.mem = Override(Blank, Want(image))
    BY <1>2, <1>3, BlankIsAMemory, FlashedIsOverride
  <2> QED
    BY <2>1, <2>2, PaddingIsBlank
<1>5. ErasesFirst'
  BY <1>1, PageKnown DEF ErasesFirst, world
<1>6. Quiet(task') /\ Quiet(console'.other) /\ tool' = tool /\ session' = session
      /\ UNCHANGED <<world, image, option, parting, before>>
  BY <1>1, PageKnown, AloneIsIdle DEF world, pageState
<1>7. BadgeInv'
  <2> DEFINE c == task.checked
             w == ""
  <2>1. badge' = Shown("complete", image, c, w)
    BY <1>1
  <2> HIDE DEF c, w
  <2> QED
    BY <1>1, <1>2, <1>3, <1>4, <1>5, <1>6, <2>1, BadgeComplete
<1>8. chip' \in ChipSet /\ chip'.mem = chip.mem
  BY <1>1, <1>3, AfterResetFacts
<1>9. MemoryAllowed
  BY <1>8, NothingChanged
<1>10. badge'.file \in disk \cup {NoFile} /\ badge'.checked \in BOOLEAN
  BY <1>1, <1>3 DEF Shown, OpSet
<1> QED
  BY <1>1, <1>3, <1>6, <1>7, <1>8, <1>9, <1>10, PageEnds

LEMMA PageRecoverTargetKeeps ==
  ASSUME PageGood, PageRecoverTarget
  PROVE  PageKept
<1>1. /\ task.at = "massErase" /\ chip' = AfterMassErase(chip) /\ task' = Idle
      /\ badge' = Shown("recovered", NoFile, FALSE, "")
      /\ UNCHANGED <<world, pageState, before, faults>>
  BY DEF PageRecoverTarget, At
<1>2. task.kind = "recover"
  BY <1>1, PageKnown DEF PageTask
<1>3. chip \in ChipSet /\ session \in 0 .. usb.object /\ faults \in 0 .. MaxFaults
      /\ NoFile \in disk \cup {NoFile}
  BY PageKnown, TypesKnown
<1>4. chip' \in ChipSet /\ ~chip'.locked
  BY <1>1, <1>3, AfterMassEraseFacts
<1>5. MemoryAllowed
  BY <1>2, <1>4, PageMayChange
<1>6. badge'.text = "recovered" /\ badge'.file = NoFile /\ badge'.checked = FALSE
  BY <1>1 DEF Shown
<1>7. BadgeInv'
  BY <1>6, BadgeOther
<1>8. session' = session /\ UNCHANGED <<world, image, option, parting, before>>
  BY <1>1 DEF pageState
<1> QED
  BY <1>1, <1>3, <1>4, <1>5, <1>6, <1>7, <1>8, PageEnds

\* A task that ends with an exception.
LEMMA PageEndFailed ==
  ASSUME PageGood, NEW why, EndFailed(why), chip' \in ChipSet, faults' \in 0 .. MaxFaults, MemoryAllowed,
         faults' > 0 \/ why \in {"gone", "cancelled", "locked"}
  PROVE  PageKept
<1>1. task' = Idle /\ badge' = Shown("failed", task.file, FALSE, why) /\ UNCHANGED <<world, pageState, before>>
  BY DEF EndFailed
<1>2. tool' = tool /\ session' = session /\ UNCHANGED <<world, image, option, parting, before>>
  BY <1>1 DEF world, pageState
<1>3. BadgeInv'
  <2> DEFINE c == FALSE
             f == task.file
  <2>1. badge' = Shown("failed", f, c, why)
    BY <1>1
  <2> HIDE DEF c, f
  <2> QED
    BY <1>2, <2>1, BadgeFailed
<1>4. badge'.file \in disk \cup {NoFile} /\ badge'.checked \in BOOLEAN /\ session \in 0 .. usb.object
  <2>1. badge'.file = task.file /\ badge'.checked = FALSE
    BY <1>1 DEF Shown
  <2>2. OpOK(task, disk, usb.object) /\ session \in 0 .. usb.object
    BY PageKnown, TypesKnown
  <2> QED
    BY <2>1, <2>2, OpFields
<1> QED
  BY <1>1, <1>2, <1>3, <1>4, PageEnds

LEMMA PageFailsKeeps ==
  ASSUME PageGood, PageFails
  PROVE  PageKept
<1>1. chip \in ChipSet /\ faults \in 0 .. MaxFaults /\ faults \in Nat /\ MaxFaults \in Nat /\ chip.mem \in Memory
  BY PageKnown, TypesKnown
<1>2. CASE task.at # "choose" /\ Thrown(task) /\ EndFailed(IF Answers(task) THEN "transfer" ELSE "gone")
  <2> DEFINE why == IF Answers(task) THEN "transfer" ELSE "gone"
  <2>1. task.at = "program" => task.left \in Parts /\ task.left # <<>>
    BY PageProgramming
  <2>2. HalfDoneEffect(task)
    BY <1>1, <1>2, <2>1, ThrownFacts
  <2>3. chip' \in ChipSet /\ faults' \in 0 .. MaxFaults
    BY <2>2 DEF HalfDoneEffect
  <2>4. faults' > 0 \/ why = "gone"
    BY <2>2 DEF HalfDoneEffect
  <2>5. MemoryAllowed
    <3>1. CASE chip'.mem = chip.mem
      BY <3>1, NothingChanged
    <3>2. CASE chip'.mem # chip.mem /\ task.at = "massErase"
      <4>1. ~chip'.locked /\ task.kind = "recover"
        BY <2>2, <3>2, PageKnown DEF HalfDoneEffect, PageTask
      <4> QED
        BY <4>1, PageMayChange
    <3>3. CASE chip'.mem # chip.mem /\ task.at \in {"call", "program"}
      <4>1. ~chip.locked /\ task.kind = "flash"
        BY <3>3, PageKnown DEF PageTask
      <4> QED
        BY <4>1, PageMayChange
    <3>4. chip'.mem # chip.mem => task.at \in {"massErase", "call", "program"}
      BY <2>2 DEF HalfDoneEffect
    <3> QED
      BY <3>1, <3>2, <3>3, <3>4
  <2>6. EndFailed(why)
    BY <1>2
  <2> HIDE DEF why
  <2> QED
    BY <2>3, <2>4, <2>5, <2>6, PageEndFailed
<1>3. ASSUME NEW why \in {"cancelled", "locked", "refused", "mismatch"},
             PageFinds(why), EndFailed(why), UNCHANGED <<chip, faults>>
      PROVE  PageKept
  <2>1. why # "refused"
    <3>1. SUFFICES ASSUME why = "refused" PROVE FALSE
      OBVIOUS
    <3>2. \/ task.at = "call" /\ ~Accepts(chip, Head(task.left))
          \/ task.at = "program" /\ (~Accepts(chip, "ProgramPage") \/ ~Present(chip.mem, Head(task.left)))
      BY <1>3, <3>1 DEF PageFinds
    <3>3. task.at = "call" => Accepts(chip, Head(task.left))
      BY PageCallDoes
    <3>4. task.at = "program" => /\ chip.algo = "program"
                                 /\ PartSpan(Head(task.left)) \subseteq DOMAIN Factory
                                 /\ Head(task.left).address \in Nat /\ Head(task.left).data \in Seq(Bytes)
      BY PageProgramming
    <3>5. task.at = "program" => Accepts(chip, "ProgramPage") /\ Present(chip.mem, Head(task.left))
      BY <1>1, <3>4, PresentFacts DEF Accepts
    <3> QED
      BY <3>2, <3>3, <3>5
  <2>2. why = "mismatch" => faults > 0
    <3>1. SUFFICES ASSUME why = "mismatch", faults = 0 PROVE FALSE
      BY <1>1
    <3>2. task.at = "verify" /\ ~Holds(chip, Head(task.left))
      BY <1>3, <3>1 DEF PageFinds
    <3>3. Verifying(Want(task.file), Blank, Sure, task.left, chip.mem, 0)
      BY <3>1, <3>2, PageKnown DEF PageTask
    <3>4. Sure
      BY DEF Sure
    <3>5. Holds(chip, Head(task.left))
      BY <1>1, <3>3, <3>4, NothingMissed
    <3> QED
      BY <3>2, <3>5
  <2>3. MemoryAllowed
    BY <1>3, NothingChanged
  <2> QED
    BY <1>1, <1>3, <2>1, <2>2, <2>3, PageEndFailed
<1> QED
  BY <1>2, <1>3 DEF PageFails

LEMMA PageUnpluggedKeeps ==
  ASSUME PageGood, PageUnplugged
  PROVE  PageKept
<1>1. /\ parting' = FALSE /\ session' = 0
      /\ UNCHANGED <<world, chip, image, option, task, badge, before, faults>>
  BY DEF PageUnplugged
<1>2. TypeInv'
  BY <1>1, PageKnown, TypesKnown, TypesStep
<1>3. BadgeInv'
  <2>1. (ErasesFirst' <=> ErasesFirst) /\ tool' = tool /\ console' = console
    BY <1>1 DEF ErasesFirst, world
  <2>2. faults \in Nat /\ faults' \in Nat /\ faults' >= faults
    BY <1>1, PageKnown, TypesKnown
  <2> QED
    BY <1>1, <2>1, <2>2, PageKnown, BadgeSame
<1>4. MemoryAllowed
  BY <1>1, NothingChanged
<1> QED
  BY <1>1, <1>2, <1>3, <1>4, PageKnown DEF PageGood, PageKept, PageInv, world

\* Every step of the page keeps what is true of it, and does what it may.
LEMMA PageNextKeeps ==
  ASSUME PageGood, PageNext
  PROVE  PageKept
<1>1. ASSUME PageStep PROVE PageKept
  BY <1>1, PageReadImageKeeps, PageChooseProbeKeeps, PageReleaseProbeKeeps, PageConnectDeviceKeeps,
     PageEnsureFlashAccessKeeps, PageResetAndHaltKeeps, PageLoadAlgorithmKeeps, PageCallFlashFunctionKeeps,
     PageProgramChunkKeeps, PageVerifyChunkKeeps, PageSoftResetAndRunKeeps, PageRecoverTargetKeeps,
     PageFailsKeeps, PageUnpluggedKeeps DEF PageStep
<1> QED
  BY <1>1, PageChangeFileKeeps, PageBeginKeeps, PageMisprogramKeeps DEF PageNext

(* ------------------------------- the USB --------------------------------- *)

\* What the probe's comings and goings change is no tool's task and no chip.
LEMMA UsbTypes ==
  ASSUME TypeInv, Unplug \/ Plug
  PROVE  /\ TypeInv' /\ MemoryAllowed
         /\ UNCHANGED <<tool, disk, chip, session, image, option, task, console, before, faults>>
<1>1. UNCHANGED <<tool, disk, chip, session, image, option, task, console, before, faults>>
      /\ usb'.object >= usb.object /\ usb' \in [object : 1 .. MaxPlugs, in : BOOLEAN]
      /\ parting' \in BOOLEAN /\ badge'.file \in disk \cup {NoFile} /\ badge'.checked \in BOOLEAN
      /\ usb.object \in Nat /\ usb'.object \in Nat
  <2>0. usb \in [object : 1 .. MaxPlugs, in : BOOLEAN] /\ MaxPlugs \in Nat
    BY BoundsAreNat DEF TypeInv
  <2>1. CASE Unplug
    <3>1. UNCHANGED <<tool, disk, chip, session, image, option, task, console, before, faults>>
      BY <2>1 DEF Unplug
    <3>2. usb' = [usb EXCEPT !.in = FALSE]
      BY <2>1 DEF Unplug
    <3>3. usb'.object = usb.object /\ usb' \in [object : 1 .. MaxPlugs, in : BOOLEAN] /\ usb.object \in Nat
      <4>1. usb.object \in 1 .. MaxPlugs /\ usb.object \in Nat
        BY <2>0
      <4> DEFINE S == 1 .. MaxPlugs
      <4>2. usb \in [object : S, in : BOOLEAN]
        BY <2>0
      <4> HIDE DEF S
      <4>3. usb'.object = usb.object /\ usb' \in [object : S, in : BOOLEAN]
        BY <3>2, <4>2
      <4> QED
        BY <4>1, <4>3 DEF S
    <3>4. badge' = badge \/ badge' = Shown("removed", NoFile, FALSE, "")
      BY <2>1 DEF Unplug
    <3>5. badge'.file \in disk \cup {NoFile} /\ badge'.checked \in BOOLEAN
      <4>1. badge.file \in disk \cup {NoFile} /\ badge.checked \in BOOLEAN
        BY TypesKnown
      <4>2. CASE badge' = badge
        BY <4>1, <4>2
      <4>3. CASE badge' = Shown("removed", NoFile, FALSE, "")
        <5>1. badge'.file = NoFile /\ badge'.checked = FALSE
          BY <4>3 DEF Shown
        <5> QED
          BY <5>1
      <4> QED
        BY <3>4, <4>2, <4>3
    <3>6. parting' \in BOOLEAN
      BY <2>1 DEF Unplug, TypeInv
    <3> QED
      BY <3>1, <3>3, <3>5, <3>6
  <2>2. CASE Plug
    <3>1. UNCHANGED <<tool, disk, chip, session, image, option, parting, task, badge, console, before, faults>>
      BY <2>2 DEF Plug, pageState
    <3>2. usb' = [object |-> usb.object + 1, in |-> TRUE] /\ usb.object < MaxPlugs
      BY <2>2 DEF Plug
    <3>3. usb'.object >= usb.object /\ usb' \in [object : 1 .. MaxPlugs, in : BOOLEAN]
          /\ usb.object \in Nat /\ usb'.object \in Nat
      BY <2>0, <3>2
    <3> QED
      BY <3>1, <3>3 DEF TypeInv
  <2> QED
    BY <2>1, <2>2
<1> DEFINE n == usb.object
           m == usb'.object
<1>2. 0 .. n \subseteq 0 .. m
  BY <1>1
<1>3. OpOK(task, disk, m) /\ OpOK(console.other, disk, m)
  BY <1>1, OpAges DEF TypeInv
<1>4. session \in 0 .. m /\ console \in ConsoleSet(disk, m)
  <2>1. OpSet(disk, n) \subseteq OpSet(disk, m)
    BY <1>2 DEF OpSet
  <2>2. console \in ConsoleSet(disk, n) /\ session \in 0 .. n
    BY DEF TypeInv
  <2> HIDE DEF n, m
  <2> QED
    BY <1>2, <2>1, <2>2 DEF ConsoleSet
<1>5. TypeInv'
  BY <1>1, <1>3, <1>4 DEF TypeInv
<1>6. MemoryAllowed
  BY <1>1, NothingChanged
<1> QED
  BY <1>1, <1>5, <1>6

\* A probe that is plugged in or out changes nothing on show.
LEMMA UsbBadge ==
  ASSUME TypeInv, BadgeInv, Unplug \/ Plug
  PROVE  BadgeInv'
<1>1. UNCHANGED <<tool, disk, chip, session, image, option, task, console, before, faults>>
  BY UsbTypes
<1>2. badge' = badge \/ badge' = Shown("removed", NoFile, FALSE, "")
  BY DEF Unplug, Plug
<1>3. CASE badge' = badge
  <2>1. ErasesFirst' <=> ErasesFirst
    BY <1>1 DEF ErasesFirst
  <2>2. faults \in Nat /\ faults' \in Nat /\ faults' >= faults
    BY <1>1, TypesKnown
  <2> QED
    BY <1>1, <1>3, <2>1, <2>2, BadgeSame
<1>4. CASE badge' = Shown("removed", NoFile, FALSE, "")
  <2>1. badge'.text = "removed"
    BY <1>4 DEF Shown
  <2> QED
    BY <2>1, BadgeOther
<1> QED
  BY <1>2, <1>3, <1>4

LEMMA PageUsbKeeps ==
  ASSUME PageGood, Unplug \/ Plug
  PROVE  PageKept
<1>1. TypeInv' /\ MemoryAllowed
      /\ UNCHANGED <<tool, disk, chip, session, image, option, task, console, before, faults>>
  BY PageKnown, UsbTypes
<1>2. BadgeInv'
  BY PageKnown, UsbBadge
<1> QED
  BY <1>1, <1>2, PageKnown DEF PageGood, PageKept, PageInv

(* --------------------------- the command line ---------------------------- *)

CliGood == tool = "cli" /\ TypeInv /\ BadgeInv /\ CliInv /\ console = NoConsole
CliKept == CliGood' /\ MemoryAllowed

\* What holds while the console tool runs.
LEMMA CliKnown ==
  ASSUME CliGood
  PROVE  /\ TypeInv /\ BadgeInv /\ tool = "cli" /\ console = NoConsole /\ console.other = Idle
         /\ CliTask(task, chip, option, before, faults) /\ Quiet(console.other)
         /\ (option => ErasesFirst) /\ chip \in ChipSet /\ chip.mem \in Memory
         /\ faults \in 0 .. MaxFaults /\ faults \in Nat /\ MaxFaults \in Nat
         /\ task \in OpSet(disk, usb.object) /\ OpOK(task, disk, usb.object)
         /\ before \in Memory /\ Base(option, before) \in Memory
<1>1. TypeInv /\ BadgeInv /\ tool = "cli" /\ console = NoConsole /\ CliTask(task, chip, option, before, faults)
  BY DEF CliGood, CliInv
<1>2. option => ErasesFirst
  BY DEF ErasesFirst
<1>3. before \in Memory /\ Base(option, before) \in Memory
  BY <1>1, TypesKnown, BlankIsAMemory DEF Base
<1> QED
  BY <1>1, <1>2, <1>3, TypesKnown, AloneIsIdle

\* A step of a run that goes on.
LEMMA CliGoesOn ==
  ASSUME CliGood, UNCHANGED <<world, pageState, badge, before>>, ~Quiet(task),
         chip' \in ChipSet, OpOK(task', disk, usb.object),
         faults' \in 0 .. MaxFaults, faults' >= faults, CliTask(task', chip', option, before, faults'), MemoryAllowed
  PROVE  CliKept
<1>1. TypeInv /\ BadgeInv /\ tool = "cli" /\ console = NoConsole
  BY CliKnown
<1>2. UNCHANGED <<session, image, option, parting>>
  BY DEF pageState
<1>3. TypeInv'
  BY <1>1, <1>2, TypesKnown, TypesStep
<1>4. faults' \in Nat /\ faults \in Nat
  BY CliKnown
<1>5. BadgeInv'
  BY <1>1, <1>4, BadgeSame DEF world
<1>6. CliInv'
  BY <1>2 DEF CliInv
<1> QED
  BY <1>1, <1>3, <1>5, <1>6 DEF CliGood, CliKept, world

\* A step that ends a run.
LEMMA CliEnds ==
  ASSUME CliGood, UNCHANGED <<world, pageState, before>>, task' = Idle, chip' \in ChipSet,
         faults' \in 0 .. MaxFaults, badge'.file \in disk \cup {NoFile}, badge'.checked \in BOOLEAN,
         BadgeInv', MemoryAllowed
  PROVE  CliKept
<1>1. TypeInv /\ tool = "cli" /\ console = NoConsole
  BY CliKnown
<1>2. UNCHANGED <<session, image, option, parting>>
  BY DEF pageState
<1>3. TypeInv'
  BY <1>1, <1>2, TypesKnown, TypesStep
<1>4. CliTask(Idle, chip', option, before, faults')
  BY DEF CliTask, Idle
<1>5. CliInv'
  BY <1>2, <1>4 DEF CliInv
<1> QED
  BY <1>1, <1>3, <1>5 DEF CliGood, CliKept, world

LEMMA CliRunKeeps ==
  ASSUME CliGood, NEW f \in disk, NEW eraseAll \in BOOLEAN, CliRun(f, eraseAll)
  PROVE  CliKept
<1> DEFINE op == [Idle EXCEPT !.kind = "run", !.at = "start", !.file = f]
<1>1. /\ option' = eraseAll /\ task' = op /\ badge' = Working /\ before' = chip.mem
      /\ UNCHANGED <<world, chip, session, image, parting, faults>>
  BY DEF CliRun
<1>2. TypeInv /\ disk \subseteq HexFiles
  BY CliKnown, TypesKnown
<1>3. OpOK(op, disk, usb.object)
  <2>1. "run" \in Names /\ "start" \in Names /\ f \in disk \cup {NoFile}
    BY DEF Names
  <2> QED
    BY <2>1, <1>2, TypesKnown, OpBegins
<1>4. op.kind = "run" /\ op.at = "start" /\ op.file = f
  BY DEF Idle
<1> HIDE DEF op
<1>5. badge'.text = "working" /\ badge'.file = NoFile /\ badge'.checked = FALSE
  BY <1>1 DEF Working, Shown
<1>6. badge'.file \in disk \cup {NoFile} /\ badge'.checked \in BOOLEAN
  BY <1>5
<1>7. BadgeInv'
  BY <1>5, BadgeOther
<1>8. TypeInv'
  BY <1>1, <1>2, <1>3, <1>6, TypesKnown, TypesStep
<1>9. CliTask(op, chip, eraseAll, chip.mem, faults)
  BY <1>2, <1>4 DEF CliTask
<1>10. CliInv'
  BY <1>1, <1>9 DEF CliInv
<1>11. MemoryAllowed
  BY <1>1, NothingChanged
<1> QED
  BY <1>1, <1>7, <1>8, <1>10, <1>11, CliKnown DEF CliGood, CliKept, world

LEMMA CliRequestDeviceKeeps ==
  ASSUME CliGood, CliRequestDevice
  PROVE  CliKept
<1> DEFINE step == IF option THEN "massErase" ELSE "halt"
           op == [task EXCEPT !.proc = usb.object, !.at = step]
<1>1. /\ task.at = "start" /\ CliImage[task.file].ok /\ task' = op
      /\ UNCHANGED <<world, chip, pageState, badge, before, faults>>
  BY DEF CliRequestDevice, At
<1>2. step \in Names /\ step # "idle" /\ step \in {"massErase", "halt"} /\ (step = "massErase" <=> option)
  <2>1. option \in BOOLEAN
    BY CliKnown, TypesKnown
  <2> QED
    BY <2>1 DEF Names
<1> HIDE DEF step
<1>3. task \in OpSet(disk, usb.object) /\ usb.object \in 0 .. usb.object
  BY CliKnown, TypesKnown
<1>4. OpOK(op, disk, usb.object)
  BY <1>2, <1>3, OpGoesOn
<1>5. op.kind = task.kind /\ op.file = task.file /\ op.at = step
  BY <1>3 DEF OpSet
<1> HIDE DEF op
<1>6. CliTask(op, chip, option, before, faults)
  BY <1>1, <1>2, <1>5, CliKnown DEF CliTask, Base
<1>7. ~Quiet(task)
  BY <1>1 DEF Quiet
<1>8. MemoryAllowed
  BY <1>1, NothingChanged
<1> QED
  BY <1>1, <1>4, <1>6, <1>7, <1>8, CliKnown, CliGoesOn

\* A step whose transfers answer.
LEMMA CliStepGoesOn ==
  ASSUME CliGood, NEW s, NEW c, NEW op, s \notin {"idle", "reading", "close", "release"}, Step("cli", s, c, op),
         c \in ChipSet, OpOK(op, disk, usb.object), CliTask(op, c, option, before, faults), MemoryAllowed
  PROVE  CliKept
<1>1. chip' = c /\ task' = op /\ UNCHANGED <<world, pageState, badge, before>> /\ faults' = faults
  BY DEF Step
<1>2. ~Quiet(task)
  BY DEF Step, At, Quiet
<1> QED
  BY <1>1, <1>2, CliKnown, CliGoesOn

\* What the console tool knows while it flashes.
LEMMA CliFlashing ==
  ASSUME CliGood, task.at \notin {"idle", "start"}
  PROVE  /\ task.kind = "run" /\ task.file \in HexFiles /\ CliImage[task.file].ok
         /\ CliPieces[task.file] \in Lefts /\ OwnJob(task.file, CliPieces[task.file])
<1>1. task.kind = "run" /\ task.file \in HexFiles /\ CliImage[task.file].ok
  BY CliKnown DEF CliTask
<1> QED
  BY <1>1, CliJob DEF Lefts

\* A run may change what its file names, or all if it erases first, once the chip is open.
LEMMA CliMayChange ==
  ASSUME CliGood, task.at \notin {"idle", "start"}, ~chip.locked \/ ~chip'.locked,
         \/ option
         \/ \A a \in DOMAIN Factory : chip'.mem[a] # chip.mem[a] => a \in DOMAIN Meaning(task.file)
  PROVE  MemoryAllowed
<1>1. task \in {task, console.other} /\ task.kind \in {"flash", "recover", "run"} /\ task.file \in HexFiles
  BY CliFlashing
<1> QED
  BY <1>1, CliKnown, OpMayChange

LEMMA CliEraseAllKeeps ==
  ASSUME CliGood, CliEraseAll
  PROVE  CliKept
<1> DEFINE op == To("halt")
           c == AfterMassErase(chip)
<1>1. Step("cli", "massErase", c, op) /\ task.at = "massErase" /\ chip' = c
  BY DEF CliEraseAll, Step, At
<1>2. option /\ task.kind = "run" /\ task.file \in HexFiles /\ CliImage[task.file].ok
  BY <1>1, CliKnown DEF CliTask
<1>3. c \in ChipSet /\ c.mem = Blank /\ ~c.locked
  BY CliKnown, AfterMassEraseFacts
<1> HIDE DEF c
<1>4. MemoryAllowed
  BY <1>1, <1>2, <1>3, CliMayChange
<1>5. op = Moved(task, "halt") /\ "halt" \in Names
  BY DEF To, Moved, Names
<1> HIDE DEF op
<1>6. OpOK(op, disk, usb.object) /\ op.kind = task.kind /\ op.at = "halt" /\ op.file = task.file
  BY <1>5, CliKnown, OpTo
<1>7. CliTask(op, c, option, before, faults)
  BY <1>2, <1>3, <1>6 DEF CliTask, Base
<1> QED
  BY <1>1, <1>3, <1>4, <1>6, <1>7, CliStepGoesOn

LEMMA CliHaltKeeps ==
  ASSUME CliGood, CliHalt
  PROVE  CliKept
<1> DEFINE op == To("config")
           c == [chip EXCEPT !.core = "halted"]
<1>1. Step("cli", "halt", c, op) /\ task.at = "halt" /\ chip' = c /\ ~chip.locked
  BY DEF CliHalt, Step, At
<1>2. task.kind = "run" /\ task.file \in HexFiles /\ CliImage[task.file].ok /\ chip.mem = Base(option, before)
  BY <1>1, CliKnown DEF CliTask
<1>3. c \in ChipSet /\ c.mem = chip.mem /\ c.locked = chip.locked
  <2>1. chip \in ChipSet
    BY CliKnown
  <2> QED
    BY <2>1 DEF ChipSet
<1> HIDE DEF c
<1>4. MemoryAllowed
  BY <1>1, <1>3, NothingChanged
<1>5. op = Moved(task, "config") /\ "config" \in Names
  BY DEF To, Moved, Names
<1> HIDE DEF op
<1>6. OpOK(op, disk, usb.object) /\ op.kind = task.kind /\ op.at = "config" /\ op.file = task.file
  BY <1>5, CliKnown, OpTo
<1>7. CliTask(op, c, option, before, faults)
  BY <1>1, <1>2, <1>3, <1>6 DEF CliTask
<1> QED
  BY <1>1, <1>3, <1>4, <1>6, <1>7, CliStepGoesOn

(* --------------------- the direct writers' piece by piece ---------------- *)

\* A job of pieces before the first, or with none.
LEMMA OwnStarts ==
  ASSUME NEW f, NEW pieces, OwnJob(f, pieces), NEW base, NEW mem, NEW g, Clean(Meaning(f), base, mem)
  PROVE  /\ pieces # <<>> => Writing(Meaning(f), base, Steady(f), pieces, mem, g)
         /\ pieces = <<>> => Wrote(Meaning(f), base, Steady(f), <<>>, mem, g)
<1> DEFINE want == Meaning(f)
           sure == Steady(f)
<1>1. /\ pieces # <<>> => Todo(want, sure, pieces)
      /\ \A a \in DOMAIN want : Gives(Range(pieces), a, want[a])
      /\ pieces = <<>> => DOMAIN want = {}
  BY DEF OwnJob
<1> HIDE DEF want, sure
<1>2. Clean(want, base, mem)
  BY DEF want
<1>3. pieces # <<>> => Writing(want, base, sure, pieces, mem, g)
  BY <1>1, <1>2, StartWriting
<1>4. pieces = <<>> => Wrote(want, base, sure, <<>>, mem, g)
  BY <1>1, <1>2, NothingToWrite
<1> QED
  BY <1>3, <1>4 DEF want, sure

\* A job of pieces that is written, before the first is read back.
LEMMA OwnVerifies ==
  ASSUME NEW f, NEW pieces, OwnJob(f, pieces), NEW base, NEW mem, NEW g,
         Wrote(Meaning(f), base, Steady(f), <<>>, mem, g)
  PROVE  /\ pieces # <<>> => Verifying(Meaning(f), base, Steady(f), pieces, mem, g)
         /\ pieces = <<>> => Flashed(Meaning(f), base, mem)
<1> DEFINE want == Meaning(f)
           sure == Steady(f)
<1>1. /\ pieces # <<>> => Todo(want, sure, pieces)
      /\ \A a \in DOMAIN want : Gives(Range(pieces), a, want[a])
      /\ pieces = <<>> => DOMAIN want = {}
  BY DEF OwnJob
<1> HIDE DEF want, sure
<1>2. Wrote(want, base, sure, <<>>, mem, g) /\ Clean(want, base, mem)
  BY DEF want, sure, Wrote
<1>3. pieces # <<>> => Verifying(want, base, sure, pieces, mem, g)
  BY <1>1, <1>2, StartVerifying
<1>4. pieces = <<>> => Flashed(want, base, mem)
  BY <1>1, <1>2, NothingToWrite
<1> QED
  BY <1>3, <1>4 DEF want, sure

LEMMA CliConfigureWriteKeeps ==
  ASSUME CliGood, CliConfigureWrite
  PROVE  CliKept
<1> DEFINE pieces == CliPieces[task.file]
           op == CliPieceByPiece("program", To("readonly"))
           c == [chip EXCEPT !.mode = "write"]
           base == Base(option, before)
<1>1. Step("cli", "config", c, op) /\ task.at = "config" /\ chip' = c
  BY DEF CliConfigureWrite, Step, At
<1>2. task.kind = "run" /\ task.file \in HexFiles /\ CliImage[task.file].ok
      /\ pieces \in Lefts /\ OwnJob(task.file, pieces)
  BY <1>1, CliFlashing
<1>3. chip.mem = base /\ ~chip.locked
  BY <1>1, CliKnown DEF CliTask
<1>4. c \in ChipSet /\ c.mem = chip.mem /\ c.locked = chip.locked /\ c.mode = "write"
  <2>1. chip \in ChipSet
    BY CliKnown
  <2> QED
    BY <2>1 DEF ChipSet
<1> HIDE DEF c, base
<1>5. Clean(Meaning(task.file), base, c.mem)
  BY <1>3, <1>4 DEF Clean
<1>6. MemoryAllowed
  BY <1>1, <1>4, NothingChanged
<1>7. task \in OpSet(disk, usb.object)
  BY CliKnown
<1>8. OpOK(op, disk, usb.object) /\ CliTask(op, c, option, before, faults)
  <2>1. CASE pieces = <<>>
    <3>1. op = Moved(task, "readonly") /\ "readonly" \in Names
      BY <2>1 DEF CliPieceByPiece, To, Moved, Names
    <3> HIDE DEF op
    <3>2. OpOK(op, disk, usb.object) /\ op.kind = task.kind /\ op.at = "readonly" /\ op.file = task.file
      BY <1>7, <3>1, OpTo
    <3>3. Wrote(Meaning(task.file), base, Steady(task.file), <<>>, c.mem, faults)
      BY <1>2, <1>5, <2>1, OwnStarts
    <3> QED
      BY <1>2, <1>3, <1>4, <3>2, <3>3 DEF CliTask, base
  <2>2. CASE pieces # <<>>
    <3>1. op = MovedWith(task, "program", pieces) /\ "program" \in Names
      BY <2>2 DEF CliPieceByPiece, With, MovedWith, Names
    <3> HIDE DEF op, pieces
    <3>2. /\ OpOK(op, disk, usb.object) /\ op.kind = task.kind /\ op.at = "program" /\ op.file = task.file
          /\ op.left = pieces
      BY <1>2, <1>7, <3>1, OpWith
    <3>3. Writing(Meaning(task.file), base, Steady(task.file), pieces, c.mem, faults)
      BY <1>2, <1>5, <2>2, OwnStarts
    <3> QED
      BY <1>2, <1>3, <1>4, <3>2, <3>3 DEF CliTask, base
  <2> QED
    BY <2>1, <2>2
<1> HIDE DEF op
<1> QED
  BY <1>1, <1>4, <1>6, <1>8, CliStepGoesOn

\* What a run knows when it programs a piece.
LEMMA CliProgramming ==
  ASSUME CliGood, task.at = "program"
  PROVE  /\ task.kind = "run" /\ task.file \in HexFiles /\ CliImage[task.file].ok
         /\ task \in OpSet(disk, usb.object) /\ ~chip.locked /\ chip.mode = "write" /\ chip \in ChipSet
         /\ chip.mem \in Memory
         /\ Writing(Meaning(task.file), Base(option, before), Steady(task.file), task.left, chip.mem, faults)
         /\ task.left \in Parts /\ task.left # <<>> /\ Tail(task.left) \in Lefts
         /\ Head(task.left).address \in Nat /\ Head(task.left).data \in Seq(Bytes)
         /\ PartSpan(Head(task.left)) \subseteq DOMAIN Meaning(task.file)
         /\ ~(Len(task.left) > 1) => Tail(task.left) = <<>>
<1> DEFINE want == Meaning(task.file)
           sure == Steady(task.file)
           base == Base(option, before)
           left == task.left
<1>1. task.kind = "run" /\ task.file \in HexFiles /\ CliImage[task.file].ok
  BY CliFlashing
<1>2. chip.mode = "write" /\ Writing(want, base, sure, left, chip.mem, faults) /\ ~chip.locked
  BY CliKnown DEF CliTask
<1>3. chip \in ChipSet /\ chip.mem \in Memory /\ task \in OpSet(disk, usb.object)
  BY CliKnown
<1> HIDE DEF want, left, base, sure
<1>4. Todo(want, sure, left)
  BY <1>2 DEF Writing
<1>5. /\ left \in Parts /\ left # <<>> /\ Tail(left) \in Lefts
      /\ Head(left).address \in Nat /\ Head(left).data \in Seq(Bytes)
      /\ PartSpan(Head(left)) \subseteq DOMAIN want
      /\ ~(Len(left) > 1) => Tail(left) = <<>>
  BY <1>4, NextPart
<1> QED
  BY <1>1, <1>2, <1>3, <1>5 DEF want, left, base, sure

\* A piece went into the memory, well or badly.
LEMMA CliChunkDone ==
  ASSUME CliGood, task.at = "program", Present(chip.mem, Head(task.left)),
         NEW new \in ChipSet, NEW g, g \in 0 .. MaxFaults, g >= faults,
         new.locked = chip.locked, new.mode = chip.mode,
         \/ WrittenOver(chip.mem, Head(task.left), new.mem) /\ g = faults
         \/ PartlyWritten(chip.mem, Head(task.left), new.mem) /\ g # 0,
         UNCHANGED <<world, pageState, badge, before>>, chip' = new, faults' = g,
         task' = Onward(To("readonly"))
  PROVE  CliKept
<1> DEFINE want == Meaning(task.file)
           sure == Steady(task.file)
           base == Base(option, before)
           op == Onward(To("readonly"))
           p == Head(task.left)
           t == Tail(task.left)
<1>1. /\ task.kind = "run" /\ task.file \in HexFiles /\ CliImage[task.file].ok
      /\ task \in OpSet(disk, usb.object) /\ ~chip.locked /\ chip.mode = "write"
      /\ chip.mem \in Memory
      /\ Writing(want, base, sure, task.left, chip.mem, faults)
      /\ t \in Lefts /\ p.address \in Nat /\ p.data \in Seq(Bytes)
      /\ PartSpan(p) \subseteq DOMAIN want
      /\ ~(Len(task.left) > 1) => t = <<>>
  BY CliProgramming
<1>2. PartSpan(p) \subseteq DOMAIN Factory
  BY <1>1, PresentFacts
<1> HIDE DEF want, p, base, sure
<1>3. /\ Wrote(want, base, sure, t, new.mem, g)
      /\ Len(task.left) > 1 => Writing(want, base, sure, t, new.mem, g)
  <2>1. CASE WrittenOver(chip.mem, p, new.mem) /\ g = faults
    BY <1>1, <1>2, <2>1, PartWritten DEF p
  <2>2. CASE PartlyWritten(chip.mem, p, new.mem) /\ g # 0
    BY <1>1, <2>2, PartMissed DEF p
  <2> QED
    BY <2>1, <2>2 DEF p
<1> HIDE DEF t
<1>4. MemoryAllowed
  <2>1. \A a \in DOMAIN Factory : new.mem[a] # chip.mem[a] => a \in PartSpan(p)
    BY DEF WrittenOver, PartlyWritten, p
  <2> QED
    BY <1>1, <2>1, CliMayChange DEF want
<1>5. ~Quiet(task)
  BY DEF Quiet
<1>6. OpOK(op, disk, usb.object) /\ CliTask(op, new, option, before, g)
  <2>1. CASE Len(task.left) > 1
    <3>1. op = [task EXCEPT !.left = Tail(@)]
      BY <2>1 DEF Onward
    <3> HIDE DEF op
    <3>2. OpOK(op, disk, usb.object) /\ op.kind = task.kind /\ op.file = task.file /\ op.at = "program"
          /\ op.left = t
      BY <1>1, <3>1, OpRest DEF t
    <3> QED
      BY <1>1, <1>3, <2>1, <3>2 DEF CliTask, want, base, sure
  <2>2. CASE ~(Len(task.left) > 1)
    <3>1. op = Moved(task, "readonly") /\ "readonly" \in Names
      BY <2>2 DEF Onward, To, Moved, Names
    <3> HIDE DEF op
    <3>3. OpOK(op, disk, usb.object) /\ op.kind = task.kind /\ op.file = task.file /\ op.at = "readonly"
      BY <1>1, <3>1, OpTo
    <3> QED
      BY <1>1, <1>3, <2>2, <3>3 DEF CliTask, want, base, sure
  <2> QED
    BY <2>1, <2>2
<1> HIDE DEF op
<1>7. task' = op
  BY DEF op
<1> QED
  BY <1>4, <1>5, <1>6, <1>7, CliGoesOn

LEMMA CliWriteRramChunkKeeps ==
  ASSUME CliGood, CliWriteRramChunk
  PROVE  CliKept
<1> DEFINE p == Head(task.left)
           c == Written(chip, p)
<1>1. /\ task.at = "program" /\ Present(chip.mem, Head(task.left)) /\ chip' = c /\ faults' = faults
      /\ UNCHANGED <<world, pageState, badge, before>>
      /\ task' = Onward(To("readonly"))
  BY DEF CliWriteRramChunk, Step, At
<1>2. chip \in ChipSet /\ p.address \in Nat /\ p.data \in Seq(Bytes)
  BY <1>1, CliProgramming
<1>3. c \in ChipSet /\ WrittenOver(chip.mem, p, c.mem) /\ c.locked = chip.locked /\ c.mode = chip.mode
  BY <1>2, WrittenFacts
<1>4. faults \in 0 .. MaxFaults /\ faults \in Nat /\ faults >= faults
  BY CliKnown
<1> HIDE DEF c
<1> QED
  BY <1>1, <1>3, <1>4, CliChunkDone

LEMMA CliMisprogramKeeps ==
  ASSUME CliGood, Misprogram("cli", Onward(To("readonly")))
  PROVE  CliKept
<1> DEFINE p == Head(task.left)
           c == chip'
<1>1. /\ task.at = "program" /\ c \in Missed(p) /\ faults < MaxFaults /\ faults' = faults + 1
      /\ Present(chip.mem, Head(task.left))
      /\ UNCHANGED <<world, pageState, badge, before>>
      /\ task' = Onward(To("readonly"))
  BY DEF Misprogram, At
<1>2. chip \in ChipSet /\ p.address \in Nat /\ p.data \in Seq(Bytes)
  BY <1>1, CliProgramming
<1> HIDE DEF p
<1>3. c \in ChipSet /\ PartlyWritten(chip.mem, p, c.mem) /\ c.locked = chip.locked /\ c.mode = chip.mode
  BY <1>1, <1>2, MissedFacts
<1>4. faults \in Nat /\ MaxFaults \in Nat
  BY CliKnown
<1>5. faults + 1 \in 0 .. MaxFaults /\ faults + 1 >= faults /\ faults + 1 # 0
  BY <1>1, <1>4
<1> QED
  BY <1>1, <1>3, <1>5, CliChunkDone DEF p

LEMMA CliRestoreReadOnlyKeeps ==
  ASSUME CliGood, CliRestoreReadOnly
  PROVE  CliKept
<1> DEFINE pieces == CliPieces[task.file]
           op == CliPieceByPiece("verify", [To("reset") EXCEPT !.checked = TRUE])
           c == [chip EXCEPT !.mode = "read"]
           base == Base(option, before)
<1>1. Step("cli", "readonly", c, op) /\ task.at = "readonly" /\ chip' = c
  BY DEF CliRestoreReadOnly, Step, At
<1>2. task.kind = "run" /\ task.file \in HexFiles /\ CliImage[task.file].ok
      /\ pieces \in Lefts /\ OwnJob(task.file, pieces)
  BY <1>1, CliFlashing
<1>3. Wrote(Meaning(task.file), base, Steady(task.file), <<>>, chip.mem, faults) /\ ~chip.locked
  BY <1>1, CliKnown DEF CliTask
<1>4. c \in ChipSet /\ c.mem = chip.mem /\ c.locked = chip.locked
  <2>1. chip \in ChipSet
    BY CliKnown
  <2> QED
    BY <2>1 DEF ChipSet
<1> HIDE DEF c, base
<1>6. MemoryAllowed
  BY <1>1, <1>4, NothingChanged
<1>7. task \in OpSet(disk, usb.object)
  BY CliKnown
<1>8. OpOK(op, disk, usb.object) /\ CliTask(op, c, option, before, faults)
  <2>1. CASE pieces = <<>>
    <3> DEFINE yes == TRUE
    <3>1. op = MovedChecked(task, "reset", yes) /\ "reset" \in Names
      BY <2>1 DEF CliPieceByPiece, To, MovedChecked, Names
    <3>2. yes \in BOOLEAN
      OBVIOUS
    <3> HIDE DEF op, yes
    <3>3. OpOK(op, disk, usb.object) /\ op.kind = task.kind /\ op.at = "reset" /\ op.file = task.file
      BY <1>7, <3>1, <3>2, OpChecked
    <3>4. Flashed(Meaning(task.file), base, c.mem)
      BY <1>2, <1>3, <1>4, <2>1, OwnVerifies
    <3> QED
      BY <1>2, <1>3, <1>4, <3>3, <3>4 DEF CliTask, base
  <2>2. CASE pieces # <<>>
    <3>1. op = MovedWith(task, "verify", pieces) /\ "verify" \in Names
      BY <2>2 DEF CliPieceByPiece, With, MovedWith, Names
    <3> HIDE DEF op, pieces
    <3>2. /\ OpOK(op, disk, usb.object) /\ op.kind = task.kind /\ op.at = "verify" /\ op.file = task.file
          /\ op.left = pieces
      BY <1>2, <1>7, <3>1, OpWith
    <3>3. Verifying(Meaning(task.file), base, Steady(task.file), pieces, c.mem, faults)
      BY <1>2, <1>3, <1>4, <2>2, OwnVerifies
    <3> QED
      BY <1>2, <1>3, <1>4, <3>2, <3>3 DEF CliTask, base
  <2> QED
    BY <2>1, <2>2
<1> HIDE DEF op
<1> QED
  BY <1>1, <1>4, <1>6, <1>8, CliStepGoesOn

LEMMA CliVerifyChunkKeeps ==
  ASSUME CliGood, CliVerifyChunk
  PROVE  CliKept
<1> DEFINE want == Meaning(task.file)
           sure == Steady(task.file)
           base == Base(option, before)
           last == [To("reset") EXCEPT !.checked = TRUE]
           op == Onward(last)
           t == Tail(task.left)
<1>1. Step("cli", "verify", chip, op) /\ task.at = "verify" /\ chip' = chip /\ Holds(chip, Head(task.left))
  BY DEF CliVerifyChunk, Step, At
<1>2. task.kind = "run" /\ task.file \in HexFiles /\ CliImage[task.file].ok /\ task \in OpSet(disk, usb.object)
  BY <1>1, CliFlashing, CliKnown
<1>3. Verifying(want, base, sure, task.left, chip.mem, faults) /\ ~chip.locked
  BY <1>1, CliKnown DEF CliTask
<1>4. chip \in ChipSet /\ chip.mem \in Memory
  BY CliKnown
<1> HIDE DEF want, base, sure
<1>5. /\ Len(task.left) > 1 => Verifying(want, base, sure, t, chip.mem, faults)
      /\ ~(Len(task.left) > 1) => Flashed(want, base, chip.mem)
  BY <1>1, <1>3, <1>4, PartVerified
<1>6. t \in Lefts
  BY <1>3, NextPart DEF Verifying
<1> HIDE DEF t
<1>7. OpOK(op, disk, usb.object) /\ CliTask(op, chip, option, before, faults)
  <2>1. CASE Len(task.left) > 1
    <3>1. op = [task EXCEPT !.left = Tail(@)]
      BY <2>1 DEF Onward
    <3> HIDE DEF op
    <3>2. OpOK(op, disk, usb.object) /\ op.kind = task.kind /\ op.file = task.file /\ op.at = "verify"
          /\ op.left = t
      BY <1>1, <1>2, <1>6, <3>1, OpRest DEF t
    <3> QED
      BY <1>2, <1>3, <1>5, <2>1, <3>2 DEF CliTask, want, base, sure
  <2>2. CASE ~(Len(task.left) > 1)
    <3> DEFINE yes == TRUE
    <3>1. op = MovedChecked(task, "reset", yes)
      BY <2>2 DEF Onward, To, MovedChecked
    <3>2. yes \in BOOLEAN /\ "reset" \in Names
      BY DEF Names
    <3> HIDE DEF op, yes
    <3>3. OpOK(op, disk, usb.object) /\ op.kind = task.kind /\ op.file = task.file /\ op.at = "reset"
      BY <1>2, <3>1, <3>2, OpChecked
    <3> QED
      BY <1>2, <1>3, <1>5, <2>2, <3>3 DEF CliTask, want, base, sure
  <2> QED
    BY <2>1, <2>2
<1>8. MemoryAllowed
  BY <1>1, NothingChanged
<1> HIDE DEF op
<1> QED
  BY <1>1, <1>4, <1>7, <1>8, CliStepGoesOn

LEMMA CliResetKeeps ==
  ASSUME CliGood, CliReset
  PROVE  CliKept
<1>1. /\ task.at = "reset" /\ chip' = AfterReset(chip) /\ task' = Idle
      /\ badge' = Shown("complete", task.file, task.checked, "")
      /\ UNCHANGED <<world, pageState, before, faults>>
  BY DEF CliReset, At
<1>2. task.file \in HexFiles /\ Flashed(Meaning(task.file), Base(option, before), chip.mem)
  BY <1>1, CliKnown, CliFlashing DEF CliTask
<1>3. chip \in ChipSet /\ chip.mem \in Memory /\ task \in OpSet(disk, usb.object)
      /\ faults \in 0 .. MaxFaults /\ Base(option, before) \in Memory /\ tool = "cli"
  BY CliKnown
<1>4. chip.mem = Override(Base(option, before), Meaning(task.file))
  BY <1>2, <1>3, FlashedIsOverride
<1>5. tool' = tool /\ option' = option /\ before' = before /\ console' = console
  BY <1>1 DEF world, pageState
<1>6. Base(option, before) = IF ErasesFirst' THEN Blank ELSE before'
  BY <1>3, <1>5 DEF Base, ErasesFirst
<1>7. Quiet(task') /\ Quiet(console'.other)
  BY <1>1, <1>5, CliKnown, AloneIsIdle
<1>8. BadgeInv'
  <2> DEFINE c == task.checked
             w == ""
             f == task.file
  <2>1. badge' = Shown("complete", f, c, w)
    BY <1>1
  <2>2. f \in HexFiles /\ chip.mem = Override(IF ErasesFirst' THEN Blank ELSE before', Meaning(f))
    BY <1>2, <1>4, <1>6
  <2> HIDE DEF c, w, f
  <2> QED
    BY <1>1, <1>3, <1>5, <1>7, <2>1, <2>2, BadgeComplete
<1>9. chip' \in ChipSet /\ chip'.mem = chip.mem
  BY <1>1, <1>3, AfterResetFacts
<1>10. MemoryAllowed
  BY <1>9, NothingChanged
<1>11. badge'.file \in disk \cup {NoFile} /\ badge'.checked \in BOOLEAN
  BY <1>1, <1>3 DEF Shown, OpSet
<1> QED
  BY <1>1, <1>3, <1>8, <1>9, <1>10, <1>11, CliEnds

\* A task that ends with an explained failure.
LEMMA CliEndFailed ==
  ASSUME CliGood, NEW why, EndFailed(why), chip' \in ChipSet, faults' \in 0 .. MaxFaults, MemoryAllowed,
         \/ faults' > 0
         \/ why \in {"gone", "cancelled", "locked", "rejected"}
         \/ Explained(why, task.file, faults')
  PROVE  CliKept
<1>1. task' = Idle /\ badge' = Shown("failed", task.file, FALSE, why) /\ UNCHANGED <<world, pageState, before>>
  BY DEF EndFailed
<1>2. tool' = tool /\ tool = "cli"
  BY <1>1, CliKnown DEF world
<1>3. BadgeInv'
  <2> DEFINE c == FALSE
             f == task.file
  <2>1. badge' = Shown("failed", f, c, why)
    BY <1>1
  <2> HIDE DEF c
  <2> QED
    BY <1>2, <2>1, BadgeFailed
<1>4. badge'.file \in disk \cup {NoFile} /\ badge'.checked \in BOOLEAN
  <2>1. badge'.file = task.file /\ badge'.checked = FALSE
    BY <1>1 DEF Shown
  <2>2. OpOK(task, disk, usb.object)
    BY CliKnown
  <2> QED
    BY <2>1, <2>2, OpFields
<1> QED
  BY <1>1, <1>3, <1>4, CliEnds

LEMMA CliFailsKeeps ==
  ASSUME CliGood, CliFails
  PROVE  CliKept
<1>1. chip \in ChipSet /\ faults \in 0 .. MaxFaults /\ faults \in Nat /\ MaxFaults \in Nat /\ chip.mem \in Memory
  BY CliKnown
<1>2. CASE task.at # "start" /\ Thrown(task) /\ EndFailed(IF Answers(task) THEN "transfer" ELSE "gone")
  <2> DEFINE why == IF Answers(task) THEN "transfer" ELSE "gone"
  <2>0. task.at \notin {"idle", "start", "call"}
    <3>1. task # Idle /\ OpOK(task, disk, usb.object) /\ task.at # "call"
      BY CliKnown DEF CliFails, CliTask
    <3> QED
      BY <1>2, <3>1, OpFields
  <2>1. task.at = "program" => task.left \in Parts /\ task.left # <<>>
    BY CliProgramming
  <2>2. HalfDoneEffect(task)
    BY <1>1, <1>2, <2>1, ThrownFacts
  <2>3. chip' \in ChipSet /\ faults' \in 0 .. MaxFaults
    BY <2>2 DEF HalfDoneEffect
  <2>4. faults' > 0 \/ why = "gone"
    BY <2>2 DEF HalfDoneEffect
  <2>5. MemoryAllowed
    <3>1. CASE chip'.mem = chip.mem
      BY <3>1, NothingChanged
    <3>2. CASE chip'.mem # chip.mem /\ task.at = "massErase"
      <4>1. ~chip'.locked /\ option
        BY <2>2, <3>2, CliKnown DEF HalfDoneEffect, CliTask
      <4> QED
        BY <2>0, <4>1, CliMayChange
    <3>3. CASE chip'.mem # chip.mem /\ task.at = "program"
      <4>1. ~chip.locked /\ PartSpan(Head(task.left)) \subseteq DOMAIN Meaning(task.file)
        BY <3>3, CliProgramming
      <4>2. \A a \in DOMAIN Factory : chip'.mem[a] # chip.mem[a] => a \in PartSpan(Head(task.left))
        BY <2>2, <3>3 DEF HalfDoneEffect, PartlyWritten
      <4> QED
        BY <2>0, <4>1, <4>2, CliMayChange
    <3>4. chip'.mem # chip.mem => task.at \in {"massErase", "program"}
      BY <2>0, <2>2 DEF HalfDoneEffect
    <3> QED
      BY <3>1, <3>2, <3>3, <3>4
  <2>6. EndFailed(why)
    BY <1>2
  <2> HIDE DEF why
  <2> QED
    BY <2>3, <2>4, <2>5, <2>6, CliEndFailed
<1>3. ASSUME NEW why \in {"rejected", "gone", "locked", "refused", "mismatch"},
             CliFinds(why), EndFailed(why), UNCHANGED <<chip, faults>>
      PROVE  CliKept
  <2>1. CASE why = "refused"
    <3>2. task.at = "program" /\ (chip.mode # "write" \/ ~Present(chip.mem, Head(task.left)))
      BY <1>3, <2>1 DEF CliFinds
    <3>4. /\ chip.mode = "write" /\ task.file \in HexFiles
          /\ PartSpan(Head(task.left)) \subseteq DOMAIN Meaning(task.file)
          /\ Head(task.left).address \in Nat /\ Head(task.left).data \in Seq(Bytes)
      BY <3>2, CliProgramming
    <3>5. ~(PartSpan(Head(task.left)) \subseteq DOMAIN Factory)
      BY <1>1, <3>2, <3>4, PresentFacts
    <3>6. ~(DOMAIN Meaning(task.file) \subseteq DOMAIN Factory)
      BY <3>4, <3>5
    <3> QED
      BY <2>1, <3>4, <3>6, <1>1, <1>3, NothingChanged, CliEndFailed DEF Explained
  <2>2. CASE why = "mismatch"
    <3>2. task.at = "verify" /\ ~Holds(chip, Head(task.left))
      BY <1>3, <2>2 DEF CliFinds
    <3>3. task.file \in HexFiles
      BY <3>2, CliFlashing
    <3>4. faults > 0 \/ Contradicts(task.file)
      <4> SUFFICES ASSUME faults = 0, ~Contradicts(task.file) PROVE FALSE
        BY <1>1
      <4> DEFINE want == Meaning(task.file)
                 sure == Steady(task.file)
                 base == Base(option, before)
      <4>1. Verifying(want, base, sure, task.left, chip.mem, 0)
        BY <3>2, CliKnown DEF CliTask
      <4>2. sure
        BY DEF Steady
      <4> HIDE DEF want, sure, base
      <4>3. Holds(chip, Head(task.left))
        BY <1>1, <4>1, <4>2, NothingMissed
      <4> QED
        BY <3>2, <4>3
    <3>5. Explained(why, task.file, faults)
      BY <2>2, <3>3, <3>4 DEF Explained
    <3> QED
      BY <3>3, <3>5, <1>1, <1>3, NothingChanged, CliEndFailed
  <2>3. CASE why \notin {"refused", "mismatch"}
    BY <2>3, <1>1, <1>3, NothingChanged, CliEndFailed
  <2> QED
    BY <2>1, <2>2, <2>3
<1> QED
  BY <1>2, <1>3 DEF CliFails

\* Every step of the console tool keeps what is true of it, and does what it may.
LEMMA CliNextKeeps ==
  ASSUME CliGood, CliNext
  PROVE  CliKept
<1>1. ASSUME CliStep PROVE CliKept
  BY <1>1, CliRequestDeviceKeeps, CliEraseAllKeeps, CliHaltKeeps, CliConfigureWriteKeeps,
     CliWriteRramChunkKeeps, CliRestoreReadOnlyKeeps, CliVerifyChunkKeeps, CliResetKeeps, CliFailsKeeps DEF CliStep
<1> QED
  BY <1>1, CliRunKeeps, CliMisprogramKeeps DEF CliNext

LEMMA CliUsbKeeps ==
  ASSUME CliGood, Unplug \/ Plug
  PROVE  CliKept
<1>1. TypeInv' /\ MemoryAllowed
      /\ UNCHANGED <<tool, disk, chip, session, image, option, task, console, before, faults>>
  BY CliKnown, UsbTypes
<1>2. BadgeInv'
  BY CliKnown, UsbBadge
<1> QED
  BY <1>1, <1>2, CliKnown DEF CliGood, CliKept, CliInv

(* --------------------------- the npm application ------------------------- *)

NpmGood == tool = "npm" /\ TypeInv /\ BadgeInv /\ NpmInv /\ console = NoConsole
NpmKept == NpmGood' /\ MemoryAllowed

\* What holds while the application is open.
LEMMA NpmKnown ==
  ASSUME NpmGood
  PROVE  /\ TypeInv /\ BadgeInv /\ tool = "npm" /\ console = NoConsole /\ console.other = Idle
         /\ NpmTask(task, chip, image, faults, usb) /\ (image # NoFile => NpmImage[image].ok)
         /\ Quiet(console.other) /\ ErasesFirst
BY AloneIsIdle DEF NpmGood, NpmInv, ErasesFirst

\* A step of a task that goes on, or of no task while the chip is left alone.
LEMMA NpmGoesOn ==
  ASSUME NpmGood, UNCHANGED <<world, badge, before>>,
         Quiet(task) => Quiet(task') /\ chip' = chip /\ faults' = faults,
         chip' \in ChipSet, session' \in 0 .. usb.object, OpOK(task', disk, usb.object),
         image' \in disk \cup {NoFile}, image' # NoFile => NpmImage[image'].ok,
         option' \in BOOLEAN, parting' \in BOOLEAN,
         faults' \in 0 .. MaxFaults, faults' >= faults, NpmTask(task', chip', image', faults', usb), MemoryAllowed
  PROVE  NpmKept
<1>1. TypeInv /\ BadgeInv /\ tool = "npm" /\ console = NoConsole /\ ErasesFirst
  BY NpmKnown
<1>2. before' \in Memory /\ badge'.file \in disk \cup {NoFile} /\ badge'.checked \in BOOLEAN
      /\ faults \in Nat /\ MaxFaults \in Nat /\ faults' \in Nat
  BY <1>1, TypesKnown
<1>3. TypeInv'
  BY <1>1, <1>2, TypesStep
<1>4. tool' = tool /\ console' = console /\ usb' = usb /\ disk' = disk
  BY DEF world
<1>5. (ErasesFirst' <=> ErasesFirst) /\ Quiet(console'.other)
  BY <1>1, <1>4, NpmKnown DEF ErasesFirst
<1>6. BadgeInv'
  BY <1>1, <1>2, <1>4, <1>5, BadgeSame
<1>7. NpmInv'
  BY <1>4 DEF NpmInv
<1> QED
  BY <1>1, <1>3, <1>4, <1>6, <1>7 DEF NpmGood, NpmKept

\* A step that ends a task.
LEMMA NpmEnds ==
  ASSUME NpmGood, UNCHANGED <<world, option, parting, before>>, task' = Idle,
         chip' \in ChipSet, session' \in 0 .. usb.object,
         image' \in disk \cup {NoFile}, image' # NoFile => NpmImage[image'].ok,
         faults' \in 0 .. MaxFaults, badge'.file \in disk \cup {NoFile}, badge'.checked \in BOOLEAN,
         BadgeInv', MemoryAllowed
  PROVE  NpmKept
<1>1. TypeInv /\ tool = "npm" /\ console = NoConsole
  BY NpmKnown
<1>2. option' \in BOOLEAN /\ parting' \in BOOLEAN /\ before' \in Memory
      /\ OpOK(task', disk, usb.object)
  BY <1>1, TypesKnown
<1>3. TypeInv'
  BY <1>1, <1>2, TypesStep
<1>4. NpmTask(Idle, chip', image', faults', usb')
  BY DEF NpmTask, Idle
<1>5. NpmInv'
  BY <1>4 DEF NpmInv
<1> QED
  BY <1>1, <1>3, <1>5 DEF NpmGood, NpmKept, world

LEMMA NpmFileChangeKeeps ==
  ASSUME NpmGood, NEW f \in disk, NpmFileChange(f)
  PROVE  NpmKept
<1> DEFINE op == [Idle EXCEPT !.kind = "file", !.at = "reading", !.file = f]
<1>1. task' = op /\ UNCHANGED <<world, chip, pageState, badge, before, faults>>
  BY DEF NpmFileChange
<1>2. OpOK(op, disk, usb.object)
  <2>1. "file" \in Names /\ "reading" \in Names /\ f \in disk \cup {NoFile}
    BY DEF Names
  <2> QED
    BY <2>1, NpmKnown, TypesKnown, OpBegins
<1>3. op.kind = "file" /\ op.at = "reading"
  BY DEF Idle
<1> HIDE DEF op
<1>4. NpmTask(op, chip, image, faults, usb) /\ Quiet(op)
  BY <1>3 DEF NpmTask, Quiet
<1>5. MemoryAllowed
  BY <1>1, NothingChanged
<1>6. UNCHANGED <<session, image, option, parting>>
  BY <1>1 DEF pageState
<1>7. faults' \in 0 .. MaxFaults /\ faults' >= faults
  BY <1>1, NpmKnown, TypesKnown
<1> QED
  BY <1>1, <1>2, <1>4, <1>5, <1>6, <1>7, NpmKnown, TypesKnown, NpmGoesOn

LEMMA NpmReadImageKeeps ==
  ASSUME NpmGood, NpmReadImage
  PROVE  NpmKept
<1>1. /\ image' = IF NpmImage[task.file].ok THEN task.file ELSE NoFile
      /\ badge' = Shown(IF NpmImage[task.file].ok THEN "image" ELSE "image error", NoFile, FALSE, "")
      /\ task' = Idle /\ UNCHANGED <<world, chip, session, option, parting, before, faults>>
  BY DEF NpmReadImage
<1>2. task.file \in disk \cup {NoFile}
  BY NpmKnown, TypesKnown, OpFields
<1>3. image' \in disk \cup {NoFile} /\ (image' # NoFile => NpmImage[image'].ok)
  BY <1>1, <1>2
<1>4. badge'.text \in {"image", "image error"} /\ badge'.file = NoFile /\ badge'.checked = FALSE
  BY <1>1 DEF Shown
<1>5. BadgeInv'
  BY <1>4, BadgeOther
<1>6. MemoryAllowed
  BY <1>1, NothingChanged
<1> QED
  BY <1>1, <1>3, <1>4, <1>5, <1>6, NpmKnown, TypesKnown, NpmEnds

LEMMA NpmLoadHexTextKeeps ==
  ASSUME NpmGood, NEW f \in disk, NpmLoadHexText(f)
  PROVE  NpmKept
<1>1. /\ NpmImage[f].ok /\ image' = f /\ task' = IF task = Idle THEN Idle ELSE [task EXCEPT !.shared = TRUE]
      /\ UNCHANGED <<world, chip, session, option, parting, badge, before, faults>>
  BY DEF NpmLoadHexText
<1>2. OpOK(task, disk, usb.object) /\ task \in OpSet(disk, usb.object) /\ f \in HexFiles
  BY NpmKnown, TypesKnown
<1>3. OpOK(task', disk, usb.object) /\ NpmTask(task', chip, f, faults, usb) /\ (Quiet(task) => Quiet(task'))
  <2>1. CASE task = Idle
    BY <1>1, <1>2, <2>1, AloneIsIdle DEF NpmTask, Idle
  <2>2. CASE task # Idle
    <3> DEFINE op == [task EXCEPT !.shared = TRUE]
    <3>1. task.at # "idle"
      BY <1>2, <2>2, OpFields
    <3>2. OpOK(op, disk, usb.object)
      BY <1>2, <3>1, OpStays
    <3>3. /\ op.kind = task.kind /\ op.at = task.at /\ op.left = task.left /\ op.file = task.file
          /\ op.proc = task.proc /\ op.checked = task.checked /\ op.shared = TRUE
      BY <1>2 DEF OpSet
    <3> HIDE DEF op
    <3>4. NpmTask(op, chip, f, faults, usb)
      BY <1>1, <1>2, <3>3, NpmKnown DEF NpmTask
    <3>5. task' = op
      BY <1>1, <2>2 DEF op
    <3> QED
      BY <3>2, <3>3, <3>4, <3>5 DEF Quiet
  <2> QED
    BY <2>1, <2>2
<1>4. MemoryAllowed
  BY <1>1, NothingChanged
<1>5. image' \in disk \cup {NoFile} /\ (image' # NoFile => NpmImage[image'].ok)
  BY <1>1
<1>6. faults' \in 0 .. MaxFaults /\ faults' >= faults
  BY <1>1, NpmKnown, TypesKnown
<1> QED
  BY <1>1, <1>3, <1>4, <1>5, <1>6, NpmKnown, TypesKnown, NpmGoesOn

LEMMA NpmToggleVerifyKeeps ==
  ASSUME NpmGood, NpmToggleVerify
  PROVE  NpmKept
<1>1. option' = ~option /\ UNCHANGED <<world, chip, session, image, task, parting, badge, before, faults>>
  BY DEF NpmToggleVerify
<1>2. option' \in BOOLEAN
  BY <1>1
<1>3. MemoryAllowed
  BY <1>1, NothingChanged
<1>4. faults' \in 0 .. MaxFaults /\ faults' >= faults
  BY <1>1, NpmKnown, TypesKnown
<1>5. NpmTask(task', chip', image', faults', usb)
  BY <1>1, NpmKnown
<1> QED
  BY <1>1, <1>2, <1>3, <1>4, <1>5, NpmKnown, TypesKnown, NpmGoesOn

LEMMA NpmBeginKeeps ==
  ASSUME NpmGood, NEW kind \in NpmKinds, NpmBegin(kind)
  PROVE  NpmKept
<1> DEFINE step == IF kind = "disconnect" THEN "release"
                   ELSE IF kind \in {"flash", "recover"} THEN "ensure" ELSE "choose"
           op == [Idle EXCEPT !.kind = kind, !.proc = session, !.at = step]
<1>0. /\ task = Idle /\ task' = op /\ (kind = "flash" => image # NoFile)
      /\ badge' = IF kind = "disconnect" THEN badge ELSE Working
      /\ UNCHANGED <<world, chip, pageState, before, faults>>
  BY DEF NpmBegin
<1>1. step \in {"release", "ensure", "choose"} /\ kind \in Names /\ step \in Names /\ step # "idle"
  BY DEF NpmKinds, Names
<1>2. /\ step = "ensure" => kind \in {"flash", "recover"}
      /\ kind = "disconnect" => step = "release"
  OBVIOUS
<1>3. kind = "flash" => image \in HexFiles /\ NpmImage[image].ok
  BY <1>0, NpmKnown, TypesKnown
<1> HIDE DEF step
<1>4. OpOK(op, disk, usb.object)
  BY <1>1, NpmKnown, TypesKnown, OpBegins
<1>5. op.kind = kind /\ op.at = step
  BY DEF Idle
<1> HIDE DEF op
<1>6. NpmTask(op, chip, image, faults, usb)
  BY <1>1, <1>2, <1>3, <1>5 DEF NpmTask
<1>7. MemoryAllowed
  BY <1>0, NothingChanged
<1>8. UNCHANGED <<session, image, option, parting>>
  BY <1>0 DEF pageState
<1>9. faults' \in 0 .. MaxFaults /\ faults' >= faults
  BY <1>0, NpmKnown, TypesKnown
<1>10. CASE kind = "disconnect"
  <2>1. Quiet(op) /\ badge' = badge
    BY <1>0, <1>2, <1>5, <1>10 DEF Quiet
  <2> QED
    BY <1>0, <1>4, <1>6, <1>7, <1>8, <1>9, <2>1, NpmKnown, TypesKnown, NpmGoesOn
<1>11. CASE kind # "disconnect"
  <2>1. badge'.text = "working" /\ badge'.file = NoFile /\ badge'.checked = FALSE
    BY <1>0, <1>11 DEF Working, Shown
  <2>2. BadgeInv'
    BY <2>1, BadgeOther
  <2>3. TypeInv'
    BY <1>0, <1>4, <1>8, <2>1, NpmKnown, TypesKnown, TypesStep
  <2>4. NpmInv'
    BY <1>0, <1>6, <1>8, NpmKnown DEF NpmInv, world
  <2> QED
    BY <1>0, <1>7, <2>2, <2>3, <2>4, NpmKnown DEF NpmGood, NpmKept, world
<1> QED
  BY <1>10, <1>11

LEMMA NpmUnpluggedKeeps ==
  ASSUME NpmGood, NpmUnplugged
  PROVE  NpmKept
<1>1. /\ parting' = FALSE /\ session' = 0
      /\ UNCHANGED <<world, chip, image, option, task, badge, before, faults>>
  BY DEF NpmUnplugged
<1>2. MemoryAllowed
  BY <1>1, NothingChanged
<1>3. faults' \in 0 .. MaxFaults /\ faults' >= faults
  BY <1>1, NpmKnown, TypesKnown
<1>4. NpmTask(task', chip', image', faults', usb) /\ parting' \in BOOLEAN
  BY <1>1, NpmKnown
<1> QED
  BY <1>1, <1>2, <1>3, <1>4, NpmKnown, TypesKnown, NpmGoesOn

LEMMA NpmUsbKeeps ==
  ASSUME NpmGood, Unplug \/ Plug
  PROVE  NpmKept
<1>1. TypeInv' /\ MemoryAllowed
      /\ UNCHANGED <<tool, disk, chip, session, image, option, task, console, before, faults>>
  BY NpmKnown, UsbTypes
<1>2. BadgeInv'
  BY NpmKnown, UsbBadge
<1>3. task.proc \in 0 .. usb.object /\ usb.object \in Nat
  BY NpmKnown, TypesKnown, OpFields
<1>4. usb'.in /\ task.proc = usb'.object => usb.in /\ task.proc = usb.object
  <2>1. CASE Unplug
    <3>1. usb' = [usb EXCEPT !.in = FALSE] /\ usb \in [object : 1 .. MaxPlugs, in : BOOLEAN]
      BY <2>1, NpmKnown DEF Unplug, TypeInv
    <3>2. usb'.in = FALSE
      BY <3>1
    <3> QED
      BY <3>2
  <2>2. CASE Plug
    <3>1. usb' = [object |-> usb.object + 1, in |-> TRUE]
      BY <2>2 DEF Plug
    <3>2. usb'.object = usb.object + 1
      BY <3>1
    <3>3. task.proc # usb.object + 1
      BY <1>3
    <3> QED
      BY <3>2, <3>3
  <2> QED
    BY <2>1, <2>2
<1>5. NpmTask(task, chip, image, faults, usb')
  BY <1>4, NpmKnown DEF NpmTask
<1>6. NpmInv'
  BY <1>1, <1>5, NpmKnown DEF NpmInv
<1> QED
  BY <1>1, <1>2, <1>6, NpmKnown DEF NpmGood, NpmKept

\* Before the probe is there a flash has no file of its own.
LEMMA NpmTaskEarly ==
  ASSUME NEW op, NEW c, NEW img, NEW f, NEW u, NpmTask(op, c, img, f, u), NEW new, NEW d, NEW g,
         new.kind = op.kind, new.at \in {"choose", "release", "connect"}
  PROVE  NpmTask(new, d, img, g, u)
BY DEF NpmTask

\* A step that changes only the chip, the faults and the task.
LEMMA NpmPlainStep ==
  ASSUME NpmGood, UNCHANGED <<world, pageState, badge, before>>, NEW c, NEW op, NEW g,
         chip' = c, task' = op, faults' = g,
         ~Quiet(task), c \in ChipSet, OpOK(op, disk, usb.object),
         g \in 0 .. MaxFaults, g >= faults, NpmTask(op, c, image, g, usb), MemoryAllowed
  PROVE  NpmKept
<1>1. UNCHANGED <<session, image, option, parting>>
  BY DEF pageState
<1> QED
  BY <1>1, NpmKnown, TypesKnown, NpmGoesOn

\* A step whose transfers answer.
LEMMA NpmStepGoesOn ==
  ASSUME NpmGood, NEW s, NEW c, NEW op, s \notin {"idle", "reading", "close", "release"}, Step("npm", s, c, op),
         c \in ChipSet, OpOK(op, disk, usb.object), NpmTask(op, c, image, faults, usb), MemoryAllowed
  PROVE  NpmKept
<1>1. chip' = c /\ task' = op /\ UNCHANGED <<world, pageState, badge, before>> /\ faults' = faults
  BY DEF Step
<1>2. ~Quiet(task)
  BY DEF Step, At, Quiet
<1>3. faults \in 0 .. MaxFaults /\ faults >= faults
  BY NpmKnown, TypesKnown
<1> QED
  BY <1>1, <1>2, <1>3, NpmPlainStep

\* What the application knows while it flashes.
LEMMA NpmFlashing ==
  ASSUME NpmGood, task.at \in {"access", "halt", "halt2", "stub", "program", "uninit", "verify", "reset"}
  PROVE  /\ task.kind = "flash" /\ task.file \in HexFiles /\ NpmImage[task.file].ok
         /\ image \in HexFiles /\ NpmImage[image].ok /\ (~task.shared => task.file = image)
         /\ Job(Want(task.file), NpmImage[task.file].parts) /\ Job(Want(task.file), NpmProgram[task.file])
         /\ task \in OpSet(disk, usb.object)
<1>1. /\ task.kind = "flash" /\ task.file \in HexFiles /\ NpmImage[task.file].ok
      /\ image \in HexFiles /\ NpmImage[image].ok /\ (~task.shared => task.file = image)
  BY NpmKnown DEF NpmTask
<1> QED
  BY <1>1, NpmJob, NpmKnown, TypesKnown

\* A flash and a recovery may change the memory, once the chip is open.
LEMMA NpmMayChange ==
  ASSUME NpmGood, task.kind \in {"flash", "recover"}, ~chip.locked \/ ~chip'.locked
  PROVE  MemoryAllowed
BY NpmKnown, OpMayChange

\* The first step of a task that has its probe.
LEMMA NpmGoes ==
  ASSUME NpmGood, task.kind \in {"flash", "recover"}, task.at # "idle"
  PROVE  OpOK(NpmGo, disk, usb.object) /\ NpmTask(NpmGo, chip, image, faults, usb)
<1>1. task \in OpSet(disk, usb.object) /\ image \in disk \cup {NoFile}
  BY NpmKnown, TypesKnown
<1>2. CASE task.kind = "flash"
  <2> DEFINE op == [task EXCEPT !.at = "access", !.file = image]
  <2>1. NpmGo = op
    BY <1>2 DEF NpmGo
  <2>2. "access" \in Names
    BY DEF Names
  <2>3. OpOK(op, disk, usb.object)
    BY <1>1, <2>2, OpGoesOn
  <2>4. op.kind = "flash" /\ op.at = "access" /\ op.file = image
    BY <1>1, <1>2 DEF OpSet
  <2> HIDE DEF op
  <2>5. NpmTask(op, chip, image, faults, usb)
    BY <1>2, <2>4, NpmKnown DEF NpmTask
  <2> QED
    BY <2>1, <2>3, <2>5
<1>3. CASE task.kind # "flash"
  <2> DEFINE op == NpmGo
  <2>1. op = Moved(task, "massErase") /\ "massErase" \in Names
    BY <1>3 DEF NpmGo, To, Moved, Names
  <2> HIDE DEF op
  <2>2. OpOK(op, disk, usb.object) /\ op.kind = task.kind /\ op.at = "massErase"
    BY <1>1, <2>1, OpTo
  <2>3. NpmTask(op, chip, image, faults, usb)
    BY <1>3, <2>2 DEF NpmTask
  <2> QED
    BY <2>2, <2>3 DEF op
<1> QED
  BY <1>2, <1>3

LEMMA NpmEnsureConnectedProbeKeeps ==
  ASSUME NpmGood, NpmEnsureConnectedProbe
  PROVE  NpmKept
<1>1. /\ task.at = "ensure" /\ task' = IF session # 0 THEN NpmGo ELSE To("choose")
      /\ UNCHANGED <<world, chip, pageState, badge, before, faults>>
  BY DEF NpmEnsureConnectedProbe, At
<1>2. task.kind \in {"flash", "recover"} /\ task \in OpSet(disk, usb.object) /\ chip \in ChipSet
      /\ faults \in 0 .. MaxFaults /\ faults >= faults
  BY <1>1, NpmKnown, TypesKnown DEF NpmTask
<1> DEFINE op == To("choose")
<1>3. op = Moved(task, "choose") /\ "choose" \in Names
  BY DEF To, Moved, Names
<1> HIDE DEF op
<1>4. OpOK(op, disk, usb.object) /\ op.kind = task.kind /\ op.at = "choose"
  BY <1>2, <1>3, OpTo
<1>5. NpmTask(op, chip, image, faults, usb)
  BY <1>4, NpmKnown, NpmTaskEarly
<1>6. OpOK(task', disk, usb.object) /\ NpmTask(task', chip, image, faults, usb)
  BY <1>1, <1>2, <1>4, <1>5, NpmGoes DEF op
<1>7. ~Quiet(task)
  BY <1>1 DEF Quiet
<1>8. MemoryAllowed
  BY <1>1, NothingChanged
<1> QED
  BY <1>1, <1>2, <1>6, <1>7, <1>8, NpmPlainStep

LEMMA NpmChooseProbeKeeps ==
  ASSUME NpmGood, NpmChooseProbe
  PROVE  NpmKept
<1> DEFINE step == IF session = usb.object THEN "connect" ELSE "release"
           op == [task EXCEPT !.proc = usb.object, !.at = step]
<1>1. task.at = "choose" /\ task' = op /\ UNCHANGED <<world, chip, pageState, badge, before, faults>>
  BY DEF NpmChooseProbe, At
<1>2. step \in {"connect", "release"} /\ step \in Names /\ step # "idle"
  BY DEF Names
<1> HIDE DEF step
<1>3. task \in OpSet(disk, usb.object) /\ usb.object \in 0 .. usb.object /\ chip \in ChipSet
      /\ faults \in 0 .. MaxFaults /\ faults >= faults
  BY NpmKnown, TypesKnown
<1>4. OpOK(op, disk, usb.object)
  BY <1>2, <1>3, OpGoesOn
<1>5. op.kind = task.kind /\ op.at = step
  BY <1>3 DEF OpSet
<1> HIDE DEF op
<1>6. NpmTask(op, chip, image, faults, usb)
  BY <1>2, <1>5, NpmKnown, NpmTaskEarly
<1>7. ~Quiet(task)
  BY <1>1 DEF Quiet
<1>8. MemoryAllowed
  BY <1>1, NothingChanged
<1> QED
  BY <1>1, <1>3, <1>4, <1>6, <1>7, <1>8, NpmPlainStep

LEMMA NpmReleaseProbeKeeps ==
  ASSUME NpmGood, NpmReleaseProbe
  PROVE  NpmKept
<1>1. chip' \in {chip, AfterReset(chip)} /\ session' = 0 /\ UNCHANGED <<world, image, option, parting, before>>
      /\ task.at = "release"
  BY DEF NpmReleaseProbe, At
<1>2. chip' \in ChipSet /\ chip'.mem = chip.mem
  <2>1. chip \in ChipSet
    BY NpmKnown, TypesKnown
  <2> QED
    BY <1>1, <2>1, AfterResetFacts
<1>3. faults' \in 0 .. MaxFaults /\ faults' >= faults
  <2>1. faults \in 0 .. MaxFaults /\ MaxFaults \in Nat /\ faults \in Nat
    BY NpmKnown, TypesKnown
  <2>2. faults' = faults \/ (faults < MaxFaults /\ faults' = faults + 1)
    BY DEF NpmReleaseProbe
  <2> QED
    BY <2>1, <2>2
<1>4. MemoryAllowed
  BY <1>2, NothingChanged
<1>5. 0 \in 0 .. usb.object
  BY NpmKnown, TypesKnown
<1>6. session' \in 0 .. usb.object
  BY <1>1, <1>5
<1>7. CASE task.kind = "disconnect"
  <2>1. task' = Idle /\ badge' = Shown("ready", NoFile, FALSE, "")
    BY <1>7 DEF NpmReleaseProbe
  <2>2. badge'.text = "ready" /\ badge'.file = NoFile /\ badge'.checked = FALSE
    BY <2>1 DEF Shown
  <2>3. BadgeInv'
    BY <2>2, BadgeOther
  <2> QED
    BY <1>1, <1>2, <1>3, <1>4, <1>6, <2>1, <2>2, <2>3, NpmKnown, TypesKnown, NpmEnds
<1>8. CASE task.kind # "disconnect"
  <2> DEFINE op == To("connect")
  <2>1. task' = op /\ badge' = badge
    BY <1>8 DEF NpmReleaseProbe
  <2>2. op = Moved(task, "connect") /\ "connect" \in Names /\ task \in OpSet(disk, usb.object)
    BY NpmKnown, TypesKnown DEF Names, To, Moved
  <2> HIDE DEF op
  <2>3. OpOK(op, disk, usb.object) /\ op.kind = task.kind /\ op.at = "connect"
    BY <2>2, OpTo
  <2>4. NpmTask(op, chip', image, faults', usb)
    BY <2>3, NpmKnown, NpmTaskEarly
  <2>5. ~Quiet(task)
    BY <1>1, <1>8 DEF Quiet
  <2> QED
    BY <1>1, <1>2, <1>3, <1>4, <1>6, <2>1, <2>3, <2>4, <2>5, NpmKnown, TypesKnown, NpmGoesOn
<1> QED
  BY <1>7, <1>8

LEMMA NpmConnectDeviceKeeps ==
  ASSUME NpmGood, NpmConnectDevice
  PROVE  NpmKept
<1>1. /\ task.at = "connect" /\ session' = task.proc
      /\ task' = IF task.kind \in {"flash", "recover"} THEN NpmGo ELSE To("look")
      /\ UNCHANGED <<world, chip, image, option, parting, badge, before, faults>>
  BY DEF NpmConnectDevice, At
<1>2. chip \in ChipSet /\ OpOK(task, disk, usb.object) /\ faults \in 0 .. MaxFaults /\ faults >= faults
      /\ task \in OpSet(disk, usb.object)
  BY NpmKnown, TypesKnown
<1>3. session' \in 0 .. usb.object
  BY <1>1, <1>2, OpFields
<1>4. MemoryAllowed
  BY <1>1, NothingChanged
<1>5. ~Quiet(task)
  BY <1>1 DEF Quiet
<1> DEFINE op == To("look")
<1>6. op = Moved(task, "look") /\ "look" \in Names
  BY DEF Names, To, Moved
<1>7. ASSUME task.kind \notin {"flash", "recover"}
      PROVE  OpOK(op, disk, usb.object) /\ NpmTask(op, chip, image, faults, usb)
  <2> HIDE DEF op
  <2>1. OpOK(op, disk, usb.object) /\ op.kind = task.kind /\ op.at = "look"
    BY <1>2, <1>6, OpTo
  <2>2. NpmTask(op, chip, image, faults, usb)
    BY <1>7, <2>1, NpmKnown DEF NpmTask
  <2> QED
    BY <2>1, <2>2
<1>8. OpOK(task', disk, usb.object) /\ NpmTask(task', chip, image, faults, usb)
  BY <1>1, <1>7, NpmGoes
<1> HIDE DEF op
<1> QED
  BY <1>1, <1>2, <1>3, <1>4, <1>5, <1>8, NpmKnown, TypesKnown, NpmGoesOn

LEMMA NpmReadAccessStateKeeps ==
  ASSUME NpmGood, NpmReadAccessState
  PROVE  NpmKept
<1>1. /\ task' = Idle /\ badge' = Shown("ready", NoFile, FALSE, "")
      /\ UNCHANGED <<world, chip, pageState, before, faults>>
  BY DEF NpmReadAccessState
<1>2. badge'.text = "ready" /\ badge'.file = NoFile /\ badge'.checked = FALSE
  BY <1>1 DEF Shown
<1>3. BadgeInv'
  BY <1>2, BadgeOther
<1>4. MemoryAllowed
  BY <1>1, NothingChanged
<1>5. UNCHANGED <<session, image, option, parting>>
  BY <1>1 DEF pageState
<1> QED
  BY <1>1, <1>2, <1>3, <1>4, <1>5, NpmKnown, TypesKnown, NpmEnds

LEMMA NpmEnsureFlashAccessKeeps ==
  ASSUME NpmGood, NpmEnsureFlashAccess
  PROVE  NpmKept
<1> DEFINE op == To("halt")
<1>1. Step("npm", "access", chip, op) /\ task.at = "access" /\ chip' = chip /\ ~chip.locked
  BY DEF NpmEnsureFlashAccess, Step, At
<1>2. task.kind = "flash" /\ task \in OpSet(disk, usb.object) /\ chip \in ChipSet
  BY <1>1, NpmFlashing, NpmKnown, TypesKnown
<1>3. op = Moved(task, "halt") /\ "halt" \in Names
  BY DEF To, Moved, Names
<1> HIDE DEF op
<1>4. OpOK(op, disk, usb.object) /\ op.kind = task.kind /\ op.at = "halt" /\ op.file = task.file /\ op.shared = task.shared
  BY <1>2, <1>3, OpTo
<1>5. NpmTask(op, chip, image, faults, usb)
  BY <1>1, <1>2, <1>4, NpmFlashing DEF NpmTask
<1>6. MemoryAllowed
  BY <1>1, NothingChanged
<1> QED
  BY <1>1, <1>2, <1>4, <1>5, <1>6, NpmStepGoesOn

LEMMA NpmResetAndHaltKeeps ==
  ASSUME NpmGood, NpmResetAndHalt
  PROVE  NpmKept
<1> DEFINE c == [AfterReset(chip) EXCEPT !.core = "halted"]
<1>1. chip \in ChipSet /\ task \in OpSet(disk, usb.object)
  BY NpmKnown, TypesKnown
<1>2. c \in ChipSet /\ c.mem = chip.mem /\ c.locked = chip.locked
  BY <1>1 DEF ChipSet, AfterReset
<1>3. chip' = c
  BY DEF NpmResetAndHalt, Step
<1>4. MemoryAllowed
  BY <1>2, <1>3, NothingChanged
<1>5. CASE Step("npm", "halt", c, To("massErase"))
  <2> DEFINE op == To("massErase")
  <2>1. task.at = "halt" /\ op = Moved(task, "massErase") /\ "massErase" \in Names
    BY <1>5 DEF To, Moved, Names, Step, At
  <2> HIDE DEF op, c
  <2>2. /\ OpOK(op, disk, usb.object) /\ op.kind = task.kind /\ op.at = "massErase" /\ op.file = task.file
        /\ op.shared = task.shared
    BY <1>1, <2>1, OpTo
  <2>3. NpmTask(op, c, image, faults, usb)
    BY <1>1, <2>1, <2>2, NpmFlashing DEF NpmTask
  <2> QED
    BY <1>2, <1>4, <1>5, <2>2, <2>3, NpmStepGoesOn DEF op
<1>6. CASE Step("npm", "halt2", c, To("stub"))
  <2> DEFINE op == To("stub")
  <2>1. task.at = "halt2" /\ op = Moved(task, "stub") /\ "stub" \in Names
    BY <1>6 DEF To, Moved, Names, Step, At
  <2> HIDE DEF op, c
  <2>2. /\ OpOK(op, disk, usb.object) /\ op.kind = task.kind /\ op.at = "stub" /\ op.file = task.file
        /\ op.shared = task.shared
    BY <1>1, <2>1, OpTo
  <2>3. ~c.locked /\ c.mem = Blank
    BY <1>2, <2>1, NpmKnown DEF NpmTask
  <2>4. NpmTask(op, c, image, faults, usb)
    BY <2>1, <2>2, <2>3, NpmFlashing DEF NpmTask
  <2> QED
    BY <1>2, <1>4, <1>6, <2>2, <2>4, NpmStepGoesOn DEF op
<1> HIDE DEF c
<1> QED
  BY <1>5, <1>6 DEF NpmResetAndHalt, c

LEMMA NpmMassEraseAndReconnectKeeps ==
  ASSUME NpmGood, NpmMassEraseAndReconnect
  PROVE  NpmKept
<1> DEFINE c == AfterMassErase(chip)
<1>1. task.at = "massErase" /\ chip' = c /\ UNCHANGED <<world, pageState, before, faults>>
  BY DEF NpmMassEraseAndReconnect, At
<1>2. chip \in ChipSet /\ task \in OpSet(disk, usb.object) /\ task.kind \in {"flash", "recover"}
      /\ faults \in 0 .. MaxFaults /\ faults >= faults /\ session \in 0 .. usb.object
      /\ image \in disk \cup {NoFile} /\ (image # NoFile => NpmImage[image].ok)
  BY <1>1, NpmKnown, TypesKnown DEF NpmTask
<1>3. c \in ChipSet /\ c.mem = Blank /\ ~c.locked
  BY <1>2, AfterMassEraseFacts
<1> HIDE DEF c
<1>4. MemoryAllowed
  BY <1>1, <1>2, <1>3, NpmMayChange
<1>5. UNCHANGED <<session, image, option, parting>>
  BY <1>1 DEF pageState
<1>6. CASE task.kind = "recover"
  <2>1. task' = Idle /\ badge' = Shown("recovered", NoFile, FALSE, "")
    BY <1>6 DEF NpmMassEraseAndReconnect
  <2>2. badge'.text = "recovered" /\ badge'.file = NoFile /\ badge'.checked = FALSE
    BY <2>1 DEF Shown
  <2>3. BadgeInv'
    BY <2>2, BadgeOther
  <2>4. badge'.file \in disk \cup {NoFile} /\ badge'.checked \in BOOLEAN
    BY <2>2, NpmKnown, TypesKnown
  <2> QED
    BY <1>1, <1>2, <1>3, <1>4, <1>5, <2>1, <2>3, <2>4, NpmEnds
<1>7. CASE task.kind = "flash"
  <2> DEFINE op == To("halt2")
  <2>1. task' = op /\ badge' = badge
    BY <1>7 DEF NpmMassEraseAndReconnect
  <2>2. op = Moved(task, "halt2") /\ "halt2" \in Names
    BY DEF To, Moved, Names
  <2> HIDE DEF op
  <2>3. /\ OpOK(op, disk, usb.object) /\ op.kind = task.kind /\ op.at = "halt2" /\ op.file = task.file
        /\ op.shared = task.shared
    BY <1>2, <2>2, OpTo
  <2>4. NpmTask(op, c, image, faults, usb)
    BY <1>1, <1>3, <1>7, <2>3, NpmKnown DEF NpmTask
  <2>5. ~Quiet(task)
    BY <1>1 DEF Quiet
  <2> QED
    BY <1>1, <1>2, <1>3, <1>4, <2>1, <2>3, <2>4, <2>5, NpmPlainStep
<1> QED
  BY <1>2, <1>6, <1>7

LEMMA NpmInitFlashStubKeeps ==
  ASSUME NpmGood, NpmInitFlashStub
  PROVE  NpmKept
<1> DEFINE parts == NpmProgram[task.file]
           want == Want(task.file)
           op == With("program", parts)
           c == [chip EXCEPT !.algo = "program"]
<1>1. Step("npm", "stub", c, op) /\ task.at = "stub" /\ chip' = c
  BY DEF NpmInitFlashStub, Step, At
<1>2. task.kind = "flash" /\ task.file \in HexFiles /\ Job(want, parts) /\ task \in OpSet(disk, usb.object)
  BY <1>1, NpmFlashing
<1>3. chip.mem = Blank /\ ~chip.locked /\ chip \in ChipSet
  BY <1>1, NpmKnown, TypesKnown DEF NpmTask
<1>4. c \in ChipSet /\ c.mem = chip.mem /\ c.locked = chip.locked
  BY <1>3 DEF ChipSet
<1> HIDE DEF c
<1>5. MemoryAllowed
  BY <1>1, <1>4, NothingChanged
<1>6. op = MovedWith(task, "program", parts) /\ "program" \in Names
  BY DEF With, MovedWith, Names
<1> HIDE DEF op, parts, want
<1>7. Todo(want, Sure, parts) /\ (\A a \in DOMAIN want : Gives(Range(parts), a, want[a])) /\ parts \in Lefts
  BY <1>2 DEF Job, Todo, Lefts
<1>8. /\ OpOK(op, disk, usb.object) /\ op.kind = task.kind /\ op.at = "program" /\ op.file = task.file
      /\ op.left = parts /\ op.shared = task.shared
  BY <1>2, <1>6, <1>7, OpWith
<1>9. Writing(want, Blank, Sure, parts, c.mem, faults)
  <2>1. Clean(want, Blank, c.mem)
    BY <1>3, <1>4 DEF Clean
  <2> QED
    BY <1>7, <2>1, StartWriting
<1>10. NpmTask(op, c, image, faults, usb)
  BY <1>1, <1>3, <1>4, <1>8, <1>9, NpmFlashing DEF NpmTask, want
<1> QED
  BY <1>1, <1>4, <1>5, <1>8, <1>10, NpmStepGoesOn

\* What the application knows when it programs a block.
LEMMA NpmProgramming ==
  ASSUME NpmGood, task.at = "program"
  PROVE  /\ task.kind = "flash" /\ task.file \in HexFiles
         /\ task \in OpSet(disk, usb.object) /\ ~chip.locked /\ chip \in ChipSet
         /\ chip.mem \in Memory
         /\ Writing(Want(task.file), Blank, Sure, task.left, chip.mem, faults)
         /\ task.left \in Parts /\ task.left # <<>> /\ Tail(task.left) \in Lefts
         /\ Head(task.left).address \in Nat /\ Head(task.left).data \in Seq(Bytes)
         /\ PartSpan(Head(task.left)) \subseteq DOMAIN Factory
         /\ ~(Len(task.left) > 1) => Tail(task.left) = <<>>
<1> DEFINE want == Want(task.file)
           left == task.left
<1>1. /\ task.kind = "flash" /\ task.file \in HexFiles
      /\ Job(want, NpmProgram[task.file]) /\ task \in OpSet(disk, usb.object)
  BY NpmFlashing
<1>2. Writing(want, Blank, Sure, left, chip.mem, faults) /\ ~chip.locked
  BY NpmKnown DEF NpmTask
<1>3. chip \in ChipSet /\ chip.mem \in Memory
  BY NpmKnown, TypesKnown
<1> HIDE DEF want, left
<1>4. Todo(want, Sure, left)
  BY <1>2 DEF Writing
<1>5. /\ left \in Parts /\ left # <<>> /\ Tail(left) \in Lefts
      /\ Head(left).address \in Nat /\ Head(left).data \in Seq(Bytes)
      /\ PartSpan(Head(left)) \subseteq DOMAIN want
      /\ ~(Len(left) > 1) => Tail(left) = <<>>
  BY <1>4, NextPart
<1>6. DOMAIN want \subseteq DOMAIN Factory
  BY <1>1 DEF Job
<1> QED
  BY <1>1, <1>2, <1>3, <1>5, <1>6 DEF want, left

\* A block went into the memory, well or badly.
LEMMA NpmBlockDone ==
  ASSUME NpmGood, task.at = "program", NEW new \in ChipSet, NEW g, g \in 0 .. MaxFaults, g >= faults,
         new.locked = chip.locked,
         \/ WrittenOver(chip.mem, Head(task.left), new.mem) /\ g = faults
         \/ PartlyWritten(chip.mem, Head(task.left), new.mem) /\ g # 0,
         UNCHANGED <<world, pageState, badge, before>>, chip' = new, faults' = g,
         task' = Onward(To("uninit"))
  PROVE  NpmKept
<1> DEFINE want == Want(task.file)
           op == Onward(To("uninit"))
           p == Head(task.left)
           t == Tail(task.left)
<1>1. /\ task.kind = "flash" /\ task.file \in HexFiles
      /\ task \in OpSet(disk, usb.object) /\ ~chip.locked /\ chip \in ChipSet
      /\ chip.mem \in Memory
      /\ Writing(want, Blank, Sure, task.left, chip.mem, faults)
      /\ t \in Lefts /\ task.left # <<>>
      /\ PartSpan(p) \subseteq DOMAIN Factory
      /\ ~(Len(task.left) > 1) => t = <<>>
  BY NpmProgramming
<1> HIDE DEF want, p
<1>2. /\ Wrote(want, Blank, Sure, t, new.mem, g)
      /\ Len(task.left) > 1 => Writing(want, Blank, Sure, t, new.mem, g)
  <2>1. CASE WrittenOver(chip.mem, p, new.mem) /\ g = faults
    BY <1>1, <2>1, PartWritten DEF p
  <2>2. CASE PartlyWritten(chip.mem, p, new.mem) /\ g # 0
    BY <1>1, <2>2, PartMissed DEF p
  <2> QED
    BY <2>1, <2>2 DEF p
<1> HIDE DEF t
<1>3. MemoryAllowed
  BY <1>1, NpmMayChange
<1>4. ~Quiet(task)
  BY DEF Quiet
<1>6. OpOK(op, disk, usb.object) /\ NpmTask(op, new, image, g, usb)
  <2>1. CASE Len(task.left) > 1
    <3>1. op = [task EXCEPT !.left = Tail(@)]
      BY <2>1 DEF Onward
    <3> HIDE DEF op
    <3>2. /\ OpOK(op, disk, usb.object) /\ op.kind = task.kind /\ op.file = task.file /\ op.at = "program"
          /\ op.left = t /\ op.shared = task.shared
      BY <1>1, <3>1, OpRest DEF t
    <3> QED
      BY <1>1, <1>2, <2>1, <3>2, NpmFlashing DEF NpmTask, want
  <2>2. CASE ~(Len(task.left) > 1)
    <3>1. op = Moved(task, "uninit") /\ "uninit" \in Names
      BY <2>2 DEF Onward, To, Moved, Names
    <3> HIDE DEF op
    <3>3. /\ OpOK(op, disk, usb.object) /\ op.kind = task.kind /\ op.file = task.file /\ op.at = "uninit"
          /\ op.left = task.left /\ op.shared = task.shared
      BY <1>1, <3>1, OpTo
    <3> QED
      BY <1>1, <1>2, <2>2, <3>3, NpmFlashing DEF NpmTask, want
  <2> QED
    BY <2>1, <2>2
<1> HIDE DEF op
<1>7. task' = op
  BY DEF op
<1> QED
  BY <1>3, <1>4, <1>6, <1>7, NpmPlainStep

LEMMA NpmProgramFlashBlockKeeps ==
  ASSUME NpmGood, NpmProgramFlashBlock
  PROVE  NpmKept
<1> DEFINE p == Head(task.left)
           c == Written(chip, p)
<1>1. /\ task.at = "program" /\ chip' = c /\ faults' = faults
      /\ UNCHANGED <<world, pageState, badge, before>>
      /\ task' = Onward(To("uninit"))
  BY DEF NpmProgramFlashBlock, Step, At
<1>2. chip \in ChipSet /\ p.address \in Nat /\ p.data \in Seq(Bytes)
  BY <1>1, NpmProgramming
<1>3. c \in ChipSet /\ WrittenOver(chip.mem, p, c.mem) /\ c.locked = chip.locked
  BY <1>2, WrittenFacts
<1>4. faults \in 0 .. MaxFaults /\ faults \in Nat /\ faults >= faults
  BY NpmKnown, TypesKnown
<1> HIDE DEF c
<1> QED
  BY <1>1, <1>3, <1>4, NpmBlockDone

LEMMA NpmMisprogramKeeps ==
  ASSUME NpmGood, Misprogram("npm", Onward(To("uninit")))
  PROVE  NpmKept
<1> DEFINE p == Head(task.left)
           c == chip'
<1>1. /\ task.at = "program" /\ c \in Missed(p) /\ faults < MaxFaults /\ faults' = faults + 1
      /\ UNCHANGED <<world, pageState, badge, before>>
      /\ task' = Onward(To("uninit"))
  BY DEF Misprogram, At
<1>2. chip \in ChipSet /\ p.address \in Nat /\ p.data \in Seq(Bytes)
  BY <1>1, NpmProgramming
<1> HIDE DEF p
<1>3. c \in ChipSet /\ PartlyWritten(chip.mem, p, c.mem) /\ c.locked = chip.locked
  BY <1>1, <1>2, MissedFacts
<1>4. faults \in Nat /\ MaxFaults \in Nat
  BY NpmKnown, TypesKnown
<1>5. faults + 1 \in 0 .. MaxFaults /\ faults + 1 >= faults /\ faults + 1 # 0
  BY <1>1, <1>4
<1> QED
  BY <1>1, <1>3, <1>5, NpmBlockDone DEF p

\* A task that ends with an explained failure.
LEMMA NpmEndFailed ==
  ASSUME NpmGood, NEW why, EndFailed(why), chip' \in ChipSet, faults' \in 0 .. MaxFaults, MemoryAllowed,
         faults' > 0 \/ why \in {"gone", "cancelled", "locked"}
  PROVE  NpmKept
<1>1. task' = Idle /\ badge' = Shown("failed", task.file, FALSE, why) /\ UNCHANGED <<world, pageState, before>>
  BY DEF EndFailed
<1>2. tool' = tool /\ session' = session /\ UNCHANGED <<world, image, option, parting, before>>
  BY <1>1 DEF world, pageState
<1>3. BadgeInv'
  <2> DEFINE c == FALSE
             f == task.file
  <2>1. badge' = Shown("failed", f, c, why)
    BY <1>1
  <2> HIDE DEF c, f
  <2> QED
    BY <1>2, <2>1, BadgeFailed
<1>4. badge'.file \in disk \cup {NoFile} /\ badge'.checked \in BOOLEAN
  <2>1. badge'.file = task.file /\ badge'.checked = FALSE
    BY <1>1 DEF Shown
  <2>2. OpOK(task, disk, usb.object)
    BY NpmKnown, TypesKnown
  <2> QED
    BY <2>1, <2>2, OpFields
<1>5. image \in disk \cup {NoFile} /\ (image # NoFile => NpmImage[image].ok) /\ session \in 0 .. usb.object
  BY NpmKnown, TypesKnown
<1> QED
  BY <1>1, <1>2, <1>3, <1>4, <1>5, NpmEnds

LEMMA NpmUninitFlashStubKeeps ==
  ASSUME NpmGood, NpmUninitFlashStub
  PROVE  NpmKept
<1>1. task.at = "uninit" /\ task.kind = "flash"
  BY NpmFlashing DEF NpmUninitFlashStub, At
<1>2. chip \in ChipSet /\ faults \in 0 .. MaxFaults /\ faults \in Nat /\ MaxFaults \in Nat /\ ~chip.locked
      /\ task \in OpSet(disk, usb.object)
  BY <1>1, NpmKnown, TypesKnown DEF NpmTask
<1>3. /\ chip' \in ChipSet /\ chip'.mem = chip.mem /\ ~chip'.locked
      /\ faults' \in 0 .. MaxFaults /\ faults' >= faults
  <2>1. CASE chip' = [chip EXCEPT !.algo = "loaded"] /\ faults' = faults
    <3>1. chip' \in ChipSet /\ chip'.mem = chip.mem /\ chip'.locked = chip.locked
      BY <1>2, <2>1 DEF ChipSet
    <3> QED
      BY <1>2, <2>1, <3>1
  <2>2. CASE Thrown(task)
    <3>1. HalfDoneEffect(task)
      BY <1>1, <1>2, <2>2, ThrownFacts
    <3> QED
      BY <1>1, <1>2, <3>1 DEF HalfDoneEffect
  <2> QED
    BY <2>1, <2>2 DEF NpmUninitFlashStub
<1>4. MemoryAllowed
  BY <1>3, NothingChanged
<1>5. CASE task.left = <<>>
  <2> DEFINE why == IF Answers(task) THEN "transfer" ELSE "gone"
  <2>1. EndFailed(why)
    BY <1>5 DEF NpmUninitFlashStub
  <2>2. faults > 0 \/ ~(usb.in /\ task.proc = usb.object)
    BY <1>1, <1>5, NpmKnown DEF NpmTask
  <2>3. ~(usb.in /\ task.proc = usb.object) => why = "gone"
    BY DEF Answers
  <2>4. faults > 0 => faults' > 0
    BY <1>2, <1>3
  <2> HIDE DEF why
  <2> QED
    BY <1>3, <1>4, <2>1, <2>2, <2>3, <2>4, NpmEndFailed
<1>6. CASE task.left # <<>>
  <2> DEFINE want == Want(task.file)
             op == To("verify")
  <2>1. task' = op /\ UNCHANGED <<world, pageState, badge, before>>
    BY <1>6 DEF NpmUninitFlashStub
  <2>2. op = Moved(task, "verify") /\ "verify" \in Names
    BY DEF To, Moved, Names
  <2> HIDE DEF op
  <2>3. /\ OpOK(op, disk, usb.object) /\ op.kind = task.kind /\ op.at = "verify" /\ op.file = task.file
        /\ op.shared = task.shared
    BY <1>2, <2>2, OpTo
  <2>4. Wrote(want, Blank, Sure, <<>>, chip.mem, faults)
    BY <1>1, <1>6, NpmKnown DEF NpmTask
  <2>5. faults' = 0 => faults = 0
    BY <1>2, <1>3
  <2> HIDE DEF want
  <2>6. Wrote(want, Blank, Sure, <<>>, chip'.mem, faults')
    BY <1>3, <2>4, <2>5 DEF Wrote
  <2>7. NpmTask(op, chip', image, faults', usb)
    BY <1>1, <1>3, <2>3, <2>6, NpmFlashing DEF NpmTask, want
  <2>8. ~Quiet(task)
    BY <1>1 DEF Quiet
  <2> QED
    BY <1>3, <1>4, <2>1, <2>3, <2>7, <2>8, NpmPlainStep
<1> QED
  BY <1>5, <1>6

LEMMA NpmVerifyImageKeeps ==
  ASSUME NpmGood, NpmVerifyImage
  PROVE  NpmKept
<1> DEFINE want == Want(task.file)
           parts == NpmImage[task.file].parts
           op == [To("reset") EXCEPT !.checked = option]
<1>1. /\ task.at = "verify" /\ task' = op /\ (option => NpmReadsBack(task.file))
      /\ UNCHANGED <<world, chip, pageState, badge, before, faults>>
  BY DEF NpmVerifyImage, At
<1>2. task.kind = "flash" /\ task.file \in HexFiles /\ Job(want, parts) /\ task \in OpSet(disk, usb.object)
  BY <1>1, NpmFlashing
<1>3. chip \in ChipSet /\ chip.mem \in Memory /\ ~chip.locked /\ Wrote(want, Blank, Sure, <<>>, chip.mem, faults)
      /\ faults \in 0 .. MaxFaults /\ faults >= faults /\ option \in BOOLEAN
  BY <1>1, NpmKnown, TypesKnown DEF NpmTask
<1>4. op = MovedChecked(task, "reset", option) /\ "reset" \in Names
  BY DEF To, MovedChecked, Names
<1> HIDE DEF op
<1>5. /\ OpOK(op, disk, usb.object) /\ op.kind = task.kind /\ op.at = "reset" /\ op.file = task.file
      /\ op.shared = task.shared /\ op.checked = option
  BY <1>2, <1>3, <1>4, OpChecked
<1>6. option => \A i \in DOMAIN parts : Holds(chip, parts[i])
  BY <1>1 DEF NpmReadsBack
<1> HIDE DEF want, parts
<1>7. option => Right(want, chip.mem, <<>>)
  BY <1>2, <1>3, <1>6, AllVerified DEF Job
<1>8. Clean(want, Blank, chip.mem) /\ (faults = 0 => Right(want, chip.mem, <<>>))
  BY <1>3 DEF Wrote, Sure
<1>9. NpmTask(op, chip, image, faults, usb)
  BY <1>1, <1>3, <1>5, <1>7, <1>8, NpmFlashing DEF NpmTask, want
<1>10. MemoryAllowed
  BY <1>1, NothingChanged
<1>11. ~Quiet(task)
  BY <1>1 DEF Quiet
<1> QED
  BY <1>1, <1>3, <1>5, <1>9, <1>10, <1>11, NpmPlainStep

LEMMA NpmSoftResetAndRunKeeps ==
  ASSUME NpmGood, NpmSoftResetAndRun
  PROVE  NpmKept
<1>1. /\ task.at = "reset" /\ chip' = AfterReset(chip) /\ task' = Idle
      /\ badge' = Shown("complete", image, task.checked, IF task.shared THEN "shared" ELSE "")
      /\ UNCHANGED <<world, pageState, before, faults>>
  BY DEF NpmSoftResetAndRun, At
<1>2. image \in HexFiles /\ (~task.shared => task.file = image)
  BY <1>1, NpmFlashing
<1>3. chip \in ChipSet /\ chip.mem \in Memory /\ task \in OpSet(disk, usb.object) /\ image \in disk \cup {NoFile}
      /\ session \in 0 .. usb.object /\ faults \in 0 .. MaxFaults /\ (image # NoFile => NpmImage[image].ok)
  BY NpmKnown, TypesKnown
<1>4. ASSUME ~task.shared, task.checked \/ faults = 0
      PROVE  chip.mem = Override(Blank, Meaning(image))
  <2>1. image \in Seq(HexRecord)
    BY <1>2, FilesAreRecords DEF HexFiles
  <2>2. Flashed(Want(image), Blank, chip.mem)
    BY <1>1, <1>2, <1>4, NpmKnown DEF NpmTask, Flashed
  <2>3. chip.mem = Override(Blank, Want(image))
    BY <1>3, <2>2, BlankIsAMemory, FlashedIsOverride
  <2> QED
    BY <2>1, <2>3, PaddingIsBlank
<1>5. ErasesFirst'
  BY <1>1, NpmKnown DEF ErasesFirst, world
<1>6. Quiet(task') /\ Quiet(console'.other) /\ tool' = tool /\ session' = session
      /\ UNCHANGED <<world, image, option, parting, before>>
  BY <1>1, NpmKnown, AloneIsIdle DEF world, pageState
<1>7. BadgeInv'
  <2> DEFINE c == task.checked
             w == IF task.shared THEN "shared" ELSE ""
  <2>1. badge' = Shown("complete", image, c, w)
    BY <1>1
  <2>2. w # "shared" => ~task.shared
    OBVIOUS
  <2>3. faults' = 0 => faults = 0
    BY <1>1
  <2>4. w # "shared" /\ (c \/ (tool = "npm" /\ faults' = 0)) =>
           image \in HexFiles /\ chip.mem = Override(IF ErasesFirst' THEN Blank ELSE before', Meaning(image))
    BY <1>2, <1>4, <1>5, <2>2, <2>3
  <2> HIDE DEF c, w
  <2> QED
    BY <1>1, <1>3, <1>6, <2>1, <2>4, BadgeComplete
<1>8. chip' \in ChipSet /\ chip'.mem = chip.mem
  BY <1>1, <1>3, AfterResetFacts
<1>9. MemoryAllowed
  BY <1>8, NothingChanged
<1>10. badge'.file \in disk \cup {NoFile} /\ badge'.checked \in BOOLEAN
  BY <1>1, <1>3 DEF Shown, OpSet
<1> QED
  BY <1>1, <1>3, <1>6, <1>7, <1>8, <1>9, <1>10, NpmEnds

LEMMA NpmFailsKeeps ==
  ASSUME NpmGood, NpmFails
  PROVE  NpmKept
<1>1. chip \in ChipSet /\ faults \in 0 .. MaxFaults /\ faults \in Nat /\ MaxFaults \in Nat /\ chip.mem \in Memory
      /\ task \in OpSet(disk, usb.object)
  BY NpmKnown, TypesKnown
<1>2. ASSUME Thrown(task)
      PROVE  /\ HalfDoneEffect(task) /\ MemoryAllowed
             /\ chip' \in ChipSet /\ faults' \in 0 .. MaxFaults /\ faults' >= faults
             /\ (chip'.locked => chip.locked)
             /\ (faults' > 0 \/ ~Answers(task))
  <2>1. task.at = "program" => task.left \in Parts /\ task.left # <<>>
    BY NpmProgramming
  <2>2. HalfDoneEffect(task)
    BY <1>1, <1>2, <2>1, ThrownFacts
  <2>3. chip' \in ChipSet /\ faults' \in 0 .. MaxFaults /\ faults' >= faults /\ (faults' > 0 \/ ~Answers(task))
        /\ (chip'.locked => chip.locked)
    BY <2>2 DEF HalfDoneEffect
  <2>5. MemoryAllowed
    <3>1. CASE chip'.mem = chip.mem
      BY <3>1, NothingChanged
    <3>2. CASE chip'.mem # chip.mem /\ task.at = "massErase"
      <4>1. ~chip'.locked /\ task.kind \in {"flash", "recover"}
        BY <2>2, <3>2, NpmKnown DEF HalfDoneEffect, NpmTask
      <4> QED
        BY <4>1, NpmMayChange
    <3>3. CASE chip'.mem # chip.mem /\ task.at = "program"
      <4>1. ~chip.locked /\ task.kind = "flash"
        BY <3>3, NpmProgramming
      <4> QED
        BY <4>1, NpmMayChange
    <3>4. chip'.mem # chip.mem => task.at \in {"massErase", "program"}
      BY <2>2, NpmKnown DEF HalfDoneEffect, NpmTask
    <3> QED
      BY <3>1, <3>2, <3>3, <3>4
  <2> QED
    BY <2>2, <2>3, <2>5
<1>3. CASE Thrown(task) /\ EndFailed(IF Answers(task) THEN "transfer" ELSE "gone")
  <2> DEFINE why == IF Answers(task) THEN "transfer" ELSE "gone"
  <2>1. EndFailed(why)
    BY <1>3
  <2>2. faults' > 0 \/ why = "gone"
    BY <1>2, <1>3
  <2> HIDE DEF why
  <2> QED
    BY <1>2, <1>3, <2>1, <2>2, NpmEndFailed
<1>4. ASSUME NEW why \in {"cancelled", "gone", "locked", "mismatch"},
             NpmFinds(why), EndFailed(why), UNCHANGED <<chip, faults>>
      PROVE  NpmKept
  <2>2. why = "mismatch" => faults > 0
    <3>1. SUFFICES ASSUME why = "mismatch", faults = 0 PROVE FALSE
      BY <1>1
    <3> DEFINE want == Want(task.file)
               parts == NpmImage[task.file].parts
    <3>2. task.at = "verify" /\ ~NpmReadsBack(task.file)
      BY <1>4, <3>1 DEF NpmFinds
    <3>3. Wrote(want, Blank, Sure, <<>>, chip.mem, 0) /\ Job(want, parts)
      BY <3>1, <3>2, NpmKnown, NpmFlashing DEF NpmTask
    <3> HIDE DEF want, parts
    <3>4. \A i \in DOMAIN parts : Holds(chip, parts[i])
      BY <1>1, <3>3, AllMatches DEF Job
    <3> QED
      BY <3>2, <3>4 DEF NpmReadsBack, parts
  <2>3. MemoryAllowed
    BY <1>4, NothingChanged
  <2> QED
    BY <1>1, <1>4, <2>2, <2>3, NpmEndFailed
<1>5. CASE /\ task.at = "program" /\ Thrown(task) /\ task' = With("uninit", <<>>)
           /\ UNCHANGED <<world, pageState, badge, before>>
  <2> DEFINE none == <<>>
             op == With("uninit", none)
  <2>1. op = MovedWith(task, "uninit", none) /\ "uninit" \in Names /\ none \in Lefts /\ task' = op
    BY <1>5 DEF With, MovedWith, Names, Lefts
  <2> HIDE DEF op, none
  <2>2. /\ OpOK(op, disk, usb.object) /\ op.kind = task.kind /\ op.at = "uninit" /\ op.file = task.file
        /\ op.left = none /\ op.shared = task.shared /\ op.proc = task.proc
    BY <1>1, <2>1, OpWith
  <2>3. faults' > 0 \/ ~(usb.in /\ op.proc = usb.object)
    BY <1>2, <1>5, <2>2, NpmKnown DEF Answers
  <2>4. ~chip'.locked /\ task.kind = "flash"
    BY <1>2, <1>5, NpmProgramming
  <2>5. NpmTask(op, chip', image, faults', usb)
    BY <1>5, <2>2, <2>3, <2>4, NpmFlashing DEF NpmTask, none
  <2>6. ~Quiet(task)
    BY <1>5 DEF Quiet
  <2> QED
    BY <1>2, <1>5, <2>1, <2>2, <2>5, <2>6, NpmPlainStep
<1> QED
  BY <1>3, <1>4, <1>5 DEF NpmFails

\* Every step of the npm application keeps what is true of it, and does what it may.
LEMMA NpmNextKeeps ==
  ASSUME NpmGood, NpmNext
  PROVE  NpmKept
<1>1. ASSUME NpmStep PROVE NpmKept
  BY <1>1, NpmReadImageKeeps, NpmEnsureConnectedProbeKeeps, NpmChooseProbeKeeps, NpmReleaseProbeKeeps,
     NpmConnectDeviceKeeps, NpmReadAccessStateKeeps, NpmEnsureFlashAccessKeeps, NpmResetAndHaltKeeps,
     NpmMassEraseAndReconnectKeeps, NpmInitFlashStubKeeps, NpmProgramFlashBlockKeeps,
     NpmUninitFlashStubKeeps, NpmVerifyImageKeeps, NpmSoftResetAndRunKeeps, NpmFailsKeeps,
     NpmUnpluggedKeeps DEF NpmStep
<1> QED
  BY <1>1, NpmFileChangeKeeps, NpmLoadHexTextKeeps, NpmToggleVerifyKeeps, NpmBeginKeeps,
     NpmMisprogramKeeps DEF NpmNext

(* ------------------------------- the console ----------------------------- *)

ConsoleGood == tool = "console" /\ TypeInv /\ BadgeInv /\ ConsoleInv
ConsoleKept == ConsoleGood' /\ MemoryAllowed
\* The other operation.
Mate(o) == IF o = 1 THEN console.other ELSE task

\* What holds while the dialog is open.
LEMMA ConsoleKnown ==
  ASSUME ConsoleGood
  PROVE  /\ TypeInv /\ BadgeInv /\ tool = "console" /\ option = FALSE /\ ~ErasesFirst
         /\ chip \in ChipSet /\ chip.mem \in Memory /\ before \in Memory
         /\ faults \in 0 .. MaxFaults /\ faults \in Nat /\ MaxFaults \in Nat
         /\ console \in ConsoleSet(disk, usb.object)
         /\ ConsoleOp(task, chip, before, faults) /\ ConsoleOp(console.other, chip, before, faults)
         /\ (task # Idle /\ console.other # Idle => task.shared /\ console.other.shared)
         /\ OpOK(task, disk, usb.object) /\ OpOK(console.other, disk, usb.object)
         /\ usb.object \in Nat /\ usb.object \in 0 .. usb.object /\ 0 \in 0 .. usb.object /\ disk \subseteq HexFiles
         /\ badge.file \in disk \cup {NoFile} /\ badge.checked \in BOOLEAN /\ NoFile \in disk \cup {NoFile}
         /\ image \in disk \cup {NoFile} /\ session \in 0 .. usb.object /\ parting \in BOOLEAN
<1>1. TypeInv /\ BadgeInv /\ tool = "console" /\ ~option
      /\ ConsoleOp(task, chip, before, faults) /\ ConsoleOp(console.other, chip, before, faults)
      /\ (task # Idle /\ console.other # Idle => task.shared /\ console.other.shared)
  BY DEF ConsoleGood, ConsoleInv
<1>2. console \in ConsoleSet(disk, usb.object) /\ OpOK(console.other, disk, usb.object)
  BY <1>1 DEF TypeInv
<1>3. option \in BOOLEAN
  BY <1>1, TypesKnown
<1>4. option = FALSE /\ ~ErasesFirst
  BY <1>1, <1>3 DEF ErasesFirst
<1> QED
  BY <1>1, <1>2, <1>4, TypesKnown

\* Nothing is known of an operation that is not there.
LEMMA IdleConsoleOp ==
  ASSUME NEW c, NEW bef, NEW f
  PROVE  ConsoleOp(Idle, c, bef, f)
BY DEF ConsoleOp, ConsoleOwn, Idle

\* What is known of each operation.
LEMMA OpKnown ==
  ASSUME ConsoleGood, NEW o \in Ops
  PROVE  /\ Op(o) \in {task, console.other} /\ {Op(o), Mate(o)} = {task, console.other}
         /\ OpOK(Op(o), disk, usb.object) /\ Op(o) \in OpSet(disk, usb.object)
         /\ ConsoleOp(Op(o), chip, before, faults)
         /\ (~Op(o).shared /\ Op(o) # Idle => Mate(o) = Idle)
         /\ (Op(o) # Idle /\ Mate(o) # Idle => Op(o).shared /\ Mate(o).shared)
         /\ ConsoleOp(Mate(o), chip, before, faults)
         /\ (Op(o).at # "idle" <=> Op(o) # Idle)
<1>1. (Op(o) = task /\ Mate(o) = console.other) \/ (Op(o) = console.other /\ Mate(o) = task)
  BY DEF Ops, Op, Mate
<1> QED
  BY <1>1, ConsoleKnown, OpFields

\* The other operation does not notice.
LEMMA MateKeeps ==
  ASSUME ConsoleGood, NEW o \in Ops, Op(o) # Idle, NEW d \in ChipSet, d.locked => chip.locked, NEW g
  PROVE  ConsoleOp(Mate(o), d, before, g)
<1>1. CASE Mate(o) = Idle
  BY <1>1, IdleConsoleOp
<1>2. CASE Mate(o) # Idle
  <2>1. ConsoleOp(Mate(o), chip, before, faults) /\ Mate(o).shared
    BY <1>2, OpKnown
  <2> QED
    BY <2>1 DEF ConsoleOp
<1> QED
  BY <1>1, <1>2

\* The types are kept when the new values have theirs.
LEMMA ConsoleTypesStep ==
  ASSUME TypeInv, UNCHANGED desk, chip' \in ChipSet, session' \in 0 .. usb.object,
         image' \in disk \cup {NoFile}, option' \in BOOLEAN, parting' \in BOOLEAN,
         OpOK(task', disk, usb.object), badge'.file \in disk \cup {NoFile}, badge'.checked \in BOOLEAN,
         console' \in ConsoleSet(disk, usb.object), OpOK(console'.other, disk, usb.object),
         before' \in Memory, faults' \in 0 .. MaxFaults
  PROVE  TypeInv'
BY DEF TypeInv, desk

\* A step of one operation leaves the other alone.
LEMMA PutFacts ==
  ASSUME NEW o \in Ops, NEW new, NEW c, NEW d, NEW n, Put(o, new, c), c \in ConsoleSet(d, n), c.other = console.other,
         new \in OpSet(d, n)
  PROVE  /\ Op(o)' = new /\ Mate(o)' = Mate(o) /\ console' \in ConsoleSet(d, n)
<1>1. CASE o = 1
  <2>1. task' = new /\ console' = c
    BY <1>1 DEF Put
  <2> QED
    BY <1>1, <2>1 DEF Op, Mate
<1>2. CASE o # 1
  <2>1. task' = task /\ console' = [c EXCEPT !.other = new]
    BY <1>2 DEF Put
  <2>2. console' \in ConsoleSet(d, n) /\ console'.other = new
    BY <2>1 DEF ConsoleSet
  <2> QED
    BY <1>2, <2>1, <2>2 DEF Op, Mate
<1> QED
  BY <1>1, <1>2

\* A step of an operation keeps what it should.
LEMMA ConsoleStepKeeps ==
  ASSUME ConsoleGood, NEW o \in Ops, Op(o) # Idle, NEW new, NEW c, Put(o, new, c),
         c \in ConsoleSet(disk, usb.object), c.other = console.other,
         UNCHANGED <<desk, pageState, before>>, chip' \in ChipSet, chip'.locked => chip.locked,
         faults' \in 0 .. MaxFaults, OpOK(new, disk, usb.object), new = Idle \/ new.shared = Op(o).shared,
         ConsoleOp(new, chip', before, faults'),
         badge'.file \in disk \cup {NoFile}, badge'.checked \in BOOLEAN, BadgeInv', MemoryAllowed
  PROVE  ConsoleKept
<1>1. UNCHANGED <<tool, disk, usb, session, image, option, parting, before>>
  BY DEF desk, pageState
<1>2. Op(o)' = new /\ Mate(o)' = Mate(o) /\ console' \in ConsoleSet(disk, usb.object)
  BY OpFields, PutFacts
<1>3. OpOK(Mate(o), disk, usb.object)
  BY ConsoleKnown DEF Ops, Mate
<1>4. OpOK(task', disk, usb.object) /\ OpOK(console'.other, disk, usb.object)
  BY <1>2, <1>3 DEF Op, Mate
<1>5. TypeInv'
  BY <1>1, <1>2, <1>4, ConsoleKnown, TypesKnown, ConsoleTypesStep
<1>6. ConsoleOp(Mate(o), chip', before, faults')
  BY MateKeeps
<1>7. ConsoleOp(task', chip', before', faults') /\ ConsoleOp(console'.other, chip', before', faults')
  BY <1>1, <1>2, <1>6 DEF Op, Mate
<1>8. new # Idle /\ Mate(o) # Idle => new.shared /\ Mate(o).shared
  BY OpKnown
<1>9. task' # Idle /\ console'.other # Idle => task'.shared /\ console'.other.shared
  BY <1>2, <1>8 DEF Op, Mate
<1>10. ConsoleInv'
  BY <1>1, <1>7, <1>9, ConsoleKnown DEF ConsoleInv
<1> QED
  BY <1>1, <1>5, <1>10, ConsoleKnown DEF ConsoleGood, ConsoleKept

\* A step of an operation that goes on.
LEMMA ConsoleGoesOn ==
  ASSUME ConsoleGood, NEW o \in Ops, Op(o).at # "idle", ~Quiet(Op(o)), NEW new, NEW c, Put(o, new, c),
         c \in ConsoleSet(disk, usb.object), c.other = console.other,
         UNCHANGED <<desk, pageState, badge, before>>, chip' \in ChipSet, chip'.locked => chip.locked,
         faults' \in 0 .. MaxFaults, faults' >= faults, OpOK(new, disk, usb.object), new.shared = Op(o).shared,
         ConsoleOp(new, chip', before, faults'), MemoryAllowed
  PROVE  ConsoleKept
<1>1. Op(o) # Idle /\ Op(o) \in {task, console.other}
  BY OpKnown
<1>2. BadgeInv'
  <2>1. BadgeInv /\ badge' = badge /\ tool' = tool /\ faults \in Nat /\ faults' \in Nat
    BY ConsoleKnown DEF desk
  <2>2. ~(Quiet(task) /\ Quiet(console.other))
    BY <1>1
  <2> QED
    BY <2>1, <2>2, BadgeSame
<1>3. badge'.file \in disk \cup {NoFile} /\ badge'.checked \in BOOLEAN
  BY ConsoleKnown
<1> QED
  BY <1>1, <1>2, <1>3, ConsoleStepKeeps

\* The same when the transfers answer and nothing else of the console changes.
LEMMA ConsoleTransferKeeps ==
  ASSUME ConsoleGood, NEW o \in Ops, NEW s, s \notin {"idle", "reading", "close", "release"}, NEW d, NEW new,
         Transfers(o, s, d, new), d \in ChipSet, d.locked => chip.locked,
         OpOK(new, disk, usb.object), new.shared = Op(o).shared,
         ConsoleOp(new, d, before, faults), MemoryAllowed
  PROVE  ConsoleKept
<1>1. /\ chip' = d /\ Op(o).at = s /\ Put(o, new, console) /\ UNCHANGED <<desk, pageState, badge, before>>
      /\ faults' = faults
  BY DEF Transfers, Moves
<1>2. ~Quiet(Op(o)) /\ Op(o).at # "idle"
  BY <1>1 DEF Quiet
<1>3. faults' \in 0 .. MaxFaults /\ faults' >= faults
  BY <1>1, ConsoleKnown
<1>4. console \in ConsoleSet(disk, usb.object)
  BY ConsoleKnown
<1>5. chip' \in ChipSet /\ (chip'.locked => chip.locked) /\ ConsoleOp(new, chip', before, faults')
  BY <1>1
<1> QED
  BY <1>1, <1>2, <1>3, <1>4, <1>5, ConsoleGoesOn

\* A recovery may change all, a flash what its file names, once the chip is open.
LEMMA ConsoleMayChange ==
  ASSUME ConsoleGood, NEW o \in Ops, ~chip.locked \/ ~chip'.locked,
         \/ Op(o).kind = "recover"
         \/ /\ Op(o).kind = "flash" /\ Op(o).file \in HexFiles
            /\ \A a \in DOMAIN Factory : chip'.mem[a] # chip.mem[a] => a \in DOMAIN Meaning(Op(o).file)
  PROVE  MemoryAllowed
<1>1. Op(o) \in {task, console.other}
  BY OpKnown
<1> QED
  BY <1>1, OpMayChange

(* ------------------------------ the dialog ------------------------------- *)

Ready == Shown("ready", NoFile, FALSE, "")

\* What the dialog does besides operations.
LEMMA DialogKeeps ==
  ASSUME ConsoleGood, UNCHANGED <<desk, chip, session, option, task, before, faults>>,
         image' \in disk \cup {NoFile}, parting' \in BOOLEAN,
         console' \in ConsoleSet(disk, usb.object), console'.other = console.other,
         badge' = badge \/ badge' = Ready
  PROVE  ConsoleKept
<1>1. tool' = tool /\ disk' = disk /\ usb' = usb
  BY DEF desk
<1>2. badge'.file \in disk \cup {NoFile} /\ badge'.checked \in BOOLEAN /\ BadgeInv'
  <2>1. CASE badge' = badge
    <3>1. ErasesFirst' <=> ErasesFirst
      BY <1>1 DEF ErasesFirst
    <3>2. BadgeInv /\ faults \in Nat /\ faults' = faults
      BY ConsoleKnown
    <3>4. faults' \in Nat /\ faults' >= faults
      BY <3>2
    <3>3. BadgeInv'
      BY <1>1, <2>1, <3>1, <3>2, <3>4, BadgeSame
    <3> QED
      BY <2>1, <3>3, ConsoleKnown
  <2>2. CASE badge' = Ready
    <3>1. badge'.text = "ready" /\ badge'.file = NoFile /\ badge'.checked = FALSE
      BY <2>2 DEF Ready, Shown
    <3> QED
      BY <3>1, BadgeOther
  <2> QED
    BY <2>1, <2>2
<1>3. TypeInv'
  BY <1>1, <1>2, ConsoleKnown, TypesKnown, ConsoleTypesStep
<1>4. ConsoleInv'
  BY <1>1, ConsoleKnown DEF ConsoleInv
<1>5. MemoryAllowed
  BY NothingChanged
<1> QED
  BY <1>1, <1>2, <1>3, <1>4, <1>5, ConsoleKnown DEF ConsoleGood, ConsoleKept

\* What the dialog is made of.
LEMMA ConsoleFields ==
  ASSUME NEW c, NEW d, NEW n, c \in ConsoleSet(d, n)
  PROVE  /\ c.device \in 0 .. n /\ c.dap \in BOOLEAN /\ c.opened \in BOOLEAN /\ c.busy \in BOOLEAN
         /\ c.ui \in BOOLEAN /\ c.preset \in d \cup {NoFile} /\ c.picked \in BOOLEAN
         /\ c.load \in d \cup {NoFile} /\ c.other \in OpSet(d, n) /\ c.clicks \in Nat
BY DEF ConsoleSet

\* The console after a click, and when its buttons are drawn.
LEMMA ClickedFacts ==
  ASSUME NEW d, NEW n, console \in ConsoleSet(d, n)
  PROVE  /\ Clicked \in ConsoleSet(d, n) /\ Clicked.other = console.other /\ Clicked.busy = console.busy
         /\ Clicked.device = console.device
<1> DEFINE k == console.clicks + 1
<1>1. k \in Nat /\ Clicked = [console EXCEPT !.clicks = k]
  BY DEF ConsoleSet, Clicked
<1> HIDE DEF k
<1> QED
  BY <1>1 DEF ConsoleSet

\* The buttons change nothing else.
LEMMA EnabledFacts ==
  ASSUME NEW c, NEW d, NEW n, c \in ConsoleSet(d, n)
  PROVE  /\ Enabled(c) \in ConsoleSet(d, n) /\ Enabled(c).other = c.other
         /\ Disabled(c) \in ConsoleSet(d, n) /\ Disabled(c).other = c.other
BY DEF ConsoleSet, Enabled, Disabled

\* A session that is closed.
LEMMA ClosedFacts ==
  ASSUME NEW c, NEW d, NEW n, c \in ConsoleSet(d, n), NEW device \in 0 .. n
  PROVE  Closed(c, device) \in ConsoleSet(d, n) /\ Closed(c, device).other = c.other
<1> DEFINE u == ~c.busy
           no == FALSE
<1>1. u \in BOOLEAN /\ no \in BOOLEAN /\ Closed(c, device) = [c EXCEPT !.dap = no, !.opened = no, !.device = device, !.ui = u]
  BY DEF Closed
<1> HIDE DEF u, no
<1> QED
  BY <1>1 DEF ConsoleSet

LEMMA ConsoleFileChangeKeeps ==
  ASSUME ConsoleGood, NEW f \in disk, ConsoleFileChange(f)
  PROVE  ConsoleKept
<1> DEFINE u == ~console.busy
           no == FALSE
           c == Clicked
<1>1. /\ image' = f /\ console' = [c EXCEPT !.preset = NoFile, !.picked = no, !.ui = u]
      /\ badge' = Ready
      /\ UNCHANGED <<desk, chip, session, option, task, parting, before, faults>>
  BY DEF ConsoleFileChange, Ready
<1>2. c \in ConsoleSet(disk, usb.object) /\ c.other = console.other /\ u \in BOOLEAN /\ no \in BOOLEAN
      /\ NoFile \in disk \cup {NoFile}
  BY ConsoleKnown, ClickedFacts
<1> HIDE DEF u, no, c
<1>3. console' \in ConsoleSet(disk, usb.object) /\ console'.other = console.other
  BY <1>1, <1>2 DEF ConsoleSet
<1>4. image' \in disk \cup {NoFile} /\ parting' \in BOOLEAN
  BY <1>1, ConsoleKnown
<1> QED
  BY <1>1, <1>3, <1>4, DialogKeeps

LEMMA ConsoleLoadPresetKeeps ==
  ASSUME ConsoleGood, NEW f \in disk, ConsoleLoadPreset(f)
  PROVE  ConsoleKept
<1> DEFINE c == Disabled(Clicked)
           yes == TRUE
<1>1. /\ console' = [c EXCEPT !.load = f, !.picked = yes]
      /\ badge' = Ready
      /\ UNCHANGED <<desk, chip, pageState, task, before, faults>>
  BY DEF ConsoleLoadPreset, Ready
<1>2. c \in ConsoleSet(disk, usb.object) /\ c.other = console.other /\ yes \in BOOLEAN
      /\ f \in disk \cup {NoFile}
  BY ConsoleKnown, ClickedFacts, EnabledFacts
<1> HIDE DEF yes, c
<1>3. console' \in ConsoleSet(disk, usb.object) /\ console'.other = console.other
  BY <1>1, <1>2 DEF ConsoleSet
<1>4. image' \in disk \cup {NoFile} /\ parting' \in BOOLEAN /\ session' = session /\ option' = option
  BY <1>1, ConsoleKnown DEF pageState
<1> QED
  BY <1>1, <1>3, <1>4, DialogKeeps

LEMMA ConsolePresetAnswersKeeps ==
  ASSUME ConsoleGood, ConsolePresetAnswers
  PROVE  ConsoleKept
<1> DEFINE c == Enabled(console)
<1>1. /\ badge' = Ready
      /\ UNCHANGED <<desk, chip, session, option, task, parting, before, faults>>
  BY DEF ConsolePresetAnswers, Ready
<1>2. c \in ConsoleSet(disk, usb.object) /\ c.other = console.other /\ console.load \in disk \cup {NoFile}
      /\ NoFile \in disk \cup {NoFile} /\ image \in disk \cup {NoFile} /\ parting \in BOOLEAN
  BY ConsoleKnown, EnabledFacts, ConsoleFields
<1>3. /\ image' \in disk \cup {NoFile} /\ console' \in ConsoleSet(disk, usb.object)
      /\ console'.other = console.other
  <2>1. CASE console' = [c EXCEPT !.load = NoFile, !.preset = console.load] /\ image' = NoFile
    <3> HIDE DEF c
    <3>1. console' \in ConsoleSet(disk, usb.object) /\ console'.other = console.other
      BY <1>2, <2>1 DEF ConsoleSet
    <3> QED
      BY <1>2, <2>1, <3>1
  <2>2. CASE (\E kept \in BOOLEAN : console' = [c EXCEPT !.load = NoFile, !.preset = NoFile, !.picked = kept])
             /\ image' = image
    <3> HIDE DEF c
    <3>1. PICK kept \in BOOLEAN : console' = [c EXCEPT !.load = NoFile, !.preset = NoFile, !.picked = kept]
      BY <2>2
    <3>2. console' \in ConsoleSet(disk, usb.object) /\ console'.other = console.other
      BY <1>2, <3>1 DEF ConsoleSet
    <3> QED
      BY <1>2, <2>2, <3>2
  <2> QED
    BY <2>1, <2>2 DEF ConsolePresetAnswers
<1> HIDE DEF c
<1> QED
  BY <1>1, <1>2, <1>3, DialogKeeps

LEMMA ConsoleConnectKeeps ==
  ASSUME ConsoleGood, ConsoleConnect
  PROVE  ConsoleKept
<1> DEFINE c == Clicked
           u == ~console.busy
           n == usb.object
<1>1. /\ console' = [c EXCEPT !.device = n, !.ui = u]
      /\ badge' = Ready
      /\ UNCHANGED <<desk, chip, pageState, task, before, faults>>
  BY DEF ConsoleConnect, Ready
<1>2. c \in ConsoleSet(disk, n) /\ c.other = console.other /\ u \in BOOLEAN /\ n \in 0 .. n
  BY ConsoleKnown, ClickedFacts
<1> HIDE DEF u, c, n
<1>3. console' \in ConsoleSet(disk, n) /\ console'.other = console.other
  BY <1>1, <1>2 DEF ConsoleSet
<1>4. image' \in disk \cup {NoFile} /\ parting' \in BOOLEAN /\ session' = session /\ option' = option
  BY <1>1, ConsoleKnown DEF pageState
<1> QED
  BY <1>1, <1>3, <1>4, DialogKeeps DEF n

LEMMA ConsoleUnpluggedKeeps ==
  ASSUME ConsoleGood, ConsoleUnplugged
  PROVE  ConsoleKept
<1>1. /\ parting' = FALSE /\ UNCHANGED <<desk, chip, session, image, option, task, before, faults>>
      /\ \/ console' = Closed(console, 0) /\ badge' = Ready
         \/ console' = console /\ badge' = badge
  BY DEF ConsoleUnplugged, Ready
<1>2. console \in ConsoleSet(disk, usb.object) /\ 0 \in 0 .. usb.object /\ image \in disk \cup {NoFile}
  BY ConsoleKnown
<1>3. console' \in ConsoleSet(disk, usb.object) /\ console'.other = console.other
  BY <1>1, <1>2, ClosedFacts
<1>4. image' \in disk \cup {NoFile} /\ parting' \in BOOLEAN
  BY <1>1, <1>2
<1> QED
  BY <1>1, <1>3, <1>4, DialogKeeps

(* ------------------------------ two operations --------------------------- *)

\* Two operations that overlap promise nothing of the bytes.
LEMMA SharingFacts ==
  ASSUME NEW op, NEW d, NEW n, OpOK(op, d, n), NEW c, NEW bef, NEW f, ConsoleOp(op, c, bef, f)
  PROVE  /\ OpOK(Sharing(op), d, n) /\ (Sharing(op) = Idle <=> op = Idle) /\ (op # Idle => Sharing(op).shared)
         /\ \A new : ConsoleOp(Sharing(op), c, new, f)
<1>1. CASE op = Idle
  BY <1>1, IdleConsoleOp DEF Sharing
<1>2. CASE op # Idle
  <2> DEFINE op2 == [op EXCEPT !.shared = TRUE]
  <2>1. op.at # "idle" /\ op \in OpSet(d, n)
    BY <1>2, OpFields
  <2>2. OpOK(op2, d, n)
    BY <2>1, OpStays
  <2>3. op2.kind = op.kind /\ op2.at = op.at /\ op2.left = op.left /\ op2.file = op.file /\ op2.shared = TRUE
    BY <2>1 DEF OpSet
  <2>4. Sharing(op) = op2
    BY <1>2 DEF Sharing
  <2> HIDE DEF op2
  <2>5. op2 # Idle
    BY <2>1, <2>3 DEF Idle
  <2>6. ASSUME NEW new PROVE ConsoleOp(op2, c, new, f)
    BY <2>3 DEF ConsoleOp
  <2> QED
    BY <1>2, <2>2, <2>3, <2>4, <2>5, <2>6
<1> QED
  BY <1>1, <1>2

LEMMA ConsoleDisconnectKeeps ==
  ASSUME ConsoleGood, ConsoleDisconnect
  PROVE  ConsoleKept
<1> DEFINE c == Closed(Clicked, 0)
           op == Sharing(console.other)
<1>1. /\ task' = Sharing(task) /\ console' = [c EXCEPT !.other = Sharing(@)]
      /\ badge' = Shown("ready", NoFile, FALSE, "")
      /\ UNCHANGED <<desk, chip, pageState, before, faults>>
  BY DEF ConsoleDisconnect
<1>2. c \in ConsoleSet(disk, usb.object) /\ c.other = console.other
  BY ConsoleKnown, ClickedFacts, ClosedFacts
<1>3. /\ OpOK(task', disk, usb.object) /\ ConsoleOp(task', chip, before, faults)
      /\ (task' # Idle => task'.shared)
  BY <1>1, ConsoleKnown, SharingFacts
<1>4. /\ OpOK(op, disk, usb.object) /\ ConsoleOp(op, chip, before, faults) /\ (op # Idle => op.shared)
  BY ConsoleKnown, SharingFacts
<1>5. op \in OpSet(disk, usb.object)
  BY <1>4, OpFields
<1>6. console' = [c EXCEPT !.other = op]
  BY <1>1, <1>2
<1> HIDE DEF c, op
<1>7. console' \in ConsoleSet(disk, usb.object) /\ console'.other = op
  BY <1>2, <1>5, <1>6 DEF ConsoleSet
<1>8. badge'.text = "ready" /\ badge'.file = NoFile /\ badge'.checked = FALSE
  BY <1>1 DEF Shown
<1>9. BadgeInv'
  BY <1>8, BadgeOther
<1>10. UNCHANGED <<tool, disk, usb, session, image, option, parting>>
  BY <1>1 DEF desk, pageState
<1>11. badge'.checked \in BOOLEAN /\ badge'.file \in disk \cup {NoFile}
  BY <1>8
<1>12. TypeInv'
  BY <1>1, <1>3, <1>4, <1>7, <1>10, <1>11, ConsoleKnown, TypesKnown, ConsoleTypesStep
<1>13. ConsoleInv'
  BY <1>1, <1>3, <1>4, <1>7, <1>10, ConsoleKnown DEF ConsoleInv
<1>14. MemoryAllowed
  BY <1>1, NothingChanged
<1> QED
  BY <1>9, <1>10, <1>12, <1>13, <1>14, ConsoleKnown DEF ConsoleGood, ConsoleKept

LEMMA ConsoleBeginKeeps ==
  ASSUME ConsoleGood, NEW o \in Ops, NEW kind \in {"flash", "recover"}, ConsoleBegin(o, kind)
  PROVE  ConsoleKept
<1> DEFINE step == IF kind = "flash" THEN "file" ELSE "choose"
           file == IF kind = "flash" THEN ConsoleFile ELSE NoFile
           with == ~Alone
           op == [Idle EXCEPT !.kind = kind, !.at = step, !.file = file, !.shared = with]
           c == Disabled(Clicked)
           first == IF o = 1 THEN op ELSE Sharing(task)
           second == IF o = 2 THEN op ELSE Sharing(console.other)
<1>1. /\ Op(o) = Idle /\ (o = 2 => task # Idle) /\ (kind = "flash" => ConsoleFile # NoFile)
      /\ task' = first
      /\ console' = [c EXCEPT !.other = IF o = 2 THEN op ELSE Sharing(@)]
      /\ badge' = Working /\ before' = (IF Alone THEN chip.mem ELSE Factory)
      /\ UNCHANGED <<desk, chip, pageState, faults>>
  BY DEF ConsoleBegin
<1>2. c \in ConsoleSet(disk, usb.object) /\ c.other = console.other
  BY ConsoleKnown, ClickedFacts, EnabledFacts
<1>3. console' = [c EXCEPT !.other = second]
  BY <1>1, <1>2
<1>4. file \in disk \cup {NoFile} /\ (kind = "flash" => file \in HexFiles)
  <2>1. console.preset \in disk \cup {NoFile} /\ image \in disk \cup {NoFile} /\ NoFile \in disk \cup {NoFile}
        /\ disk \subseteq HexFiles
    BY ConsoleKnown, ConsoleFields
  <2> QED
    BY <1>1, <2>1 DEF ConsoleFile
<1>5. step \in Names /\ step # "idle" /\ kind \in Names /\ with \in BOOLEAN
      /\ (kind = "flash" => step = "file") /\ (kind # "flash" => step = "choose")
  BY DEF Names
<1> HIDE DEF step, file, with
<1>6. OpOK(op, disk, usb.object)
  BY <1>4, <1>5, ConsoleKnown, OpBegins
<1>7. op.kind = kind /\ op.at = step /\ op.file = file /\ op.shared = with
  BY DEF Idle
<1> HIDE DEF op
<1>8. op # Idle
  BY <1>5, <1>7 DEF Idle
<1>9. ConsoleOp(op, chip, before', faults)
  <2>1. ~op.shared => ConsoleOwn(op, chip, before', faults)
    BY <1>1, <1>5, <1>7 DEF ConsoleOwn, with
  <2> QED
    BY <1>4, <1>5, <1>7, <2>1 DEF ConsoleOp
<1>10. /\ OpOK(Sharing(task), disk, usb.object) /\ ConsoleOp(Sharing(task), chip, before', faults)
       /\ (Sharing(task) # Idle => task # Idle /\ Sharing(task).shared)
  BY ConsoleKnown, SharingFacts
<1>11. /\ OpOK(Sharing(console.other), disk, usb.object)
       /\ ConsoleOp(Sharing(console.other), chip, before', faults)
       /\ (Sharing(console.other) # Idle => console.other # Idle /\ Sharing(console.other).shared)
  BY ConsoleKnown, SharingFacts
<1>12. /\ OpOK(first, disk, usb.object) /\ ConsoleOp(first, chip, before', faults)
       /\ OpOK(second, disk, usb.object) /\ ConsoleOp(second, chip, before', faults)
  BY <1>6, <1>9, <1>10, <1>11
<1>13. first # Idle /\ second # Idle => first.shared /\ second.shared
  <2>1. CASE o = 1
    <3>1. console.other # Idle => op.shared
      BY <1>7 DEF with, Alone
    <3> QED
      BY <1>11, <2>1, <3>1
  <2>2. CASE o = 2
    <3>1. task # Idle => op.shared
      BY <1>7 DEF with, Alone
    <3> QED
      BY <1>10, <2>2, <3>1
  <2> QED
    BY <2>1, <2>2 DEF Ops
<1> HIDE DEF c, first, second
<1>14. second \in OpSet(disk, usb.object)
  BY <1>12, OpFields
<1>15. console' \in ConsoleSet(disk, usb.object) /\ console'.other = second
  BY <1>2, <1>3, <1>14 DEF ConsoleSet
<1>16. badge'.text = "working" /\ badge'.file = NoFile /\ badge'.checked = FALSE
  BY <1>1 DEF Working, Shown
<1>17. BadgeInv'
  BY <1>16, BadgeOther
<1>18. UNCHANGED <<tool, disk, usb, session, image, option, parting>>
  BY <1>1 DEF desk, pageState
<1>19. badge'.checked \in BOOLEAN /\ badge'.file \in disk \cup {NoFile}
  BY <1>16
<1>20. before' \in Memory
  BY <1>1, ConsoleKnown, FactoryIsWhole
<1>21. TypeInv'
  BY <1>1, <1>12, <1>15, <1>18, <1>19, <1>20, ConsoleKnown, TypesKnown, ConsoleTypesStep
<1>22. ConsoleInv'
  BY <1>1, <1>12, <1>13, <1>15, <1>18, ConsoleKnown DEF ConsoleInv
<1>23. MemoryAllowed
  BY <1>1, NothingChanged
<1> QED
  BY <1>17, <1>18, <1>21, <1>22, <1>23, ConsoleKnown DEF ConsoleGood, ConsoleKept

(* ---------------------------- the operations ----------------------------- *)

\* What the dialog knows while it flashes.
LEMMA ConsoleFlashing ==
  ASSUME ConsoleGood, NEW o \in Ops,
         Op(o).at \in {"halt", "config", "program", "readonly", "verify", "reconnect", "rehalt", "reset"}
  PROVE  /\ Op(o).kind = "flash" /\ Op(o).file \in HexFiles /\ ConsoleImage[Op(o).file].ok
         /\ ConsolePieces[Op(o).file] \in Seq(CPart) /\ ConsolePieces[Op(o).file] \in Lefts
         /\ OwnJob(Op(o).file, ConsolePieces[Op(o).file]) /\ Len(ConsolePieces[Op(o).file]) \in Nat
<1>1. Op(o).kind = "flash" /\ Op(o).file \in HexFiles /\ ConsoleImage[Op(o).file].ok
  BY OpKnown DEF ConsoleOp
<1>2. ConsolePieces[Op(o).file] \in Seq(CPart) /\ ConsolePieces[Op(o).file] \in Parts
      /\ OwnJob(Op(o).file, ConsolePieces[Op(o).file])
  BY <1>1, ConsoleJob
<1>3. Len(ConsolePieces[Op(o).file]) \in Nat
  BY <1>2
<1> QED
  BY <1>1, <1>2, <1>3 DEF Lefts

LEMMA ConsoleReadFileKeeps ==
  ASSUME ConsoleGood, NEW o \in Ops, ConsoleReadFile(o)
  PROVE  ConsoleKept
<1> DEFINE op == Go(o, "choose")
<1>1. /\ Op(o).at = "file" /\ ConsoleImage[Op(o).file].ok /\ Put(o, op, console)
      /\ UNCHANGED <<desk, pageState, badge, before, chip, faults>>
  BY DEF ConsoleReadFile, Moves
<1>2. op = Moved(Op(o), "choose") /\ "choose" \in Names
  BY DEF Go, Moved, Names
<1> HIDE DEF op
<1>3. Op(o) \in OpSet(disk, usb.object) /\ ConsoleOp(Op(o), chip, before, faults)
  BY OpKnown
<1>4. /\ OpOK(op, disk, usb.object) /\ op.kind = Op(o).kind /\ op.at = "choose" /\ op.file = Op(o).file
      /\ op.shared = Op(o).shared
  BY <1>2, <1>3, OpTo
<1>5. ConsoleOp(op, chip, before, faults)
  BY <1>1, <1>3, <1>4 DEF ConsoleOp, ConsoleOwn
<1>6. MemoryAllowed
  BY <1>1, NothingChanged
<1>7. ~Quiet(Op(o)) /\ Op(o).at # "idle"
  BY <1>1 DEF Quiet
<1>8. faults' \in 0 .. MaxFaults /\ faults' >= faults
  BY <1>1, ConsoleKnown
<1> QED
  BY <1>1, <1>4, <1>5, <1>6, <1>7, <1>8, ConsoleKnown, ConsoleGoesOn

\* The step after the session is there.
LEMMA FirstFacts ==
  ASSUME ConsoleGood, NEW o \in Ops, Op(o).at \in {"choose", "connect"}, NEW op,
         op.at \in {"connect", First(o)}, op.kind = Op(o).kind, op.file = Op(o).file, op.shared = Op(o).shared
  PROVE  ConsoleOp(op, chip, before, faults)
<1>1. ConsoleOp(Op(o), chip, before, faults)
  BY OpKnown
<1>2. Op(o).kind \in {"flash", "recover"}
  BY <1>1 DEF ConsoleOp
<1>3. CASE Op(o).kind = "flash"
  <2>1. op.at \in {"connect", "halt"}
    BY <1>3 DEF First
  <2> QED
    BY <1>1, <1>3, <2>1 DEF ConsoleOp, ConsoleOwn
<1>4. CASE Op(o).kind = "recover"
  <2>1. op.at \in {"connect", "massErase"}
    BY <1>4 DEF First
  <2> QED
    BY <1>1, <1>4, <2>1 DEF ConsoleOp, ConsoleOwn
<1> QED
  BY <1>2, <1>3, <1>4

LEMMA ConsoleGetFlashDapKeeps ==
  ASSUME ConsoleGood, NEW o \in Ops, ConsoleGetFlashDap(o)
  PROVE  ConsoleKept
<1> DEFINE device == IF console.device # 0 THEN console.device ELSE usb.object
           next == IF ~console.dap THEN "connect" ELSE First(o)
           op == [Go(o, next) EXCEPT !.proc = device]
           yes == TRUE
           c == [console EXCEPT !.device = device, !.dap = yes]
<1>1. /\ Op(o).at = "choose" /\ Put(o, op, c) /\ UNCHANGED <<desk, chip, pageState, badge, before, faults>>
  BY DEF ConsoleGetFlashDap
<1>2. console \in ConsoleSet(disk, usb.object) /\ device \in 0 .. usb.object /\ yes \in BOOLEAN
  BY ConsoleKnown, ConsoleFields
<1>3. next \in {"connect", "halt", "massErase"} /\ next \in {"connect", First(o)} /\ next \in Names /\ next # "idle"
  BY DEF First, Names
<1>4. Op(o) \in OpSet(disk, usb.object)
  BY OpKnown
<1> HIDE DEF device, next, yes
<1>5. c \in ConsoleSet(disk, usb.object) /\ c.other = console.other
  BY <1>2 DEF ConsoleSet
<1>6. /\ op \in OpSet(disk, usb.object) /\ op.kind = Op(o).kind /\ op.at = next /\ op.file = Op(o).file
      /\ op.shared = Op(o).shared
  BY <1>2, <1>3, <1>4 DEF OpSet, Go
<1> HIDE DEF op, c
<1>7. OpOK(op, disk, usb.object)
  BY <1>3, <1>6, OpIsOK
<1>8. ConsoleOp(op, chip, before, faults)
  BY <1>1, <1>3, <1>6, FirstFacts
<1>9. MemoryAllowed
  BY <1>1, NothingChanged
<1>10. ~Quiet(Op(o)) /\ Op(o).at # "idle"
  BY <1>1 DEF Quiet
<1>11. faults' \in 0 .. MaxFaults /\ faults' >= faults
  BY <1>1, ConsoleKnown
<1>12. /\ chip' \in ChipSet /\ (chip'.locked => chip.locked)
       /\ ConsoleOp(op, chip', before, faults') /\ UNCHANGED <<desk, pageState, badge, before>>
  BY <1>1, <1>8, ConsoleKnown
<1> QED
  BY <1>1, <1>5, <1>6, <1>7, <1>9, <1>10, <1>11, <1>12, ConsoleGoesOn

LEMMA ConsoleConnectDapKeeps ==
  ASSUME ConsoleGood, NEW o \in Ops, ConsoleConnectDap(o)
  PROVE  ConsoleKept
<1> DEFINE next == IF Op(o).at = "connect" THEN First(o) ELSE "rehalt"
           op == Go(o, next)
           yes == TRUE
           c == [console EXCEPT !.opened = yes]
<1>1. /\ Op(o).at \in {"connect", "reconnect"} /\ Put(o, op, c)
      /\ UNCHANGED <<desk, chip, pageState, badge, before, faults>>
  BY DEF ConsoleConnectDap
<1>2. console \in ConsoleSet(disk, usb.object) /\ yes \in BOOLEAN
  BY ConsoleKnown
<1>3. next \in Names /\ next # "idle"
  BY DEF First, Names
<1>4. op = Moved(Op(o), next) /\ Op(o) \in OpSet(disk, usb.object) /\ ConsoleOp(Op(o), chip, before, faults)
  BY OpKnown DEF Go, Moved
<1> HIDE DEF next, yes, op
<1>5. c \in ConsoleSet(disk, usb.object) /\ c.other = console.other
  BY <1>2 DEF ConsoleSet
<1> HIDE DEF c
<1>6. /\ OpOK(op, disk, usb.object) /\ op.kind = Op(o).kind /\ op.at = next /\ op.file = Op(o).file
      /\ op.shared = Op(o).shared /\ op.left = Op(o).left /\ op.checked = Op(o).checked
  BY <1>3, <1>4, OpTo
<1>8. ConsoleOp(op, chip, before, faults)
  <2>1. CASE Op(o).at = "connect"
    BY <1>6, <2>1, FirstFacts DEF next
  <2>2. CASE Op(o).at = "reconnect"
    <3>1. op.at = "rehalt"
      BY <1>6, <2>2 DEF next
    <3> QED
      BY <1>4, <1>6, <2>2, <3>1 DEF ConsoleOp, ConsoleOwn
  <2> QED
    BY <1>1, <2>1, <2>2
<1>9. MemoryAllowed
  BY <1>1, NothingChanged
<1>10. ~Quiet(Op(o)) /\ Op(o).at # "idle"
  BY <1>1 DEF Quiet
<1>11. faults' \in 0 .. MaxFaults /\ faults' >= faults
  BY <1>1, ConsoleKnown
<1>12. /\ chip' \in ChipSet /\ (chip'.locked => chip.locked)
       /\ ConsoleOp(op, chip', before, faults') /\ UNCHANGED <<desk, pageState, badge, before>>
  BY <1>1, <1>8, ConsoleKnown
<1> QED
  BY <1>1, <1>5, <1>6, <1>9, <1>10, <1>11, <1>12, ConsoleGoesOn

LEMMA ConsoleHaltKeeps ==
  ASSUME ConsoleGood, NEW o \in Ops, ConsoleHalt(o)
  PROVE  ConsoleKept
<1> DEFINE op == Go(o, "config")
           c == [chip EXCEPT !.core = "halted"]
<1>1. Transfers(o, "halt", c, op) /\ Op(o).at = "halt" /\ chip' = c /\ ~chip.locked
  BY DEF ConsoleHalt, Transfers, Moves
<1>2. /\ Op(o) \in OpSet(disk, usb.object) /\ ConsoleOp(Op(o), chip, before, faults) /\ chip \in ChipSet
  BY ConsoleKnown, OpKnown
<1>3. c \in ChipSet /\ c.mem = chip.mem /\ c.locked = chip.locked
  BY <1>2 DEF ChipSet
<1> HIDE DEF c
<1>4. MemoryAllowed
  BY <1>1, <1>3, NothingChanged
<1>5. op = Moved(Op(o), "config") /\ "config" \in Names
  BY DEF Go, Moved, Names
<1> HIDE DEF op
<1>6. /\ OpOK(op, disk, usb.object) /\ op.kind = Op(o).kind /\ op.at = "config" /\ op.file = Op(o).file
      /\ op.shared = Op(o).shared
  BY <1>2, <1>5, OpTo
<1>7. ConsoleOp(op, c, before, faults)
  BY <1>1, <1>2, <1>3, <1>6, ConsoleFlashing DEF ConsoleOp, ConsoleOwn
<1>8. c.locked => chip.locked
  BY <1>3
<1> QED
  BY <1>1, <1>3, <1>4, <1>6, <1>7, <1>8, ConsoleTransferKeeps

\* An operation that works on pieces of its file.
LEMMA PiecesOp ==
  ASSUME NEW op, NEW f \in HexFiles, ConsoleImage[f].ok, op.kind = "flash", op.file = f, NEW c, ~c.locked,
         NEW bef, NEW g, op.at \in {"program", "verify"},
         \E j \in 1 .. Len(ConsolePieces[f]) : Rest(op.left, ConsolePieces[f], j),
         op.at = "program" /\ ~op.shared =>
            c.mode = "write" /\ Writing(Meaning(f), bef, Steady(f), op.left, c.mem, g),
         op.at = "verify" /\ ~op.shared => Verifying(Meaning(f), bef, Steady(f), op.left, c.mem, g)
  PROVE  ConsoleOp(op, c, bef, g)
<1>1. ~op.shared => ConsoleOwn(op, c, bef, g)
  BY DEF ConsoleOwn
<1> QED
  BY <1>1 DEF ConsoleOp

LEMMA ConsoleConfigureWriteKeeps ==
  ASSUME ConsoleGood, NEW o \in Ops, ConsoleConfigureWrite(o)
  PROVE  ConsoleKept
<1> DEFINE f == Op(o).file
           pieces == ConsolePieces[f]
           op == PieceByPiece(o, "program", Go(o, "readonly"))
           c == [chip EXCEPT !.mode = "write"]
<1>1. Transfers(o, "config", c, op) /\ Op(o).at = "config" /\ chip' = c
  BY DEF ConsoleConfigureWrite, Transfers, Moves
<1>2. /\ Op(o) \in OpSet(disk, usb.object) /\ ConsoleOp(Op(o), chip, before, faults) /\ chip \in ChipSet
  BY ConsoleKnown, OpKnown
<1>3. Op(o).kind = "flash" /\ f \in HexFiles /\ ConsoleImage[f].ok
      /\ pieces \in Seq(CPart) /\ pieces \in Lefts /\ OwnJob(f, pieces)
  BY <1>1, ConsoleFlashing
<1>4. ~chip.locked /\ (~Op(o).shared => chip.mem = before)
  BY <1>1, <1>2, <1>3 DEF ConsoleOp, ConsoleOwn
<1>5. c \in ChipSet /\ c.mem = chip.mem /\ c.locked = chip.locked /\ c.mode = "write"
  BY <1>2 DEF ChipSet
<1> HIDE DEF c
<1>6. MemoryAllowed
  BY <1>1, <1>5, NothingChanged
<1>7. ~Op(o).shared => Clean(Meaning(f), before, c.mem)
  BY <1>4, <1>5 DEF Clean
<1>8. OpOK(op, disk, usb.object) /\ op.shared = Op(o).shared /\ ConsoleOp(op, c, before, faults)
  <2>1. CASE pieces = <<>>
    <3>1. op = Moved(Op(o), "readonly") /\ "readonly" \in Names
      BY <2>1 DEF PieceByPiece, Go, Moved, Names
    <3> HIDE DEF op
    <3>2. /\ OpOK(op, disk, usb.object) /\ op.kind = Op(o).kind /\ op.at = "readonly" /\ op.file = f
          /\ op.shared = Op(o).shared
      BY <1>2, <3>1, OpTo
    <3>3. ~Op(o).shared => Wrote(Meaning(f), before, Steady(f), <<>>, c.mem, faults)
      BY <1>3, <1>7, <2>1, OwnStarts
    <3> HIDE DEF pieces, f
    <3> QED
      BY <1>3, <1>4, <1>5, <3>2, <3>3 DEF ConsoleOp, ConsoleOwn
  <2>2. CASE pieces # <<>>
    <3>1. op = MovedWith(Op(o), "program", pieces) /\ "program" \in Names
      BY <2>2 DEF PieceByPiece, GoWith, MovedWith, Names
    <3>2. \E j \in 1 .. Len(pieces) : Rest(pieces, pieces, j)
      BY <1>3, <2>2, RestStarts
    <3>3. ~Op(o).shared => Writing(Meaning(f), before, Steady(f), pieces, c.mem, faults)
      BY <1>3, <1>7, <2>2, OwnStarts
    <3> HIDE DEF op
    <3>4. /\ OpOK(op, disk, usb.object) /\ op.kind = Op(o).kind /\ op.at = "program" /\ op.file = f
          /\ op.left = pieces /\ op.shared = Op(o).shared
      BY <1>2, <1>3, <3>1, OpWith
    <3>5. ConsoleOp(op, c, before, faults)
      BY <1>3, <1>4, <1>5, <3>2, <3>3, <3>4, PiecesOp
    <3> QED
      BY <3>4, <3>5
  <2> QED
    BY <2>1, <2>2
<1> HIDE DEF op
<1>9. c.locked => chip.locked
  BY <1>5
<1> QED
  BY <1>1, <1>5, <1>6, <1>8, <1>9, ConsoleTransferKeeps

LEMMA ConsoleRestoreReadOnlyKeeps ==
  ASSUME ConsoleGood, NEW o \in Ops, ConsoleRestoreReadOnly(o)
  PROVE  ConsoleKept
<1> DEFINE f == Op(o).file
           pieces == ConsolePieces[f]
           op == PieceByPiece(o, "verify", [Go(o, "reset") EXCEPT !.checked = TRUE])
           c == [chip EXCEPT !.mode = "read"]
<1>1. Transfers(o, "readonly", c, op) /\ Op(o).at = "readonly" /\ chip' = c
  BY DEF ConsoleRestoreReadOnly, Transfers, Moves
<1>2. /\ Op(o) \in OpSet(disk, usb.object) /\ ConsoleOp(Op(o), chip, before, faults) /\ chip \in ChipSet
  BY ConsoleKnown, OpKnown
<1>3. Op(o).kind = "flash" /\ f \in HexFiles /\ ConsoleImage[f].ok
      /\ pieces \in Seq(CPart) /\ pieces \in Lefts /\ OwnJob(f, pieces)
  BY <1>1, ConsoleFlashing
<1>5. c \in ChipSet /\ c.mem = chip.mem /\ c.locked = chip.locked
  BY <1>2 DEF ChipSet
<1> HIDE DEF c
<1>4. ~chip.locked /\ (~Op(o).shared => Wrote(Meaning(f), before, Steady(f), <<>>, c.mem, faults))
  BY <1>1, <1>2, <1>3, <1>5 DEF ConsoleOp, ConsoleOwn
<1>6. MemoryAllowed
  BY <1>1, <1>5, NothingChanged
<1>8. OpOK(op, disk, usb.object) /\ op.shared = Op(o).shared /\ ConsoleOp(op, c, before, faults)
  <2>1. CASE pieces = <<>>
    <3> DEFINE yes == TRUE
    <3>1. op = MovedChecked(Op(o), "reset", yes) /\ "reset" \in Names
      BY <2>1 DEF PieceByPiece, Go, MovedChecked, Names
    <3>2. yes \in BOOLEAN
      OBVIOUS
    <3> HIDE DEF op, yes
    <3>3. /\ OpOK(op, disk, usb.object) /\ op.kind = Op(o).kind /\ op.at = "reset" /\ op.file = f
          /\ op.shared = Op(o).shared
      BY <1>2, <3>1, <3>2, OpChecked
    <3>4. ~Op(o).shared => Flashed(Meaning(f), before, c.mem)
      BY <1>3, <1>4, <2>1, OwnVerifies
    <3> HIDE DEF pieces, f
    <3> QED
      BY <1>3, <1>4, <1>5, <3>3, <3>4 DEF ConsoleOp, ConsoleOwn
  <2>2. CASE pieces # <<>>
    <3>1. op = MovedWith(Op(o), "verify", pieces) /\ "verify" \in Names
      BY <2>2 DEF PieceByPiece, GoWith, MovedWith, Names
    <3>2. \E j \in 1 .. Len(pieces) : Rest(pieces, pieces, j)
      BY <1>3, <2>2, RestStarts
    <3>3. ~Op(o).shared => Verifying(Meaning(f), before, Steady(f), pieces, c.mem, faults)
      BY <1>3, <1>4, <2>2, OwnVerifies
    <3> HIDE DEF op
    <3>4. /\ OpOK(op, disk, usb.object) /\ op.kind = Op(o).kind /\ op.at = "verify" /\ op.file = f
          /\ op.left = pieces /\ op.shared = Op(o).shared
      BY <1>2, <1>3, <3>1, OpWith
    <3>5. ConsoleOp(op, c, before, faults)
      BY <1>3, <1>4, <1>5, <3>2, <3>3, <3>4, PiecesOp
    <3> QED
      BY <3>4, <3>5
  <2> QED
    BY <2>1, <2>2
<1> HIDE DEF op
<1>9. c.locked => chip.locked
  BY <1>5
<1> QED
  BY <1>1, <1>5, <1>6, <1>8, <1>9, ConsoleTransferKeeps

\* flashBusy is false again, the buttons not yet drawn.
Freed == [console EXCEPT !.busy = FALSE]
\* The flag that is cleared at the end of an operation.
LEMMA FreedFacts ==
  ASSUME NEW d, NEW n, console \in ConsoleSet(d, n)
  PROVE  Freed \in ConsoleSet(d, n) /\ Freed.other = console.other
<1> DEFINE no == FALSE
           c == [console EXCEPT !.busy = no]
<1>1. no \in BOOLEAN /\ Freed = c
  BY DEF Freed
<1> HIDE DEF no
<1>2. c \in ConsoleSet(d, n) /\ c.other = console.other
  BY <1>1 DEF ConsoleSet
<1> QED
  BY <1>1, <1>2

\* An operation on its way out has nothing to say, or an explanation.
LEMMA ClosingOp ==
  ASSUME ConsoleGood, NEW o \in Ops, Op(o).at # "idle", NEW l \in Lefts, NEW op,
         op = MovedWith(Op(o), "close", l), NEW c, NEW g,
         l = <<>> \/ Op(o).shared \/ Explained(Head(l), Op(o).file, g)
  PROVE  OpOK(op, disk, usb.object) /\ op.shared = Op(o).shared /\ ConsoleOp(op, c, before, g)
<1>1. Op(o) \in OpSet(disk, usb.object) /\ ConsoleOp(Op(o), chip, before, faults) /\ "close" \in Names
  BY OpKnown DEF Names
<1>2. /\ OpOK(op, disk, usb.object) /\ op.kind = Op(o).kind /\ op.at = "close" /\ op.left = l
      /\ op.file = Op(o).file /\ op.shared = Op(o).shared
  BY <1>1, OpWith
<1>3. op.kind \in {"flash", "recover"} /\ (op.kind = "flash" => op.file \in HexFiles)
  BY <1>1, <1>2 DEF ConsoleOp
<1>4. ~op.shared => ConsoleOwn(op, c, before, g)
  BY <1>2 DEF ConsoleOwn
<1>5. ConsoleOp(op, c, before, g)
  BY <1>2, <1>3, <1>4 DEF ConsoleOp
<1> QED
  BY <1>2, <1>5

LEMMA ConsoleEraseAllKeeps ==
  ASSUME ConsoleGood, NEW o \in Ops, ConsoleEraseAll(o)
  PROVE  ConsoleKept
<1> DEFINE op == GoWith(o, "close", <<>>)
           c == AfterMassErase(chip)
<1>1. /\ Op(o).at = "massErase" /\ chip' = c /\ Put(o, op, Freed)
      /\ badge' = Shown("recovered", NoFile, FALSE, "")
      /\ UNCHANGED <<desk, pageState, before, faults>>
  BY DEF ConsoleEraseAll, Freed
<1>2. /\ chip \in ChipSet /\ console \in ConsoleSet(disk, usb.object) /\ faults' \in 0 .. MaxFaults
      /\ NoFile \in disk \cup {NoFile} /\ ConsoleOp(Op(o), chip, before, faults) /\ Op(o) # Idle
  BY <1>1, ConsoleKnown, OpKnown
<1>3. c \in ChipSet /\ c.locked = FALSE
  BY <1>2, AfterMassEraseFacts
<1>4. Op(o).kind = "recover"
  BY <1>1, <1>2 DEF ConsoleOp
<1>5. MemoryAllowed
  BY <1>1, <1>3, <1>4, ConsoleMayChange
<1>6. op = MovedWith(Op(o), "close", <<>>) /\ <<>> \in Lefts
  BY DEF GoWith, MovedWith, Lefts
<1> HIDE DEF op, c
<1>7. OpOK(op, disk, usb.object) /\ op.shared = Op(o).shared /\ ConsoleOp(op, chip', before, faults')
  BY <1>1, <1>6, ClosingOp
<1>8. badge'.text = "recovered" /\ badge'.file = NoFile /\ badge'.checked \in BOOLEAN
  BY <1>1 DEF Shown
<1>9. BadgeInv'
  BY <1>8, BadgeOther
<1>10. /\ Freed \in ConsoleSet(disk, usb.object) /\ Freed.other = console.other
       /\ UNCHANGED <<desk, pageState, before>> /\ chip' \in ChipSet /\ (chip'.locked => chip.locked)
       /\ badge'.file \in disk \cup {NoFile}
  BY <1>1, <1>2, <1>3, <1>8, FreedFacts
<1> QED
  BY <1>1, <1>2, <1>5, <1>7, <1>8, <1>9, <1>10, ConsoleStepKeeps

(* ----------------------------- piece by piece ---------------------------- *)

\* What an operation knows of the pieces it has left.
LEMMA ConsoleHolding ==
  ASSUME ConsoleGood, NEW o \in Ops, Op(o).at \in {"program", "verify", "reconnect", "rehalt"}
  PROVE  /\ Op(o).kind = "flash" /\ Op(o).file \in HexFiles /\ ConsoleImage[Op(o).file].ok
         /\ Op(o) \in OpSet(disk, usb.object) /\ ~chip.locked /\ chip \in ChipSet /\ chip.mem \in Memory
         /\ \E j \in 1 .. Len(ConsolePieces[Op(o).file]) : Rest(Op(o).left, ConsolePieces[Op(o).file], j)
         /\ ConsolePieces[Op(o).file] \in Seq(CPart) /\ Len(ConsolePieces[Op(o).file]) \in Nat
         /\ Todo(Meaning(Op(o).file), Steady(Op(o).file), Op(o).left)
         /\ Op(o).left \in Parts /\ Op(o).left # <<>> /\ Tail(Op(o).left) \in Lefts
         /\ Head(Op(o).left).address \in Nat /\ Head(Op(o).left).data \in Seq(Bytes)
         /\ PartSpan(Head(Op(o).left)) \subseteq DOMAIN Meaning(Op(o).file)
         /\ ~(Len(Op(o).left) > 1) => Tail(Op(o).left) = <<>>
         /\ Op(o).at = "program" /\ ~Op(o).shared => /\ chip.mode = "write"
               /\ Writing(Meaning(Op(o).file), before, Steady(Op(o).file), Op(o).left, chip.mem, faults)
         /\ Op(o).at = "verify" /\ ~Op(o).shared =>
               Verifying(Meaning(Op(o).file), before, Steady(Op(o).file), Op(o).left, chip.mem, faults)
<1> DEFINE f == Op(o).file
           left == Op(o).left
           pieces == ConsolePieces[f]
           want == Meaning(f)
           sure == Steady(f)
<1>1. /\ Op(o).kind = "flash" /\ f \in HexFiles /\ ConsoleImage[f].ok /\ pieces \in Seq(CPart)
      /\ Len(pieces) \in Nat
  BY ConsoleFlashing
<1>2. ConsoleOp(Op(o), chip, before, faults) /\ Op(o) \in OpSet(disk, usb.object)
      /\ chip \in ChipSet /\ chip.mem \in Memory
  BY ConsoleKnown, OpKnown
<1>3. ~chip.locked /\ \E j \in 1 .. Len(pieces) : Rest(left, pieces, j)
  BY <1>2 DEF ConsoleOp
<1>4. /\ Op(o).at = "program" /\ ~Op(o).shared => chip.mode = "write"
            /\ Writing(want, before, sure, left, chip.mem, faults)
      /\ Op(o).at = "verify" /\ ~Op(o).shared => Verifying(want, before, sure, left, chip.mem, faults)
  BY <1>2 DEF ConsoleOp, ConsoleOwn
<1>5. Todo(want, sure, left)
  BY <1>1, <1>3, RestInMeaning
<1> HIDE DEF want, sure, left
<1>6. /\ left \in Parts /\ left # <<>> /\ Tail(left) \in Lefts
      /\ Head(left).address \in Nat /\ Head(left).data \in Seq(Bytes)
      /\ PartSpan(Head(left)) \subseteq DOMAIN want
      /\ ~(Len(left) > 1) => Tail(left) = <<>>
  BY <1>5, NextPart
<1> QED
  BY <1>1, <1>2, <1>3, <1>4, <1>5, <1>6 DEF want, sure, left

\* A piece went into the memory, well or badly.
LEMMA ConsoleChunkDone ==
  ASSUME ConsoleGood, NEW o \in Ops, Op(o).at = "program", Present(chip.mem, Head(Op(o).left)),
         NEW new \in ChipSet, NEW g, g \in 0 .. MaxFaults, g >= faults,
         new.locked = chip.locked, new.mode = chip.mode, chip.mode = "write",
         \/ WrittenOver(chip.mem, Head(Op(o).left), new.mem) /\ g = faults
         \/ PartlyWritten(chip.mem, Head(Op(o).left), new.mem) /\ g # 0,
         UNCHANGED <<desk, pageState, badge, before>>, chip' = new, faults' = g,
         Put(o, Next1(o, Go(o, "readonly")), console)
  PROVE  ConsoleKept
<1> DEFINE f == Op(o).file
           pieces == ConsolePieces[f]
           want == Meaning(f)
           sure == Steady(f)
           op == Next1(o, Go(o, "readonly"))
           left == Op(o).left
           p == Head(left)
           t == Tail(left)
<1>1. /\ Op(o).kind = "flash" /\ f \in HexFiles /\ ConsoleImage[f].ok
      /\ Op(o) \in OpSet(disk, usb.object) /\ ~chip.locked /\ chip.mem \in Memory
      /\ \E j \in 1 .. Len(pieces) : Rest(left, pieces, j)
      /\ Len(pieces) \in Nat
      /\ t \in Lefts /\ p.address \in Nat /\ p.data \in Seq(Bytes)
      /\ PartSpan(p) \subseteq DOMAIN want
      /\ ~(Len(left) > 1) => t = <<>>
      /\ ~Op(o).shared => Writing(want, before, sure, left, chip.mem, faults)
  BY ConsoleHolding
<1>2. PartSpan(p) \subseteq DOMAIN Factory
  BY <1>1, PresentFacts
<1> HIDE DEF want, p, sure, t
<1>3. ~Op(o).shared => /\ Wrote(want, before, sure, t, new.mem, g)
                       /\ Len(left) > 1 => Writing(want, before, sure, t, new.mem, g)
  <2>1. CASE WrittenOver(chip.mem, p, new.mem) /\ g = faults
    BY <1>1, <1>2, <2>1, PartWritten DEF p, t
  <2>2. CASE PartlyWritten(chip.mem, p, new.mem) /\ g # 0
    BY <1>1, <2>2, PartMissed DEF p, t
  <2> QED
    BY <2>1, <2>2 DEF p
<1>4. MemoryAllowed
  <2>1. \A a \in DOMAIN Factory : new.mem[a] # chip.mem[a] => a \in PartSpan(p)
    BY DEF WrittenOver, PartlyWritten, p
  <2>2. \A a \in DOMAIN Factory : chip'.mem[a] # chip.mem[a] => a \in DOMAIN Meaning(Op(o).file)
    BY <1>1, <2>1 DEF want
  <2> QED
    BY <1>1, <2>2, ConsoleMayChange
<1>5. ~Quiet(Op(o)) /\ Op(o).at # "idle"
  BY DEF Quiet
<1>6. OpOK(op, disk, usb.object) /\ op.shared = Op(o).shared /\ ConsoleOp(op, new, before, g)
  <2>1. CASE Len(left) > 1
    <3>1. op = [Op(o) EXCEPT !.left = Tail(@)]
      BY <2>1 DEF Next1
    <3> HIDE DEF op
    <3>2. OpOK(op, disk, usb.object) /\ op.kind = Op(o).kind /\ op.file = f /\ op.at = "program"
          /\ op.left = t /\ op.shared = Op(o).shared
      BY <1>1, <3>1, OpRest DEF t
    <3>3. \E j \in 1 .. Len(pieces) : Rest(t, pieces, j)
      <4>1. PICK j \in 1 .. Len(pieces) : Rest(left, pieces, j)
        BY <1>1
      <4>2. Rest(t, pieces, j + 1) /\ j + 1 \in 1 .. Len(pieces)
        BY <1>1, <2>1, <4>1, RestGoesOn DEF t
      <4> QED
        BY <4>2
    <3>4. ~Op(o).shared => Writing(Meaning(f), before, Steady(f), t, new.mem, g)
      BY <1>3, <2>1 DEF want, sure
    <3> HIDE DEF f, left
    <3>5. ConsoleOp(op, new, before, g)
      BY <1>1, <3>2, <3>3, <3>4, PiecesOp
    <3> QED
      BY <3>2, <3>5
  <2>2. CASE ~(Len(left) > 1)
    <3>1. op = Moved(Op(o), "readonly") /\ "readonly" \in Names
      BY <2>2 DEF Next1, Go, Moved, Names
    <3> HIDE DEF op
    <3>2. OpOK(op, disk, usb.object) /\ op.kind = Op(o).kind /\ op.file = f /\ op.at = "readonly"
          /\ op.shared = Op(o).shared
      BY <1>1, <3>1, OpTo
    <3>3. ~Op(o).shared => Wrote(Meaning(f), before, Steady(f), <<>>, new.mem, g)
      BY <1>1, <1>3, <2>2 DEF want, sure
    <3> HIDE DEF f, left
    <3> QED
      BY <1>1, <3>2, <3>3 DEF ConsoleOp, ConsoleOwn
  <2> QED
    BY <2>1, <2>2
<1>7. console \in ConsoleSet(disk, usb.object)
  BY ConsoleKnown
<1> HIDE DEF op, left, f
<1>8. Put(o, op, console)
  BY DEF op
<1>9. chip' \in ChipSet /\ (chip'.locked => chip.locked) /\ ConsoleOp(op, chip', before, faults')
      /\ faults' \in 0 .. MaxFaults /\ faults' >= faults
  BY <1>6
<1> QED
  BY <1>4, <1>5, <1>6, <1>7, <1>8, <1>9, ConsoleGoesOn

LEMMA ConsoleWriteChunkKeeps ==
  ASSUME ConsoleGood, NEW o \in Ops, ConsoleWriteChunk(o)
  PROVE  ConsoleKept
<1> DEFINE p == Head(Op(o).left)
           c == Written(chip, p)
<1>1. /\ Op(o).at = "program" /\ Present(chip.mem, Head(Op(o).left)) /\ chip' = c /\ faults' = faults
      /\ chip.mode = "write" /\ UNCHANGED <<desk, pageState, badge, before>>
      /\ Put(o, Next1(o, Go(o, "readonly")), console)
  BY DEF ConsoleWriteChunk, Transfers, Moves
<1>2. chip \in ChipSet /\ p.address \in Nat /\ p.data \in Seq(Bytes)
  BY <1>1, ConsoleHolding
<1>3. c \in ChipSet /\ WrittenOver(chip.mem, p, c.mem) /\ c.locked = chip.locked /\ c.mode = chip.mode
  BY <1>2, WrittenFacts
<1>4. faults \in 0 .. MaxFaults /\ faults \in Nat /\ faults >= faults
  BY ConsoleKnown
<1> HIDE DEF c
<1> QED
  BY <1>1, <1>3, <1>4, ConsoleChunkDone

LEMMA ConsoleMisprogramKeeps ==
  ASSUME ConsoleGood, NEW o \in Ops, ConsoleMisprogram(o)
  PROVE  ConsoleKept
<1> DEFINE p == Head(Op(o).left)
           c == chip'
<1>1. /\ Op(o).at = "program" /\ c \in Missed(p) /\ faults < MaxFaults /\ faults' = faults + 1
      /\ Present(chip.mem, Head(Op(o).left)) /\ chip.mode = "write"
      /\ UNCHANGED <<desk, pageState, badge, before>>
      /\ Put(o, Next1(o, Go(o, "readonly")), console)
  BY DEF ConsoleMisprogram, Moves
<1>2. chip \in ChipSet /\ p.address \in Nat /\ p.data \in Seq(Bytes)
  BY <1>1, ConsoleHolding
<1> HIDE DEF p
<1>3. c \in ChipSet /\ PartlyWritten(chip.mem, p, c.mem) /\ c.locked = chip.locked /\ c.mode = chip.mode
  BY <1>1, <1>2, MissedFacts
<1>4. faults \in Nat /\ MaxFaults \in Nat
  BY ConsoleKnown
<1>5. faults + 1 \in 0 .. MaxFaults /\ faults + 1 >= faults /\ faults + 1 # 0
  BY <1>1, <1>4
<1> QED
  BY <1>1, <1>3, <1>5, ConsoleChunkDone DEF p

LEMMA ConsoleVerifyChunkKeeps ==
  ASSUME ConsoleGood, NEW o \in Ops, ConsoleVerifyChunk(o)
  PROVE  ConsoleKept
<1> DEFINE f == Op(o).file
           pieces == ConsolePieces[f]
           want == Meaning(f)
           sure == Steady(f)
           left == Op(o).left
           t == Tail(left)
           op == Next1(o, [Go(o, "reset") EXCEPT !.checked = TRUE])
<1>1. /\ Transfers(o, "verify", chip, op) /\ Op(o).at = "verify" /\ chip' = chip
      /\ Holds(chip, Head(Op(o).left))
  BY DEF ConsoleVerifyChunk, Transfers, Moves
<1>2. /\ Op(o).kind = "flash" /\ f \in HexFiles /\ ConsoleImage[f].ok
      /\ Op(o) \in OpSet(disk, usb.object) /\ ~chip.locked /\ chip.mem \in Memory /\ chip \in ChipSet
      /\ \E j \in 1 .. Len(pieces) : Rest(left, pieces, j)
      /\ Len(pieces) \in Nat /\ t \in Lefts
      /\ ~Op(o).shared => Verifying(want, before, sure, left, chip.mem, faults)
  BY <1>1, ConsoleHolding
<1> HIDE DEF want, sure, t
<1>3. ~Op(o).shared => /\ Len(left) > 1 => Verifying(want, before, sure, t, chip.mem, faults)
                       /\ ~(Len(left) > 1) => Flashed(want, before, chip.mem)
  BY <1>1, <1>2, PartVerified DEF t
<1>4. OpOK(op, disk, usb.object) /\ op.shared = Op(o).shared /\ ConsoleOp(op, chip, before, faults)
  <2>1. CASE Len(left) > 1
    <3>1. op = [Op(o) EXCEPT !.left = Tail(@)]
      BY <2>1 DEF Next1
    <3> HIDE DEF op
    <3>2. OpOK(op, disk, usb.object) /\ op.kind = Op(o).kind /\ op.file = f /\ op.at = "verify"
          /\ op.left = t /\ op.shared = Op(o).shared
      BY <1>1, <1>2, <3>1, OpRest DEF t
    <3>3. \E j \in 1 .. Len(pieces) : Rest(t, pieces, j)
      <4>1. PICK j \in 1 .. Len(pieces) : Rest(left, pieces, j)
        BY <1>2
      <4>2. Rest(t, pieces, j + 1) /\ j + 1 \in 1 .. Len(pieces)
        BY <1>2, <2>1, <4>1, RestGoesOn DEF t
      <4> QED
        BY <4>2
    <3>4. ~Op(o).shared => Verifying(Meaning(f), before, Steady(f), t, chip.mem, faults)
      BY <1>3, <2>1 DEF want, sure
    <3> HIDE DEF f, left
    <3>5. ConsoleOp(op, chip, before, faults)
      BY <1>2, <3>2, <3>3, <3>4, PiecesOp
    <3> QED
      BY <3>2, <3>5
  <2>2. CASE ~(Len(left) > 1)
    <3> DEFINE yes == TRUE
    <3>1. op = MovedChecked(Op(o), "reset", yes)
      BY <2>2 DEF Next1, Go, MovedChecked
    <3>2. yes \in BOOLEAN /\ "reset" \in Names
      BY DEF Names
    <3> HIDE DEF op, yes
    <3>3. OpOK(op, disk, usb.object) /\ op.kind = Op(o).kind /\ op.file = f /\ op.at = "reset"
          /\ op.shared = Op(o).shared
      BY <1>2, <3>1, <3>2, OpChecked
    <3>4. ~Op(o).shared => Flashed(Meaning(f), before, chip.mem)
      BY <1>3, <2>2 DEF want
    <3> HIDE DEF f, left
    <3> QED
      BY <1>2, <3>3, <3>4 DEF ConsoleOp, ConsoleOwn
  <2> QED
    BY <2>1, <2>2
<1>5. MemoryAllowed
  BY <1>1, NothingChanged
<1> HIDE DEF op, left, f
<1> QED
  BY <1>1, <1>2, <1>4, <1>5, ConsoleTransferKeeps

\* A segment that begins again brings back, or finds again, what its pieces would have.
LEMMA RepeatedFacts ==
  ASSUME NEW f \in HexFiles, ConsoleImage[f].ok, NEW left,
         \E j \in 1 .. Len(ConsolePieces[f]) : Rest(left, ConsolePieces[f], j),
         ConsolePieces[f] \in Seq(CPart), Len(ConsolePieces[f]) \in Nat
  PROVE  /\ \E k \in 1 .. Len(ConsolePieces[f]) : Rest(From(Head(left).segment, f), ConsolePieces[f], k)
         /\ From(Head(left).segment, f) \in Lefts
         /\ \A want, mem : Right(want, mem, left) => Right(want, mem, From(Head(left).segment, f))
<1> DEFINE pieces == ConsolePieces[f]
           more == From(Head(left).segment, f)
<1>1. PICK j \in 1 .. Len(pieces) : Rest(left, pieces, j)
  OBVIOUS
<1>2. PICK k \in 1 .. j : Rest(more, pieces, k)
  BY <1>1, FromFacts
<1>3. k \in 1 .. Len(pieces) /\ k <= j
  BY <1>1, <1>2
<1> HIDE DEF more, pieces
<1>4. more \in Lefts
  BY <1>2 DEF Rest, Lefts, Parts
<1>5. \A a, v : Gives(Range(left), a, v) => Gives(Range(more), a, v)
  BY <1>1, <1>2, <1>3, EarlierRest DEF pieces
<1>6. \A want, mem : Right(want, mem, left) => Right(want, mem, more)
  BY <1>5 DEF Right
<1> QED
  BY <1>2, <1>3, <1>4, <1>6 DEF more, pieces

LEMMA ConsoleShortAnswerKeeps ==
  ASSUME ConsoleGood, NEW o \in Ops, ConsoleShortAnswer(o)
  PROVE  ConsoleKept
<1> DEFINE f == Op(o).file
           left == Op(o).left
           more == From(Head(left).segment, f)
           again == (Op(o).at = "verify")
           op == [Op(o) EXCEPT !.at = "reconnect", !.left = more, !.checked = again, !.proc = console.device]
           dap == (console.device # 0)
           no == FALSE
           ui == ~console.busy
           c == [console EXCEPT !.dap = dap, !.opened = no, !.ui = ui]
           want == Meaning(f)
           sure == Steady(f)
<1>1. /\ Op(o).at \in {"program", "verify"} /\ Answers(Op(o)) /\ Thrown(Op(o))
      /\ Put(o, op, c) /\ UNCHANGED <<desk, pageState, badge, before>>
  BY DEF ConsoleShortAnswer
<1>2. /\ Op(o).kind = "flash" /\ f \in HexFiles /\ ConsoleImage[f].ok
      /\ Op(o) \in OpSet(disk, usb.object) /\ ~chip.locked /\ chip.mem \in Memory /\ chip \in ChipSet
      /\ \E j \in 1 .. Len(ConsolePieces[f]) : Rest(left, ConsolePieces[f], j)
      /\ ConsolePieces[f] \in Seq(CPart) /\ Len(ConsolePieces[f]) \in Nat
      /\ left \in Parts /\ left # <<>>
      /\ PartSpan(Head(left)) \subseteq DOMAIN want
      /\ Op(o).at = "program" /\ ~Op(o).shared => Writing(want, before, sure, left, chip.mem, faults)
      /\ Op(o).at = "verify" /\ ~Op(o).shared => Verifying(want, before, sure, left, chip.mem, faults)
  BY <1>1, ConsoleHolding
<1>3. /\ \E k \in 1 .. Len(ConsolePieces[f]) : Rest(more, ConsolePieces[f], k)
      /\ more \in Lefts
      /\ \A w, mem : Right(w, mem, left) => Right(w, mem, more)
  BY <1>2, RepeatedFacts
<1>4. faults \in 0 .. MaxFaults /\ faults \in Nat /\ MaxFaults \in Nat /\ console \in ConsoleSet(disk, usb.object)
      /\ console.device \in 0 .. usb.object /\ console.busy \in BOOLEAN
  BY ConsoleKnown, ConsoleFields
<1>5. HalfDoneEffect(Op(o))
  BY <1>1, <1>2, <1>4, ThrownFacts
<1> HIDE DEF want, sure, left, more
<1>6. /\ chip' \in ChipSet /\ (chip'.locked => chip.locked) /\ faults' \in 0 .. MaxFaults /\ faults' >= faults
      /\ faults' > 0
      /\ chip'.mem # chip.mem => Op(o).at = "program"
      /\ Op(o).at = "program" => PartlyWritten(chip.mem, Head(left), chip'.mem)
  BY <1>1, <1>5 DEF HalfDoneEffect, left
<1>7. MemoryAllowed
  <2>1. CASE chip'.mem = chip.mem
    BY <2>1, NothingChanged
  <2>2. CASE chip'.mem # chip.mem
    <3>1. \A a \in DOMAIN Factory : chip'.mem[a] # chip.mem[a] => a \in DOMAIN Meaning(Op(o).file)
      BY <1>2, <1>6, <2>2 DEF PartlyWritten, want
    <3> QED
      BY <1>2, <3>1, ConsoleMayChange
  <2> QED
    BY <2>1, <2>2
<1>8. again \in BOOLEAN /\ dap \in BOOLEAN /\ no \in BOOLEAN /\ ui \in BOOLEAN
      /\ (again <=> Op(o).at = "verify")
  OBVIOUS
<1>9. "reconnect" \in Names
  BY DEF Names
<1> HIDE DEF again, dap, no, ui
<1>10. /\ op \in OpSet(disk, usb.object) /\ op.kind = Op(o).kind /\ op.at = "reconnect" /\ op.file = f
       /\ op.left = more /\ op.checked = again /\ op.shared = Op(o).shared
  BY <1>2, <1>3, <1>4, <1>8, <1>9 DEF OpSet
<1>11. c \in ConsoleSet(disk, usb.object) /\ c.other = console.other
  BY <1>4, <1>8 DEF ConsoleSet
<1> HIDE DEF op, c
<1>12. OpOK(op, disk, usb.object)
  BY <1>10, OpIsOK
<1>13. ~Op(o).shared => Clean(want, before, chip'.mem) /\ (again => Right(want, chip'.mem, more))
  <2>1. CASE Op(o).at = "program"
    <3>1. ~again
      BY <1>8, <2>1
    <3>2. faults' # 0
      BY <1>4, <1>6
    <3> DEFINE g == faults'
               new == chip'.mem
    <3>3. g # 0 /\ PartlyWritten(chip.mem, Head(left), new)
      BY <1>6, <2>1, <3>2
    <3> HIDE DEF g, new
    <3>4. ~Op(o).shared => Wrote(want, before, sure, <<>>, new, g)
      BY <1>2, <2>1, <3>3, PartMissed
    <3> QED
      BY <3>1, <3>4 DEF Wrote, new
  <2>2. CASE Op(o).at = "verify"
    <3>1. chip'.mem = chip.mem
      BY <1>6, <2>2
    <3>2. ~Op(o).shared => Clean(want, before, chip.mem) /\ Right(want, chip.mem, left)
      BY <1>2, <2>2 DEF Verifying, Wrote
    <3> QED
      BY <1>3, <3>1, <3>2
  <2> QED
    BY <1>1, <2>1, <2>2
<1>14. chip'.locked \in BOOLEAN /\ ~chip'.locked
  BY <1>2, <1>6, ChipFields
<1>15. ~op.shared => ConsoleOwn(op, chip', before, faults')
  BY <1>6, <1>10, <1>13 DEF ConsoleOwn, want
<1> HIDE DEF f
<1>16. ConsoleOp(op, chip', before, faults')
  BY <1>2, <1>3, <1>10, <1>14, <1>15 DEF ConsoleOp
<1>17. ~Quiet(Op(o)) /\ Op(o).at # "idle"
  BY <1>1 DEF Quiet
<1> QED
  BY <1>1, <1>6, <1>7, <1>10, <1>11, <1>12, <1>16, <1>17, ConsoleGoesOn

LEMMA ConsoleRehaltKeeps ==
  ASSUME ConsoleGood, NEW o \in Ops, ConsoleRehalt(o)
  PROVE  ConsoleKept
<1> DEFINE f == Op(o).file
           left == Op(o).left
           next == IF Op(o).checked THEN "verify" ELSE "program"
           no == FALSE
           op == [Go(o, next) EXCEPT !.checked = no]
           c == [chip EXCEPT !.core = "halted", !.mode = "write"]
           want == Meaning(f)
           sure == Steady(f)
<1>1. Transfers(o, "rehalt", c, op) /\ Op(o).at = "rehalt" /\ chip' = c
  BY DEF ConsoleRehalt, Transfers, Moves
<1>2. /\ Op(o).kind = "flash" /\ f \in HexFiles /\ ConsoleImage[f].ok
      /\ Op(o) \in OpSet(disk, usb.object) /\ ~chip.locked /\ chip \in ChipSet
      /\ \E j \in 1 .. Len(ConsolePieces[f]) : Rest(left, ConsolePieces[f], j)
      /\ Todo(want, sure, left)
  BY <1>1, ConsoleHolding
<1>3. c \in ChipSet /\ c.mem = chip.mem /\ c.locked = chip.locked /\ c.mode = "write"
  BY <1>2 DEF ChipSet
<1>4. ConsoleOp(Op(o), chip, before, faults) /\ faults \in Nat
  BY ConsoleKnown, OpKnown
<1>5. ~Op(o).shared => /\ Clean(want, before, chip.mem) /\ faults > 0
                       /\ Op(o).checked => Right(want, chip.mem, left)
  BY <1>1, <1>4 DEF ConsoleOp, ConsoleOwn
<1> HIDE DEF c, want, sure
<1>6. op = MovedChecked(Op(o), next, no) /\ next \in Names /\ next # "idle" /\ no \in BOOLEAN
      /\ ((Op(o).checked /\ next = "verify") \/ (~Op(o).checked /\ next = "program"))
  BY DEF Go, MovedChecked, Names
<1> HIDE DEF op, next, no
<1>7. /\ OpOK(op, disk, usb.object) /\ op.kind = Op(o).kind /\ op.at = next /\ op.left = left /\ op.file = f
      /\ op.shared = Op(o).shared
  BY <1>2, <1>6, OpChecked
<1> HIDE DEF left
<1>8. ~Op(o).shared => Wrote(want, before, sure, <<>>, c.mem, faults) /\ Wrote(want, before, sure, left, c.mem, faults)
  BY <1>3, <1>4, <1>5 DEF Wrote
<1>9. op.at = "program" /\ ~op.shared => c.mode = "write" /\ Writing(want, before, sure, op.left, c.mem, faults)
  BY <1>2, <1>3, <1>7, <1>8 DEF Writing
<1>10. op.at = "verify" /\ ~op.shared => Verifying(want, before, sure, op.left, c.mem, faults)
  BY <1>2, <1>3, <1>5, <1>6, <1>7, <1>8 DEF Verifying
<1>11. op.at \in {"program", "verify"}
  BY <1>6, <1>7
<1> HIDE DEF f
<1>12. ConsoleOp(op, c, before, faults)
  BY <1>2, <1>3, <1>7, <1>9, <1>10, <1>11, PiecesOp DEF want, sure
<1>13. MemoryAllowed
  BY <1>1, <1>3, NothingChanged
<1> QED
  BY <1>1, <1>2, <1>3, <1>7, <1>12, <1>13, ConsoleTransferKeeps

LEMMA ConsoleResetKeeps ==
  ASSUME ConsoleGood, NEW o \in Ops, ConsoleReset(o)
  PROVE  ConsoleKept
<1> DEFINE op == GoWith(o, "close", <<>>)
           f == Op(o).file
           k == Op(o).checked
           w == IF Op(o).shared THEN "shared" ELSE ""
           c == AfterReset(chip)
<1>1. /\ Op(o).at = "reset" /\ chip' = c /\ Put(o, op, Freed)
      /\ badge' = Shown("complete", f, k, w)
      /\ UNCHANGED <<desk, pageState, before, faults>>
  BY DEF ConsoleReset, Freed
<1>2. /\ chip \in ChipSet /\ chip.mem \in Memory /\ before \in Memory
      /\ console \in ConsoleSet(disk, usb.object) /\ faults' \in 0 .. MaxFaults
      /\ ConsoleOp(Op(o), chip, before, faults) /\ Op(o) # Idle /\ tool = "console" /\ option = FALSE
      /\ Op(o) \in OpSet(disk, usb.object) /\ OpOK(Op(o), disk, usb.object)
  BY <1>1, ConsoleKnown, OpKnown
<1>3. c \in ChipSet /\ c.mem = chip.mem /\ c.locked = chip.locked
  BY <1>2, AfterResetFacts
<1>4. f \in HexFiles
  BY <1>1, ConsoleFlashing
<1>5. MemoryAllowed
  BY <1>1, <1>3, NothingChanged
<1>6. op = MovedWith(Op(o), "close", <<>>) /\ <<>> \in Lefts
  BY DEF GoWith, MovedWith, Lefts
<1> HIDE DEF op
<1>7. OpOK(op, disk, usb.object) /\ op.shared = Op(o).shared /\ ConsoleOp(op, chip', before, faults')
  BY <1>1, <1>6, ClosingOp
<1>8. /\ Freed \in ConsoleSet(disk, usb.object) /\ Freed.other = console.other
  BY <1>2, FreedFacts
<1>9. badge'.file \in disk \cup {NoFile} /\ badge'.checked \in BOOLEAN /\ badge'.text = "complete" /\ badge'.why = w
  BY <1>1, <1>2, OpFields DEF Shown
<1>10. BadgeInv'
  <2>1. CASE Op(o).shared
    <3>1. badge'.why = "shared" /\ badge'.text # "failed"
      BY <1>9, <2>1
    <3> QED
      BY <3>1 DEF BadgeInv, CompleteMeansFlashed, FailureIsExplained
  <2>2. CASE ~Op(o).shared
    <3>1. Flashed(Meaning(f), before, chip.mem)
      BY <1>1, <1>2, <2>2 DEF ConsoleOp, ConsoleOwn
    <3>2. chip.mem = Override(before, Meaning(f))
      BY <1>2, <3>1, FlashedIsOverride
    <3>3. tool' = tool /\ option' = option /\ before' = before
      BY <1>1 DEF desk, pageState
    <3>4. ~ErasesFirst'
      BY <1>2, <3>3 DEF ErasesFirst
    <3>5. Mate(o) = Idle
      BY <1>2, <2>2, OpKnown
    <3>6. op \in OpSet(disk, usb.object)
      BY <1>7, OpFields
    <3>7. Op(o)' = op /\ Mate(o)' = Mate(o)
      BY <1>1, <1>8, <3>6, PutFacts
    <3>8. op.at = "close"
      BY <1>2, <1>6, OpWith DEF Names
    <3>9. Quiet(op) /\ Quiet(Idle)
      BY <3>8, AloneIsIdle DEF Quiet
    <3>10. Quiet(task') /\ Quiet(console'.other)
      BY <3>5, <3>7, <3>9 DEF Op, Mate
    <3>11. f \in HexFiles /\ chip.mem = Override(IF ErasesFirst' THEN Blank ELSE before', Meaning(f))
      BY <1>4, <3>2, <3>3, <3>4
    <3> HIDE DEF w, k, f
    <3> QED
      BY <1>1, <1>2, <3>3, <3>10, <3>11, BadgeComplete
  <2> QED
    BY <2>1, <2>2
<1> HIDE DEF c
<1>11. UNCHANGED <<desk, pageState, before>> /\ chip' \in ChipSet /\ (chip'.locked => chip.locked)
  BY <1>1, <1>3
<1> QED
  BY <1>1, <1>2, <1>5, <1>7, <1>8, <1>9, <1>10, <1>11, ConsoleStepKeeps

\* The reason an operation takes along to its end.
LEMMA ReasonFacts ==
  ASSUME NEW why \in Names
  PROVE  <<why>> \in Lefts /\ Head(<<why>>) = why
<1>1. <<why>> \in Seq(Names) /\ Head(<<why>>) = why
  OBVIOUS
<1> QED
  BY <1>1 DEF Lefts

\* An operation that goes to its end with an explained failure.
LEMMA ConsoleEndFailed ==
  ASSUME ConsoleGood, NEW o \in Ops, Op(o).at \notin {"idle", "close"}, NEW why \in Names,
         Put(o, GoWith(o, "close", <<why>>), Freed),
         UNCHANGED <<desk, pageState, badge, before>>,
         chip' \in ChipSet, chip'.locked => chip.locked,
         faults' \in 0 .. MaxFaults, faults' >= faults, MemoryAllowed,
         Op(o).shared \/ Explained(why, Op(o).file, faults')
  PROVE  ConsoleKept
<1> DEFINE l == <<why>>
           op == GoWith(o, "close", l)
<1>1. l \in Lefts /\ Head(l) = why
  BY ReasonFacts
<1>2. op = MovedWith(Op(o), "close", l)
  BY DEF GoWith, MovedWith
<1>3. Put(o, op, Freed)
  OBVIOUS
<1> HIDE DEF op, l
<1>4. OpOK(op, disk, usb.object) /\ op.shared = Op(o).shared /\ ConsoleOp(op, chip', before, faults')
  BY <1>1, <1>2, ClosingOp
<1>5. console \in ConsoleSet(disk, usb.object)
  BY ConsoleKnown
<1>6. Freed \in ConsoleSet(disk, usb.object) /\ Freed.other = console.other
  BY <1>5, FreedFacts
<1>7. ~Quiet(Op(o)) /\ Op(o).at # "idle"
  <2>1. ConsoleOp(Op(o), chip, before, faults)
    BY OpKnown
  <2>2. Op(o).at \notin {"idle", "reading", "close", "release"}
    BY <2>1 DEF ConsoleOp
  <2> QED
    BY <2>2 DEF Quiet
<1> QED
  BY <1>3, <1>4, <1>6, <1>7, ConsoleGoesOn

\* A transfer that throws, with what it may have written.
LEMMA ConsoleThrows ==
  ASSUME ConsoleGood, NEW o \in Ops,
         Op(o).at \notin {"idle", "file", "choose", "connect", "reconnect", "close"}, Thrown(Op(o)),
         Put(o, GoWith(o, "close", <<IF Answers(Op(o)) THEN "transfer" ELSE "gone">>), Freed),
         UNCHANGED <<desk, pageState, badge, before>>
  PROVE  ConsoleKept
<1> DEFINE why == IF Answers(Op(o)) THEN "transfer" ELSE "gone"
<1>1. chip \in ChipSet /\ faults \in 0 .. MaxFaults /\ faults \in Nat /\ MaxFaults \in Nat /\ chip.mem \in Memory
      /\ ConsoleOp(Op(o), chip, before, faults)
  BY ConsoleKnown, OpKnown
<1>2. Op(o).at = "program" => Op(o).left \in Parts /\ Op(o).left # <<>>
  BY ConsoleHolding
<1>3. HalfDoneEffect(Op(o))
  BY <1>1, <1>2, ThrownFacts
<1>4. chip' \in ChipSet /\ (chip'.locked => chip.locked) /\ faults' \in 0 .. MaxFaults /\ faults' >= faults
  BY <1>3 DEF HalfDoneEffect
<1>5. faults' > 0 \/ why = "gone"
  BY <1>3 DEF HalfDoneEffect
<1>6. Explained(why, Op(o).file, faults')
  BY <1>5 DEF Explained
<1>7. MemoryAllowed
  <2>1. CASE chip'.mem = chip.mem
    BY <2>1, NothingChanged
  <2>2. CASE chip'.mem # chip.mem /\ Op(o).at = "massErase"
    <3>1. ~chip'.locked /\ Op(o).kind = "recover"
      BY <1>1, <1>3, <2>2 DEF HalfDoneEffect, ConsoleOp
    <3> QED
      BY <3>1, ConsoleMayChange
  <2>3. CASE chip'.mem # chip.mem /\ Op(o).at = "program"
    <3>1. /\ Op(o).kind = "flash" /\ Op(o).file \in HexFiles /\ ~chip.locked
          /\ PartSpan(Head(Op(o).left)) \subseteq DOMAIN Meaning(Op(o).file)
      BY <2>3, ConsoleHolding
    <3>2. \A a \in DOMAIN Factory : chip'.mem[a] # chip.mem[a] => a \in DOMAIN Meaning(Op(o).file)
      BY <1>3, <2>3, <3>1 DEF HalfDoneEffect, PartlyWritten
    <3> QED
      BY <3>1, <3>2, ConsoleMayChange
  <2>4. chip'.mem # chip.mem => Op(o).at \in {"massErase", "program"}
    BY <1>1, <1>3 DEF HalfDoneEffect, ConsoleOp
  <2> QED
    BY <2>1, <2>2, <2>3, <2>4
<1>8. why \in Names
  BY DEF Names
<1>9. Put(o, GoWith(o, "close", <<why>>), Freed)
  OBVIOUS
<1> HIDE DEF why
<1> QED
  BY <1>4, <1>6, <1>7, <1>8, <1>9, ConsoleEndFailed

\* What an operation finds is explained, unless it shares its probe.
LEMMA FindingExplained ==
  ASSUME ConsoleGood, NEW o \in Ops,
         NEW why \in {"rejected", "cancelled", "gone", "locked", "refused", "mismatch"}, ConsoleFinds(o, why)
  PROVE  /\ Op(o).at \notin {"idle", "close"} /\ why \in Names
         /\ Op(o).shared \/ Explained(why, Op(o).file, faults)
<1>1. why \in Names
  BY DEF Names
<1>2. CASE why = "refused"
  <2>1. Op(o).at = "program" /\ (chip.mode # "write" \/ ~Present(chip.mem, Head(Op(o).left)))
    BY <1>2 DEF ConsoleFinds
  <2>2. /\ Op(o).file \in HexFiles /\ (~Op(o).shared => chip.mode = "write")
        /\ PartSpan(Head(Op(o).left)) \subseteq DOMAIN Meaning(Op(o).file)
        /\ Head(Op(o).left).address \in Nat /\ Head(Op(o).left).data \in Seq(Bytes) /\ chip.mem \in Memory
    BY <2>1, ConsoleHolding
  <2>3. ~Op(o).shared => ~(PartSpan(Head(Op(o).left)) \subseteq DOMAIN Factory)
    BY <2>1, <2>2, PresentFacts
  <2>4. ~Op(o).shared => ~(DOMAIN Meaning(Op(o).file) \subseteq DOMAIN Factory)
    BY <2>2, <2>3
  <2> QED
    BY <1>1, <1>2, <2>1, <2>2, <2>4 DEF Explained
<1>3. CASE why = "mismatch"
  <2>1. Op(o).at = "verify" /\ ~Holds(chip, Head(Op(o).left))
    BY <1>3 DEF ConsoleFinds
  <2>2. Op(o).file \in HexFiles /\ chip.mem \in Memory
    BY <2>1, ConsoleHolding
  <2>3. faults > 0 \/ Contradicts(Op(o).file) \/ Op(o).shared
    <3>1. faults \in Nat
      BY ConsoleKnown
    <3> SUFFICES ASSUME faults = 0, ~Contradicts(Op(o).file), ~Op(o).shared PROVE FALSE
      BY <3>1
    <3> DEFINE want == Meaning(Op(o).file)
               sure == Steady(Op(o).file)
    <3>2. Verifying(want, before, sure, Op(o).left, chip.mem, faults)
      BY <2>1, ConsoleHolding
    <3>3. sure
      BY DEF Steady
    <3> HIDE DEF want, sure
    <3>4. Verifying(want, before, sure, Op(o).left, chip.mem, 0)
      BY <3>2
    <3>5. Holds(chip, Head(Op(o).left))
      BY <2>2, <3>3, <3>4, NothingMissed
    <3> QED
      BY <2>1, <3>5
  <2> QED
    BY <1>1, <1>3, <2>1, <2>2, <2>3 DEF Explained
<1>4. CASE why \in {"rejected", "cancelled", "gone", "locked"}
  <2>1. Op(o).at \in {"file", "choose", "connect", "reconnect", "halt", "rehalt"}
    BY <1>4 DEF ConsoleFinds
  <2> QED
    BY <1>1, <1>4, <2>1 DEF Explained
<1> QED
  BY <1>2, <1>3, <1>4

LEMMA ConsoleFailsKeeps ==
  ASSUME ConsoleGood, NEW o \in Ops, ConsoleFails(o)
  PROVE  ConsoleKept
<1>1. CASE /\ Op(o).at \notin {"idle", "file", "choose", "connect", "reconnect", "close"}
           /\ Thrown(Op(o))
           /\ Put(o, GoWith(o, "close", <<IF Answers(Op(o)) THEN "transfer" ELSE "gone">>), Freed)
           /\ UNCHANGED <<desk, pageState, badge, before>>
  BY <1>1, ConsoleThrows
<1>2. ASSUME NEW why \in {"rejected", "cancelled", "gone", "locked", "refused", "mismatch"},
             ConsoleFinds(o, why), Put(o, GoWith(o, "close", <<why>>), Freed), UNCHANGED <<chip, faults>>,
             UNCHANGED <<desk, pageState, badge, before>>
      PROVE  ConsoleKept
  <2>1. /\ Op(o).at \notin {"idle", "close"} /\ why \in Names
        /\ Op(o).shared \/ Explained(why, Op(o).file, faults)
    BY <1>2, FindingExplained
  <2>2. chip' \in ChipSet /\ (chip'.locked => chip.locked) /\ faults' \in 0 .. MaxFaults /\ faults' >= faults
        /\ faults' = faults
    BY <1>2, ConsoleKnown
  <2>3. MemoryAllowed
    BY <1>2, NothingChanged
  <2>4. Op(o).shared \/ Explained(why, Op(o).file, faults')
    BY <2>1, <2>2
  <2> QED
    BY <1>2, <2>1, <2>2, <2>3, <2>4, ConsoleEndFailed
<1> QED
  BY <1>1, <1>2 DEF ConsoleFails, Freed

LEMMA ConsoleCloseKeeps ==
  ASSUME ConsoleGood, NEW o \in Ops, ConsoleClose(o)
  PROVE  ConsoleKept
<1> DEFINE c == Closed(console, console.device)
           f == Op(o).file
           no == FALSE
           w == IF Op(o).shared THEN "shared" ELSE Head(Op(o).left)
<1>1. /\ Op(o).at = "close" /\ Put(o, Idle, c) /\ UNCHANGED <<desk, chip, pageState, before, faults>>
      /\ badge' = IF Op(o).left = <<>> THEN badge ELSE Shown("failed", f, no, w)
  BY DEF ConsoleClose
<1>2. /\ console \in ConsoleSet(disk, usb.object) /\ console.device \in 0 .. usb.object
      /\ chip \in ChipSet /\ faults \in 0 .. MaxFaults /\ faults \in Nat /\ faults >= faults
      /\ usb.object \in Nat /\ Op(o) # Idle
      /\ OpOK(Op(o), disk, usb.object) /\ ConsoleOp(Op(o), chip, before, faults)
      /\ badge.file \in disk \cup {NoFile} /\ badge.checked \in BOOLEAN /\ BadgeInv /\ tool = "console"
      /\ f \in disk \cup {NoFile} /\ option = FALSE
  BY <1>1, ConsoleKnown, ConsoleFields, OpKnown, OpFields
<1>3. c \in ConsoleSet(disk, usb.object) /\ c.other = console.other
  BY <1>2, ClosedFacts
<1> HIDE DEF c
<1>4. OpOK(Idle, disk, usb.object) /\ Idle \in OpSet(disk, usb.object) /\ ConsoleOp(Idle, chip', before, faults')
  BY <1>2, IdleIsOK, IdleConsoleOp, OpFields
<1>5. MemoryAllowed
  BY <1>1, NothingChanged
<1>6. no \in BOOLEAN
  OBVIOUS
<1>7. tool' = tool /\ option' = option /\ before' = before /\ chip' = chip /\ faults' = faults
  BY <1>1 DEF desk, pageState
<1> HIDE DEF f, no
<1>8. badge'.file \in disk \cup {NoFile} /\ badge'.checked \in BOOLEAN
  BY <1>1, <1>2, <1>6 DEF Shown
<1>9. BadgeInv'
  <2>1. CASE Op(o).left = <<>>
    <3>1. badge' = badge
      BY <1>1, <2>1
    <3>2. Op(o)' = Idle /\ Mate(o)' = Mate(o)
      BY <1>1, <1>3, <1>4, PutFacts
    <3>3. Quiet(task) /\ Quiet(console.other) => Quiet(task') /\ Quiet(console'.other)
      BY <3>2, AloneIsIdle DEF Op, Mate
    <3>4. ErasesFirst' <=> ErasesFirst
      BY <1>7 DEF ErasesFirst
    <3> QED
      BY <1>2, <1>7, <3>1, <3>3, <3>4, BadgeSame
  <2>2. CASE Op(o).left # <<>>
    <3>1. badge' = Shown("failed", f, no, w)
      BY <1>1, <2>2
    <3>2. ~Op(o).shared => Explained(Head(Op(o).left), Op(o).file, faults)
      BY <1>1, <1>2, <2>2 DEF ConsoleOp, ConsoleOwn
    <3>3. w = "shared" \/ Explained(w, f, faults')
      BY <1>7, <3>2 DEF f
    <3> HIDE DEF w
    <3> QED
      BY <1>2, <1>7, <3>1, <3>3, BadgeFailed
  <2> QED
    BY <2>1, <2>2
<1>10. UNCHANGED <<desk, pageState, before>> /\ chip' \in ChipSet /\ (chip'.locked => chip.locked)
       /\ faults' \in 0 .. MaxFaults
  BY <1>1, <1>2
<1> QED
  BY <1>1, <1>2, <1>3, <1>4, <1>5, <1>8, <1>9, <1>10, ConsoleStepKeeps

(* ------------------------- the steps of the console ---------------------- *)

\* Nothing happens.
LEMMA ConsoleStays ==
  ASSUME ConsoleGood, UNCHANGED flashVars
  PROVE  ConsoleKept
<1>1. UNCHANGED <<tool, disk, chip, usb, session, image, option, task, parting, badge, console, before, faults>>
  BY DEF flashVars
<1>2. TypeInv /\ BadgeInv /\ ConsoleInv /\ tool = "console"
  BY DEF ConsoleGood
<1>3. TypeInv'
  BY <1>1, <1>2 DEF TypeInv
<1>4. ConsoleInv'
  BY <1>1, <1>2 DEF ConsoleInv
<1>5. BadgeInv'
  BY <1>1, <1>2, BadgeSame, TypesKnown DEF ErasesFirst
<1>6. MemoryAllowed
  BY <1>1, NothingChanged
<1> QED
  BY <1>1, <1>2, <1>3, <1>4, <1>5, <1>6 DEF ConsoleGood, ConsoleKept

\* Every step of the dialog keeps what is true of it, and does what it may.
LEMMA ConsoleNextKeeps ==
  ASSUME ConsoleGood, ConsoleNext
  PROVE  ConsoleKept
<1>1. ASSUME NEW o \in Ops, ConsoleStep(o) PROVE ConsoleKept
  BY <1>1, ConsoleReadFileKeeps, ConsoleGetFlashDapKeeps, ConsoleConnectDapKeeps, ConsoleEraseAllKeeps,
     ConsoleHaltKeeps, ConsoleConfigureWriteKeeps, ConsoleWriteChunkKeeps, ConsoleMisprogramKeeps,
     ConsoleRestoreReadOnlyKeeps, ConsoleVerifyChunkKeeps, ConsoleShortAnswerKeeps, ConsoleRehaltKeeps,
     ConsoleResetKeeps, ConsoleFailsKeeps, ConsoleCloseKeeps DEF ConsoleStep
<1>2. ASSUME ConsoleRests PROVE ConsoleKept
  BY <1>2, ConsoleStays DEF ConsoleRests
<1> QED
  BY <1>1, <1>2, ConsoleFileChangeKeeps, ConsoleLoadPresetKeeps, ConsolePresetAnswersKeeps, ConsoleConnectKeeps,
     ConsoleDisconnectKeeps, ConsoleUnpluggedKeeps, ConsoleBeginKeeps DEF ConsoleNext

LEMMA ConsoleUsbKeeps ==
  ASSUME ConsoleGood, Unplug \/ Plug
  PROVE  ConsoleKept
<1>1. TypeInv' /\ MemoryAllowed
      /\ UNCHANGED <<tool, disk, chip, session, image, option, task, console, before, faults>>
  BY ConsoleKnown, UsbTypes
<1>2. BadgeInv'
  BY ConsoleKnown, UsbBadge
<1>3. ConsoleInv'
  BY <1>1 DEF ConsoleGood, ConsoleInv
<1> QED
  BY <1>1, <1>2, <1>3, ConsoleKnown DEF ConsoleGood, ConsoleKept

(* ------------------------------ the invariant ---------------------------- *)

FlashGood == PageGood \/ NpmGood \/ CliGood \/ ConsoleGood

\* What the invariant says of the tool that is open.
LEMMA GoodFacts ==
  ASSUME FlashGood
  PROVE  /\ TypeInv /\ CompleteMeansFlashed /\ FailureIsExplained
         /\ tool = "page" => PageGood
         /\ tool = "npm" => NpmGood
         /\ tool = "cli" => CliGood
         /\ tool = "console" => ConsoleGood
<1>1. TypeInv /\ BadgeInv
  BY DEF FlashGood, PageGood, NpmGood, CliGood, ConsoleGood
<1>2. tool = "page" => PageGood
  BY DEF FlashGood, NpmGood, CliGood, ConsoleGood
<1>3. tool = "npm" => NpmGood
  BY DEF FlashGood, PageGood, CliGood, ConsoleGood
<1>4. tool = "cli" => CliGood
  BY DEF FlashGood, PageGood, NpmGood, ConsoleGood
<1>5. tool = "console" => ConsoleGood
  BY DEF FlashGood, PageGood, NpmGood, CliGood
<1> QED
  BY <1>1, <1>2, <1>3, <1>4, <1>5 DEF BadgeInv

\* A tool without a task claims nothing of the chip.
LEMMA IdleTasks ==
  ASSUME NEW c, NEW img, NEW f, NEW u, NEW opt, NEW bef
  PROVE  PageTask(Idle, c, img, f) /\ NpmTask(Idle, c, img, f, u) /\ CliTask(Idle, c, opt, bef, f)
BY DEF PageTask, NpmTask, CliTask, Idle

\* The invariant holds at first.
LEMMA FlashStarts ==
  ASSUME FlashInit
  PROVE  FlashGood
<1>1. /\ tool \in {"page", "npm", "cli", "console"} /\ disk \in Shelf
      /\ usb = [object |-> 1, in |-> TRUE] /\ session = 0 /\ image = NoFile /\ option = FALSE
      /\ task = Idle /\ parting = FALSE /\ badge = Shown("ready", NoFile, FALSE, "")
      /\ console \in ConsoleInit /\ before = Factory /\ faults = 0
  BY DEF FlashInit
<1>2. PICK locked \in BOOLEAN :
         chip = [mem |-> Factory, core |-> "runs", mode |-> "read", algo |-> "none", locked |-> locked]
  BY DEF FlashInit
<1>3. chip \in ChipSet
  BY <1>2, FactoryIsWhole DEF ChipSet
<1>4. MaxPlugs \in Nat /\ MaxPlugs > 0 /\ MaxFaults \in Nat
  BY BoundsAreNat
<1>5. usb.object = 1 /\ 1 \in 1 .. MaxPlugs /\ usb.in \in BOOLEAN /\ usb \in [object : 1 .. MaxPlugs, in : BOOLEAN]
  <2> DEFINE yes == TRUE
  <2>1. usb = [object |-> 1, in |-> yes] /\ yes \in BOOLEAN
    BY <1>1
  <2> HIDE DEF yes
  <2> QED
    BY <1>4, <2>1
<1>6. OpOK(Idle, disk, 1) /\ Idle \in OpSet(disk, 1) /\ Idle.at = "idle"
  BY IdleIsOK, OpFields
<1>7. 0 \in 0 .. 1 /\ 1 \in 0 .. 1 /\ 0 \in Nat /\ 0 \in 0 .. MaxFaults /\ NoFile \in disk \cup {NoFile}
  BY <1>4
<1>8. NoConsole \in ConsoleSet(disk, 1) /\ NoConsole.other = Idle
  BY <1>6, <1>7 DEF NoConsole, ConsoleSet
<1>9. console \in ConsoleSet(disk, 1) /\ console.other = Idle /\ (tool # "console" => console = NoConsole)
  <2> DEFINE e(d, f) == [NoConsole EXCEPT !.device = d, !.preset = f, !.picked = (f # NoFile)]
             some == {e(d, f) : d \in {0, 1}, f \in disk \cup {NoFile}}
             one == tool # "console"
  <2>0. ConsoleInit = IF one THEN {NoConsole} ELSE some
    BY DEF ConsoleInit
  <2> HIDE DEF e
  <2>1. CASE one
    <3> HIDE DEF some, one
    <3>1. console \in {NoConsole}
      BY <1>1, <2>0, <2>1
    <3> QED
      BY <1>8, <3>1
  <2>2. CASE ~one
    <3>0. console \in some
      <4> HIDE DEF some, one
      <4> QED
        BY <1>1, <2>0, <2>2
    <3>1. PICK d \in {0, 1}, f \in disk \cup {NoFile} : console = e(d, f)
      BY <3>0
    <3> DEFINE p == (f # NoFile)
               c == [NoConsole EXCEPT !.device = d, !.preset = f, !.picked = p]
    <3>2. console = c /\ p \in BOOLEAN /\ d \in 0 .. 1
      BY <3>1, <1>7 DEF e
    <3> HIDE DEF p
    <3>3. c \in ConsoleSet(disk, 1) /\ c.other = Idle
      BY <1>8, <3>2 DEF ConsoleSet
    <3> QED
      BY <2>2, <3>2, <3>3
  <2> QED
    BY <2>1, <2>2
<1>10. badge.file = NoFile /\ badge.checked = FALSE /\ badge.text = "ready"
  BY <1>1 DEF Shown
<1>11. TypeInv
  <2>1. OpOK(task, disk, usb.object) /\ OpOK(console.other, disk, usb.object)
        /\ console \in ConsoleSet(disk, usb.object)
    BY <1>1, <1>5, <1>6, <1>9
  <2>2. session \in 0 .. usb.object /\ faults \in 0 .. MaxFaults /\ before \in Memory
    BY <1>1, <1>5, <1>7, FactoryIsWhole
  <2>3. image \in disk \cup {NoFile} /\ option \in BOOLEAN /\ parting \in BOOLEAN
        /\ badge.file \in disk \cup {NoFile} /\ badge.checked \in BOOLEAN
    BY <1>1, <1>10
  <2> QED
    BY <1>1, <1>3, <1>5, <2>1, <2>2, <2>3 DEF TypeInv
<1>12. BadgeInv
  BY <1>10 DEF BadgeInv, CompleteMeansFlashed, FailureIsExplained
<1>13. PageInv /\ NpmInv /\ CliInv
  BY <1>1, IdleTasks DEF PageInv, NpmInv, CliInv
<1>14. ConsoleInv
  BY <1>1, <1>9, IdleConsoleOp DEF ConsoleInv
<1> QED
  BY <1>1, <1>9, <1>11, <1>12, <1>13, <1>14 DEF FlashGood, PageGood, NpmGood, CliGood, ConsoleGood

\* Every step belongs to the tool that is open.
LEMMA PageIsOpen ==
  ASSUME PageNext
  PROVE  tool = "page"
<1>1. PageStep => tool = "page"
  BY DEF PageStep, PageReadImage, PageChooseProbe, PageReleaseProbe, PageConnectDevice,
         PageEnsureFlashAccess, PageResetAndHalt, PageLoadAlgorithm, PageCallFlashFunction,
         PageProgramChunk, PageVerifyChunk, PageSoftResetAndRun, PageRecoverTarget,
         PageFails, PageUnplugged, Step, At, Open
<1>2. Misprogram("page", Onward(With("call", PageCleanup))) => tool = "page"
  BY DEF Misprogram, At
<1>3. \A f \in disk : PageChangeFile(f) => tool = "page"
  BY DEF PageChangeFile, Open
<1>4. \A kind \in PageKinds : PageBegin(kind) => tool = "page"
  BY DEF PageBegin, Open
<1> QED
  BY <1>1, <1>2, <1>3, <1>4 DEF PageNext

\* The same of the npm application.
LEMMA NpmIsOpen ==
  ASSUME NpmNext
  PROVE  tool = "npm"
<1>1. NpmStep => tool = "npm"
  BY DEF NpmStep, NpmReadImage, NpmEnsureConnectedProbe, NpmChooseProbe, NpmReleaseProbe,
         NpmConnectDevice, NpmReadAccessState, NpmEnsureFlashAccess, NpmResetAndHalt,
         NpmMassEraseAndReconnect, NpmInitFlashStub, NpmProgramFlashBlock, NpmUninitFlashStub,
         NpmVerifyImage, NpmSoftResetAndRun, NpmFails, NpmUnplugged, Step, At, Open
<1>2. Misprogram("npm", Onward(To("uninit"))) => tool = "npm"
  BY DEF Misprogram, At
<1>3. \A f \in disk : NpmFileChange(f) \/ NpmLoadHexText(f) => tool = "npm"
  BY DEF NpmFileChange, NpmLoadHexText, Open
<1>4. \A kind \in NpmKinds : NpmBegin(kind) => tool = "npm"
  BY DEF NpmBegin, Open
<1>5. NpmToggleVerify => tool = "npm"
  BY DEF NpmToggleVerify, Open
<1> QED
  BY <1>1, <1>2, <1>3, <1>4, <1>5 DEF NpmNext

\* The same of the console tool.
LEMMA CliIsOpen ==
  ASSUME CliNext
  PROVE  tool = "cli"
<1>1. CliStep => tool = "cli"
  BY DEF CliStep, CliRequestDevice, CliEraseAll, CliHalt, CliConfigureWrite, CliWriteRramChunk,
         CliRestoreReadOnly, CliVerifyChunk, CliReset, CliFails, Step, At, Open
<1>2. Misprogram("cli", Onward(To("readonly"))) => tool = "cli"
  BY DEF Misprogram, At
<1>3. \A f \in disk, eraseAll \in BOOLEAN : CliRun(f, eraseAll) => tool = "cli"
  BY DEF CliRun, Open
<1> QED
  BY <1>1, <1>2, <1>3 DEF CliNext

\* The same of the dialog.
LEMMA ConsoleIsOpen ==
  ASSUME ConsoleNext
  PROVE  tool = "console"
<1>1. \A o \in Ops : ConsoleStep(o) => tool = "console"
  BY DEF ConsoleStep, ConsoleReadFile, ConsoleGetFlashDap, ConsoleConnectDap, ConsoleEraseAll,
         ConsoleHalt, ConsoleConfigureWrite, ConsoleWriteChunk, ConsoleMisprogram,
         ConsoleRestoreReadOnly, ConsoleVerifyChunk, ConsoleShortAnswer, ConsoleRehalt,
         ConsoleReset, ConsoleFails, ConsoleClose, Transfers, Moves, Open
<1>2. \A f \in disk : ConsoleFileChange(f) \/ ConsoleLoadPreset(f) => tool = "console"
  BY DEF ConsoleFileChange, ConsoleLoadPreset, Open
<1>3. \A o \in Ops, kind \in {"flash", "recover"} : ConsoleBegin(o, kind) => tool = "console"
  BY DEF ConsoleBegin, Open
<1>4. ConsolePresetAnswers \/ ConsoleConnect \/ ConsoleDisconnect \/ ConsoleUnplugged \/ ConsoleRests
         => tool = "console"
  BY DEF ConsolePresetAnswers, ConsoleConnect, ConsoleDisconnect, ConsoleUnplugged, ConsoleRests, Open
<1> QED
  BY <1>1, <1>2, <1>3, <1>4 DEF ConsoleNext

\* Every step keeps the invariant and changes only what it may.
LEMMA FlashStep ==
  ASSUME FlashGood, Next
  PROVE  FlashGood' /\ MemoryAllowed
<1>1. CASE PageNext
  <2>1. PageKept
    BY <1>1, PageIsOpen, GoodFacts, PageNextKeeps
  <2> QED
    BY <2>1 DEF PageKept, FlashGood
<1>2. CASE NpmNext
  <2>1. NpmKept
    BY <1>2, NpmIsOpen, GoodFacts, NpmNextKeeps
  <2> QED
    BY <2>1 DEF NpmKept, FlashGood
<1>3. CASE CliNext
  <2>1. CliKept
    BY <1>3, CliIsOpen, GoodFacts, CliNextKeeps
  <2> QED
    BY <2>1 DEF CliKept, FlashGood
<1>4. CASE ConsoleNext
  <2>1. ConsoleKept
    BY <1>4, ConsoleIsOpen, GoodFacts, ConsoleNextKeeps
  <2> QED
    BY <2>1 DEF ConsoleKept, FlashGood
<1>5. CASE Unplug \/ Plug
  <2>1. PageKept \/ NpmKept \/ CliKept \/ ConsoleKept
    BY <1>5, PageUsbKeeps, NpmUsbKeeps, CliUsbKeeps, ConsoleUsbKeeps DEF FlashGood
  <2> QED
    BY <2>1 DEF PageKept, NpmKept, CliKept, ConsoleKept, FlashGood
<1> QED
  BY <1>1, <1>2, <1>3, <1>4, <1>5 DEF Next

\* A step that changes nothing keeps the invariant.
LEMMA FlashStutter ==
  ASSUME FlashGood, UNCHANGED flashVars
  PROVE  FlashGood'
<1>1. UNCHANGED <<tool, disk, chip, usb, session, image, option, task, parting, badge, console, before, faults>>
  BY DEF flashVars
<1> USE <1>1 DEF TypeInv, BadgeInv, CompleteMeansFlashed, FailureIsExplained, ErasesFirst
<1>2. PageGood => PageGood'
  BY DEF PageGood, PageInv
<1>3. NpmGood => NpmGood'
  BY DEF NpmGood, NpmInv
<1>4. CliGood => CliGood'
  BY DEF CliGood, CliInv
<1>5. ConsoleGood => ConsoleGood'
  BY DEF ConsoleGood, ConsoleInv
<1> QED
  BY <1>2, <1>3, <1>4, <1>5 DEF FlashGood

\* Whichever tool is open knows at each step of its task where its job stands, and what it shows is true.
THEOREM FlashInvariant == Spec => []FlashGood
<1>1. FlashInit => FlashGood
  BY FlashStarts
<1>2. FlashGood /\ [Next]_flashVars => FlashGood'
  BY FlashStep, FlashStutter
<1> QED
  BY <1>1, <1>2, PTL DEF Spec

-----------------------------------------------------------------------------
(* The properties, for any files, any memory and any bounds.                *)

\* Types, and every file, device object and count within its bounds, whatever the tools do.
THEOREM FlashTypes == Spec => []TypeOK
<1>1. TypeInv => TypeOK
  <2> SUFFICES ASSUME TypeInv PROVE TypeOK
    OBVIOUS
  <2>1. /\ task.proc \in 0 .. usb.object /\ task.file \in disk \cup {NoFile}
        /\ task.checked \in BOOLEAN /\ task.shared \in BOOLEAN /\ (task = Idle <=> task.at = "idle")
    BY TypesKnown, OpFields
  <2>2. OpOK(console.other, disk, usb.object) /\ console \in ConsoleSet(disk, usb.object)
    BY DEF TypeInv
  <2>3. /\ console.other.proc \in 0 .. usb.object /\ (console.other = Idle <=> console.other.at = "idle")
        /\ console.device \in 0 .. usb.object
        /\ console.preset \in disk \cup {NoFile} /\ console.load \in disk \cup {NoFile}
    BY <2>2, OpFields, ConsoleFields
  <2> QED
    BY <2>1, <2>3 DEF TypeOK, TypeInv, ChipSet, Memory
<1> QED
  BY <1>1, FlashInvariant, GoodFacts, PTL

\* A tool that says "complete" leaves a chip that runs, read-only, and holds exactly what the named
\* file means: over a blank memory when it erased first, over what was there when it did not.
THEOREM FlashComplete == Spec => []CompleteMeansFlashed
BY FlashInvariant, GoodFacts, PTL

\* No tool fails for a reason of its own: there was a fault, a probe that went, a user who
\* cancelled, a chip that is protected, or a file that the direct writers cannot write.
THEOREM FlashExplained == Spec => []FailureIsExplained
BY FlashInvariant, GoodFacts, PTL

\* A protected chip is changed only by what lifts the protection, no memory without a task, and
\* a tool that does not erase changes only addresses that its file names.
THEOREM FlashAllowed == Spec => OnlyWhatItMay
<1>1. FlashGood /\ [Next]_flashVars => [MemoryAllowed]_flashVars
  BY FlashStep
<1> QED
  BY <1>1, FlashInvariant, PTL DEF Spec, OnlyWhatItMay, MemoryAllowed
================================================================================
