----------------------------- MODULE FlashTools ----------------------------
(***************************************************************************)
(* The four flashing tools on one board: whichever tool is open, the same  *)
(* questions are asked of what it leaves in the chip and of what it says.  *)
(***************************************************************************)
EXTENDS PageFlasher, NpmFlasher, CliFlasher, ConsoleFlasher

Next ==
    \/ PageNext
    \/ NpmNext
    \/ CliNext
    \/ ConsoleNext
    \/ Unplug
    \/ Plug

Spec == FlashInit /\ [][Next]_flashVars

(* ----------------------------- properties ------------------------------ *)

\* Types, and the bounds every state keeps.
TypeOK ==
    /\ tool \in {"page", "npm", "cli", "console"} /\ disk \in Shelf
    /\ chip \in [mem : [DOMAIN Factory -> Bytes], core : {"runs", "halted"}, mode : {"read", "write"},
                 algo : {"none", "loaded", "erase", "program"}, locked : BOOLEAN]
    /\ usb \in [object : 1 .. MaxPlugs, in : BOOLEAN]
    /\ {session, task.proc, console.device, console.other.proc} \subseteq 0 .. usb.object
    /\ {image, task.file, badge.file, console.preset, console.load} \subseteq disk \cup {NoFile}
    /\ {option, parting, task.checked, task.shared, badge.checked} \subseteq BOOLEAN
    /\ \A op \in {task, console.other} : (op = Idle) <=> (op.at = "idle")
    /\ faults \in 0 .. MaxFaults

MeaningOf == [f \in HexFiles |-> Meaning(f)]
ErasesFirst == tool \in {"page", "npm"} \/ option

\* What "complete" promises.  The chip then holds exactly the file that is
\* named: over a blank chip where the tool erases first, over what was there
\* where it does not, and it runs with its memory read-only.  The npm tool
\* promises it only if it verified or no write went wrong, and only if no
\* automation hook replaced the image meanwhile; the console only if no second
\* operation used the same session.
CompleteMeansFlashed ==
    /\ badge.text = "complete"
    /\ badge.checked \/ (tool = "npm" /\ faults = 0)
    /\ badge.why # "shared"
    =>
    /\ chip.mem = Override(IF ErasesFirst THEN Blank ELSE before, MeaningOf[badge.file])
    /\ chip.core = "runs" /\ chip.mode = "read" /\ chip.algo = "none"

\* A flash fails for a reason outside the tool: a fault, a probe that went away,
\* a chooser that was cancelled, a chip that is protected, a second operation.  The
\* exceptions are the direct writers': a file they reject, one that leaves the memory, and a file that
\* gives an address two bytes, which the other tools flash.
FailureIsExplained ==
    badge.text = "failed" =>
        \/ faults > 0
        \/ badge.why \in {"gone", "cancelled", "locked", "rejected", "shared"}
        \/ tool \in {"cli", "console"} /\ badge.why = "refused"
              /\ ~(DOMAIN MeaningOf[badge.file] \subseteq DOMAIN Factory)
        \/ tool \in {"cli", "console"} /\ badge.why = "mismatch" /\ Contradicts(badge.file)

\* Memory changes only for a task that may change it.  A protected chip is changed
\* by an erase that lifts the protection, never by a flash; the tools that do not
\* erase first change no byte that the files they are writing do not name.
OnlyWhatItMay ==
    [][chip'.mem # chip.mem =>
        LET working == {op \in {task, console.other} : op.kind \in {"flash", "recover", "run"}}
        IN  /\ working # {}
            /\ chip.locked => ~chip'.locked
            /\ ~ErasesFirst /\ (\A op \in working : op.kind # "recover") =>
                 \A a \in DOMAIN Factory : chip'.mem[a] # chip.mem[a] =>
                    \E op \in working : a \in DOMAIN MeaningOf[op.file]
      ]_flashVars
=============================================================================
