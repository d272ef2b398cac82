-------------------------- MODULE BoardProvisioning --------------------------
(***************************************************************************)
(* Writing credentials to a board from the page: the wizard and automatic  *)
(* setup of static/provisioning.js, on the link of static/app.js.          *)
(*                                                                         *)
(* A flow is one run of handleConnect, startWrite, handleReconnect or      *)
(* autoProvisionConnected, or the attachment of a board before that.       *)
(* Flows are asynchronous functions of one page: they interleave at every  *)
(* await and share the page's variables, the link and one pending wait.    *)
(* `busy` is meant to keep them apart, but onBleDisconnected gives it      *)
(* back while the flow that took it may still be running.                  *)
(*                                                                         *)
(* Abstractions.  A board's identity is a device, Blank or Foreign (an     *)
(* SMSN of no listed device); Nameless is the answer of a provisioned      *)
(* board that leaves the SMSN out.  A value is one fragment.  A board      *)
(* executes a command when it receives the line and answers in order; its  *)
(* firmware is external: set needs an erased page, finalize every value.   *)
(* Timers may fire at any point, except that attaching a board takes       *)
(* longer than the 400 ms after an erase.  gatt.disconnect() fires         *)
(* gattserverdisconnected at once, as Web Bluetooth says, so both          *)
(* transports call onBleDisconnected.  The page holds one link at a time.  *)
(* The identity exchange of a new link is part of making the link.  The    *)
(* device step is folded into the connect step: only a button lies between.*)
(* Uploading a certificate there is not modelled: what the page has on     *)
(* file changes only when automatic setup registers its device.            *)
(***************************************************************************)
EXTENDS Integers, Sequences, FiniteSets

CONSTANTS
    Flows,          \* slots for flows that run at a time
    Boards, Devices,
    Provisioned,    \* boards that hold a foreign identity at the start
    FirstDevice,    \* the device the dashboard shows when the page is opened
    Unfiled,        \* devices the server had no SMSN for when the page was opened
    DeviceOf,       \* the device automatic setup registers for a board
    Vias,           \* transports in use, of {"ble", "serial"}
    NumValues,      \* values of the script; value 1 holds the SMSN
    Blank, Foreign, Nameless, None,
    MaxStarts,      \* bound: flows started
    MaxFaults       \* bound: drops, failed calls, and answers that are lost,
                    \* late, negative or without the SMSN

ASSUME BoardsOK ==
    /\ Provisioned \subseteq Boards
    /\ FirstDevice \in Devices /\ Unfiled \subseteq Devices
    /\ DeviceOf \in [Boards -> Devices]
    /\ \A b, c \in Boards : DeviceOf[b] = DeviceOf[c] => b = c
    /\ NumValues \in Nat \ {0}
    /\ Blank \notin Devices /\ Foreign \notin Devices /\ None \notin Devices \cup Boards
    /\ Blank # Foreign /\ Foreign # None /\ None # Blank
    /\ Nameless \notin Devices \cup {Blank, Foreign, None}
    /\ IsFiniteSet(Flows) /\ None \notin Flows
    /\ MaxStarts \in Nat /\ MaxFaults \in Nat
    /\ Vias \subseteq {"ble", "serial"}

VARIABLES
    page,           \* the module variables of provisioning.js
    wait,           \* pendingWait: whose it is and what it matches
    flow,           \* per slot: the flow and its locals
    link,           \* the board on the line; read: a flow that had the page to
                    \* itself was the last to ask who the board on it is
    inbox,          \* what the board sent and the page has not read
    mfg,            \* per board: its manufacturing page
    reported,       \* the last report to the server: device and status
    loose,          \* history: flows that lost the page to others
    starts, faults

vars == <<page, wait, flow, link, inbox, mfg, reported, loose, starts, faults>>

Ids == Devices \cup {Blank, Foreign}
Answers == Ids \cup {Nameless, None}
Values == 1..NumValues
Erase == 1
SetCmd(v) == v + 1
Finalize == NumValues + 2
Reboot == NumValues + 3

Kinds == {"attach", "connect", "write", "verify", "auto"}
StatusChecks == {"status", "retry", "recheck", "checking"}
Stages == StatusChecks \cup {"idle", "linking", "cloud", "attempting", "fetching",
    "script", "settling", "succeeding", "rebooting", "verifying", "closing"}

NoWait == [flow |-> None, t |-> "none", n |-> 0]
NoLink == [board |-> None, via |-> "none", read |-> FALSE]
NoEvent == [t |-> "none", n |-> 0, ok |-> FALSE, id |-> None]

\* event: the answer to the wait; ahead: lines to be written before this one;
\* valid: the line was handed over on this link; same: the flow's own link is
\* up (for a write: its board was read on this link, the answer could be compared
\* with the chosen device, and the box was not ticked);
\* misled: a command of its script was acknowledged by another one's answer.
NoFlow == [kind |-> "none", at |-> "idle", board |-> None, via |-> "none",
           dev |-> None, cmd |-> 0, io |-> "none", reply |-> "none",
           event |-> NoEvent, ahead |-> 0, valid |-> FALSE, same |-> FALSE, failed |-> FALSE,
           misled |-> FALSE]
Erased == [id |-> Blank, parts |-> [v \in Values |-> None]]

Events == [t : {"none", "prov", "provwr", "provdone"}, n : 0..NumValues,
           ok : BOOLEAN, id : Answers]

FlowRecords == [kind : Kinds \cup {"none"}, at : Stages, board : Boards \cup {None},
    via : Vias \cup {"none"}, dev : Devices \cup {None}, cmd : 0..Reboot,
    io : {"none", "send", "wait"},
    reply : {"none", "pending", "got", "timeout", "cancelled"}, event : Events,
    ahead : 0..Cardinality(Flows), valid : BOOLEAN, same : BOOLEAN, failed : BOOLEAN,
    misled : BOOLEAN]

TypeOK ==
    /\ page \in [step : {"connect", "write", "verify"}, busy : BOOLEAN,
                 device : Devices, filed : SUBSET Devices, connected : BOOLEAN,
                 detected : Answers, confirmed : BOOLEAN, rebootSent : BOOLEAN, auto : BOOLEAN]
    /\ wait \in [flow : Flows \cup {None}, t : {"none", "prov", "provwr", "provdone"},
                 n : 0..NumValues]
    /\ flow \in [Flows -> FlowRecords]
    /\ link \in [board : Boards \cup {None}, via : Vias \cup {"none"}, read : BOOLEAN]
    /\ inbox \in Seq(Events)
    /\ mfg \in [Boards -> [id : Ids, parts : [Values -> Devices \cup {None}]]]
    /\ reported \in [device : Devices \cup {None},
                     status : {"none", "attempted", "failed", "succeeded", "verified"}]
    /\ loose \subseteq Flows
    /\ starts \in 0..MaxStarts /\ faults \in 0..MaxFaults

Init ==
    /\ page = [step |-> "connect", busy |-> FALSE, device |-> FirstDevice,
               filed |-> Devices \ Unfiled, connected |-> FALSE, detected |-> None,
               confirmed |-> FALSE, rebootSent |-> FALSE, auto |-> FALSE]
    /\ wait = NoWait
    /\ flow = [f \in Flows |-> NoFlow]
    /\ link = NoLink
    /\ inbox = <<>>
    /\ mfg = [b \in Boards |->
                IF b \in Provisioned THEN [Erased EXCEPT !.id = Foreign] ELSE Erased]
    /\ reported = [device |-> None, status |-> "none"]
    /\ loose = {}
    /\ starts = 0 /\ faults = 0

-----------------------------------------------------------------------------
(* The link and the pending wait *)

Up == link.board # None
Running(fl) == {f \in Flows : fl[f].kind \notin {"none", "attach"}}

\* Who loses the page: all that run when it is given back or a new link is
\* made under them, and flows that run beside each other.  A flow that starts
\* in the slot of one that has ended is another one.
Loosened(fl, lost) == IF lost \/ \E f, g \in Running(fl) : f # g
                      THEN Running(fl) ELSE loose \cap Running(flow) \cap Running(fl)

\* A promise that is settled resumes its flow before anything else happens.
Quiet == \A f \in Flows : ~(flow[f].io = "wait" /\ flow[f].reply # "pending")

\* Every reset increments bleTransportGeneration: a command that was handed
\* over before it is not sent any more.
Unbound(fl) == [f \in Flows |-> [fl[f] EXCEPT !.valid = FALSE, !.same = FALSE]]

\* Mutant: the waiter is forgotten, not rejected.
Cancelled_Dropped(fl, w) == fl

\* clearPendingWait: the flow that waits is told so.
Cancelled(fl, w) == IF w = NoWait THEN fl ELSE [fl EXCEPT ![w.flow].reply = "cancelled"]

\* waitForDeviceEvent rejects the wait it replaces, whoever waits.
Superseded(fl) == Cancelled(fl, wait)

\* reportStatus, a call whose failure nobody notices.
Told(d, s) == [device |-> d, status |-> s]

\* resetBleShellState and then onBleDisconnected, if a board was connected.
LinkLost(fl, p, w) ==
    LET frees == Up /\ ~(p.auto /\ p.rebootSent) /\ p.step = "write" /\ ~p.rebootSent
    IN  /\ link' = NoLink
        /\ inbox' = <<>>
        /\ page' = [p EXCEPT !.connected = @ /\ ~Up, !.busy = @ /\ ~frees]
        /\ wait' = IF frees THEN NoWait ELSE w
        /\ flow' = IF frees THEN Cancelled(fl, w) ELSE fl
        /\ reported' = IF frees THEN Told(p.device, "failed") ELSE reported
        /\ loose' = Loosened(fl, frees)

\* The board goes away: out of range, unplugged, or rebooting as asked.
Drop ==
    /\ Quiet /\ Up
    /\ IF page.rebootSent /\ link.via = "ble" THEN UNCHANGED faults
       ELSE faults < MaxFaults /\ faults' = faults + 1
    /\ LinkLost(Unbound(flow), page, wait)
    /\ UNCHANGED <<mfg, starts>>

\* The Disconnect button of the page, which does not ask whether a flow runs.
UserDisconnect ==
    /\ Quiet /\ Up /\ faults < MaxFaults
    /\ faults' = faults + 1
    /\ LinkLost(Unbound(flow), page, wait)
    /\ UNCHANGED <<mfg, starts>>

Settles(e) == wait # NoWait /\ wait.t = e.t /\ wait.n = e.n

\* The oldest event answers an earlier line than the one whose wait it settles:
\* that one is not written yet, or its own answer is behind.  Nothing in the
\* event tells the page.
Misleading ==
    \/ flow[wait.flow].io = "send"
    \/ \E n \in 2..Len(inbox) : Settles(inbox[n])

\* ingestEvent: the oldest event settles the wait that it matches.
Deliver ==
    /\ Quiet /\ inbox # <<>>
    /\ LET e == Head(inbox) IN
        IF Settles(e)
        THEN /\ flow' = [flow EXCEPT ![wait.flow].reply = "got", ![wait.flow].event = e,
                                     ![wait.flow].misled = @ \/ Misleading]
             /\ wait' = NoWait
        ELSE UNCHANGED <<flow, wait>>
    /\ inbox' = Tail(inbox)
    /\ UNCHANGED <<page, link, mfg, reported, loose, starts, faults>>

\* The answer was lost, or it is late: the line is still to be written, or
\* the event will come after the timer.
Timeout(f) ==
    /\ Quiet /\ wait.flow = f
    /\ IF inbox = <<>> /\ flow[f].io = "wait" THEN UNCHANGED faults ELSE faults < MaxFaults /\ faults' = faults + 1
    /\ flow' = [flow EXCEPT ![f].reply = "timeout"]
    /\ wait' = NoWait
    /\ UNCHANGED <<page, link, inbox, mfg, reported, loose, starts>>

-----------------------------------------------------------------------------
(* Commands *)

\* bleWriteQueue: a line is written when those handed over before it are.
QueuedWrites == Cardinality({g \in Flows : flow[g].io = "send"})
MyTurn(f) == Quiet /\ flow[f].io = "send" /\ flow[f].ahead = 0
Advanced(fl) == [f \in Flows |-> [fl[f] EXCEPT !.ahead = IF @ > 0 THEN @ - 1 ELSE 0]]

\* detectProvisionStatus, up to the write of "prov status".
AskStatus(f, fl, p, at) ==
    /\ page' = [p EXCEPT !.detected = None]
    /\ wait' = [flow |-> f, t |-> "prov", n |-> 0]
    /\ flow' = [Superseded(fl) EXCEPT ![f] =
                    [fl[f] EXCEPT !.at = at, !.cmd = 0, !.io = "send", !.reply = "pending",
                        !.ahead = QueuedWrites, !.valid = link'.board # None]]

\* Mutant: the script waits for an answer to "prov reboot" too.
Awaits_Reboot(n) == n # Erase

Awaits(n) == n \notin {Erase, Reboot}

\* runRealScript, up to the write of command n.
SendNext(f, n) ==
    LET sending == [flow[f] EXCEPT !.at = "script", !.cmd = n, !.io = "send",
                        !.ahead = QueuedWrites, !.valid = Up,
                        !.event = NoEvent, !.reply = IF Awaits(n) THEN "pending" ELSE "none"]
    IN  /\ page' = [page EXCEPT !.rebootSent = @ \/ n = Reboot]
        /\ IF Awaits(n)
           THEN /\ wait' = [flow |-> f, t |-> IF n = Finalize THEN "provdone" ELSE "provwr",
                            n |-> IF n = Finalize THEN 0 ELSE n - 1]
                /\ flow' = [Superseded(flow) EXCEPT ![f] = sending]
           ELSE /\ wait' = wait
                /\ flow' = [flow EXCEPT ![f] = sending]

\* The firmware (external): what command n of device d's script makes of a
\* manufacturing page, and what it answers.
Executed(m, n, d) ==
    CASE n = Erase -> Erased
      [] n \in {SetCmd(v) : v \in Values} /\ m.id = Blank -> [m EXCEPT !.parts[n - 1] = d]
      [] n = Finalize /\ m.id = Blank /\ \A v \in Values : m.parts[v] # None
            -> [m EXCEPT !.id = m.parts[1]]
      [] OTHER -> m

Answered(m, n) ==
    CASE n = 0 -> <<[NoEvent EXCEPT !.t = "prov", !.ok = TRUE, !.id = m.id]>>
      [] n \in {SetCmd(v) : v \in Values}
            -> <<[NoEvent EXCEPT !.t = "provwr", !.n = n - 1, !.ok = m.id = Blank]>>
      [] n = Finalize
            -> <<[NoEvent EXCEPT !.t = "provdone",
                    !.ok = m.id = Blank /\ \A v \in Values : m.parts[v] # None]>>
      [] OTHER -> <<>>

Refused(m, n) == <<[Answered(m, n)[1] EXCEPT !.ok = FALSE]>>
Unnamed(m) == <<[Answered(m, 0)[1] EXCEPT !.id = Nameless]>>

\* sendBleCommand resolves: the board has the whole line.
Sent(f) ==
    LET n == flow[f].cmd  m == mfg[link.board] IN
    /\ MyTurn(f) /\ flow[f].valid /\ n # Reboot
    /\ \/ /\ mfg' = [mfg EXCEPT ![link.board] = Executed(m, n, flow[f].dev)]
          /\ inbox' = inbox \o Answered(m, n)
          /\ UNCHANGED faults
       \/ /\ faults < MaxFaults /\ faults' = faults + 1 /\ n = 0 /\ m.id # Blank
          /\ inbox' = inbox \o Unnamed(m)
          /\ UNCHANGED mfg
       \/ /\ faults < MaxFaults /\ faults' = faults + 1 /\ Awaits(n)
          /\ \/ /\ mfg' = [mfg EXCEPT ![link.board] = Executed(m, n, flow[f].dev)]
                /\ UNCHANGED inbox
             \/ /\ n \in Erase + 1 .. Finalize
                /\ inbox' = inbox \o Refused(m, n)
                /\ UNCHANGED mfg
    /\ flow' = [Advanced(flow) EXCEPT ![f].io = IF Awaits(n) THEN "wait" ELSE "none",
                                      ![f].at = IF n = Erase THEN "settling" ELSE @]
    /\ UNCHANGED <<page, wait, link, reported, loose, starts>>

-----------------------------------------------------------------------------
(* How a flow ends *)

\* The flow between two commands.
At(f, stage) == [flow[f] EXCEPT !.at = stage, !.cmd = 0, !.io = "none",
                    !.reply = "none", !.event = NoEvent, !.ahead = 0, !.valid = FALSE,
                    !.misled = FALSE]

Report(s) == reported' = Told(page.device, s)

\* The finally block of autoProvisionConnected; a failed setup over Bluetooth
\* also runs the catch of connectBleShell, which disconnects.
EndAuto(f, fl, w, failed) ==
    LET p == [page EXCEPT !.busy = FALSE, !.auto = FALSE]
        others == [fl EXCEPT ![f] = NoFlow]
    IN  IF failed /\ flow[f].via = "ble" /\ link.via # "serial"
        THEN LinkLost(Unbound(others), p, w)
        ELSE /\ page' = p /\ wait' = w
             /\ flow' = IF failed /\ flow[f].via = "ble" THEN Unbound(others) ELSE others
             /\ UNCHANGED <<link, inbox, reported, loose>>

\* The exception handlers: `w` is the pending wait, if another flow's is left.
Fail(f, fl, w) ==
    CASE flow[f].kind \in {"connect", "verify"} ->
            /\ page' = [page EXCEPT !.busy = FALSE]
            /\ flow' = [fl EXCEPT ![f] = NoFlow]
            /\ wait' = w
            /\ UNCHANGED <<link, inbox, reported, loose>>
      [] flow[f].kind = "auto" /\ flow[f].at = "checking" ->
            /\ flow' = [fl EXCEPT ![f] = At(f, "verifying")]
            /\ wait' = w
            /\ UNCHANGED <<page, link, inbox, reported, loose>>
      [] flow[f].kind = "auto" /\ flow[f].at \in {"status", "retry", "cloud"} ->
            EndAuto(f, fl, w, TRUE)
      [] OTHER ->
            /\ Report("failed")
            /\ flow' = [fl EXCEPT ![f] = [At(f, "closing") EXCEPT !.failed = TRUE]]
            /\ wait' = w
            /\ UNCHANGED <<page, link, inbox, loose>>

\* The write is cut off or refused, before or after the board had the line;
\* clearPendingWait then rejects whatever wait there is.  After a superseded
\* or unanswered wait, only runRealScript does that.
SendFails(f) ==
    /\ MyTurn(f)
    /\ \/ ~flow[f].valid /\ UNCHANGED <<mfg, faults>>
       \/ /\ flow[f].valid /\ faults < MaxFaults /\ faults' = faults + 1
          /\ \E m \in {mfg[link.board], Executed(mfg[link.board], flow[f].cmd, flow[f].dev)} :
                mfg' = [mfg EXCEPT ![link.board] = m]
    /\ Fail(f, Advanced(Cancelled(flow, wait)), NoWait)
    /\ UNCHANGED starts

\* The last await of a flow: its report was answered, or was not.
Closed(f) ==
    /\ Quiet /\ flow[f].at = "closing"
    /\ IF flow[f].kind = "auto" THEN EndAuto(f, flow, wait, flow[f].failed)
       ELSE /\ page' = [page EXCEPT !.busy = FALSE]
            /\ flow' = [flow EXCEPT ![f] = NoFlow]
            /\ UNCHANGED <<wait, link, inbox, reported, loose>>
    /\ UNCHANGED <<mfg, starts, faults>>

-----------------------------------------------------------------------------
(* Attaching a board *)

BleConnecting == \E f \in Flows :
    /\ flow[f].via = "ble"
    /\ flow[f].at = "linking" \/ flow[f].kind = "auto"

Start(f) ==
    /\ Quiet /\ flow[f] = NoFlow
    /\ starts < MaxStarts /\ starts' = starts + 1

\* disconnectBleShell before a new link is made; then discovery takes a while.
Attaching(f, kind, b, via, p) ==
    LinkLost([Unbound(flow) EXCEPT ![f] =
                [NoFlow EXCEPT !.kind = kind, !.at = "linking", !.board = b,
                               !.via = via, !.same = TRUE]], p, wait)

\* connectBleShell from the dashboard or the "connect" button of automatic
\* setup, and connectSerialShell, which does not look at bleConnecting.
StartAttach(f, b, via) ==
    /\ Start(f)
    /\ ~page.busy
    /\ via = "ble" => ~BleConnecting
    /\ Attaching(f, "attach", b, via, page)
    /\ UNCHANGED <<mfg, faults>>

\* handleConnect and handleReconnect.
StartWizardLink(f, b) ==
    /\ Start(f)
    /\ ~page.busy /\ ~BleConnecting /\ "ble" \in Vias
    /\ page.step \in {"connect", "verify"}
    /\ Attaching(f, page.step, b, "ble", [page EXCEPT !.busy = TRUE])
    /\ UNCHANGED <<mfg, faults>>

NobodySettles == \A g \in Flows : flow[g].at # "settling"

\* Discovery succeeds, unless the transport was reset in the meantime.  What
\* was attached from outside the wizard goes on as automatic setup, if no
\* flow has the page.
Linked(f) ==
    /\ Quiet /\ flow[f].at = "linking" /\ flow[f].same /\ ~Up /\ NobodySettles
    /\ link' = [board |-> flow[f].board, via |-> flow[f].via, read |-> FALSE]
    /\ LET fl == [Unbound(flow) EXCEPT ![f] = flow[f]] IN
        IF flow[f].kind = "attach" /\ (page.busy \/ page.auto)
        THEN flow' = [fl EXCEPT ![f] = NoFlow] /\ UNCHANGED <<page, wait>>
        ELSE IF flow[f].kind = "attach"
        THEN AskStatus(f, [fl EXCEPT ![f].kind = "auto"],
                [page EXCEPT !.connected = TRUE, !.busy = TRUE, !.auto = TRUE], "status")
        ELSE AskStatus(f, fl, [page EXCEPT !.connected = TRUE],
                IF flow[f].kind = "auto" THEN "checking" ELSE "status")
    /\ loose' = Loosened(flow', Running(flow) \ {f} # {})
    /\ UNCHANGED <<inbox, mfg, reported, starts, faults>>

\* Discovery fails, or finds the transport reset, and resets it again.
LinkFails(f) ==
    /\ Quiet /\ flow[f].at = "linking"
    /\ IF flow[f].same THEN faults < MaxFaults /\ faults' = faults + 1 ELSE UNCHANGED faults
    /\ flow' = [Unbound(flow) EXCEPT ![f] =
                    IF flow[f].kind = "auto" THEN At(f, "verifying") ELSE NoFlow]
    /\ page' = [page EXCEPT !.busy = @ /\ flow[f].kind \notin {"connect", "verify"}]
    /\ UNCHANGED <<wait, link, inbox, mfg, reported, loose, starts>>

-----------------------------------------------------------------------------
(* The answer to prov status *)

\* "seen && expected": an answer says something about the chosen device only
\* if it names an SMSN and the page has the device's own.
Comparable(id) == id \notin {None, Nameless} /\ page.device \in page.filed
Mismatch(id) == Comparable(id) /\ id \notin {Blank, page.device}

\* Mutant: the comparison is turned round.
HazardMismatch_Turned == Comparable(page.detected) /\ page.detected = page.device

HazardMismatch == Mismatch(page.detected)

\* The board the flow was started for is on the line, on the same port if it
\* is a serial one.
HoldsBoard(f) == /\ link.board = flow[f].board /\ link.via = flow[f].via
                 /\ flow[f].via = "serial" => flow[f].same

Fetching(f) == [At(f, "fetching") EXCEPT !.dev = page.device]

Seen(f) == flow[f].event.id
Detected(f) == [page EXCEPT !.detected = Seen(f)]
ReadHere(f) == link' = [link EXCEPT !.read = f \notin loose]

\* Mutant: any identity is taken for the expected one.
WizardRead_AnyIdentity(f) ==
    /\ flow[f].kind \in {"connect", "verify"}
    /\ ReadHere(f)
    /\ IF flow[f].kind = "connect" \/ Seen(f) = Blank
       THEN /\ page' = [Detected(f) EXCEPT !.busy = FALSE]
            /\ flow' = [flow EXCEPT ![f] = NoFlow]
            /\ UNCHANGED reported
       ELSE /\ page' = Detected(f)
            /\ flow' = [flow EXCEPT ![f] = At(f, "closing")]
            /\ Report("verified")
    /\ UNCHANGED <<wait, inbox, loose>>

\* handleConnect is done; handleReconnect compares with the chosen device.
WizardRead(f) ==
    /\ flow[f].kind \in {"connect", "verify"}
    /\ ReadHere(f)
    /\ IF flow[f].kind = "connect" \/ Seen(f) = Blank
       THEN /\ page' = [Detected(f) EXCEPT !.busy = FALSE]
            /\ flow' = [flow EXCEPT ![f] = NoFlow]
            /\ UNCHANGED reported
       ELSE /\ page' = Detected(f)
            /\ flow' = [flow EXCEPT ![f] = At(f, "closing")]
            /\ Report(IF Mismatch(Seen(f)) THEN "failed" ELSE "verified")
    /\ UNCHANGED <<wait, inbox, loose>>

\* A board that has an identity is left alone.
AutoRead(f) ==
    /\ flow[f].at \in {"status", "retry"} /\ flow[f].kind = "auto"
    /\ ReadHere(f)
    /\ IF Seen(f) = Blank
       THEN page' = Detected(f) /\ flow' = [flow EXCEPT ![f] = At(f, "cloud")]
       ELSE /\ page' = [Detected(f) EXCEPT !.busy = FALSE, !.auto = FALSE]
            /\ flow' = [flow EXCEPT ![f] = NoFlow]
    /\ UNCHANGED <<wait, inbox, reported, loose>>

\* "Recheck the same physical connection immediately before erasing".
Rechecked(f) ==
    /\ flow[f].at = "recheck"
    /\ ReadHere(f)
    /\ IF Seen(f) = Blank
       THEN /\ page' = [Detected(f) EXCEPT !.step = "write", !.rebootSent = FALSE]
            /\ flow' = [flow EXCEPT ![f] = Fetching(f)]
            /\ UNCHANGED reported
       ELSE /\ page' = Detected(f)
            /\ flow' = [flow EXCEPT ![f] = [At(f, "closing") EXCEPT !.failed = TRUE]]
            /\ Report("failed")
    /\ UNCHANGED <<wait, inbox, loose>>

\* One round of the verification; any other answer waits for the next round.
Verified(f) ==
    /\ flow[f].at = "checking"
    /\ ReadHere(f)
    /\ page' = Detected(f)
    /\ IF Comparable(Seen(f)) /\ Seen(f) = page.device
       THEN flow' = [flow EXCEPT ![f] = At(f, "closing")] /\ Report("verified")
       ELSE flow' = [flow EXCEPT ![f] = At(f, "verifying")] /\ UNCHANGED reported
    /\ UNCHANGED <<wait, inbox, loose>>

StatusAnswered(f) ==
    /\ flow[f].io = "wait" /\ flow[f].reply = "got" /\ flow[f].at \in StatusChecks
    /\ WizardRead(f) \/ AutoRead(f) \/ Rechecked(f) \/ Verified(f)
    /\ UNCHANGED <<mfg, starts, faults>>

\* No answer: automatic setup asks a second time, once, on the same board; a
\* board that stays silent keeps its link.
StatusUnanswered(f) ==
    /\ flow[f].io = "wait" /\ flow[f].reply \in {"timeout", "cancelled"}
    /\ flow[f].at \in StatusChecks
    /\ LET silent == flow[f].kind = "auto" /\ flow[f].reply = "timeout" /\ HoldsBoard(f) IN
        IF silent /\ flow[f].at = "status"
        THEN /\ UNCHANGED <<link, inbox, reported, loose>>
             /\ AskStatus(f, flow, page, "retry")
        ELSE IF silent /\ flow[f].at = "retry"
        THEN EndAuto(f, flow, wait, FALSE)
        ELSE Fail(f, flow, wait)
    /\ UNCHANGED <<mfg, starts, faults>>

-----------------------------------------------------------------------------
(* Writing *)

\* What was read tells whether the write replaces another identity.
Readable == page.detected = Blank \/ Comparable(page.detected)

\* Mutant: the Write button does not ask whether a flow runs.
StartWrite_Unguarded(f) ==
    /\ Start(f)
    /\ page.step = "write"
    /\ HazardMismatch => page.confirmed
    /\ page' = [page EXCEPT !.busy = TRUE, !.rebootSent = FALSE]
    /\ flow' = [flow EXCEPT ![f] = [NoFlow EXCEPT !.kind = "write", !.at = "attempting",
                    !.same = link.read /\ Readable /\ ~page.confirmed]]
    /\ loose' = Loosened(flow', FALSE)
    /\ Report("attempted")
    /\ UNCHANGED <<wait, link, inbox, mfg, faults>>

\* startWrite
StartWrite(f) ==
    /\ Start(f)
    /\ page.step = "write" /\ ~page.busy
    /\ HazardMismatch => page.confirmed
    /\ page' = [page EXCEPT !.busy = TRUE, !.rebootSent = FALSE]
    /\ flow' = [flow EXCEPT ![f] = [NoFlow EXCEPT !.kind = "write", !.at = "attempting",
                    !.same = link.read /\ Readable /\ ~page.confirmed]]
    /\ loose' = Loosened(flow', FALSE)
    /\ Report("attempted")
    /\ UNCHANGED <<wait, link, inbox, mfg, faults>>

\* readHardwareKey, POST /api/provisioning/automatic and registerDevice, which
\* files the SMSN of the device's artifacts; then the "attempted" report for the
\* device that was made.
CloudReady(f) ==
    /\ Quiet /\ flow[f].at = "cloud"
    /\ HoldsBoard(f)
    /\ page' = [page EXCEPT !.device = DeviceOf[flow[f].board],
                            !.filed = @ \cup {DeviceOf[flow[f].board]}]
    /\ flow' = [flow EXCEPT ![f] = At(f, "attempting")]
    /\ reported' = Told(page'.device, "attempted")
    /\ UNCHANGED <<wait, link, inbox, mfg, loose, starts, faults>>

CloudFails(f) ==
    /\ Quiet /\ flow[f].at = "cloud"
    /\ IF HoldsBoard(f) THEN faults < MaxFaults /\ faults' = faults + 1 ELSE UNCHANGED faults
    /\ Fail(f, flow, wait)
    /\ UNCHANGED <<mfg, starts>>

Attempted(f) ==
    /\ Quiet /\ flow[f].at = "attempting"
    /\ IF flow[f].kind = "write"
       THEN /\ flow' = [flow EXCEPT ![f] = Fetching(f)]
            /\ UNCHANGED <<page, wait, link, inbox, reported, loose>>
       ELSE IF HoldsBoard(f)
       THEN /\ UNCHANGED <<link, inbox, reported, loose>>
            /\ AskStatus(f, flow, page, "recheck")
       ELSE Fail(f, flow, wait)
    /\ UNCHANGED <<mfg, starts, faults>>

\* The script of the device that was chosen when it was asked for is here.
Fetched(f) ==
    /\ Quiet /\ flow[f].at = "fetching"
    /\ SendNext(f, Erase)
    /\ UNCHANGED <<link, inbox, mfg, reported, loose, starts, faults>>

FetchFails(f) ==
    /\ Quiet /\ flow[f].at = "fetching" /\ faults < MaxFaults
    /\ faults' = faults + 1
    /\ Fail(f, flow, wait)
    /\ UNCHANGED <<mfg, starts>>

\* ERASE_SETTLE_MS is over.
Settled(f) ==
    /\ Quiet /\ flow[f].at = "settling"
    /\ SendNext(f, Erase + 1)
    /\ UNCHANGED <<link, inbox, mfg, reported, loose, starts, faults>>

\* Mutant: a negative answer counts as an answer.
Acknowledged_Any(f) ==
    /\ flow[f].at = "script" /\ flow[f].io = "wait" /\ flow[f].reply = "got"
    /\ SendNext(f, flow[f].cmd + 1)
    /\ UNCHANGED <<link, inbox, mfg, reported, loose, starts, faults>>

\* Mutant: the script ignores that its wait was rejected.
Acknowledged_Swallowed(f) ==
    /\ flow[f].at = "script" /\ flow[f].io = "wait"
    /\ flow[f].reply = "cancelled" \/ (flow[f].reply = "got" /\ flow[f].event.ok)
    /\ SendNext(f, flow[f].cmd + 1)
    /\ UNCHANGED <<link, inbox, mfg, reported, loose, starts, faults>>

\* provwr or provdone with ok: the next command goes out.
Acknowledged(f) ==
    /\ flow[f].at = "script" /\ flow[f].io = "wait" /\ flow[f].reply = "got"
    /\ flow[f].event.ok
    /\ SendNext(f, flow[f].cmd + 1)
    /\ UNCHANGED <<link, inbox, mfg, reported, loose, starts, faults>>

\* Rejected, unanswered or superseded; clearPendingWait hits the next waiter.
ScriptStops(f) ==
    /\ flow[f].at = "script" /\ flow[f].io = "wait"
    /\ \/ flow[f].reply \in {"timeout", "cancelled"}
       \/ flow[f].reply = "got" /\ ~flow[f].event.ok
    /\ Fail(f, Cancelled(flow, wait), NoWait)
    /\ UNCHANGED <<mfg, starts, faults>>

\* "prov reboot" is out: the script is done and the success is reported.
RebootSent(f) ==
    /\ MyTurn(f) /\ flow[f].cmd = Reboot /\ flow[f].valid
    /\ Report("succeeded")
    /\ IF flow[f].kind = "write"
       THEN /\ page' = [page EXCEPT !.detected = None, !.step = "verify"]
            /\ flow' = [Advanced(flow) EXCEPT ![f] = At(f, "closing")]
       ELSE /\ flow' = [Advanced(flow) EXCEPT ![f] = At(f, "succeeding")]
            /\ UNCHANGED page
    /\ UNCHANGED <<wait, link, inbox, mfg, loose, starts, faults>>

-----------------------------------------------------------------------------
(* Automatic verification *)

Succeeded(f) ==
    /\ Quiet /\ flow[f].at = "succeeding"
    /\ page' = [page EXCEPT !.step = "verify"]
    /\ flow' = [flow EXCEPT ![f] = At(f, "rebooting")]
    /\ UNCHANGED <<wait, link, inbox, mfg, reported, loose, starts, faults>>

\* Over Bluetooth the reboot shows as a disconnect; a serial port stays open.
Rebooted(f) ==
    /\ Quiet /\ flow[f].at = "rebooting"
    /\ flow[f].via = "ble" => ~HoldsBoard(f)
    /\ flow' = [flow EXCEPT ![f] = At(f, "verifying")]
    /\ UNCHANGED <<page, wait, link, inbox, mfg, reported, loose, starts, faults>>

\* One round: reconnectBoard, then prov status.
VerifyRound(f) ==
    /\ Quiet /\ flow[f].at = "verifying"
    /\ IF flow[f].via = "ble"
       THEN LinkLost([Unbound(flow) EXCEPT ![f] =
                [flow[f] EXCEPT !.at = "linking", !.same = TRUE]], page, wait)
       ELSE /\ UNCHANGED <<link, inbox, reported, loose>>
            /\ AskStatus(f, flow, [page EXCEPT !.connected = TRUE], "checking")
    /\ UNCHANGED <<mfg, starts, faults>>

\* 45 s have passed.
Deadline(f) ==
    /\ Quiet /\ flow[f].at \in {"rebooting", "verifying"}
    /\ Fail(f, flow, wait)
    /\ UNCHANGED <<mfg, starts, faults>>

-----------------------------------------------------------------------------
(* The wizard's controls *)

Controls == /\ Quiet
            /\ UNCHANGED <<wait, flow, inbox, mfg, reported, loose, starts, faults>>

\* The Next and Back buttons; only the Next of the connect step asks for busy.
Go(to) ==
    /\ Controls
    /\ \/ page.step = "connect" /\ to = "write" /\ ~page.busy /\ page.detected # None
       \/ page.step = "write" /\ to = "connect"
       \/ page.step = "verify" /\ to = "write"
    /\ page' = [page EXCEPT !.step = to]
    /\ UNCHANGED link

\* chooseDevice: from the list, or when the tab is shown again.
ChooseDevice(d) ==
    /\ Controls
    /\ ~page.busy /\ d # page.device
    /\ page' = [page EXCEPT !.device = d, !.detected = None, !.connected = FALSE,
                            !.confirmed = FALSE]
    /\ UNCHANGED link

\* The checkbox of the write step, shown while there is a mismatch.
Confirm ==
    /\ Controls
    /\ page.step = "write" /\ HazardMismatch
    /\ page' = [page EXCEPT !.confirmed = ~@]
    /\ UNCHANGED link

\* restartWizard does not ask whether a flow runs.
Restart ==
    /\ Quiet /\ page.step = "verify"
    /\ page' = [page EXCEPT !.step = "connect", !.detected = None, !.connected = FALSE,
                            !.confirmed = FALSE, !.rebootSent = FALSE]
    /\ IF page.connected
       THEN link' = NoLink /\ inbox' = <<>> /\ flow' = Unbound(flow)
       ELSE UNCHANGED <<link, inbox, flow>>
    /\ UNCHANGED <<wait, mfg, reported, loose, starts, faults>>

-----------------------------------------------------------------------------
FlowStep(f) ==
    \/ Sent(f) \/ SendFails(f) \/ Timeout(f) \/ Closed(f)
    \/ Linked(f) \/ LinkFails(f) \/ StatusAnswered(f) \/ StatusUnanswered(f)
    \/ CloudReady(f) \/ CloudFails(f) \/ Attempted(f)
    \/ Fetched(f) \/ FetchFails(f) \/ Settled(f) \/ Acknowledged(f) \/ ScriptStops(f)
    \/ RebootSent(f) \/ Succeeded(f) \/ Rebooted(f) \/ VerifyRound(f) \/ Deadline(f)

UserStep ==
    \/ UserDisconnect \/ Confirm \/ Restart
    \/ \E to \in {"connect", "write"} : Go(to)
    \/ \E d \in Devices : ChooseDevice(d)
    \/ \E f \in Flows : StartWrite(f)
    \/ \E f \in Flows, b \in Boards :
        StartWizardLink(f, b) \/ \E via \in Vias : StartAttach(f, b, via)

Next == (\E f \in Flows : FlowStep(f)) \/ UserStep \/ Drop \/ Deliver

Spec == Init /\ [][Next]_vars

-----------------------------------------------------------------------------
(* What must hold.  A loose flow lost the page to others: the safety of      *)
(* what it reports and writes is not what `busy` provides.                   *)

\* provisioning.js:76-78 "Only one wait is ever outstanding": two scripts that
\* run on one board reject each other's waits before either is finalized, so
\* a board that is given an identity holds the values of that device only,
\* unless the script went by answers to other lines than its own.
WholeIdentity ==
    [][\A f \in Flows : \A b \in Boards :
        /\ MyTurn(f) /\ ~flow[f].misled
        /\ mfg[b].id = Blank /\ mfg'[b].id # Blank
        => \A v \in Values : mfg'[b].parts[v] = mfg'[b].id]_vars

\* `busy` and `automaticRunning`: a flow starts beside another only when that
\* one has lost the page.  The page is never left busy without a flow, and
\* what a flow awaits is the wait that a timer or an answer settles.
PageIsOwned ==
    /\ page.busy => Running(flow) # {}
    /\ page.auto <=> \E f \in Flows : flow[f].kind = "auto"
    /\ \A f \in Flows : flow[f].reply = "pending" <=> wait.flow = f

FlowsStartAlone ==
    [][\A f \in Running(flow') \ Running(flow) : Running(flow) \subseteq loose]_vars

\* startWrite, autoProvisionConnected: when "succeeded" is about to be
\* reported, the board on the line holds the device it is reported for, if the
\* script was acknowledged line by line.
SuccessIsEarned ==
    \A f \in Flows \ loose :
        flow[f].at = "script" /\ flow[f].cmd = Reboot /\ flow[f].valid /\ ~flow[f].misled
        => /\ mfg[link.board].id = flow[f].dev
           /\ page.device = flow[f].dev

\* provisioning.js:523 "Do not treat this as verified": "verified" is reported
\* only for the device whose identity the connected board holds.  Automatic
\* setup asks for both SMSNs; the wizard takes any provisioned board for the
\* chosen device when one of them is missing.
VerifiedIsTrue ==
    [][\A f \in Flows \ loose :
        /\ flow[f].at \in {"status", "checking"} /\ flow'[f].at = "closing"
        /\ reported' = Told(page.device, "verified")
        => \/ mfg[link.board].id = page.device
           \/ flow[f].kind = "verify" /\ ~Comparable(Seen(f))]_vars

\* "prov erase" of f is on its way to the board on the line.
Erasing(f) == flow[f].at = "script" /\ flow[f].cmd = Erase /\ flow[f].valid

\* renderWriteStep's checkbox: a board that was read on the connection it is
\* written on loses another device's identity only if the box was ticked when
\* the write was started, or if an SMSN was missing and the page could not ask.
\* README.md:226 "A provisioned board is left intact": automatic setup, while it
\* has the page to itself, erases blank boards only.
ErasesOnlyAsAgreed ==
    \A f \in Flows \ loose : Erasing(f) =>
        /\ flow[f].kind = "write" /\ flow[f].same => mfg[link.board].id \in {Blank, flow[f].dev}
        /\ flow[f].kind = "auto" => mfg[link.board].id = Blank

\* provisioning.js:301-302 "immediately before erasing; never replace an
\* existing identity", whoever has the page.
AutoNeverReplaces ==
    \A f \in Flows :
        Erasing(f) /\ flow[f].kind = "auto" => mfg[link.board].id = Blank

\* provisioning.js:477 "finalize did not complete, so the device still
\* reports itself unprovisioned", said whenever a write flow fails.
FailedMeansUnprovisioned ==
    \A f \in Flows :
        flow[f].kind = "write" /\ flow[f].at = "closing" /\ flow[f].failed
        => \A b \in Boards : mfg[b].id # flow[f].dev
=============================================================================
