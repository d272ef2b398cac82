--------------------------- MODULE MemfaultPanel ----------------------------
(***************************************************************************)
(* The two panels that read /api/devices/<id>/memfault-health: the health  *)
(* tab (static/health.js) and the analytics on the monitor tab             *)
(* (static/memfault_analytics.js).  They share syncDevice, startPolling,   *)
(* stopPolling and fetchHealth, line for line but for what they draw.      *)
(*                                                                         *)
(* A panel takes the selected device over when its tab is activated, and   *)
(* only then.  An answer is drawn whichever device it was asked for.  The  *)
(* poll timer is set by the first answer of an activation, if there is     *)
(* health of some device by then.                                          *)
(*                                                                         *)
(* Abstractions.  What an answer says of a device is the device.  The      *)
(* counters, the battery chart, the chunk table and the demo are left out. *)
(***************************************************************************)
EXTENDS Integers

CONSTANTS
    Devices,       \* the devices of the account
    MaxCalls,      \* bound: requests of one kind under way
    MaxMoves,      \* bound: tabs activated and devices selected
    MaxFailures    \* bound: requests that fail

ASSUME PanelParameters == MaxCalls \in Nat \ {0} /\ {MaxMoves, MaxFailures} \subseteq Nat

VARIABLES
    kind,      \* which panel: "health" or "analytics"
    ready,     \* the server has credentials to read Memfault
    picked,    \* currentDevice()
    panel,     \* deviceId, lastHealth, what is drawn, active, pollTimer, quickRefreshTimer
    calls,     \* requests under way: calls[d][first] for device d, by startPolling or not
    moves,     \* bounds
    failures,
    unpolled   \* history: the first request of this activation failed

panelVars == <<kind, ready, picked, panel, calls, moves, failures, unpolled>>
setting == <<kind, ready, picked>>
Nothing == "nothing"

ASSUME NothingIsNoDevice == Nothing \notin Devices

PanelInit ==
    /\ kind \in {"health", "analytics"} /\ ready \in BOOLEAN
    /\ picked \in Devices
    /\ panel = [device |-> Nothing, health |-> Nothing, view |-> Nothing,
                active |-> FALSE, timer |-> FALSE, quick |-> FALSE]
    /\ calls = [d \in Devices |-> [first \in BOOLEAN |-> 0]]
    /\ moves = 0 /\ failures = 0 /\ unpolled = FALSE

PickDevice(d) ==
    /\ d # picked /\ picked' = d
    /\ moves < MaxMoves /\ moves' = moves + 1
    /\ UNCHANGED <<kind, ready, panel, calls, failures, unpolled>>

\* syncDevice: another device's panel starts afresh; the health tab keeps drawing
\* the old device's tiles until an answer.
Synced ==
    IF picked = panel.device THEN panel
    ELSE [panel EXCEPT !.device = picked, !.health = Nothing, !.timer = FALSE,
                       !.view = IF kind = "analytics" THEN Nothing ELSE @]

Fetch(d, first) ==
    /\ calls[d][first] < MaxCalls
    /\ calls' = [calls EXCEPT ![d][first] = @ + 1]

ActivateTab ==
    /\ moves < MaxMoves /\ moves' = moves + 1
    /\ panel' = [Synced EXCEPT !.active = TRUE]
    /\ Fetch(picked, TRUE)
    /\ unpolled' = FALSE
    /\ UNCHANGED <<setting, failures>>

\* Mutant: the timer is not cleared.
LeaveTab_KeepsTimer ==
    /\ moves < MaxMoves /\ moves' = moves + 1
    /\ panel' = [panel EXCEPT !.active = FALSE, !.quick = FALSE]
    /\ UNCHANGED <<setting, calls, failures, unpolled>>
LeaveTab ==
    /\ moves < MaxMoves /\ moves' = moves + 1
    /\ panel' = [panel EXCEPT !.active = FALSE, !.timer = FALSE, !.quick = FALSE]
    /\ UNCHANGED <<setting, calls, failures, unpolled>>

Poll ==
    /\ panel.timer /\ Fetch(panel.device, FALSE)
    /\ UNCHANGED <<setting, panel, moves, failures, unpolled>>

\* An event of the stream asks the analytics for an early refresh.
Nudge ==
    /\ kind = "analytics" /\ panel.active /\ ~panel.quick
    /\ panel' = [panel EXCEPT !.quick = TRUE]
    /\ UNCHANGED <<setting, calls, moves, failures, unpolled>>

QuickRefresh ==
    /\ panel.quick /\ Fetch(panel.device, FALSE)
    /\ panel' = [panel EXCEPT !.quick = FALSE]
    /\ UNCHANGED <<setting, moves, failures, unpolled>>

Ended(d, first) ==
    /\ calls[d][first] > 0
    /\ calls' = [calls EXCEPT ![d][first] = @ - 1]

\* Mutant: the timer is set only when the health is new.
Finally_FirstOnly(p, first) ==
    [p EXCEPT !.timer = @ \/ (first /\ p.active /\ ready /\ p.health # Nothing /\ panel.health = Nothing)]
\* The finally of startPolling's request.
Finally(p, first) ==
    [p EXCEPT !.timer = @ \/ (first /\ p.active /\ ready /\ p.health # Nothing)]

AnswerHealth(d, first) ==
    /\ Ended(d, first)
    /\ panel' = Finally([panel EXCEPT !.health = d, !.view = IF ready THEN d ELSE "not configured"], first)
    /\ UNCHANGED <<setting, moves, failures, unpolled>>

FailHealth(d, first) ==
    /\ Ended(d, first)
    /\ failures < MaxFailures /\ failures' = failures + 1
    /\ panel' = Finally([panel EXCEPT !.view = "error"], first)
    /\ unpolled' = (unpolled \/ (first /\ d = panel.device))
    /\ UNCHANGED <<setting, moves>>

PanelNext ==
    \/ ActivateTab \/ LeaveTab \/ Poll \/ Nudge \/ QuickRefresh
    \/ \E d \in Devices : PickDevice(d)
    \/ \E d \in Devices, first \in BOOLEAN : AnswerHealth(d, first) \/ FailHealth(d, first)

\* A request ends, with an answer or not, and the interval fires.
PanelFairness ==
    /\ WF_panelVars(Poll)
    /\ \A d \in Devices, first \in BOOLEAN :
          WF_panelVars(AnswerHealth(d, first) \/ FailHealth(d, first))

(* ------------------------------ properties ----------------------------- *)

PanelTypeOK ==
    /\ kind \in {"health", "analytics"} /\ ready \in BOOLEAN /\ picked \in Devices
    /\ panel \in [device : Devices \cup {Nothing}, health : Devices \cup {Nothing},
                  view : Devices \cup {Nothing, "error", "not configured"},
                  active : BOOLEAN, timer : BOOLEAN, quick : BOOLEAN]
    /\ \A d \in Devices, first \in BOOLEAN : calls[d][first] \in 0 .. MaxCalls
    /\ panel.timer => panel.active /\ ready /\ panel.health # Nothing

\* A panel that stays on the screen ends up with its own device, however many
\* answers for another one come late: either it polls, or the first request of
\* this activation failed, which stops the polling before it began.
PanelCatchesUp ==
    <>[](panel.active /\ ready /\ ~unpolled => panel.view = panel.device /\ panel.health = panel.device)
=============================================================================
