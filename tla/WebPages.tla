------------------------------ MODULE WebPages ------------------------------
(***************************************************************************)
(* The parts of the console and of the administrator's page that show or   *)
(* report what the devices say: the sensor charts, a Memfault panel, the   *)
(* administrator's message feed and the upload of BLE shell output.        *)
(*                                                                         *)
(* Every part draws on the server and on its own state only; they share    *)
(* neither variables nor locks, so their interleaving adds nothing.  A     *)
(* behaviour is therefore one of one part, chosen at first, and the others *)
(* stay as they began.                                                     *)
(***************************************************************************)
EXTENDS SensorCharts, MemfaultPanel, AdminFeed, BleLogUploader

VARIABLE part   \* the part this behaviour is about

vars == <<part, chartVars, panelVars, feedVars, logVars>>

Init ==
    /\ part \in {"charts", "panel", "feed", "log"}
    /\ ChartsInit /\ PanelInit /\ FeedInit /\ LogInit
    /\ part # "charts" => selected = CHOOSE d \in Sensors : TRUE
    /\ part # "panel" => kind = "health" /\ ~ready /\ picked = CHOOSE d \in Devices : TRUE

Next ==
    /\ UNCHANGED part
    /\ \/ part = "charts" /\ ChartsNext /\ UNCHANGED <<panelVars, feedVars, logVars>>
       \/ part = "panel" /\ PanelNext /\ UNCHANGED <<chartVars, feedVars, logVars>>
       \/ part = "feed" /\ FeedNext /\ UNCHANGED <<chartVars, panelVars, logVars>>
       \/ part = "log" /\ LogNext /\ UNCHANGED <<chartVars, panelVars, feedVars>>

Spec == Init /\ [][Next]_vars /\ PanelFairness

\* Every part keeps its types and bounds; a panel's timer runs only while it is on
\* the screen and has health to refresh, and the rows of the feed's table are
\* among those it remembers as drawn.
TypeOK == ChartsTypeOK /\ PanelTypeOK /\ FeedTypeOK /\ LogTypeOK
=============================================================================
