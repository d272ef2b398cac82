---------------------------- MODULE SensorCharts ----------------------------
(***************************************************************************)
(* The sensor charts of the dashboard: applySensorRange and the device     *)
(* selector (static/app.js), the charts they fill (static/sensors.js), the *)
(* history that GET /api/sensor-history reads and the event stream.        *)
(*                                                                         *)
(* A reading reaches the charts by two ways that nothing orders: a history *)
(* answer, which replaces what is drawn, and the stream.  A new device is  *)
(* fetched first and the stream moves to it afterwards, with its cursor    *)
(* reset; a new range is only fetched.  No answer is checked against the   *)
(* choice that stands when it arrives.                                     *)
(*                                                                         *)
(* Abstractions.  A reading is its event number, which is also its time;   *)
(* the five ranges are one that covers everything.  Other events, full     *)
(* queues and restarts of the server are EventBroker's.  The decimation of *)
(* long histories and the 720 points of a chart lie beyond the bounds.     *)
(***************************************************************************)
EXTENDS Integers, Sequences, SequencesExt, Listing

CONSTANTS
    Sensors,      \* the devices of the account, as sensors
    Backlog,      \* EVENT_BACKLOG_SIZE
    MaxUplinks,   \* bound: readings in a behaviour
    MaxChoices,   \* bound: devices and ranges chosen
    MaxOutages    \* bound: history requests that fail and streams that break

ASSUME ChartParameters == {Backlog, MaxUplinks, MaxChoices, MaxOutages} \subseteq Nat

VARIABLES
    uplinks,   \* the broker's events: uplinks[i] is the device of reading i
    saved,     \* how many of them the database holds
    pub,       \* the publish() under way, and whether this page's queue is among its listeners
    selected,  \* currentDevice()
    range,     \* sensorRangeSelect: "live" or "history"
    loads,     \* history requests under way, oldest first
    chart,     \* the readings drawn
    stream,    \* the EventSource: its state, device, since and what it will deliver
    cursor,    \* eventLastId
    choices,   \* bounds
    outages,
    crossed,   \* history: something was chosen while a history request was under way
    gone       \* history: readings the charts lost for a named reason

chartVars == <<uplinks, saved, pub, selected, range, loads, chart, stream, cursor, choices,
               outages, crossed, gone>>
source == <<uplinks, saved>>
choice == <<selected, range, choices>>

Unread == -1
Published == [at |-> "idle", heard |-> FALSE]
Of(d, I) == {i \in I : uplinks[i] = d}
Connecting(d, since) == [at |-> "connecting", device |-> d, since |-> since, queue |-> <<>>]

ChartsInit ==
    /\ uplinks = <<>> /\ saved = 0 /\ pub = Published
    /\ selected \in Sensors /\ range = "live"
    /\ loads = <<>> /\ chart = {}
    /\ stream = Connecting(selected, 0) /\ cursor = 0
    /\ choices = 0 /\ outages = 0 /\ crossed = FALSE /\ gone = {}

(* ------------------------------ the server ----------------------------- *)

\* publish(): the event is numbered and the listeners are taken, the hook stores
\* the reading, the queues are filled.
NumberUplink(d) ==
    /\ pub.at = "idle" /\ Len(uplinks) < MaxUplinks
    /\ uplinks' = Append(uplinks, d)
    /\ pub' = [at |-> "numbered", heard |-> stream.at = "open"]
    /\ UNCHANGED <<saved, choice, loads, chart, stream, cursor, outages, crossed, gone>>

SaveReading ==
    /\ pub.at = "numbered"
    /\ saved' = Len(uplinks) /\ pub' = [pub EXCEPT !.at = "saved"]
    /\ UNCHANGED <<uplinks, choice, loads, chart, stream, cursor, outages, crossed, gone>>

PutUplink ==
    /\ pub.at = "saved" /\ pub' = Published
    /\ stream' = IF pub.heard /\ Last(uplinks) = stream.device
                 THEN [stream EXCEPT !.queue = Append(@, Len(uplinks))] ELSE stream
    /\ UNCHANGED <<source, choice, loads, chart, cursor, outages, crossed, gone>>

\* The server registers the stream and replays what is left after its cursor.
OpenCharts ==
    LET trimmed == Len(uplinks) - Backlog
        Visible(I) == Of(stream.device, I \cap (stream.since + 1 .. Len(uplinks)))
    IN  /\ stream.at = "connecting"
        /\ stream' = [stream EXCEPT !.at = "open",
                                  !.queue = InOrder(Visible(trimmed + 1 .. Len(uplinks)))]
        /\ gone' = gone \cup (Visible(1 .. trimmed) \ chart)
        /\ UNCHANGED <<source, pub, choice, loads, chart, cursor, outages, crossed>>

BreakCharts ==
    /\ stream.at # "down" /\ outages < MaxOutages
    /\ outages' = outages + 1
    /\ stream' = [stream EXCEPT !.at = "down", !.queue = <<>>]
    /\ pub' = [pub EXCEPT !.heard = FALSE]
    /\ UNCHANGED <<source, choice, loads, chart, cursor, crossed, gone>>

(* ------------------------------- the page ------------------------------ *)

DeliverUplink ==
    /\ stream.at = "open" /\ stream.queue # <<>>
    /\ chart' = chart \cup {Head(stream.queue)}
    /\ cursor' = IF Head(stream.queue) > cursor THEN Head(stream.queue) ELSE cursor
    /\ stream' = [stream EXCEPT !.queue = Tail(@)]
    /\ UNCHANGED <<source, pub, choice, loads, outages, crossed, gone>>

\* connectEventStream({resetCursor: true}): a new EventSource for the device that
\* is selected now.
MoveStream(d) ==
    /\ stream' = Connecting(d, 0) /\ cursor' = 0
    /\ pub' = [pub EXCEPT !.heard = FALSE]
KeepStream == UNCHANGED <<stream, cursor, pub>>

\* The timer of onerror.
ReconnectCharts ==
    /\ stream.at = "down"
    /\ stream' = Connecting(selected, cursor)
    /\ UNCHANGED <<source, pub, choice, loads, chart, cursor, outages, crossed, gone>>

\* applySensorRange up to its first await.
Apply(d, r, moves) ==
    /\ IF r = "live" THEN chart' = {} /\ UNCHANGED loads
       ELSE /\ loads' = Append(loads, [device |-> d, moves |-> moves, read |-> Unread])
            /\ UNCHANGED chart
    /\ crossed' = (loads # <<>>)
    /\ choices < MaxChoices /\ choices' = choices + 1

ChooseRange(r) ==
    /\ r # range /\ range' = r
    /\ Apply(selected, r, FALSE)
    /\ KeepStream
    /\ UNCHANGED <<source, selected, outages, gone>>

ChooseDevice(d) ==
    /\ d # selected /\ selected' = d
    /\ Apply(d, range, TRUE)
    /\ IF range = "live" THEN MoveStream(d) ELSE KeepStream
    /\ UNCHANGED <<source, range, outages, gone>>

ReadHistory(k) ==
    /\ loads[k].read = Unread
    /\ loads' = [loads EXCEPT ![k].read = saved]
    /\ UNCHANGED <<source, pub, choice, chart, stream, cursor, outages, crossed, gone>>

\* Mutant: the answer is added to what is drawn.
LoadHistory_Appends(readings) == chart' = chart \cup readings
\* loadHistory: reset, then every reading of the answer.
LoadHistory(readings) == chart' = readings

AnswerHistory(k) ==
    LET load == loads[k]
    IN  /\ load.read # Unread
        /\ LoadHistory(Of(load.device, 1 .. load.read))
        /\ loads' = RemoveAt(loads, k)
        /\ IF load.moves THEN MoveStream(selected) /\ gone' = {}
           ELSE KeepStream /\ gone' = {i \in (1 .. cursor) \cup gone : i > load.read}
        /\ UNCHANGED <<source, choice, outages, crossed>>

FailHistory(k) ==
    /\ outages < MaxOutages /\ outages' = outages + 1
    /\ chart' = {}
    /\ loads' = RemoveAt(loads, k)
    /\ IF loads[k].moves THEN MoveStream(selected) ELSE KeepStream
    /\ gone' = DOMAIN uplinks
    /\ UNCHANGED <<source, choice, crossed>>

ChartsNext ==
    \/ \E d \in Sensors : NumberUplink(d) \/ ChooseDevice(d)
    \/ SaveReading \/ PutUplink \/ OpenCharts \/ BreakCharts
    \/ DeliverUplink \/ ReconnectCharts
    \/ \E r \in {"live", "history"} : ChooseRange(r)
    \/ \E k \in DOMAIN loads : ReadHistory(k) \/ AnswerHistory(k) \/ FailHistory(k)

(* ------------------------------ properties ----------------------------- *)

ChartsTypeOK ==
    /\ uplinks \in Seq(Sensors) /\ saved \in 0 .. Len(uplinks)
    /\ pub \in [at : {"idle", "numbered", "saved"}, heard : BOOLEAN]
    /\ selected \in Sensors /\ range \in {"live", "history"}
    /\ chart \cup gone \subseteq DOMAIN uplinks /\ cursor \in 0 .. Len(uplinks)
    /\ \A k \in DOMAIN loads : loads[k] \in [device : Sensors, moves : BOOLEAN, read : Unread .. saved]
    /\ stream \in [at : {"connecting", "open", "down"}, device : Sensors,
                   since : 0 .. Len(uplinks), queue : Seq(DOMAIN uplinks)]

ChartsQuiet == loads = <<>> /\ pub.at = "idle" /\ stream.at = "open" /\ stream.queue = <<>>

\* When nothing is on its way the charts draw the selected device and nothing
\* else, whatever arrived during the change, unless two choices crossed; under a
\* range they miss no stored reading of it, but for those that a stream opened
\* too late to replay, that the stream delivered before an answer that lacks them, or that a failed request wiped.
ChartIsTrue ==
    ChartsQuiet /\ ~crossed =>
        /\ \A i \in chart : uplinks[i] = selected
        /\ range = "history" => Of(selected, 1 .. saved) \subseteq chart \cup gone
=============================================================================
